------------------------ MODULE ComponentLookup_proofs ------------------------
(***************************************************************************)
(* Theorems about ComponentLookup for any components, arrays, caps and     *)
(* queries: as long as the array is not replaced, a query returns only     *)
(* components the GameObject has had since the query began, and one during *)
(* which nothing changes is exact.  Then, about TransformTree: the path of *)
(* a position and the bones are of the target, whatever it moves.          *)
(***************************************************************************)
EXTENDS MCComponentLookup, Integers, FiniteSetTheorems, SequenceTheorems, WellFoundedInduction, TLAPS

Words == Components \cup {None}

\* The array of the GameObject.
PoolOK ==
  /\ slots = [p \in Pools |-> slots[p]]
  /\ \A p \in Pools : slots[p] \in [1..PoolSize[p] -> Words]
  /\ pool \in Pools \cup {None}
  /\ count \in Nat
  /\ pool = None => count = 0
  /\ pool # None => count <= PoolSize[pool]
  /\ gap \in 0..count

\* The call goes through the array it has found.
Scanning == pc \in {"slot", "native", "class"}

CallOK ==
  /\ pc \in Pcs
  /\ i \in Nat \ {0} /\ rCount \in Nat
  /\ Scanning => i <= rCount
  /\ pc \in {"idle", "pool", "count"} => i = 1
  /\ pc = "count" \/ Scanning => rPool \in Pools
  /\ cur \in Words
  /\ pc = "idle" => cur = None /\ found = <<>> /\ ~ start
  /\ start /\ (pc = "count" \/ Scanning) => rPool = pool
  /\ found \in Seq(Words)

AttachedSeen == pc # "idle" => Attached \subseteq seen

Known == seen \cup {None}

\* What the call will look at, and what it has taken, it has had since then.
LooksKnown ==
  start /\ Scanning =>
    \A k \in 1..PoolSize[pool] : k <= rCount => slots[pool][k] \in Known

TakenKnown ==
  start => cur \in Known /\ \A k \in 1..Len(found) : found[k] \in Known

IInv == PoolOK /\ CallOK /\ AttachedSeen /\ LooksKnown /\ TakenKnown

(***************************************************************************)
(* The array.                                                              *)
(***************************************************************************)
LEMMA PoolInitOK == Init => PoolOK
  BY PoolAssumption DEF Init, PoolInit, PoolOK, Words

LEMMA PoolSet ==
  ASSUME PoolOK, NEW p \in Pools, NEW new \in [1..PoolSize[p] -> Words],
         slots' = [slots EXCEPT ![p] = new],
         pool' \in Pools, count' \in Nat, count' <= PoolSize[pool'], gap' \in 0..count'
  PROVE  PoolOK'
  BY PoolAssumption DEF PoolOK

LEMMA PoolStepOK == ASSUME PoolOK, PoolStep PROVE PoolOK'
  <1>1. CASE NewPool
    BY <1>1, PoolAssumption DEF NewPool, PoolOK
  <1>2. CASE \E c \in Components : AddComponent(c)
    <2>1. PICK c \in Components : AddComponent(c)
      BY <1>2
    <2>2. pool \in Pools /\ slots[pool] \in [1..PoolSize[pool] -> Words]
      BY <2>1 DEF AddComponent, PoolOK
    <2>3. [slots[pool] EXCEPT ![count + 1] = c] \in [1..PoolSize[pool] -> Words]
      BY <2>2 DEF Words
    <2>4. slots' = [slots EXCEPT ![pool] = [slots[pool] EXCEPT ![count + 1] = c]]
      BY <2>1 DEF AddComponent
    <2>5. count' \in Nat /\ count' <= PoolSize[pool] /\ gap' \in 0..count' /\ pool' = pool
      BY <2>1, <2>2, PoolAssumption DEF AddComponent, PoolOK
    <2>6. QED
      BY <2>2, <2>3, <2>4, <2>5, PoolSet
  <1>3. CASE RemoveComponent
    BY <1>3 DEF RemoveComponent, PoolOK
  <1>4. CASE FinishRemoval /\ gap < count
    <2>1. pool \in Pools /\ slots[pool] \in [1..PoolSize[pool] -> Words]
      BY <1>4 DEF PoolOK
    <2>2. gap + 1 \in 1..PoolSize[pool] /\ gap + 1 \in 0..count
      BY <1>4, <2>1, PoolAssumption DEF PoolOK
    <2>3. [slots[pool] EXCEPT ![gap] = slots[pool][gap + 1]] \in [1..PoolSize[pool] -> Words]
      BY <2>1, <2>2
    <2>4. slots' = [slots EXCEPT ![pool] = [slots[pool] EXCEPT ![gap] = slots[pool][gap + 1]]]
      BY <1>4 DEF FinishRemoval
    <2>5. count' = count /\ gap' = gap + 1 /\ pool' = pool
      BY <1>4 DEF FinishRemoval
    <2>6. QED
      BY <2>1, <2>2, <2>3, <2>4, <2>5, PoolSet DEF PoolOK
  <1>5. CASE FinishRemoval /\ ~ (gap < count)
    <2>1. gap \in Nat /\ gap # 0 /\ gap = count
      BY <1>5 DEF FinishRemoval, PoolOK
    <2>2. count' = count - 1 /\ gap' = 0 /\ slots' = slots /\ pool' = pool
      BY <1>5 DEF FinishRemoval
    <2>3. QED
      BY <2>1, <2>2, PoolAssumption DEF PoolOK
  <1>6. CASE \E p \in Pools : MovePool(p)
    <2>1. PICK p \in Pools : MovePool(p)
      BY <1>6
    <2>2. pool \in Pools /\ count \in Nat /\ count <= PoolSize[pool] /\ count <= PoolSize[p]
      BY <2>1, PoolAssumption DEF MovePool, PoolOK
    <2>3. [j \in 1..PoolSize[p] |-> IF j <= count THEN slots[pool][j] ELSE slots[p][j]]
            \in [1..PoolSize[p] -> Words]
      BY <2>2, PoolAssumption DEF PoolOK
    <2>4. QED
      BY <2>1, <2>2, <2>3, PoolSet DEF MovePool, PoolOK
  <1>7. CASE \E p \in Pools : FreePool(p)
    BY <1>7 DEF FreePool, PoolOK
  <1>8. QED
    BY <1>1, <1>2, <1>3, <1>4, <1>5, <1>6, <1>7 DEF PoolStep

\* A slot of the GameObject's array changes only to what the GameObject has.
LEMMA SlotChange ==
  ASSUME PoolOK, PoolStep, pool' = pool, pool # None, NEW k \in 1..PoolSize[pool]
  PROVE  slots'[pool][k] \in {slots[pool][k], None} \cup Attached'
  <1>1. pool \in Pools /\ slots[pool] \in [1..PoolSize[pool] -> Words]
    BY DEF PoolOK
  <1>2. CASE \E c \in Components : AddComponent(c)
    <2>1. PICK c \in Components : AddComponent(c)
      BY <1>2
    <2>2. CASE k = count + 1
      <3>1. slots'[pool][k] = c
        BY <1>1, <2>1, <2>2 DEF AddComponent, PoolOK
      <3>2. k \in 1..count'
        BY <2>1, <2>2 DEF AddComponent, PoolOK
      <3>3. QED
        BY <3>1, <3>2 DEF Attached
    <2>3. CASE k # count + 1
      BY <1>1, <2>1, <2>3 DEF AddComponent, PoolOK
    <2>4. QED
      BY <2>2, <2>3
  <1>3. CASE FinishRemoval /\ gap < count /\ k = gap
    <2>1. gap + 1 \in 1..PoolSize[pool] /\ gap + 1 \in 1..count'
      BY <1>1, <1>3, PoolAssumption DEF FinishRemoval, PoolOK
    <2>2. slots' = [slots EXCEPT ![pool][gap] = slots[pool][gap + 1]]
      BY <1>3 DEF FinishRemoval
    <2>3. slots'[pool][k] = slots[pool][gap + 1] /\ slots'[pool][gap + 1] = slots[pool][gap + 1]
      BY <1>1, <1>3, <2>1, <2>2 DEF PoolOK
    <2>4. slots[pool][gap + 1] \in Words
      BY <1>1, <2>1
    <2>5. QED
      BY <2>1, <2>3, <2>4 DEF Attached, Words
  <1>4. CASE FinishRemoval /\ ~ (gap < count /\ k = gap)
    BY <1>1, <1>4 DEF FinishRemoval, PoolOK
  <1>5. CASE NewPool \/ RemoveComponent \/ \E p \in Pools : MovePool(p) \/ FreePool(p)
    BY <1>5 DEF NewPool, RemoveComponent, MovePool, FreePool
  <1>6. QED
    BY <1>2, <1>3, <1>4, <1>5 DEF PoolStep

(***************************************************************************)
(* The call.                                                               *)
(***************************************************************************)
\* A slot whose number is at most the count is known.
LEMMA AttachedKnown ==
  ASSUME PoolOK, AttachedSeen, pc # "idle", pool # None, NEW k \in 1..count
  PROVE  slots[pool][k] \in Known
  <1>1. pool \in Pools /\ k \in 1..PoolSize[pool]
    BY PoolAssumption DEF PoolOK
  <1>2. slots[pool][k] \in Words
    BY <1>1 DEF PoolOK
  <1>3. QED
    BY <1>2 DEF Attached, AttachedSeen, Known, Words

LEMMA ReadsKeep == Reads => UNCHANGED <<slots, pool, count, gap, freed, query, seen, start>>
  BY DEF Reads, poolVars, history

LEMMA InitIInv == Init => IInv
  <1> SUFFICES ASSUME Init PROVE IInv
    OBVIOUS
  <1>1. pc = "idle" /\ i = 1 /\ rCount = 0 /\ cur = None /\ found = <<>> /\ start = FALSE
    BY DEF Init, NoCall
  <1>2. QED
    BY <1>1, PoolInitOK
       DEF IInv, CallOK, Pcs, Scanning, AttachedSeen, LooksKnown, TakenKnown, Words

\* What a read of a slot gives.
LEMMA SlotWordFacts ==
  ASSUME PoolOK, CallOK, LooksKnown, Scanning
  PROVE  SlotWord \in Words /\ (start => SlotWord \in Known)
  <1>1. rPool \in Pools /\ slots[rPool] \in [1..PoolSize[rPool] -> Words]
        /\ i \in Nat \ {0} /\ i <= rCount /\ PoolSize[rPool] \in Nat
    BY PoolAssumption DEF PoolOK, CallOK
  <1>2. CASE i <= PoolSize[rPool]
    <2>1. i \in 1..PoolSize[rPool] /\ SlotWord = slots[rPool][i]
      BY <1>1, <1>2 DEF SlotWord
    <2>2. SlotWord \in Words
      BY <1>1, <2>1
    <2>3. start => rPool = pool
      BY DEF CallOK
    <2>4. QED
      BY <1>1, <2>1, <2>2, <2>3 DEF LooksKnown
  <1>3. CASE ~ (i <= PoolSize[rPool])
    BY <1>3 DEF SlotWord, Words, Known
  <1>4. QED
    BY <1>2, <1>3

\* A step from slot to slot, which may take the word it has read.
LEMMA TakeOK ==
  ASSUME CallOK, LooksKnown, TakenKnown, Scanning,
         UNCHANGED <<slots, pool, seen, start, rPool, rCount>>,
         NEW w \in Words, start => w \in Known,
         cur' \in {None, w} \cup {cur}, found' \in {found, <<w>>, Append(found, w)},
         \/ i' = i /\ pc' \in {"slot", "native", "class", "done"}
         \/ i' = i + 1 /\ pc' = IF i + 1 > rCount THEN "done" ELSE "slot"
  PROVE  CallOK' /\ LooksKnown' /\ TakenKnown'
  <1>1. i \in Nat \ {0} /\ rCount \in Nat /\ i <= rCount /\ rPool \in Pools
        /\ cur \in Words /\ found \in Seq(Words) /\ (start => rPool = pool)
    BY DEF CallOK
  <1>2. pc' \in {"slot", "native", "class", "done"} /\ i' \in Nat \ {0} /\ (Scanning' => i' <= rCount)
    BY <1>1 DEF Scanning
  <1>3. cur' \in Words /\ found' \in Seq(Words)
    <2>1. <<w>> \in Seq(Words) /\ Append(found, w) \in Seq(Words)
      BY <1>1
    <2>2. None \in Words
      BY DEF Words
    <2>3. QED
      BY <1>1, <2>1, <2>2
  <1>4. CallOK'
    BY <1>1, <1>2, <1>3 DEF CallOK, Pcs, Scanning
  <1>5. LooksKnown'
    BY DEF LooksKnown, Known
  <1>6. ASSUME start' PROVE cur' \in Known' /\ \A k \in 1..Len(found') : found'[k] \in Known'
    <2>1. start /\ Known' = Known
      BY <1>6 DEF Known
    <2>2. cur \in Known /\ w \in Known /\ \A k \in 1..Len(found) : found[k] \in Known
      BY <2>1 DEF TakenKnown
    <2>3. cur' \in Known
      BY <2>2 DEF Known
    <2>4. found \in Seq(Words)
      BY <1>1
    <2>5. \A k \in 1..Len(found') : found'[k] \in Known
      <3>1. CASE found' = found
        BY <2>2, <3>1
      <3>2. CASE found' = <<w>>
        BY <2>2, <3>2
      <3>3. CASE found' = Append(found, w)
        BY <2>2, <2>4, <3>3
      <3>4. QED
        BY <3>1, <3>2, <3>3
    <2>6. QED
      BY <2>1, <2>3, <2>5
  <1>7. QED
    BY <1>4, <1>5, <1>6 DEF TakenKnown

LEMMA QueryIInv == ASSUME IInv, Query PROVE IInv'
  <1> USE DEF IInv
  <1>0. Reads
    BY DEF Query, ReadPool, ReadCount, ReadTypeId, ReadNative, ReadComponent, ReadClass
  <1>1. UNCHANGED <<slots, pool, count, gap, freed, query, seen, start>>
    BY <1>0, ReadsKeep
  <1>2. PoolOK' /\ Known' = Known
    BY <1>1 DEF PoolOK, Known
  <1>3. AttachedSeen'
    <2>1. pc # "idle"
      BY DEF Query, ReadPool, ReadCount, ReadTypeId, ReadNative, ReadComponent, ReadClass
    <2>2. QED
      BY <1>1, <2>1 DEF AttachedSeen, Attached
  <1>4. CASE ReadPool
    <2>1. pc = "pool" /\ pc' \in {"count", "done"} /\ rPool' = pool /\ (pc' = "count" => pool # None)
          /\ UNCHANGED <<rCount, i, cur, found>>
      BY <1>4 DEF ReadPool
    <2>2. CallOK'
      BY <1>1, <2>1 DEF CallOK, Scanning, Pcs, PoolOK
    <2>3. QED
      BY <1>1, <1>2, <1>3, <2>1, <2>2 DEF LooksKnown, TakenKnown, Scanning
  <1>5. CASE ReadCount
    <2>1. pc = "count" /\ rCount' = Bounded(count) /\ pc' = (IF count = 0 THEN "done" ELSE "slot")
          /\ UNCHANGED <<rPool, i, cur, found>>
      BY <1>5 DEF ReadCount
    <2>2. Bounded(count) \in Nat /\ Bounded(count) <= count /\ (count # 0 => Bounded(count) >= 1)
      BY LookupAssumption DEF Bounded, Cap, PoolOK
    <2>3. i = 1
      BY <2>1 DEF CallOK
    <2>4. CallOK'
      BY <1>1, <2>1, <2>2, <2>3 DEF CallOK, Scanning, Pcs, PoolOK
    <2>5. LooksKnown'
      <3>1. SUFFICES ASSUME start', Scanning', NEW k \in 1..PoolSize[pool], k <= rCount'
                     PROVE  slots[pool][k] \in Known
        BY <1>1, <1>2 DEF LooksKnown
      <3>2. pool = rPool /\ rPool \in Pools
        BY <1>1, <2>1, <3>1 DEF CallOK
      <3>3. pool # None /\ k \in 1..count
        BY <2>1, <2>2, <3>1, <3>2, PoolAssumption DEF PoolOK
      <3>4. QED
        BY <2>1, <3>3, AttachedKnown
    <2>6. QED
      BY <1>1, <1>2, <1>3, <2>1, <2>4, <2>5 DEF TakenKnown
  <1>6. CASE ReadTypeId \/ ReadNative \/ ReadComponent
    <2>1. Scanning /\ UNCHANGED <<rPool, rCount>>
      BY <1>6 DEF Scanning, ReadTypeId, ReadNative, ReadComponent
    <2>2. SlotWord \in Words /\ (start => SlotWord \in Known)
      BY <2>1, SlotWordFacts
    <2>3. cur' \in {None, SlotWord} \cup {cur} /\ found' \in {found, <<SlotWord>>, Append(found, SlotWord)}
      BY <1>6 DEF ReadTypeId, ReadNative, ReadComponent, NextSlot, Answer
    <2>4. \/ i' = i /\ pc' \in {"slot", "native", "class", "done"}
          \/ i' = i + 1 /\ pc' = IF i + 1 > rCount THEN "done" ELSE "slot"
      BY <1>6 DEF ReadTypeId, ReadNative, ReadComponent, NextSlot, Answer
    <2>5. CallOK' /\ LooksKnown' /\ TakenKnown'
      BY <1>1, <2>1, <2>2, <2>3, <2>4, TakeOK
    <2>6. QED
      BY <1>2, <1>3, <2>5
  <1>7. CASE ReadClass
    <2>1. Scanning /\ UNCHANGED <<rPool, rCount>>
      BY <1>7 DEF Scanning, ReadClass
    <2>2. cur \in Words /\ (start => cur \in Known)
      BY DEF CallOK, TakenKnown
    <2>3. cur' \in {None, cur} \cup {cur} /\ found' \in {found, <<cur>>, Append(found, cur)}
      BY <1>7 DEF ReadClass, NextSlot, Answer
    <2>4. \/ i' = i /\ pc' \in {"slot", "native", "class", "done"}
          \/ i' = i + 1 /\ pc' = IF i + 1 > rCount THEN "done" ELSE "slot"
      BY <1>7 DEF ReadClass, NextSlot, Answer
    <2>5. CallOK' /\ LooksKnown' /\ TakenKnown'
      BY <1>1, <2>1, <2>2, <2>3, <2>4, TakeOK
    <2>6. QED
      BY <1>2, <1>3, <2>5
  <1>8. QED
    BY <1>4, <1>5, <1>6, <1>7 DEF Query

LEMMA BeginIInv == ASSUME IInv, Begin PROVE IInv'
  <1> USE DEF IInv
  <1>1. pc = "idle" /\ pc' = "pool" /\ seen' = Attached /\ start' = TRUE
        /\ UNCHANGED <<slots, pool, count, gap, freed, rPool, rCount, i, cur, found>>
    BY DEF Begin, poolVars
  <1>2. cur = None /\ found = <<>> /\ i = 1
    BY <1>1 DEF CallOK
  <1>3. PoolOK' /\ AttachedSeen'
    BY <1>1 DEF PoolOK, AttachedSeen, Attached
  <1>4. CallOK'
    BY <1>1, <1>2 DEF CallOK, Scanning, Pcs
  <1>5. LooksKnown' /\ TakenKnown'
    BY <1>1, <1>2 DEF LooksKnown, TakenKnown, Scanning, Known
  <1>6. QED
    BY <1>3, <1>4, <1>5

LEMMA ReturnIInv == ASSUME IInv, Return PROVE IInv'
  <1> USE DEF IInv
  <1>1. pc' = "idle" /\ rCount' = 0 /\ i' = 1 /\ cur' = None /\ found' = <<>> /\ start' = FALSE
        /\ UNCHANGED <<slots, pool, count, gap, freed>>
    BY DEF Return, poolVars
  <1>2. PoolOK'
    BY <1>1 DEF PoolOK
  <1>3. CallOK'
    BY <1>1 DEF CallOK, Scanning, Pcs, Words
  <1>4. QED
    BY <1>1, <1>2, <1>3 DEF AttachedSeen, LooksKnown, TakenKnown, Scanning

LEMMA WorldIInv == ASSUME IInv, World PROVE IInv'
  <1> USE DEF IInv
  <1>1. UNCHANGED <<pc, query, rPool, rCount, i, cur, found>>
        /\ start' = (start /\ pool' = pool)
        /\ seen' = IF pc = "idle" THEN seen ELSE seen \cup Attached'
    BY DEF World, callVars
  <1>2. PoolStep \/ UNCHANGED <<slots, pool, count, gap, freed>>
    BY DEF World, ChangeManaged, poolVars
  <1>3. PoolOK'
    BY <1>2, PoolStepOK DEF PoolOK
  <1>4. CallOK'
    BY <1>1 DEF CallOK, Scanning
  <1>5. AttachedSeen'
    BY <1>1 DEF AttachedSeen
  <1>6. Known \subseteq Known'
    BY <1>1 DEF Known
  <1>7. TakenKnown'
    BY <1>1, <1>6 DEF TakenKnown
  <1>8. LooksKnown'
    <2>1. SUFFICES ASSUME start', Scanning', NEW k \in 1..PoolSize[pool'], k <= rCount'
                   PROVE  slots'[pool'][k] \in Known'
      BY DEF LooksKnown
    <2>2. start /\ Scanning /\ pool' = pool /\ pc # "idle" /\ k <= rCount
      BY <1>1, <2>1 DEF Scanning
    <2>3. pool # None /\ slots[pool][k] \in Known
      BY <2>1, <2>2, PoolAssumption DEF CallOK, LooksKnown
    <2>4. CASE PoolStep
      <3>1. slots'[pool][k] \in {slots[pool][k], None} \cup Attached'
        BY <2>1, <2>2, <2>3, <2>4, SlotChange
      <3>2. QED
        BY <1>1, <1>6, <2>2, <2>3, <3>1 DEF Known
    <2>5. CASE UNCHANGED <<slots, pool, count, gap, freed>>
      BY <1>6, <2>3, <2>5
    <2>6. QED
      BY <1>2, <2>4, <2>5
  <1>9. QED
    BY <1>3, <1>4, <1>5, <1>7, <1>8

LEMMA StepIInv == ASSUME IInv, [Next]_vars PROVE IInv'
  <1>1. CASE Begin
    BY <1>1, BeginIInv
  <1>2. CASE Return
    BY <1>2, ReturnIInv
  <1>3. CASE Query
    BY <1>3, QueryIInv
  <1>4. CASE World
    BY <1>4, WorldIInv
  <1>5. CASE UNCHANGED vars
    BY <1>5 DEF vars, poolVars, callVars, history, IInv, PoolOK, CallOK, Scanning,
                AttachedSeen, Attached, LooksKnown, TakenKnown, Known
  <1>6. QED
    BY <1>1, <1>2, <1>3, <1>4, <1>5 DEF Next

(***************************************************************************)
(* Whatever is added to the GameObject and removed from it under a query,  *)
(* as long as the array stays: what GetComponentThroughTypeId and the      *)
(* other queries return, the GameObject has had since the query began.     *)
(***************************************************************************)
THEOREM ReturnsAreAttached == Spec => []ReturnedWasAttached
  <1>1. IInv /\ [Next]_vars => IInv'
    BY StepIInv
  <1>2. IInv => ReturnedWasAttached
    BY DEF IInv, TakenKnown, Known, ReturnedWasAttached, Returned
  <1>3. QED
    BY <1>1, <1>2, InitIInv, PTL DEF Spec

(***************************************************************************)
(* A query during which nothing changes.  What it has passed is the slots  *)
(* before i of an array that is still there: none of them matched, or, for *)
(* a query that wants all, they are what it has found.                     *)
(***************************************************************************)
ArrayOK ==
  /\ pool = None => freed = {}
  /\ pool \notin freed
  /\ \A k \in 1..count : slots[pool][k] \in Components

Passed(n) ==
  IF query.kind = "all" THEN found = [k \in 1..n |-> slots[pool][k]]
  ELSE found = <<>> /\ \A k \in 1..n : ~ MatchAt(k)

QuietInv ==
  quiet =>
    /\ start /\ pc # "idle" /\ query \in AnyQuery
    /\ pc \in {"pool", "count"} => found = <<>>
    /\ Scanning => rCount = Bounded(count) /\ Passed(i - 1)
    /\ pc = "native" => query.kind = "typeId" /\ MatchAt(i)
    /\ pc = "class" => query.kind \in {"typeName", "class"} /\ cur = slots[pool][i]
    /\ QuietExact

LEMMA ArrayInit == Init => ArrayOK
  BY DEF Init, PoolInit, ArrayOK

LEMMA ArrayStep == ASSUME PoolOK, ArrayOK, PoolStep PROVE ArrayOK'
  <1>1. CASE NewPool
    BY <1>1 DEF NewPool, ArrayOK, PoolOK
  <1>2. CASE \E c \in Components : AddComponent(c)
    <2>1. PICK c \in Components : AddComponent(c)
      BY <1>2
    <2>2. pool \in Pools /\ slots[pool] \in [1..PoolSize[pool] -> Words] /\ PoolSize[pool] \in Nat
      BY <2>1, PoolAssumption DEF AddComponent, PoolOK
    <2>3. \A k \in 1..count' : slots'[pool][k] \in Components
      BY <2>1, <2>2 DEF AddComponent, ArrayOK, PoolOK
    <2>4. QED
      BY <2>1, <2>3 DEF AddComponent, ArrayOK
  <1>3. CASE RemoveComponent
    BY <1>3 DEF RemoveComponent, ArrayOK
  <1>4. CASE FinishRemoval
    <2>1. pool \in Pools /\ slots[pool] \in [1..PoolSize[pool] -> Words] /\ PoolSize[pool] \in Nat
          /\ gap \in 1..count /\ count \in Nat /\ count <= PoolSize[pool]
      BY <1>4, PoolAssumption DEF FinishRemoval, PoolOK
    <2>2. CASE gap < count
      <3>1. gap + 1 \in 1..count
        BY <2>1, <2>2
      <3>2. slots[pool][gap + 1] \in Components
        BY <3>1 DEF ArrayOK
      <3>3. \A k \in 1..count : slots'[pool][k] \in Components
        BY <1>4, <2>1, <2>2, <3>2 DEF FinishRemoval, ArrayOK, PoolOK
      <3>4. QED
        BY <1>4, <2>2, <3>3 DEF FinishRemoval, ArrayOK
    <2>3. CASE ~ (gap < count)
      BY <1>4, <2>1, <2>3 DEF FinishRemoval, ArrayOK
    <2>4. QED
      BY <2>2, <2>3
  <1>5. CASE \E p \in Pools : MovePool(p)
    <2>1. PICK p \in Pools : MovePool(p)
      BY <1>5
    <2>2. /\ count \in Nat /\ PoolSize[p] \in Nat /\ count <= PoolSize[p] /\ p \notin freed
          /\ pool' = p /\ count' = count /\ freed' = freed
      BY <2>1, PoolAssumption DEF MovePool, PoolOK
    <2>3. slots'[p] = [j \in 1..PoolSize[p] |-> IF j <= count THEN slots[pool][j] ELSE slots[p][j]]
      BY <2>1 DEF MovePool, PoolOK
    <2>4. \A k \in 1..count : slots'[p][k] \in Components
      BY <2>2, <2>3 DEF ArrayOK
    <2>5. QED
      BY <2>2, <2>4, PoolAssumption DEF ArrayOK
  <1>6. CASE \E p \in Pools : FreePool(p)
    BY <1>6 DEF FreePool, ArrayOK
  <1>7. QED
    BY <1>1, <1>2, <1>3, <1>4, <1>5, <1>6 DEF PoolStep

LEMMA ArrayNext == ASSUME IInv, ArrayOK, [Next]_vars PROVE ArrayOK'
  <1>1. CASE UNCHANGED poolVars
    BY <1>1 DEF poolVars, ArrayOK
  <1>2. CASE World
    BY <1>1, <1>2, ArrayStep DEF World, ChangeManaged, IInv
  <1>3. QED
    BY <1>1, <1>2 DEF Next, Begin, Return, Query, ReadPool, ReadCount, ReadTypeId, ReadNative,
      ReadComponent, ReadClass, Reads, vars

(***************************************************************************)
(* The call.  Its reads leave what a match is alone.                       *)
(***************************************************************************)
LEMMA ReadsMatch ==
  ASSUME Reads
  PROVE  /\ \A k : MatchAt(k)' <=> MatchAt(k)
         /\ Looked' = Looked /\ Bounded(count)' = Bounded(count)
         /\ UNCHANGED <<slots, pool, count, freed, query, start, quiet>>
  BY DEF Reads, MatchAt, Asked, Looked, Bounded, Cap, poolVars, history

LEMMA LookedBound ==
  ASSUME PoolOK
  PROVE  /\ Bounded(count) \in Nat /\ Bounded(count) <= count /\ Looked = 1..Bounded(count)
  BY LookupAssumption DEF PoolOK, Bounded, Looked, Cap

\* In the middle of the array.
LEMMA SlotQuiet ==
  ASSUME IInv, ArrayOK, QuietInv, quiet, Scanning
  PROVE  /\ SlotWord = slots[pool][i] /\ SlotWord \in Components /\ SlotReadable
         /\ i \in 1..count /\ i \in Looked /\ i \in Nat \ {0} /\ i <= rCount
         /\ rCount = Bounded(count)
  <1>1. /\ rPool = pool /\ pool \in Pools /\ PoolSize[pool] \in Nat /\ count <= PoolSize[pool]
        /\ count \in Nat /\ i \in Nat \ {0} /\ i <= rCount /\ rCount = Bounded(count)
    BY PoolAssumption DEF IInv, PoolOK, CallOK, QuietInv
  <1>2. i \in 1..count /\ i \in Looked /\ i <= PoolSize[pool]
    BY <1>1, LookedBound DEF IInv
  <1>3. QED
    BY <1>1, <1>2 DEF SlotWord, SlotReadable, ArrayOK

LEMMA NextSlotQuiet ==
  ASSUME IInv, ArrayOK, QuietInv, quiet, Scanning, Reads, NextSlot, rCount' = rCount,
         \/ query.kind # "all" /\ found' = found /\ ~ MatchAt(i)
         \/ query.kind = "all" /\ found' = Append(found, slots[pool][i])
  PROVE  QuietInv'
  <1>1. i \in Nat \ {0} /\ i <= rCount /\ rCount = Bounded(count) /\ Looked = 1..Bounded(count)
        /\ Bounded(count) \in Nat /\ Passed(i - 1)
    BY SlotQuiet, LookedBound DEF IInv, QuietInv
  <1>2. i' = i + 1 /\ pc' = IF i + 1 > rCount THEN "done" ELSE "slot"
    BY DEF NextSlot
  <1>3. IF query.kind = "all" THEN found' = [k \in 1..i |-> slots[pool][k]]
        ELSE found' = <<>> /\ \A k \in 1..i : ~ MatchAt(k)
    <2>1. CASE query.kind = "all"
      <3>1. found = [k \in 1..(i - 1) |-> slots[pool][k]] /\ found' = Append(found, slots[pool][i])
        BY <1>1, <2>1 DEF Passed
      <3>2. found' = [k \in 1..i |-> slots[pool][k]]
        BY <1>1, <3>1
      <3>3. QED
        BY <2>1, <3>2
    <2>2. CASE query.kind # "all"
      BY <1>1, <2>2 DEF Passed
    <2>3. QED
      BY <2>1, <2>2
  <1>4. Passed(i - 1)'
    <2>1. i' - 1 = i
      BY <1>1, <1>2
    <2>2. QED
      BY <1>3, <2>1, ReadsMatch DEF Passed
  <1>5. pc' = "done" => i = Bounded(count)
    BY <1>1, <1>2
  <1>6. QuietExact'
    <2>1. CASE pc' = "done"
      <3>1. Looked = 1..i
        BY <1>1, <1>5, <2>1
      <3>2. QED
        BY <1>3, <3>1, ReadsMatch DEF QuietExact
    <2>2. CASE pc' # "done"
      BY <2>2 DEF QuietExact
    <2>3. QED
      BY <2>1, <2>2
  <1>7. QED
    BY <1>1, <1>2, <1>4, <1>6, ReadsMatch DEF QuietInv, Scanning

LEMMA AnswerQuiet ==
  ASSUME IInv, ArrayOK, QuietInv, quiet, Scanning, Reads, Answer(slots[pool][i]),
         MatchAt(i), query.kind # "all"
  PROVE  QuietInv'
  <1>1. i \in Looked /\ i \in Nat \ {0} /\ Looked = 1..Bounded(count) /\ Bounded(count) \in Nat
        /\ \A k \in 1..(i - 1) : ~ MatchAt(k)
    BY SlotQuiet, LookedBound DEF IInv, QuietInv, Passed
  <1>2. \A j \in Looked : j < i => ~ MatchAt(j)
    BY <1>1
  <1>3. pc' = "done" /\ found' = <<slots[pool][i]>>
    BY DEF Answer
  <1>4. QuietExact'
    BY <1>1, <1>2, <1>3, ReadsMatch DEF QuietExact
  <1>5. QED
    BY <1>3, <1>4, ReadsMatch DEF QuietInv, Scanning

LEMMA MatchMeans ==
  ASSUME QuietInv, quiet, slots[pool][i] \in Components
  PROVE  /\ query.kind = "typeId" => (MatchAt(i) <=> TypeOf[slots[pool][i]] = query.of)
         /\ query.kind \in {"typeName", "class"} =>
              (MatchAt(i) <=> slots[pool][i] \notin unreadable /\ Matches(slots[pool][i]))
  BY DEF MatchAt, Asked, Matches

LEMMA QueryQuiet == ASSUME IInv, ArrayOK, QuietInv, Query PROVE QuietInv'
  <1>0. Reads
    BY DEF Query, ReadPool, ReadCount, ReadTypeId, ReadNative, ReadComponent, ReadClass
  <1> SUFFICES ASSUME quiet PROVE QuietInv'
    BY <1>0, ReadsMatch DEF QuietInv
  <1>1. query.kind \in {"typeId", "typeName", "class", "all"} /\ query \in AnyQuery
    BY DEF QuietInv, AnyQuery
  <1>2. CASE ReadPool
    <2>1. found' = <<>> /\ pc' \in {"count", "done"} /\ (pc' = "done" => pool = None)
      BY <1>2 DEF ReadPool, QuietInv
    <2>2. pc' = "done" => Looked = {}
      BY <2>1, LookedBound DEF IInv, PoolOK
    <2>3. QuietExact'
      BY <2>1, <2>2, <1>0, ReadsMatch DEF QuietExact
    <2>4. QED
      BY <1>0, <1>1, <2>1, <2>3, ReadsMatch DEF QuietInv, Scanning
  <1>3. CASE ReadCount
    <2>1. found' = <<>> /\ i' = 1 /\ rCount' = Bounded(count)
          /\ pc' \in {"slot", "done"} /\ (pc' = "done" => count = 0)
      BY <1>3 DEF ReadCount, QuietInv, IInv, CallOK
    <2>2. pc' = "done" => Looked = {}
      BY <2>1, LookedBound DEF IInv, PoolOK
    <2>3. QuietExact'
      BY <2>1, <2>2, <1>0, ReadsMatch DEF QuietExact
    <2>4. Passed(0)'
      BY <2>1 DEF Passed
    <2>5. Passed(i - 1)'
      BY <2>1, <2>4
    <2>6. QED
      BY <1>0, <1>1, <2>1, <2>3, <2>5, ReadsMatch DEF QuietInv, Scanning
  <1>4. CASE ReadTypeId
    <2>1. Scanning /\ query.kind = "typeId" /\ UNCHANGED <<rCount, found>>
      BY <1>4 DEF ReadTypeId, Scanning
    <2>2. SlotWord = slots[pool][i] /\ SlotWord \in Components /\ SlotReadable /\ SlotWord # None
      BY <2>1, SlotQuiet, PoolAssumption
    <2>3. CASE TypeOf[SlotWord] = query.of
      <3>1. pc' = "native" /\ UNCHANGED <<i, found>> /\ MatchAt(i)
        BY <1>4, <2>1, <2>2, <2>3, MatchMeans DEF ReadTypeId
      <3>2. Passed(i - 1)'
        BY <1>0, <2>1, <3>1, ReadsMatch DEF QuietInv, Passed
      <3>3. QED
        BY <1>0, <1>1, <2>1, <3>1, <3>2, ReadsMatch DEF QuietInv, Scanning, QuietExact
    <2>4. CASE TypeOf[SlotWord] # query.of
      <3>1. NextSlot /\ ~ MatchAt(i)
        BY <1>4, <2>1, <2>2, <2>4, MatchMeans DEF ReadTypeId
      <3>2. QED
        BY <1>0, <2>1, <3>1, NextSlotQuiet
    <2>5. QED
      BY <2>3, <2>4
  <1>5. CASE ReadNative
    <2>1. Scanning /\ query.kind = "typeId" /\ MatchAt(i)
      BY <1>5 DEF ReadNative, Scanning, QuietInv
    <2>2. SlotWord = slots[pool][i] /\ SlotReadable
      BY <2>1, SlotQuiet
    <2>3. Answer(slots[pool][i])
      BY <1>5, <2>2 DEF ReadNative
    <2>4. QED
      BY <1>0, <2>1, <2>3, AnswerQuiet
  <1>6. CASE ReadComponent
    <2>1. Scanning /\ query.kind # "typeId" /\ UNCHANGED rCount
      BY <1>6 DEF ReadComponent, Scanning
    <2>2. SlotWord = slots[pool][i] /\ SlotReadable /\ IsComponent(SlotWord)
      BY <2>1, SlotQuiet, PoolAssumption DEF IsComponent
    <2>3. CASE query.kind = "all"
      <3>1. NextSlot /\ found' = Append(found, slots[pool][i])
        BY <1>6, <2>2, <2>3 DEF ReadComponent
      <3>2. QED
        BY <1>0, <2>1, <2>3, <3>1, NextSlotQuiet
    <2>4. CASE query.kind # "all"
      <3>1. pc' = "class" /\ cur' = slots[pool][i] /\ UNCHANGED <<i, found>>
        BY <1>6, <2>2, <2>4 DEF ReadComponent
      <3>2. Passed(i - 1)'
        BY <1>0, <2>1, <2>4, <3>1, ReadsMatch DEF QuietInv, Passed
      <3>3. (cur = slots[pool][i])' /\ query'.kind \in {"typeName", "class"}
        BY <1>0, <1>1, <2>1, <2>4, <3>1, ReadsMatch
      <3>4. QED
        BY <1>0, <1>1, <2>1, <3>1, <3>2, <3>3, ReadsMatch DEF QuietInv, Scanning, QuietExact
    <2>5. QED
      BY <2>3, <2>4
  <1>7. CASE ReadClass
    <2>1. Scanning /\ query.kind \in {"typeName", "class"} /\ cur = slots[pool][i] /\ UNCHANGED rCount
      BY <1>7 DEF ReadClass, Scanning, QuietInv
    <2>2. slots[pool][i] \in Components
      BY <2>1, SlotQuiet
    <2>3. CASE MatchAt(i)
      <3>1. Answer(slots[pool][i])
        BY <1>7, <2>1, <2>2, <2>3, MatchMeans DEF ReadClass
      <3>2. QED
        BY <1>0, <2>1, <2>3, <3>1, AnswerQuiet
    <2>4. CASE ~ MatchAt(i)
      <3>1. NextSlot /\ found' = found
        BY <1>7, <2>1, <2>2, <2>4, MatchMeans DEF ReadClass
      <3>2. QED
        BY <1>0, <2>1, <2>4, <3>1, NextSlotQuiet
    <2>5. QED
      BY <2>3, <2>4
  <1>8. QED
    BY <1>2, <1>3, <1>4, <1>5, <1>6, <1>7 DEF Query

LEMMA QuietInit == Init => QuietInv
  BY DEF Init, NoCall, QuietInv

LEMMA QuietStep == ASSUME IInv, ArrayOK, QuietInv, [Next]_vars PROVE QuietInv'
  <1>1. CASE Begin
    <2>1. pc' = "pool" /\ start' /\ query' \in AnyQuery /\ found' = <<>>
      BY <1>1, LookupAssumption DEF Begin, IInv, CallOK
    <2>2. QED
      BY <2>1 DEF QuietInv, Scanning, QuietExact
  <1>2. CASE Return \/ World
    BY <1>2 DEF Return, World, QuietInv
  <1>3. CASE Query
    BY <1>3, QueryQuiet
  <1>4. CASE UNCHANGED vars
    BY <1>4 DEF vars, poolVars, callVars, history, QuietInv, Scanning, Passed, MatchAt, Asked,
      Bounded, Cap, QuietExact, Looked
  <1>5. QED
    BY <1>1, <1>2, <1>3, <1>4 DEF Next

(***************************************************************************)
(* A query during which nothing changes is exact, for any arrays, classes  *)
(* and caps: the first matching component among the slots below the cap,   *)
(* or nothing when there is none, or all of them.                          *)
(***************************************************************************)
THEOREM QuietQueriesAreExact == Spec => []QuietExact
  <1>1. Init => IInv /\ ArrayOK /\ QuietInv
    BY InitIInv, ArrayInit, QuietInit
  <1>2. IInv /\ ArrayOK /\ QuietInv /\ [Next]_vars => (IInv /\ ArrayOK /\ QuietInv)'
    BY StepIInv, ArrayNext, QuietStep
  <1>3. QuietInv => QuietExact
    BY DEF QuietInv, QuietExact
  <1>4. QED
    BY <1>1, <1>2, <1>3, PTL DEF Spec

(***************************************************************************)
(* TransformTree, in its world of MCComponentLookup, for any transforms,   *)
(* hierarchies and limits, and any number of parents set.                  *)
(*                                                                         *)
(* The target: a transform has a slot of its own in the hierarchy of its   *)
(* parent, whose words are the transform and its parent's slot, and is     *)
(* among the children of its parent, once.                                 *)
(***************************************************************************)
HomesOK ==
  /\ parent \in [Transforms -> Transforms \cup {None}]
  /\ place \in [Transforms -> [h : Hierarchies, i : 1..Slots]]
  /\ \A x, y \in Transforms : place[x] = place[y] => x = y
  /\ \A x \in Transforms : parent[x] # None => place[parent[x]].h = place[x].h

ArraysOK ==
  /\ owner \in [Hierarchies -> [1..Slots -> Transforms \cup {None}]]
  /\ parents \in [Hierarchies -> [1..Slots -> 0..Slots]]
  /\ \A x \in Transforms :
       /\ owner[place[x].h][place[x].i] = x
       /\ parents[place[x].h][place[x].i] = IF parent[x] = None THEN 0 ELSE place[parent[x]].i

KidsOK ==
  /\ kids \in [Transforms -> [1..Cardinality(Transforms) -> Transforms \cup {None}]]
  /\ childCount \in [Transforms -> 0..Cardinality(Transforms)]
  /\ \A x \in Transforms : \A j \in 1..childCount[x] : kids[x][j] \in Transforms /\ parent[kids[x][j]] = x
  /\ \A x \in Transforms : \A j, k \in 1..childCount[x] : kids[x][j] = kids[x][k] => j = k
  /\ \A x \in Transforms : parent[x] # None => \E j \in 1..childCount[parent[x]] : kids[parent[x]][j] = x

\* A transform without an array has no children.
NumbersOK == array \in [Transforms -> Nat] /\ \A x \in Transforms : array[x] = 0 => childCount[x] = 0

LinksOK == \A x \in Transforms : parent[x] # None => <<x, parent[x]>> \in links

\* Unless a slot has changed hands, what a word of a slot leads to is a parent
\* its transform has had during the call; also where the transform has left.
SlotsLinked ==
  ~ reused =>
    \A h \in Hierarchies, s \in 1..Slots :
      owner[h][s] # None /\ parents[h][s] # 0 =>
        /\ owner[h][parents[h][s]] # None
        /\ <<owner[h][s], owner[h][parents[h][s]]>> \in links

\* In a tree that stands still no slot has been left.
StandsStill ==
  moves = 0 =>
    /\ ~ reused
    /\ \E tree \in Trees : parent = tree.parent
    /\ \A h \in Hierarchies, s \in 1..Slots : owner[h][s] # None => place[owner[h][s]] = [h |-> h, i |-> s]

HistoryOK == moves \in Nat /\ reused \in BOOLEAN

TargetInv == HomesOK /\ ArraysOK /\ KidsOK /\ NumbersOK /\ LinksOK /\ SlotsLinked /\ StandsStill /\ HistoryOK

LEMMA TreeNumbers ==
  /\ Slots \in Nat /\ MaxDepth \in Nat /\ MaxNodes \in Nat /\ MaxChildren \in Nat /\ MaxMoves \in Nat
  /\ None \notin Transforms /\ Start \in Transforms
  BY TreeAssumption

LEMMA SizeOfTree == Cardinality(Transforms) \in Nat
  BY TreeAssumption, FS_CardinalityType

LEMMA TreeCardinality ==
  ASSUME NEW S
  PROVE  Tree!Cardinality(S) = Cardinality(S)
  BY Zenon DEF Tree!Cardinality, Cardinality

LEMMA HolderIs ==
  ASSUME NEW q \in [Transforms -> [h : Hierarchies, i : 1..Slots]],
         \A x, y \in Transforms : q[x] = q[y] => x = y,
         NEW h \in Hierarchies, NEW s \in 1..Slots
  PROVE  /\ \A x \in Transforms : q[x] = [h |-> h, i |-> s] => Tree!Holder(q, h, s) = x
         /\ Tree!Holder(q, h, s) # None =>
              Tree!Holder(q, h, s) \in Transforms /\ q[Tree!Holder(q, h, s)] = [h |-> h, i |-> s]
         /\ Tree!Holder(q, h, s) \in Transforms \cup {None}
  <1>1. CASE \E x \in Transforms : q[x] = [h |-> h, i |-> s]
    <2>1. /\ Tree!Holder(q, h, s) \in Transforms
          /\ q[Tree!Holder(q, h, s)] = [h |-> h, i |-> s]
      BY <1>1 DEF Tree!Holder
    <2>2. QED
      BY <2>1
  <1>2. CASE ~ \E x \in Transforms : q[x] = [h |-> h, i |-> s]
    BY <1>2 DEF Tree!Holder
  <1>3. QED
    BY <1>1, <1>2

LEMMA PlaceIs ==
  ASSUME NEW q \in [Transforms -> [h : Hierarchies, i : 1..Slots]], NEW x \in Transforms
  PROVE  /\ q[x].h \in Hierarchies /\ q[x].i \in 1..Slots
         /\ q[x] = [h |-> q[x].h, i |-> q[x].i]
  <1>1. q[x] \in [h : Hierarchies, i : 1..Slots]
    OBVIOUS
  <1>2. QED
    BY <1>1

\* A sequence of a finite set has each of its elements once.
LEMMA SequenceOfSet ==
  ASSUME NEW S, IsFiniteSet(S)
  PROVE  /\ Cardinality(S) \in Nat
         /\ Tree!SetToSeq(S) \in [1..Cardinality(S) -> S]
         /\ \A j, k \in 1..Cardinality(S) : Tree!SetToSeq(S)[j] = Tree!SetToSeq(S)[k] => j = k
         /\ \A x \in S : \E j \in 1..Cardinality(S) : Tree!SetToSeq(S)[j] = x
  <1> DEFINE n == Cardinality(S)
  <1>1. n \in Nat /\ ExistsBijection(1..n, S)
    BY FS_CardinalityType
  <1>2. \E f \in [1..n -> S] : IsInjective(f)
    BY <1>1 DEF ExistsBijection, Bijection, Injection
  <1>3. Tree!SetToSeq(S) \in [1..n -> S] /\ IsInjective(Tree!SetToSeq(S))
    BY <1>2, TreeCardinality DEF Tree!SetToSeq, Tree!IsInjective, IsInjective
  <1>4. IsFiniteSet(1..n) /\ Cardinality(1..n) = n
    BY <1>1, FS_Interval
  <1>5. Tree!SetToSeq(S) \in Injection(1..n, S)
    BY <1>3 DEF Injection
  <1>6. Tree!SetToSeq(S) \in Surjection(1..n, S)
    BY <1>4, <1>5, FS_Injection
  <1>7. \A x \in S : \E j \in 1..n : Tree!SetToSeq(S)[j] = x
    BY <1>6 DEF Surjection
  <1>8. \A j, k \in 1..n : Tree!SetToSeq(S)[j] = Tree!SetToSeq(S)[k] => j = k
    <2>1. DOMAIN Tree!SetToSeq(S) = 1..n
      BY <1>3
    <2>2. QED
      BY <1>3, <2>1 DEF IsInjective
  <1>9. QED
    BY <1>1, <1>3, <1>7, <1>8

LEMMA ChildrenFinite ==
  ASSUME NEW x
  PROVE  /\ IsFiniteSet(Tree!ChildrenOf(parent, x))
         /\ Cardinality(Tree!ChildrenOf(parent, x)) \in 0..Cardinality(Transforms)
  <1>1. Tree!ChildrenOf(parent, x) \in SUBSET Transforms
    BY DEF Tree!ChildrenOf
  <1>2. QED
    BY <1>1, FS_Subset, FS_CardinalityType, TreeAssumption, SizeOfTree

LEMMA KidsAtFirst ==
  ASSUME Tree!Init, HomesOK
  PROVE  KidsOK
  <1> DEFINE C(x) == Tree!ChildrenOf(parent, x)
             n(x) == Cardinality(C(x))
             f(x) == Tree!SetToSeq(C(x))
  <1>1. \A x \in Transforms : childCount[x] = n(x)
    BY TreeCardinality DEF Tree!Init
  <1>2. childCount \in [Transforms -> 0..Cardinality(Transforms)]
    <2>1. childCount = [x \in Transforms |-> Tree!Cardinality(Tree!ChildrenOf(parent, x))]
      BY DEF Tree!Init
    <2>2. \A x \in Transforms :
            Tree!Cardinality(Tree!ChildrenOf(parent, x)) \in 0..Cardinality(Transforms)
      BY ChildrenFinite, TreeCardinality
    <2>3. QED
      BY <2>1, <2>2
  <1>3. PICK left \in Left :
          kids = [x \in Transforms |-> [j \in 1..Tree!Cardinality(Transforms) |->
                    IF j <= childCount[x] THEN f(x)[j] ELSE left]]
    BY DEF Tree!Init
  <1>4. \A x \in Transforms :
          /\ n(x) \in 0..Cardinality(Transforms)
          /\ f(x) \in [1..n(x) -> C(x)]
          /\ \A j, k \in 1..n(x) : f(x)[j] = f(x)[k] => j = k
          /\ \A y \in C(x) : \E j \in 1..n(x) : f(x)[j] = y
    BY ChildrenFinite, SequenceOfSet
  <1>5. \A x, y : y \in C(x) <=> y \in Transforms /\ parent[y] = x
    BY DEF Tree!ChildrenOf
  <1> HIDE DEF C, n, f
  <1>6. \A x \in Transforms : \A j \in 1..n(x) :
          kids[x][j] = f(x)[j] /\ kids[x][j] \in Transforms /\ parent[kids[x][j]] = x
    <2> SUFFICES ASSUME NEW x \in Transforms, NEW j \in 1..n(x)
                 PROVE  kids[x][j] = f(x)[j] /\ kids[x][j] \in Transforms /\ parent[kids[x][j]] = x
      OBVIOUS
    <2>1. n(x) \in 0..Cardinality(Transforms) /\ f(x)[j] \in C(x) /\ childCount[x] = n(x)
      BY <1>1, <1>4
    <2>2. j \in 1..Tree!Cardinality(Transforms) /\ j <= childCount[x]
      BY <2>1, TreeCardinality, SizeOfTree
    <2>3. kids[x][j] = f(x)[j]
      BY <1>3, <2>2
    <2>4. QED
      BY <1>5, <2>1, <2>3
  <1>7. kids \in [Transforms -> [1..Cardinality(Transforms) -> Transforms \cup {None}]]
    <2>1. \A x \in Transforms : \A j \in 1..Cardinality(Transforms) :
            (IF j <= childCount[x] THEN f(x)[j] ELSE left) \in Transforms \cup {None}
      BY <1>1, <1>4, <1>5, TreeAssumption, SizeOfTree
    <2>2. QED
      BY <1>3, <2>1, TreeCardinality
  <1>8. \A x \in Transforms : \A j, k \in 1..childCount[x] : kids[x][j] = kids[x][k] => j = k
    <2> SUFFICES ASSUME NEW x \in Transforms, NEW j \in 1..n(x), NEW k \in 1..n(x), kids[x][j] = kids[x][k]
                 PROVE  j = k
      BY <1>1
    <2>1. kids[x][j] = f(x)[j] /\ kids[x][k] = f(x)[k]
      BY <1>6
    <2>2. QED
      BY <1>4, <2>1
  <1>9. ASSUME NEW x \in Transforms, parent[x] # None
        PROVE  \E j \in 1..childCount[parent[x]] : kids[parent[x]][j] = x
    <2>1. parent[x] \in Transforms
      BY <1>9 DEF HomesOK
    <2>2. x \in C(parent[x])
      BY <1>5
    <2>3. PICK j \in 1..n(parent[x]) : f(parent[x])[j] = x
      BY <1>4, <2>1, <2>2
    <2>4. QED
      BY <1>1, <1>6, <2>1, <2>3
  <1>10. QED
    BY <1>1, <1>2, <1>6, <1>7, <1>8, <1>9 DEF KidsOK

LEMMA TargetAtFirst ==
  ASSUME Tree!Init
  PROVE  TargetInv
  <1>1. PICK tree \in Trees :
          /\ parent = tree.parent /\ place = tree.place
          /\ owner = [h \in Hierarchies |-> [s \in 1..Slots |-> Tree!Holder(place, h, s)]]
    BY DEF Tree!Init
  <1>2. HomesOK
    BY <1>1, TreeAssumption DEF HomesOK
  <1>3. \A h \in Hierarchies, s \in 1..Slots :
          /\ owner[h][s] = Tree!Holder(place, h, s)
          /\ owner[h][s] \in Transforms \cup {None}
          /\ owner[h][s] # None => owner[h][s] \in Transforms /\ place[owner[h][s]] = [h |-> h, i |-> s]
          /\ \A x \in Transforms : place[x] = [h |-> h, i |-> s] => owner[h][s] = x
    <2> SUFFICES ASSUME NEW h \in Hierarchies, NEW s \in 1..Slots
                 PROVE  /\ owner[h][s] = Tree!Holder(place, h, s)
                        /\ owner[h][s] \in Transforms \cup {None}
                        /\ owner[h][s] # None => owner[h][s] \in Transforms /\ place[owner[h][s]] = [h |-> h, i |-> s]
                        /\ \A x \in Transforms : place[x] = [h |-> h, i |-> s] => owner[h][s] = x
      OBVIOUS
    <2>1. owner[h][s] = Tree!Holder(place, h, s)
      BY <1>1
    <2>2. place \in [Transforms -> [h : Hierarchies, i : 1..Slots]]
          /\ \A x, y \in Transforms : place[x] = place[y] => x = y
      BY <1>2 DEF HomesOK
    <2>3. QED
      BY <2>1, <2>2, HolderIs
  <1>4. parents = [h \in Hierarchies |-> [s \in 1..Slots |->
                     IF owner[h][s] = None \/ parent[owner[h][s]] = None
                       THEN 0 ELSE place[parent[owner[h][s]]].i]]
    BY DEF Tree!Init
  <1>5. ArraysOK
    <2>1. owner \in [Hierarchies -> [1..Slots -> Transforms \cup {None}]]
      BY <1>1, <1>3
    <2>2. \A h \in Hierarchies, s \in 1..Slots :
            (IF owner[h][s] = None \/ parent[owner[h][s]] = None
               THEN 0 ELSE place[parent[owner[h][s]]].i) \in 0..Slots
      <3> SUFFICES ASSUME NEW h \in Hierarchies, NEW s \in 1..Slots,
                          owner[h][s] # None, parent[owner[h][s]] # None
                   PROVE  place[parent[owner[h][s]]].i \in 0..Slots
        BY TreeNumbers
      <3>4. owner[h][s] \in Transforms
        BY <1>3
      <3>1. parent[owner[h][s]] \in Transforms /\ place \in [Transforms -> [h : Hierarchies, i : 1..Slots]]
        BY <1>2, <3>4 DEF HomesOK
      <3>2. place[parent[owner[h][s]]].i \in 1..Slots
        BY <3>1, PlaceIs
      <3>3. QED
        BY <3>2
    <2>3. parents \in [Hierarchies -> [1..Slots -> 0..Slots]]
      BY <1>4, <2>2
    <2>4. ASSUME NEW x \in Transforms
          PROVE  /\ owner[place[x].h][place[x].i] = x
                 /\ parents[place[x].h][place[x].i] = IF parent[x] = None THEN 0 ELSE place[parent[x]].i
      <3>1. /\ place[x].h \in Hierarchies /\ place[x].i \in 1..Slots
            /\ place[x] = [h |-> place[x].h, i |-> place[x].i]
        BY <1>2, PlaceIs DEF HomesOK
      <3>2. owner[place[x].h][place[x].i] = x
        BY <1>3, <3>1
      <3>3. x # None
        BY TreeAssumption
      <3>4. QED
        BY <1>4, <3>1, <3>2, <3>3
    <2>5. QED
      BY <2>1, <2>3, <2>4 DEF ArraysOK
  <1>6. KidsOK
    BY <1>2, KidsAtFirst
  <1>7. links = {<<x, parent[x]>> : x \in {y \in Transforms : parent[y] # None}}
    BY DEF Tree!Init, Tree!LinksOf
  <1>8. LinksOK
    BY <1>7 DEF LinksOK
  <1>9. SlotsLinked
    <2>1. SUFFICES ASSUME NEW h \in Hierarchies, NEW s \in 1..Slots, owner[h][s] # None, parents[h][s] # 0
                   PROVE  /\ owner[h][parents[h][s]] # None
                          /\ <<owner[h][s], owner[h][parents[h][s]]>> \in links
      BY DEF SlotsLinked
    <2> DEFINE x == owner[h][s]
    <2>2. x \in Transforms /\ place[x] = [h |-> h, i |-> s]
      BY <1>3, <2>1
    <2>3. parent[x] # None /\ parents[h][s] = place[parent[x]].i
      BY <1>4, <2>1
    <2>4. parent[x] \in Transforms /\ place[parent[x]].h = h
      BY <1>2, <2>2, <2>3 DEF HomesOK
    <2>5. owner[h][place[parent[x]].i] = parent[x]
      BY <1>5, <2>4 DEF ArraysOK
    <2>6. QED
      BY <1>8, <2>2, <2>3, <2>4, <2>5, TreeAssumption DEF LinksOK
  <1>10. StandsStill
    <2>1. ~ reused
      BY DEF Tree!Init
    <2>2. QED
      BY <1>1, <1>3, <2>1 DEF StandsStill
  <1>11. HistoryOK
    BY DEF Tree!Init, HistoryOK
  <1>12. NumbersOK
    BY DEF Tree!Init, NumbersOK
  <1>13. QED
    BY <1>2, <1>5, <1>6, <1>8, <1>9, <1>10, <1>11, <1>12 DEF TargetInv

(***************************************************************************)
(* SetParent.                                                              *)
(***************************************************************************)
LEMMA BelowFacts ==
  ASSUME NEW x \in Transforms
  PROVE  /\ x \in Tree!Below(parent, x)
         /\ Tree!Below(parent, x) \subseteq Transforms
         /\ \A y \in Transforms : parent[y] \in Tree!Below(parent, x) => y \in Tree!Below(parent, x)
         /\ \A y \in Tree!Below(parent, x) \ {x} : parent[y] \in Tree!Below(parent, x)
  <1> DEFINE B == Tree!Below(parent, x)
             Closed(s) == x \in s /\ \A c \in Transforms : parent[c] \in s => c \in s
  <1>1. B = {y \in Transforms : \A s \in SUBSET Transforms : Closed(s) => y \in s}
    BY DEF Tree!Below
  <1> HIDE DEF B
  <1>2. x \in B /\ B \in SUBSET Transforms
    BY <1>1
  <1>3. \A y \in Transforms : parent[y] \in B => y \in B
    BY <1>1
  <1>4. ASSUME NEW y \in B \ {x}, parent[y] \notin B
        PROVE  FALSE
    <2>1. B \ {y} \in SUBSET Transforms /\ Closed(B \ {y})
      BY <1>2, <1>3, <1>4
    <2>2. QED
      BY <1>1, <1>4, <2>1
  <1>5. QED
    BY <1>2, <1>3, <1>4 DEF B

LEMMA HomesMove ==
  ASSUME HomesOK, NEW x \in Transforms, NEW p \in Transforms, p \notin Tree!Below(parent, x),
         parent' = [parent EXCEPT ![x] = p],
         place' \in Tree!NewPlaces(x, place[p].h)
  PROVE  HomesOK'
  <1> DEFINE B == Tree!Below(parent, x)
             h == place[p].h
  <1>1. /\ parent \in [Transforms -> Transforms \cup {None}]
        /\ place \in [Transforms -> [h : Hierarchies, i : 1..Slots]]
        /\ \A y, z \in Transforms : place[y] = place[z] => y = z
        /\ \A y \in Transforms : parent[y] # None => place[parent[y]].h = place[y].h
    BY DEF HomesOK
  <1>2. /\ parent' \in [Transforms -> Transforms \cup {None}]
        /\ \A y \in Transforms : parent'[y] = IF y = x THEN p ELSE parent[y]
    BY <1>1
  <1>3. h \in Hierarchies
    BY <1>1, PlaceIs
  <1>4. CASE place[x].h = h
    <2>1. place' = place
      BY <1>4 DEF Tree!NewPlaces
    <2>2. \A y \in Transforms : parent'[y] # None => place[parent'[y]].h = place[y].h
      BY <1>1, <1>2, <1>4
    <2>3. QED
      BY <1>1, <1>2, <2>1, <2>2 DEF HomesOK
  <1>5. CASE place[x].h # h
    <2>1. PICK f \in [B -> Tree!FreeSlots(h)] :
            /\ \A y, z \in DOMAIN f : f[y] = f[z] => y = z
            /\ place' = [y \in Transforms |-> IF y \in DOMAIN f THEN [h |-> h, i |-> f[y]] ELSE place[y]]
      BY <1>5 DEF Tree!NewPlaces
    <2>2. /\ B \subseteq Transforms /\ x \in B /\ p \notin B
          /\ \A y \in Transforms : parent[y] \in B => y \in B
          /\ \A y \in B \ {x} : parent[y] \in B
      BY BelowFacts
    <2> HIDE DEF B, h
    <2>3. \A y \in B : f[y] \in 1..Slots /\ \A z \in Transforms : place[z] # [h |-> h, i |-> f[y]]
      BY <2>1 DEF Tree!FreeSlots
    <2>4. \A y \in Transforms : place'[y] = IF y \in B THEN [h |-> h, i |-> f[y]] ELSE place[y]
      BY <2>1
    <2>9. \A y \in B : y \in Transforms /\ place'[y].h = h /\ place'[y].i = f[y]
      <3> SUFFICES ASSUME NEW y \in B
                   PROVE  y \in Transforms /\ place'[y].h = h /\ place'[y].i = f[y]
        OBVIOUS
      <3>1. y \in Transforms /\ place'[y] = [h |-> h, i |-> f[y]]
        BY <2>2, <2>4
      <3>2. QED
        BY <3>1
    <2>5. place' \in [Transforms -> [h : Hierarchies, i : 1..Slots]]
      <3>1. \A y \in Transforms : place'[y] \in [h : Hierarchies, i : 1..Slots]
        <4> SUFFICES ASSUME NEW y \in Transforms
                     PROVE  place'[y] \in [h : Hierarchies, i : 1..Slots]
          OBVIOUS
        <4>1. CASE y \in B
          <5>1. f[y] \in 1..Slots /\ place'[y] = [h |-> h, i |-> f[y]]
            BY <2>3, <2>4, <4>1
          <5>2. QED
            BY <1>3, <5>1
        <4>2. CASE y \notin B
          BY <1>1, <2>4, <4>2
        <4>3. QED
          BY <4>1, <4>2
      <3>2. QED
        BY <2>1, <3>1
    <2>6. ASSUME NEW y \in Transforms, NEW z \in Transforms, place'[y] = place'[z]
          PROVE  y = z
      <3>1. CASE y \in B /\ z \in B
        <4>1. f[y] = f[z]
          BY <2>6, <2>9, <3>1
        <4>2. QED
          BY <2>1, <3>1, <4>1
      <3>2. CASE y \in B /\ z \notin B
        BY <2>3, <2>4, <2>6, <3>2
      <3>3. CASE y \notin B /\ z \in B
        BY <2>3, <2>4, <2>6, <3>3
      <3>4. CASE y \notin B /\ z \notin B
        BY <1>1, <2>4, <2>6, <3>4
      <3>5. QED
        BY <3>1, <3>2, <3>3, <3>4
    <2>7. ASSUME NEW y \in Transforms, parent'[y] # None
          PROVE  place'[parent'[y]].h = place'[y].h
      <3>1. CASE y = x
        <4>1. place'[y].h = h /\ place'[p] = place[p] /\ parent'[y] = p
          BY <1>2, <2>2, <2>4, <2>9, <3>1
        <4>2. QED
          BY <4>1 DEF h
      <3>2. CASE y # x /\ y \in B
        BY <1>2, <2>2, <2>9, <3>2
      <3>3. CASE y \notin B
        <4>1. parent'[y] = parent[y] /\ parent[y] \in Transforms \ B
          BY <1>1, <1>2, <2>2, <2>7, <3>3
        <4>2. QED
          BY <1>1, <2>4, <2>7, <3>3, <4>1
      <3>4. QED
        BY <3>1, <3>2, <3>3
    <2>8. QED
      BY <1>2, <2>5, <2>6, <2>7 DEF HomesOK
  <1>6. QED
    BY <1>4, <1>5

\* The words of a slot somebody holds are written, those of others stay.
LEMMA SlotsMove ==
  ASSUME TargetInv, NEW x \in Transforms, NEW p \in Transforms, Tree!SetParent(x, p), HomesOK'
  PROVE  /\ ArraysOK'
         /\ \A h \in Hierarchies, s \in 1..Slots :
              \/ owner'[h][s] = owner[h][s] /\ parents'[h][s] = parents[h][s]
              \/ /\ owner'[h][s] \in Transforms
                 /\ place'[owner'[h][s]] = [h |-> h, i |-> s]
  <1> DEFINE H(h, s) == Tree!Holder(place', h, s)
  <1>1. /\ place' \in [Transforms -> [h : Hierarchies, i : 1..Slots]]
        /\ \A y, z \in Transforms : place'[y] = place'[z] => y = z
        /\ parent' \in [Transforms -> Transforms \cup {None}]
    BY DEF HomesOK
  <1>2. \A h \in Hierarchies, s \in 1..Slots :
          /\ \A y \in Transforms : place'[y] = [h |-> h, i |-> s] => H(h, s) = y
          /\ H(h, s) # None => H(h, s) \in Transforms /\ place'[H(h, s)] = [h |-> h, i |-> s]
          /\ H(h, s) \in Transforms \cup {None}
    BY <1>1, HolderIs
  <1>3. /\ owner' = [h \in Hierarchies |-> [s \in 1..Slots |-> IF H(h, s) = None THEN owner[h][s] ELSE H(h, s)]]
        /\ parents' = [h \in Hierarchies |-> [s \in 1..Slots |->
                         IF H(h, s) = None THEN parents[h][s]
                         ELSE IF parent'[H(h, s)] = None THEN 0
                         ELSE place'[parent'[H(h, s)]].i]]
    BY DEF Tree!SetParent
  <1> HIDE DEF H
  <1>4. /\ owner \in [Hierarchies -> [1..Slots -> Transforms \cup {None}]]
        /\ parents \in [Hierarchies -> [1..Slots -> 0..Slots]]
    BY DEF TargetInv, ArraysOK
  <1>5. owner' \in [Hierarchies -> [1..Slots -> Transforms \cup {None}]]
    <2>1. \A h \in Hierarchies, s \in 1..Slots :
            (IF H(h, s) = None THEN owner[h][s] ELSE H(h, s)) \in Transforms \cup {None}
      <3> TAKE h \in Hierarchies, s \in 1..Slots
      <3>1. owner[h][s] \in Transforms \cup {None}
        BY <1>4
      <3>2. H(h, s) \in Transforms \cup {None}
        BY <1>2
      <3>3. QED
        BY <3>1, <3>2
    <2>2. QED
      BY <1>3, <2>1
  <1>6. parents' \in [Hierarchies -> [1..Slots -> 0..Slots]]
    <2>1. ASSUME NEW y \in Transforms
          PROVE  place'[y].i \in 0..Slots
      BY <1>1, PlaceIs
    <2>2. ASSUME NEW h \in Hierarchies, NEW s \in 1..Slots
          PROVE  (IF H(h, s) = None THEN parents[h][s]
                  ELSE IF parent'[H(h, s)] = None THEN 0
                  ELSE place'[parent'[H(h, s)]].i) \in 0..Slots
      <3>1. parents[h][s] \in 0..Slots /\ 0 \in 0..Slots
        BY <1>4, TreeNumbers
      <3>2. H(h, s) # None /\ parent'[H(h, s)] # None => parent'[H(h, s)] \in Transforms
        BY <1>1, <1>2
      <3>3. QED
        BY <2>1, <3>1, <3>2
    <2>3. QED
      BY <1>3, <2>2
  <1>7. ASSUME NEW y \in Transforms
        PROVE  /\ owner'[place'[y].h][place'[y].i] = y
               /\ parents'[place'[y].h][place'[y].i] = IF parent'[y] = None THEN 0 ELSE place'[parent'[y]].i
    <2> DEFINE h == place'[y].h
               s == place'[y].i
    <2>1. h \in Hierarchies /\ s \in 1..Slots /\ place'[y] = [h |-> h, i |-> s]
      BY <1>1, PlaceIs
    <2>2. H(h, s) = y /\ y # None
      BY <1>2, <2>1, TreeNumbers
    <2> HIDE DEF h, s
    <2>3. owner'[h][s] = y /\ parents'[h][s] = IF parent'[y] = None THEN 0 ELSE place'[parent'[y]].i
      BY <1>3, <2>1, <2>2
    <2>4. QED
      BY <2>3 DEF h, s
  <1>8. ArraysOK'
    BY <1>5, <1>6, <1>7 DEF ArraysOK
  <1>9. QED
    BY <1>2, <1>3, <1>8

LEMMA LinksMove ==
  ASSUME TargetInv, NEW x \in Transforms, NEW p \in Transforms, Tree!SetParent(x, p)
  PROVE  links \subseteq links' /\ LinksOK'
  BY DEF Tree!SetParent, Tree!LinksOf, LinksOK

LEMMA SlotsStayLinked ==
  ASSUME TargetInv, NEW x \in Transforms, NEW p \in Transforms, Tree!SetParent(x, p), HomesOK'
  PROVE  /\ SlotsLinked'
         /\ ~ reused' => ~ reused /\ \A h \in Hierarchies, s \in 1..Slots :
                                      owner[h][s] # None => owner'[h][s] = owner[h][s]
  <1>1. ~ reused' => ~ reused /\ \A h \in Hierarchies, s \in 1..Slots :
                                   owner[h][s] # None => owner'[h][s] = owner[h][s]
    BY DEF Tree!SetParent
  <1>2. ASSUME ~ reused', NEW h \in Hierarchies, NEW s \in 1..Slots, owner'[h][s] # None, parents'[h][s] # 0
        PROVE  /\ owner'[h][parents'[h][s]] # None
               /\ <<owner'[h][s], owner'[h][parents'[h][s]]>> \in links'
    <2>1. CASE owner'[h][s] = owner[h][s] /\ parents'[h][s] = parents[h][s]
      <3> DEFINE q == parents[h][s]
      <3>1. q \in 1..Slots
        BY <1>2, <2>1, TreeNumbers DEF TargetInv, ArraysOK
      <3>2. owner[h][q] # None /\ <<owner[h][s], owner[h][q]>> \in links
        BY <1>1, <1>2, <2>1 DEF TargetInv, SlotsLinked
      <3>3. owner'[h][q] = owner[h][q]
        BY <1>1, <1>2, <3>1, <3>2
      <3>4. QED
        BY <2>1, <3>2, <3>3, LinksMove
    <2>2. CASE owner'[h][s] \in Transforms /\ place'[owner'[h][s]] = [h |-> h, i |-> s]
      <3> DEFINE y == owner'[h][s]
                 z == parent'[y]
      <3>1. parents'[h][s] = IF z = None THEN 0 ELSE place'[z].i
        BY <2>2, SlotsMove DEF ArraysOK
      <3>2. z # None /\ z \in Transforms /\ place'[z].h = h
        BY <1>2, <2>2, <3>1 DEF HomesOK
      <3>3. owner'[h][place'[z].i] = z
        BY <3>2, SlotsMove DEF ArraysOK
      <3>4. <<y, z>> \in links'
        BY <2>2, <3>2, LinksMove DEF LinksOK
      <3>5. QED
        BY <3>1, <3>2, <3>3, <3>4
    <2>3. QED
      BY <2>1, <2>2, SlotsMove
  <1>3. QED
    BY <1>1, <1>2 DEF SlotsLinked

\* left is row without its word at the place at, of the first n; those behind
\* it moved up.
Without(left, row, N, n, at) ==
  /\ left \in [1..N -> Transforms \cup {None}]
  /\ \A j \in 1..N : left[j] = row[j] \/ (j + 1 \in 1..n /\ left[j] = row[j + 1])
  /\ \A j \in 1..(n - 1) : left[j] # row[at] /\ \E k \in 1..n : left[j] = row[k]
  /\ \A j, k \in 1..(n - 1) : left[j] = left[k] => j = k
  /\ \A k \in 1..n : k # at => \E j \in 1..(n - 1) : left[j] = row[k]

LEMMA RemovedRow ==
  ASSUME NEW N \in Nat, NEW row \in [1..N -> Transforms \cup {None}], NEW n \in 1..N,
         \A j, k \in 1..n : row[j] = row[k] => j = k,
         NEW at \in 1..n
  PROVE  Without(Tree!Removed(row, n, row[at]), row, N, n, at)
  <1> DEFINE x == row[at]
             left == Tree!Removed(row, n, x)
  <1>1. (CHOOSE j \in 1..n : row[j] = x) = at
    OBVIOUS
  <1>2. left = [j \in 1..N |-> IF j < at \/ j >= n THEN row[j] ELSE row[j + 1]]
    BY <1>1 DEF Tree!Removed
  <1> HIDE DEF left
  <1>3. \A j \in 1..N : left[j] = IF j < at \/ j >= n THEN row[j] ELSE row[j + 1]
    BY <1>2
  <1>4. \A j \in 1..N : ~ (j < at \/ j >= n) => j + 1 \in 1..n /\ j + 1 \in 1..N
    OBVIOUS
  <1>5. left \in [1..N -> Transforms \cup {None}]
    <2>1. \A j \in 1..N : (IF j < at \/ j >= n THEN row[j] ELSE row[j + 1]) \in Transforms \cup {None}
      BY <1>4
    <2>2. QED
      BY <1>2, <2>1
  <1>6. \A j \in 1..N : left[j] = row[j] \/ (j + 1 \in 1..n /\ left[j] = row[j + 1])
    BY <1>3, <1>4
  <1>7. \A j \in 1..(n - 1) : left[j] # x /\ \E k \in 1..n : left[j] = row[k]
    <2> SUFFICES ASSUME NEW j \in 1..(n - 1)
                 PROVE  left[j] # x /\ \E k \in 1..n : left[j] = row[k]
      OBVIOUS
    <2>1. CASE j < at
      BY <1>3, <2>1
    <2>2. CASE ~ (j < at)
      <3>1. left[j] = row[j + 1] /\ j + 1 \in 1..n /\ j + 1 # at
        BY <1>3, <2>2
      <3>2. QED
        BY <3>1
    <2>3. QED
      BY <2>1, <2>2
  <1>8. ASSUME NEW j \in 1..(n - 1), NEW k \in 1..(n - 1), left[j] = left[k]
        PROVE  j = k
    <2>1. /\ left[j] = IF j < at THEN row[j] ELSE row[j + 1]
          /\ left[k] = IF k < at THEN row[k] ELSE row[k + 1]
      BY <1>3
    <2>2. j \in 1..n /\ k \in 1..n /\ j + 1 \in 1..n /\ k + 1 \in 1..n
      OBVIOUS
    <2>3. CASE j < at /\ k < at
      BY <1>8, <2>1, <2>2, <2>3
    <2>4. CASE j < at /\ ~ (k < at)
      <3>1. row[j] = row[k + 1]
        BY <1>8, <2>1, <2>4
      <3>2. j = k + 1
        BY <2>2, <3>1
      <3>3. QED
        BY <2>4, <3>2
    <2>5. CASE ~ (j < at) /\ k < at
      <3>1. row[j + 1] = row[k]
        BY <1>8, <2>1, <2>5
      <3>2. j + 1 = k
        BY <2>2, <3>1
      <3>3. QED
        BY <2>5, <3>2
    <2>6. CASE ~ (j < at) /\ ~ (k < at)
      <3>1. row[j + 1] = row[k + 1]
        BY <1>8, <2>1, <2>6
      <3>2. j + 1 = k + 1
        BY <2>2, <3>1
      <3>3. QED
        BY <3>2
    <2>7. QED
      BY <2>3, <2>4, <2>5, <2>6
  <1>9. ASSUME NEW k \in 1..n, k # at
        PROVE  \E j \in 1..(n - 1) : left[j] = row[k]
    <2>1. CASE k < at
      <3>1. k \in 1..(n - 1) /\ left[k] = row[k]
        BY <1>3, <2>1
      <3>2. QED
        BY <3>1
    <2>2. CASE k > at
      <3>1. k - 1 \in 1..(n - 1) /\ left[k - 1] = row[k]
        BY <1>3, <2>2
      <3>2. QED
        BY <3>1
    <2>3. QED
      BY <1>9, <2>1, <2>2
  <1>10. QED
    BY <1>5, <1>6, <1>7, <1>8, <1>9 DEF left, Without

\* There is room for another child.
LEMMA RoomForChild ==
  ASSUME KidsOK, NEW x \in Transforms, NEW p \in Transforms, parent[x] # p
  PROVE  childCount[p] + 1 \in 1..Cardinality(Transforms)
  <1> DEFINE n == childCount[p]
             f == [j \in 1..n |-> kids[p][j]]
  <1>1. n \in 0..Cardinality(Transforms) /\ Cardinality(Transforms) \in Nat
    BY SizeOfTree DEF KidsOK
  <1>2. /\ \A j \in 1..n : kids[p][j] \in Transforms /\ kids[p][j] # x
        /\ \A j, k \in 1..n : kids[p][j] = kids[p][k] => j = k
    BY DEF KidsOK
  <1>3. f \in Injection(1..n, Transforms \ {x})
    BY <1>2 DEF Injection, IsInjective
  <1>4. IsFiniteSet(Transforms \ {x}) /\ Cardinality(Transforms \ {x}) = Cardinality(Transforms) - 1
    BY TreeAssumption, FS_RemoveElement
  <1>5. Cardinality(1..n) <= Cardinality(Transforms) - 1
    BY <1>3, <1>4, FS_Injection
  <1>6. Cardinality(1..n) = n
    BY <1>1, FS_Interval
  <1>7. QED
    BY <1>1, <1>5, <1>6

LEMMA KidsMove ==
  ASSUME HomesOK, KidsOK, NEW x \in Transforms, NEW p \in Transforms, Tree!SetParent(x, p)
  PROVE  /\ KidsOK'
         /\ LinksOK => \A y \in Transforms : \A j \in 1..Cardinality(Transforms) :
              \/ kids'[y][j] = kids[y][j]
              \/ kids'[y][j] \in Transforms /\ <<kids'[y][j], y>> \in links'
  <1> DEFINE N   == Cardinality(Transforms)
             old == parent[x]
             W   == [1..N -> Transforms \cup {None}]
             n   == childCount[old]
             gone == Tree!Removed(kids[old], n, x)
             more == [kids[p] EXCEPT ![childCount[p] + 1] = x]
  <1>1. /\ N \in Nat /\ kids \in [Transforms -> W] /\ childCount \in [Transforms -> 0..N]
        /\ \A y \in Transforms : \A j \in 1..childCount[y] : kids[y][j] \in Transforms /\ parent[kids[y][j]] = y
        /\ \A y \in Transforms : \A j, k \in 1..childCount[y] : kids[y][j] = kids[y][k] => j = k
        /\ \A y \in Transforms : parent[y] # None => \E j \in 1..childCount[parent[y]] : kids[parent[y]][j] = y
    BY SizeOfTree DEF KidsOK
  <1>2. old \in Transforms \cup {None} /\ old # p /\ None \notin Transforms
    BY TreeNumbers DEF HomesOK, Tree!SetParent
  <1>3. \A y \in Transforms : parent'[y] = IF y = x THEN p ELSE parent[y]
    BY DEF HomesOK, Tree!SetParent
  <1>4. childCount[p] + 1 \in 1..N
    BY <1>2, RoomForChild
  <1>5. /\ kids' \in [Transforms -> W] /\ childCount' \in [Transforms -> 0..N]
        /\ \A y \in Transforms : y # old /\ y # p => kids'[y] = kids[y] /\ childCount'[y] = childCount[y]
        /\ kids'[p] = more /\ childCount'[p] = childCount[p] + 1
        /\ old # None => kids'[old] = gone /\ childCount'[old] = n - 1
    <2>1. old # None => n \in 1..N /\ gone \in W
      <3> SUFFICES ASSUME old # None
                   PROVE  n \in 1..N /\ gone \in W
        OBVIOUS
      <3>1. PICK at \in 1..n : kids[old][at] = x
        BY <1>1
      <3>2. n \in 1..N /\ kids[old] \in W /\ \A j, k \in 1..n : kids[old][j] = kids[old][k] => j = k
        BY <1>1, <1>2, <3>1
      <3>3. QED
        <4>1. Without(Tree!Removed(kids[old], n, kids[old][at]), kids[old], N, n, at)
          BY <3>2, SizeOfTree, RemovedRow
        <4>2. QED
          BY <3>1, <3>2, <4>1 DEF Without
    <2> DEFINE less == IF old = None THEN kids ELSE [kids EXCEPT ![old] = gone]
    <2>2. kids' = [less EXCEPT ![p] = [@ EXCEPT ![childCount[p] + 1] = x]]
      BY DEF Tree!SetParent
    <2>3. childCount' = [y \in Transforms |-> IF y = old THEN childCount[y] - 1
                                              ELSE IF y = p THEN childCount[y] + 1 ELSE childCount[y]]
      BY DEF Tree!SetParent
    <2> HIDE DEF gone, n, old
    <2>4. less \in [Transforms -> W] /\ less[p] = kids[p] /\ (old # None => less[old] = gone)
          /\ \A y \in Transforms : y # old => less[y] = kids[y]
      BY <1>1, <1>2, <2>1
    <2> HIDE DEF less
    <2>5. more \in W
      BY <1>1, <1>4
    <2>6. kids' = [less EXCEPT ![p] = more]
      BY <2>2, <2>4
    <2> HIDE DEF more
    <2>7. /\ kids' \in [Transforms -> W]
          /\ \A y \in Transforms : y # old /\ y # p => kids'[y] = kids[y]
          /\ kids'[p] = more
          /\ old # None => kids'[old] = gone
      BY <1>2, <2>4, <2>5, <2>6
    <2>8. \A y \in Transforms : (IF y = old THEN childCount[y] - 1
                                 ELSE IF y = p THEN childCount[y] + 1 ELSE childCount[y]) \in 0..N
      BY <1>1, <1>2, <1>4, <2>1 DEF n
    <2>9. QED
      BY <1>2, <2>3, <2>7, <2>8 DEF n
  <1>6. old # None => \E at \in 1..n : n \in 1..N /\ kids[old][at] = x /\ Without(gone, kids[old], N, n, at)
    <2>1. SUFFICES ASSUME old # None
                   PROVE  \E at \in 1..n : n \in 1..N /\ kids[old][at] = x /\ Without(gone, kids[old], N, n, at)
      OBVIOUS
    <2>2. PICK at \in 1..n : kids[old][at] = x
      BY <1>1, <2>1
    <2>3. n \in 1..N /\ kids[old] \in W /\ \A j, k \in 1..n : kids[old][j] = kids[old][k] => j = k
      BY <1>1, <1>2, <2>1, <2>2
    <2>4. Without(Tree!Removed(kids[old], n, kids[old][at]), kids[old], N, n, at)
      BY <2>3, SizeOfTree, RemovedRow
    <2>5. QED
      BY <2>2, <2>3, <2>4
  <1>7. \A j \in 1..N : more[j] = IF j = childCount[p] + 1 THEN x ELSE kids[p][j]
    BY <1>1, <1>4
  <1> HIDE DEF gone, more, n, N, W
  <1>8. ASSUME NEW y \in Transforms, NEW j \in 1..childCount'[y]
        PROVE  kids'[y][j] \in Transforms /\ parent'[kids'[y][j]] = y
    <2>1. CASE y # old /\ y # p
      <3>1. kids'[y][j] = kids[y][j] /\ kids[y][j] \in Transforms /\ parent[kids[y][j]] = y
        BY <1>1, <1>5, <1>8, <2>1
      <3>2. QED
        BY <1>3, <2>1, <3>1
    <2>2. CASE y = p
      <3>1. j \in 1..(childCount[p] + 1) /\ j \in 1..N /\ kids'[y][j] = more[j]
        BY <1>1, <1>4, <1>5, <1>8, <2>2 DEF N
      <3>2. CASE j = childCount[p] + 1
        BY <1>3, <1>7, <2>2, <3>1, <3>2
      <3>3. CASE j # childCount[p] + 1
        <4>1. j \in 1..childCount[p] /\ kids'[y][j] = kids[p][j]
          BY <1>1, <1>7, <3>1, <3>3
        <4>2. kids[p][j] \in Transforms /\ parent[kids[p][j]] = p
          BY <1>1, <4>1
        <4>3. QED
          BY <1>2, <1>3, <2>2, <4>1, <4>2
      <3>4. QED
        BY <3>2, <3>3
    <2>3. CASE y = old
      <3>1. y # None /\ j \in 1..(n - 1) /\ kids'[y][j] = gone[j]
        BY <1>2, <1>5, <1>8, <2>3
      <3>2. PICK k \in 1..n : gone[j] = kids[old][k] /\ gone[j] # x
        BY <1>6, <2>3, <3>1 DEF Without
      <3>3. kids[old][k] \in Transforms /\ parent[kids[old][k]] = old
        BY <1>1, <2>3, <3>2 DEF n
      <3>4. QED
        BY <1>3, <2>3, <3>1, <3>2, <3>3
    <2>4. QED
      BY <2>1, <2>2, <2>3
  <1>9. ASSUME NEW y \in Transforms, NEW j \in 1..childCount'[y], NEW k \in 1..childCount'[y],
               kids'[y][j] = kids'[y][k]
        PROVE  j = k
    <2>1. CASE y # old /\ y # p
      BY <1>1, <1>5, <1>9, <2>1
    <2>2. CASE y = p
      <3>1. /\ j \in 1..(childCount[p] + 1) /\ k \in 1..(childCount[p] + 1) /\ childCount[p] \in Nat
            /\ j \in 1..N /\ k \in 1..N /\ kids'[y][j] = more[j] /\ kids'[y][k] = more[k]
        BY <1>1, <1>4, <1>5, <1>9, <2>2 DEF N
      <3>2. \A m \in 1..childCount[p] : kids[p][m] # x
        BY <1>1, <1>2
      <3>6. /\ (IF j = childCount[p] + 1 THEN x ELSE kids[p][j])
                  = IF k = childCount[p] + 1 THEN x ELSE kids[p][k]
            /\ j = childCount[p] + 1 \/ j \in 1..childCount[p]
            /\ k = childCount[p] + 1 \/ k \in 1..childCount[p]
        <4>1. more[j] = more[k]
          BY <1>9, <3>1
        <4>2. /\ more[j] = IF j = childCount[p] + 1 THEN x ELSE kids[p][j]
              /\ more[k] = IF k = childCount[p] + 1 THEN x ELSE kids[p][k]
          BY <1>7, <3>1
        <4>3. /\ j = childCount[p] + 1 \/ j \in 1..childCount[p]
              /\ k = childCount[p] + 1 \/ k \in 1..childCount[p]
          BY <3>1
        <4>4. QED
          BY <4>1, <4>2, <4>3
      <3>3. CASE j = childCount[p] + 1 \/ k = childCount[p] + 1
        BY <3>2, <3>3, <3>6
      <3>4. CASE j # childCount[p] + 1 /\ k # childCount[p] + 1
        <4>1. j \in 1..childCount[p] /\ k \in 1..childCount[p] /\ kids[p][j] = kids[p][k]
          BY <3>4, <3>6
        <4>2. QED
          BY <1>1, <4>1
      <3>5. QED
        BY <3>3, <3>4
    <2>3. CASE y = old
      <3>1. /\ y # None /\ j \in 1..(n - 1) /\ k \in 1..(n - 1)
            /\ kids'[y][j] = gone[j] /\ kids'[y][k] = gone[k]
        BY <1>2, <1>5, <1>9, <2>3
      <3>2. QED
        BY <1>6, <1>9, <2>3, <3>1 DEF Without
    <2>4. QED
      BY <2>1, <2>2, <2>3
  <1>10. ASSUME NEW y \in Transforms, parent'[y] # None
         PROVE  \E j \in 1..childCount'[parent'[y]] : kids'[parent'[y]][j] = y
    <2>1. CASE y = x
      <3>1. parent'[y] = p /\ kids'[p] = more /\ childCount'[p] = childCount[p] + 1
        BY <1>3, <1>5, <2>1
      <3>2. more[childCount[p] + 1] = x /\ childCount[p] + 1 \in 1..(childCount[p] + 1)
        BY <1>1, <1>4, <1>7 DEF N
      <3>3. QED
        BY <2>1, <3>1, <3>2
    <2>2. CASE y # x
      <3> DEFINE z == parent[y]
      <3>1. parent'[y] = z /\ z # None /\ z \in Transforms
        BY <1>3, <1>10, <2>2 DEF HomesOK
      <3>2. PICK k \in 1..childCount[z] : kids[z][k] = y
        BY <1>1, <3>1
      <3> HIDE DEF z
      <3>3. CASE z # old /\ z # p
        BY <1>5, <3>1, <3>2, <3>3
      <3>4. CASE z = p
        <4>1. k \in 1..(childCount[p] + 1) /\ k \in 1..N /\ k # childCount[p] + 1 /\ childCount[p] \in Nat
          BY <1>1, <1>4, <3>2, <3>4 DEF N
        <4>2. kids'[z][k] = y /\ k \in 1..childCount'[z]
          BY <1>5, <1>7, <3>2, <3>4, <4>1
        <4>3. QED
          BY <3>1, <4>2
      <3>5. CASE z = old
        <4>1. PICK at \in 1..n : kids[old][at] = x /\ \A m \in 1..n : m # at => \E j \in 1..(n - 1) : gone[j] = kids[old][m]
          BY <1>6, <3>1, <3>5 DEF Without
        <4>2. k \in 1..n /\ k # at
          BY <2>2, <3>2, <3>5, <4>1 DEF n
        <4>3. PICK j \in 1..(n - 1) : gone[j] = kids[old][k]
          BY <4>1, <4>2
        <4>4. QED
          BY <1>5, <3>1, <3>2, <3>5, <4>3
      <3>6. QED
        BY <3>3, <3>4, <3>5
    <2>3. QED
      BY <2>1, <2>2
  <1>11. KidsOK'
    BY <1>5, <1>8, <1>9, <1>10 DEF KidsOK, N, W
  <1>12. ASSUME LinksOK, NEW y \in Transforms, NEW j \in 1..N
         PROVE  \/ kids'[y][j] = kids[y][j]
                \/ kids'[y][j] \in Transforms /\ <<kids'[y][j], y>> \in links'
    <2>1. links \subseteq links' /\ \A z \in Transforms : parent'[z] # None => <<z, parent'[z]>> \in links'
      BY DEF Tree!SetParent, Tree!LinksOf
    <2>2. CASE y # old /\ y # p
      BY <1>5, <2>2
    <2>3. CASE y = p
      <3>1. kids'[y][j] = IF j = childCount[p] + 1 THEN x ELSE kids[p][j]
        BY <1>5, <1>7, <2>3
      <3>2. <<x, p>> \in links'
        BY <1>2, <1>3, <2>1
      <3>3. QED
        BY <2>3, <3>1, <3>2
    <2>4. CASE y = old
      <3>1. y # None /\ kids'[y][j] = gone[j]
        BY <1>2, <1>5, <2>4
      <3>2. gone[j] = kids[old][j] \/ (j + 1 \in 1..n /\ gone[j] = kids[old][j + 1])
        BY <1>6, <2>4, <3>1 DEF Without
      <3>3. CASE j + 1 \in 1..n /\ gone[j] = kids[old][j + 1]
        <4>1. kids[old][j + 1] \in Transforms /\ parent[kids[old][j + 1]] = old
          BY <1>1, <2>4, <3>3 DEF n
        <4>2. <<kids[old][j + 1], old>> \in links
          BY <1>12, <2>4, <3>1, <4>1 DEF LinksOK
        <4>3. QED
          BY <2>1, <2>4, <3>1, <3>3, <4>1, <4>2
      <3>4. QED
        BY <2>4, <3>1, <3>2, <3>3
    <2>5. QED
      BY <2>2, <2>3, <2>4
  <1>13. QED
    BY <1>11, <1>12 DEF N

LEMMA NumbersMove ==
  ASSUME HomesOK, KidsOK, NumbersOK, NEW x \in Transforms, NEW p \in Transforms, Tree!SetParent(x, p)
  PROVE  NumbersOK'
  <1> DEFINE old == parent[x]
  <1>1. old \in Transforms \cup {None} /\ None \notin Transforms /\ old # p
    BY TreeNumbers DEF HomesOK, Tree!SetParent
  <1>2. childCount \in [Transforms -> 0..Cardinality(Transforms)] /\ Cardinality(Transforms) \in Nat
    BY SizeOfTree DEF KidsOK
  <1>3. childCount' = [y \in Transforms |-> IF y = old THEN childCount[y] - 1
                                             ELSE IF y = p THEN childCount[y] + 1 ELSE childCount[y]]
    BY DEF Tree!SetParent
  <1>4. PICK new \in {array[p], array[p] + 1} \ {0} : array' = [array EXCEPT ![p] = new]
    BY DEF Tree!SetParent
  <1>5. old # None => childCount[old] # 0
    BY <1>1, <1>2 DEF KidsOK
  <1> HIDE DEF old
  <1>6. array \in [Transforms -> Nat] /\ \A y \in Transforms : array[y] = 0 => childCount[y] = 0
    BY DEF NumbersOK
  <1>7. new \in Nat \ {0}
    BY <1>4, <1>6
  <1>8. array' \in [Transforms -> Nat]
    BY <1>4, <1>6, <1>7
  <1>9. ASSUME NEW y \in Transforms, array'[y] = 0 PROVE childCount'[y] = 0
    <2>1. y # p /\ array[y] = 0
      BY <1>4, <1>6, <1>7, <1>9
    <2>2. y # old
      BY <1>1, <1>5, <1>6, <2>1
    <2>3. QED
      BY <1>3, <1>6, <2>1, <2>2
  <1>10. QED
    BY <1>8, <1>9 DEF NumbersOK

LEMMA TargetMoves ==
  ASSUME TargetInv, NEW x \in Transforms, NEW p \in Transforms, Tree!SetParent(x, p)
  PROVE  TargetInv'
  <1>1. HomesOK'
    BY HomesMove DEF TargetInv, Tree!SetParent
  <1>2. ArraysOK' /\ SlotsLinked'
    BY <1>1, SlotsMove, SlotsStayLinked
  <1>3. KidsOK'
    BY KidsMove DEF TargetInv
  <1>4. LinksOK'
    BY LinksMove
  <1>5. moves' \in Nat /\ moves' # 0 /\ reused' \in BOOLEAN
    BY DEF Tree!SetParent, TargetInv, HistoryOK
  <1>6. StandsStill' /\ HistoryOK'
    BY <1>5 DEF StandsStill, HistoryOK
  <1>7. NumbersOK'
    BY NumbersMove DEF TargetInv
  <1>8. QED
    BY <1>1, <1>2, <1>3, <1>4, <1>6, <1>7 DEF TargetInv

LEMMA TargetStays ==
  ASSUME TargetInv, Tree!Target
  PROVE  TargetInv'
  BY DEF TargetInv, Tree!Target, Tree!tree, HomesOK, ArraysOK, KidsOK, NumbersOK, LinksOK, SlotsLinked,
         StandsStill, HistoryOK

(***************************************************************************)
(* The walk to the root.  If Start's slot was that of the hierarchy read,  *)
(* and as long as no slot gets another owner, the slot it will read is     *)
(* that of somebody the last transform of the path has had for a parent.   *)
(***************************************************************************)
Undisturbed == ~ torn /\ ~ reused

WalkSteps == {"state", "nodeData", "parentIndices", "index", "node", "parent",
              "bone", "children", "count", "child", "done", "failed"}

PathInv ==
  /\ step \in WalkSteps
  /\ acc \in Seq(Transforms \cup {None})
  /\ step \notin {"node", "parent", "done", "failed"} => acc = <<>>
  /\ step \in {"state", "nodeData", "parentIndices", "index"} => ~ torn
  /\ step \in {"nodeData", "parentIndices", "index"} =>
       state \in Hierarchies /\ (moves = 0 => state = place[Start].h)
  /\ step \in {"node", "parent"} =>
       state \in Hierarchies /\ index \in 1..Slots /\ (moves = 0 => ~ torn)
  /\ step = "node" =>
       /\ Len(acc) <= MaxDepth
       /\ Undisturbed =>
            /\ owner[state][index] # None
            /\ IF acc = <<>> THEN owner[state][index] = Start
                             ELSE <<acc[Len(acc)], owner[state][index]>> \in links
  /\ step = "parent" =>
       /\ acc # <<>> /\ Len(acc) <= MaxDepth + 1
       /\ Undisturbed => owner[state][index] # None /\ acc[Len(acc)] = owner[state][index]
  /\ Tree!PathWasLinked
  /\ Tree!PathIsWhole

LEMMA PathAtFirst ==
  ASSUME Tree!Init
  PROVE  PathInv
  BY DEF Tree!Init, PathInv, WalkSteps, Tree!PathWasLinked, Tree!PathIsWhole

LEMMA ReadStateKeeps ==
  ASSUME TargetInv, PathInv, Tree!ReadState
  PROVE  PathInv'
  <1>1. /\ acc = <<>> /\ acc' = acc /\ step' = "nodeData" /\ state' = place[Start].h /\ place' = place
        /\ UNCHANGED <<torn, reused, moves, parent, links>> /\ ~ torn
    BY DEF Tree!ReadState, Tree!Target, Tree!NothingLost, Tree!tree, PathInv
  <1>2. state' \in Hierarchies
    BY <1>1, PlaceIs, TreeNumbers DEF TargetInv, HomesOK
  <1>3. QED
    BY <1>1, <1>2 DEF PathInv, WalkSteps, Tree!PathWasLinked, Tree!PathIsWhole

LEMMA ReadArraysKeeps ==
  ASSUME PathInv, Tree!ReadArrays
  PROVE  PathInv'
  <1>1. /\ step \in {"nodeData", "parentIndices"} /\ step' \in {"parentIndices", "index"}
        /\ UNCHANGED <<acc, state, place, torn, reused, moves, parent, links>>
    BY DEF Tree!ReadArrays, Tree!Target, Tree!NothingLost, Tree!tree, Tree!posLocals
  <1>2. acc = <<>> /\ state \in Hierarchies /\ (moves = 0 => state = place[Start].h)
    BY <1>1 DEF PathInv
  <1>3. QED
    BY <1>1, <1>2 DEF PathInv, WalkSteps, Tree!PathWasLinked, Tree!PathIsWhole

LEMMA PositionUnreadKeeps ==
  ASSUME PathInv, Tree!PositionUnread
  PROVE  PathInv'
  <1>1. step' = "failed" /\ UNCHANGED <<acc, torn, reused, moves, parent, links>>
    BY DEF Tree!PositionUnread, Tree!Target, Tree!NothingLost, Tree!tree, Tree!posLocals
  <1>2. QED
    BY <1>1 DEF PathInv, WalkSteps, Tree!PathWasLinked, Tree!PathIsWhole

LEMMA ReadIndexKeeps ==
  ASSUME TargetInv, PathInv, Tree!ReadIndex
  PROVE  PathInv'
  <1>1. /\ acc = <<>> /\ acc' = acc /\ step' = "node" /\ state' = state /\ index' = place[Start].i
        /\ state \in Hierarchies /\ (moves = 0 => state = place[Start].h)
        /\ torn' = (place[Start].h # state)
        /\ UNCHANGED <<reused, moves, parent, links, owner, place>>
    BY DEF Tree!ReadIndex, Tree!SlotOfStart, Tree!Target, Tree!tree, PathInv
  <1>2. index' \in 1..Slots
    BY <1>1, PlaceIs, TreeNumbers DEF TargetInv, HomesOK
  <1>3. ~ torn' => owner[state][index'] = Start
    BY <1>1, TreeNumbers DEF TargetInv, ArraysOK
  <1>4. Len(acc') = 0 /\ Start # None /\ MaxDepth \in Nat
    BY <1>1, TreeNumbers
  <1>5. moves' = 0 => ~ torn'
    BY <1>1
  <1>6. Undisturbed' => owner'[state'][index'] # None /\ owner'[state'][index'] = Start
    BY <1>1, <1>3, <1>4 DEF Undisturbed
  <1>7. Tree!PathWasLinked' /\ Tree!PathIsWhole'
    BY <1>1 DEF Tree!PathWasLinked, Tree!PathIsWhole
  <1>8. acc' \in Seq(Transforms \cup {None}) /\ acc' = <<>> /\ Len(acc') <= MaxDepth
    BY <1>1, <1>4 DEF PathInv
  <1>9. QED
    BY <1>1, <1>2, <1>5, <1>6, <1>7, <1>8 DEF PathInv, WalkSteps

LEMMA ReadNodeKeeps ==
  ASSUME TargetInv, PathInv, Tree!ReadNode
  PROVE  PathInv'
  <1> DEFINE o == owner[state][index]
             n == Len(acc)
  <1>1. /\ step = "node" /\ acc' = Append(acc, o) /\ step' = "parent"
        /\ UNCHANGED <<state, index, torn, reused, moves, parent, links, owner, place>>
    BY DEF Tree!ReadNode, Tree!Target, Tree!NothingLost, Tree!tree
  <1>2. /\ acc \in Seq(Transforms \cup {None}) /\ n \in Nat /\ n <= MaxDepth
        /\ (moves = 0 => ~ torn)
        /\ state \in Hierarchies /\ index \in 1..Slots
        /\ Undisturbed =>
            /\ o # None
            /\ IF acc = <<>> THEN o = Start ELSE <<acc[n], o>> \in links
        /\ Tree!PathWasLinked
    BY <1>1 DEF PathInv
  <1>3. o \in Transforms \cup {None}
    BY <1>2 DEF TargetInv, ArraysOK
  <1> HIDE DEF o
  <1>4. /\ acc' \in Seq(Transforms \cup {None}) /\ Len(acc') = n + 1 /\ acc'[n + 1] = o
        /\ \A k \in 1..n : acc'[k] = acc[k]
    BY <1>1, <1>2, <1>3
  <1>5. ASSUME Undisturbed'
        PROVE  /\ acc'[1] = Start
               /\ \A k \in 1..(Len(acc') - 1) : <<acc'[k], acc'[k + 1]>> \in links'
    <2>1. Undisturbed /\ links' = links
      BY <1>1, <1>5 DEF Undisturbed
    <2>2. CASE acc = <<>>
      <3>1. n = 0 /\ o = Start
        BY <1>2, <2>1, <2>2
      <3>2. QED
        BY <1>4, <3>1
    <2>3. CASE acc # <<>>
      <3>1. n \in Nat \ {0} /\ acc[1] = Start /\ \A k \in 1..(n - 1) : <<acc[k], acc[k + 1]>> \in links
        BY <1>2, <2>1, <2>3, EmptySeq DEF Tree!PathWasLinked, Undisturbed
      <3>2. ASSUME NEW k \in 1..(Len(acc') - 1)
            PROVE  <<acc'[k], acc'[k + 1]>> \in links'
        <4>1. CASE k = n
          BY <1>2, <1>4, <2>1, <2>3, <4>1
        <4>2. CASE k # n
          <5>1. k \in 1..(n - 1) /\ k \in 1..n /\ k + 1 \in 1..n
            BY <1>4, <3>1, <4>2
          <5>2. QED
            BY <1>4, <2>1, <3>1, <5>1
        <4>3. QED
          BY <4>1, <4>2
      <3>3. QED
        BY <1>4, <3>1, <3>2
    <2>4. QED
      BY <2>2, <2>3
  <1>6. Tree!PathWasLinked'
    BY <1>5 DEF Tree!PathWasLinked, Undisturbed
  <1>7. Tree!PathIsWhole'
    BY <1>1 DEF Tree!PathIsWhole
  <1>8. acc' # <<>> /\ Len(acc') <= MaxDepth + 1
    BY <1>2, <1>4, TreeNumbers
  <1>9. Undisturbed' => owner'[state'][index'] # None /\ acc'[Len(acc')] = owner'[state'][index']
    BY <1>1, <1>2, <1>4 DEF Undisturbed, o
  <1>10. QED
    BY <1>1, <1>2, <1>4, <1>6, <1>7, <1>8, <1>9 DEF PathInv, WalkSteps

LEMMA ReadParentKeeps ==
  ASSUME TargetInv, PathInv, Tree!ReadParent
  PROVE  PathInv'
  <1> DEFINE o == owner[state][index]
             q == parents[state][index]
  <1>1. /\ step = "parent" /\ acc' = acc /\ index' = q /\ state' = state
        /\ step' = IF q > 0 /\ Len(acc) - 1 < MaxDepth THEN "node" ELSE "done"
        /\ UNCHANGED <<torn, reused, moves, parent, links, owner, place>>
    BY DEF Tree!ReadParent, Tree!GoesUp, Tree!Target, Tree!NothingLost, Tree!tree
  <1>2. /\ acc \in Seq(Transforms \cup {None}) /\ acc # <<>> /\ Len(acc) \in Nat /\ Len(acc) <= MaxDepth + 1
        /\ state \in Hierarchies /\ index \in 1..Slots /\ (moves = 0 => ~ torn)
        /\ Undisturbed => o # None /\ acc[Len(acc)] = o
        /\ Tree!PathWasLinked
    BY <1>1 DEF PathInv
  <1>3. q \in 0..Slots /\ o \in Transforms \cup {None}
    BY <1>2 DEF TargetInv, ArraysOK
  <1>4. Undisturbed /\ q # 0 => owner[state][q] # None /\ <<o, owner[state][q]>> \in links
    BY <1>2 DEF TargetInv, SlotsLinked, Undisturbed
  <1>5. moves = 0 /\ q = 0 => parent[o] = None
    <2>1. SUFFICES ASSUME moves = 0, q = 0
                   PROVE  parent[o] = None
      OBVIOUS
    <2>2. Undisturbed /\ o \in Transforms
      BY <1>2, <1>3, <2>1 DEF TargetInv, StandsStill, Undisturbed
    <2>3. place[o].h = state /\ place[o].i = index
      <3>1. place[o] = [h |-> state, i |-> index]
        BY <1>2, <2>1, <2>2, TreeNumbers DEF TargetInv, StandsStill
      <3>2. QED
        BY <3>1
    <2>4. q = IF parent[o] = None THEN 0 ELSE place[parent[o]].i
      BY <2>2, <2>3 DEF TargetInv, ArraysOK
    <2>5. parent[o] # None => place[parent[o]].i \in 1..Slots
      BY <2>2, PlaceIs DEF TargetInv, HomesOK
    <2>6. QED
      BY <2>1, <2>4, <2>5
  <1> HIDE DEF o, q
  <1>6. Tree!PathWasLinked'
    BY <1>1, <1>2 DEF Tree!PathWasLinked
  <1>7. Tree!PathIsWhole'
    <2>1. SUFFICES ASSUME step' = "done", moves = 0
                   PROVE  /\ Len(acc) <= MaxDepth => parent[acc[Len(acc)]] = None
                          /\ ~ Len(acc) <= MaxDepth => Len(acc) = MaxDepth + 1
      BY <1>1 DEF Tree!PathIsWhole
    <2>2. q = 0 \/ Len(acc) = MaxDepth + 1
      BY <1>1, <1>2, <1>3, <2>1, TreeNumbers
    <2>3. acc[Len(acc)] = o
      BY <1>2, <2>1 DEF TargetInv, StandsStill, Undisturbed
    <2>4. QED
      BY <1>2, <1>5, <2>1, <2>2, <2>3, TreeNumbers
  <1>8. CASE step' = "node"
    <2>1. q # 0 /\ q \in 1..Slots /\ Len(acc) <= MaxDepth
      BY <1>1, <1>2, <1>3, <1>8, TreeNumbers
    <2>2. Undisturbed' => owner'[state'][index'] # None /\ <<acc'[Len(acc')], owner'[state'][index']>> \in links'
      BY <1>1, <1>2, <1>4, <2>1 DEF Undisturbed
    <2>3. QED
      BY <1>1, <1>2, <1>6, <1>7, <1>8, <2>1, <2>2 DEF PathInv, WalkSteps
  <1>9. CASE step' = "done"
    BY <1>1, <1>2, <1>6, <1>7, <1>9 DEF PathInv, WalkSteps
  <1>10. QED
    BY <1>1, <1>8, <1>9

BoneStep ==
  \/ Tree!VisitBone \/ Tree!ReadChildren \/ Tree!ReadCount \/ Tree!ChildrenUnread
  \/ Tree!ReadChild \/ Tree!ChildUnread \/ Tree!ChildrenDone \/ Tree!BonesDone

LEMMA BoneStepKeepsPath ==
  ASSUME PathInv, BoneStep
  PROVE  PathInv'
  <1>1. acc = <<>> /\ acc' = acc /\ step' \in {"bone", "children", "count", "child", "done"}
    BY DEF PathInv, BoneStep, Tree!VisitBone, Tree!ReadChildren, Tree!ReadCount, Tree!ChildrenUnread,
           Tree!ReadChild, Tree!ChildUnread, Tree!ChildrenDone, Tree!BonesDone, Tree!EndOfTurn, Tree!posLocals
  <1>2. QED
    BY <1>1 DEF PathInv, WalkSteps, Tree!PathWasLinked, Tree!PathIsWhole

LEMMA SetParentKeepsPath ==
  ASSUME TargetInv, PathInv, NEW x \in Transforms, NEW p \in Transforms, Tree!SetParent(x, p)
  PROVE  PathInv'
  <1>1. UNCHANGED <<step, state, index, acc, torn>> /\ moves' # 0
    BY DEF Tree!SetParent, Tree!NothingLost, Tree!posLocals, TargetInv, HistoryOK
  <1>2. links \subseteq links'
    BY LinksMove
  <1>4. Undisturbed' => Undisturbed /\ \A h \in Hierarchies, s \in 1..Slots :
                                         owner[h][s] # None => owner'[h][s] = owner[h][s]
    BY <1>1 DEF Undisturbed, Tree!SetParent
  <1>5. Tree!PathIsWhole'
    BY <1>1 DEF Tree!PathIsWhole
  <1>6. Tree!PathWasLinked'
    BY <1>1, <1>2, <1>4 DEF PathInv, Tree!PathWasLinked, Undisturbed
  <1>7. QED
    BY <1>1, <1>2, <1>4, <1>5, <1>6 DEF PathInv

LEMMA PathKept ==
  ASSUME TargetInv, PathInv, Tree!Next
  PROVE  PathInv'
  <1>1. CASE Tree!Walk
    BY <1>1, ReadStateKeeps, ReadArraysKeeps, ReadIndexKeeps, ReadNodeKeeps, ReadParentKeeps,
       PositionUnreadKeeps, BoneStepKeepsPath DEF Tree!Walk, BoneStep
  <1>2. CASE \E x, p \in Transforms : Tree!SetParent(x, p)
    BY <1>2, SetParentKeepsPath
  <1>3. QED
    BY <1>1, <1>2 DEF Tree!Next

LEMMA TargetKept ==
  ASSUME TargetInv, Tree!Next
  PROVE  TargetInv'
  <1>1. CASE Tree!Walk
    <2>1. Tree!Target
      BY <1>1 DEF Tree!Walk, Tree!ReadState, Tree!ReadArrays, Tree!ReadIndex, Tree!ReadNode, Tree!ReadParent,
                  Tree!PositionUnread, Tree!VisitBone, Tree!ReadChildren, Tree!ReadCount, Tree!ChildrenUnread,
                  Tree!ReadChild, Tree!ChildUnread, Tree!ChildrenDone, Tree!BonesDone
    <2>2. QED
      BY <2>1, TargetStays
  <1>2. CASE \E x, p \in Transforms : Tree!SetParent(x, p)
    BY <1>2, TargetMoves
  <1>3. QED
    BY <1>1, <1>2 DEF Tree!Next

(***************************************************************************)
(* The walk to all below.                                                  *)
(*                                                                         *)
(* A bone is visited once; who is on the stack is Start, or was a child of *)
(* a visited one, and so are the words still to be read, whether they are  *)
(* children now or lie behind the end of an array that has shrunk.         *)
(***************************************************************************)
Entries == [at : Transforms, depth : Nat]

\* y is Start or has had a visited parent during the call.
WasBelow(y) == y = Start \/ \E z \in visited : <<y, z>> \in links

BoneInv ==
  /\ step \in WalkSteps
  /\ stack \in Seq(Entries)
  /\ visited \subseteq Transforms
  /\ bones \in Seq(visited)
  /\ \A j, k \in 1..Len(bones) : bones[j] = bones[k] => j = k
  /\ ~ torn => \A y \in visited : WasBelow(y)
  /\ ~ torn => \A j \in 1..Len(stack) : WasBelow(stack[j].at)
  /\ step \in {"children", "count", "child"} => entry \in Entries /\ entry.at \in visited
  /\ step \in {"bone", "children", "count"} => turn = 0
  /\ step = "child" =>
       /\ turn \in Nat /\ childrenCount \in 0..Cardinality(Transforms)
       /\ \A j \in 1..childrenCount :
            kids[entry.at][j] \in Transforms /\ <<kids[entry.at][j], entry.at>> \in links

LEMMA BoneAtFirst ==
  ASSUME Tree!Init
  PROVE  BoneInv
  <1>1. stack = <<>> \/ stack = <<[at |-> Start, depth |-> 0]>>
    BY DEF Tree!Init
  <1>2. [at |-> Start, depth |-> 0] \in Entries
    BY TreeNumbers DEF Entries
  <1>3. stack \in Seq(Entries) /\ \A j \in 1..Len(stack) : stack[j].at = Start
    <2>1. CASE stack = <<>>
      BY <2>1
    <2>2. CASE stack = <<[at |-> Start, depth |-> 0]>>
      <3>1. Len(stack) = 1 /\ stack[1] = [at |-> Start, depth |-> 0]
        BY <2>2
      <3>2. \A j \in 1..Len(stack) : j = 1
        BY <3>1
      <3>3. stack[1].at = Start
        BY <3>1
      <3>4. QED
        BY <1>2, <2>2, <3>2, <3>3
    <2>3. QED
      BY <1>1, <2>1, <2>2
  <1>4. step \in {"state", "bone"} /\ visited = {} /\ bones = <<>> /\ turn = 0
    BY DEF Tree!Init
  <1>5. QED
    BY <1>3, <1>4 DEF BoneInv, WalkSteps, WasBelow

\* What leaves bones, stack and visited alone, and is not about a bone.
LEMMA PathStepKeepsBones ==
  ASSUME BoneInv, Tree!Target, UNCHANGED <<stack, visited, bones>>, ~ torn' => ~ torn,
         step' \in WalkSteps \ {"children", "count", "child"}, step' = "bone" => turn' = 0
  PROVE  BoneInv'
  BY DEF BoneInv, WasBelow, Tree!Target

\* The top of the stack is taken off.
LEMMA PoppedStack ==
  ASSUME stack \in Seq(Entries), stack # <<>>
  PROVE  LET rest == SubSeq(stack, 1, Len(stack) - 1)
         IN  /\ rest \in Seq(Entries) /\ Len(stack) \in Nat \ {0} /\ Len(rest) = Len(stack) - 1
             /\ \A j \in 1..Len(rest) : j \in 1..Len(stack) /\ rest[j] = stack[j]
             /\ stack[Len(stack)] \in Entries
  <1> DEFINE n == Len(stack)
             rest == SubSeq(stack, 1, n - 1)
  <1>1. n \in Nat \ {0}
    BY EmptySeq
  <1>2. \A j \in 1..n : stack[j] \in Entries
    OBVIOUS
  <1>3. \A j \in 1..(n - 1) : j \in 1..n /\ stack[j] \in Entries
    BY <1>1, <1>2
  <1>4. /\ rest \in Seq(Entries)
        /\ Len(rest) = IF 1 <= n - 1 THEN n - 1 - 1 + 1 ELSE 0
        /\ \A j \in 1..(n - 1 - 1 + 1) : rest[j] = stack[1 + j - 1]
    BY <1>1, <1>3, SubSeqProperties
  <1> HIDE DEF rest, n
  <1>5. Len(rest) = n - 1 /\ \A j \in 1..(n - 1) : rest[j] = stack[j]
    BY <1>1, <1>4
  <1>6. n \in 1..n
    BY <1>1
  <1>7. QED
    BY <1>1, <1>2, <1>3, <1>4, <1>5, <1>6 DEF rest, n

LEMMA VisitBoneKeeps ==
  ASSUME BoneInv, Tree!VisitBone
  PROVE  BoneInv'
  <1> DEFINE rest == SubSeq(stack, 1, Len(stack) - 1)
             e == stack[Len(stack)]
  <1>1. /\ step = "bone" /\ stack # <<>> /\ stack' = rest /\ UNCHANGED <<links, kids, torn, turn>>
    BY DEF Tree!VisitBone, Tree!Target, Tree!NothingLost, Tree!tree
  <1>2. /\ stack \in Seq(Entries) /\ visited \subseteq Transforms /\ bones \in Seq(visited)
        /\ \A j, k \in 1..Len(bones) : bones[j] = bones[k] => j = k
        /\ ~ torn => \A y \in visited : WasBelow(y)
        /\ ~ torn => \A j \in 1..Len(stack) : WasBelow(stack[j].at)
    BY DEF BoneInv
  <1>3. /\ rest \in Seq(Entries) /\ \A j \in 1..Len(rest) : j \in 1..Len(stack) /\ rest[j] = stack[j]
        /\ e \in Entries /\ Len(stack) \in 1..Len(stack)
    BY <1>1, <1>2, PoppedStack
  <1>4. visited \subseteq visited' /\ visited' \subseteq visited \cup {e.at}
    BY DEF Tree!VisitBone
  <1>5. \A y : WasBelow(y) => WasBelow(y)'
    BY <1>1, <1>4 DEF WasBelow
  <1>6. (~ torn => WasBelow(e.at)) /\ e.at \in Transforms
    BY <1>2, <1>3 DEF Entries
  <1> HIDE DEF rest, e
  <1>7. /\ ~ torn => \A y \in visited' : WasBelow(y)'
        /\ ~ torn => \A j \in 1..Len(rest) : WasBelow(rest[j].at)
        /\ visited' \subseteq Transforms
    BY <1>1, <1>2, <1>3, <1>4, <1>5, <1>6
  <1>70. ~ torn => \A j \in 1..Len(stack') : (WasBelow(stack[j].at))'
    BY <1>1, <1>4, <1>7 DEF WasBelow
  <1>8. CASE Tree!Skipped(e)
    <2>1. UNCHANGED <<step, visited, bones>>
      BY <1>8 DEF Tree!VisitBone, e
    <2>2. QED
      BY <1>1, <1>2, <1>3, <1>7, <1>70, <2>1 DEF BoneInv
  <1>9. CASE ~ Tree!Skipped(e)
    <2>1. /\ visited' = visited \cup {e.at} /\ entry' = e
          /\ bones' = IF e.at \in Bare THEN bones ELSE Append(bones, e.at)
          /\ step' \in {"done", "children"}
      BY <1>9 DEF Tree!VisitBone, e
    <2>2. e.at \notin visited
      BY <1>9 DEF Tree!Skipped
    <2>3. bones \in Seq(visited') /\ Len(bones) \in Nat /\ \A j \in 1..Len(bones) : bones[j] \in visited
      BY <1>2, <2>1
    <2>4. bones' \in Seq(visited') /\ \A j, k \in 1..Len(bones') : bones'[j] = bones'[k] => j = k
      <3>1. CASE e.at \in Bare
        BY <1>2, <2>1, <2>3, <3>1
      <3>2. CASE e.at \notin Bare
        <4>1. bones' = Append(bones, e.at) /\ e.at \in visited'
          BY <2>1, <3>2
        <4>2. /\ bones' \in Seq(visited') /\ Len(bones') = Len(bones) + 1
              /\ bones'[Len(bones) + 1] = e.at /\ \A j \in 1..Len(bones) : bones'[j] = bones[j]
          BY <2>3, <4>1
        <4>3. \A j \in 1..Len(bones') : j = Len(bones) + 1 \/ j \in 1..Len(bones)
          BY <2>3, <4>2
        <4>4. QED
          BY <1>2, <2>2, <2>3, <4>2, <4>3
      <3>3. QED
        BY <3>1, <3>2
    <2>5. entry' \in Entries /\ entry'.at \in visited'
      BY <1>3, <2>1
    <2>6. QED
      BY <1>1, <1>3, <1>7, <1>70, <2>1, <2>4, <2>5 DEF BoneInv, WalkSteps
  <1>10. QED
    BY <1>8, <1>9

LEMMA ReadChildrenKeeps ==
  ASSUME BoneInv, Tree!ReadChildren
  PROVE  BoneInv'
  <1>1. /\ step = "children" /\ UNCHANGED <<stack, visited, bones, links, kids, torn>>
        /\ (step' = "bone" /\ turn' = 0) \/ (step' = "count" /\ UNCHANGED <<entry, turn>>)
    BY DEF Tree!ReadChildren, Tree!EndOfTurn, Tree!Target, Tree!NothingLost, Tree!tree
  <1>2. QED
    BY <1>1 DEF BoneInv, WalkSteps, WasBelow

LEMMA ReadCountKeeps ==
  ASSUME TargetInv, BoneInv, Tree!ReadCount
  PROVE  BoneInv'
  <1>1. /\ step = "count" /\ UNCHANGED <<stack, visited, bones, links, kids>> /\ (torn => torn')
        /\ \/ step' = "bone" /\ turn' = 0
           \/ /\ step' = "child" /\ childrenCount' = childCount[entry.at] /\ UNCHANGED <<entry, turn>>
    BY DEF Tree!ReadCount, Tree!EndOfTurn, Tree!Torn, Tree!Target, Tree!tree
  <1>2. /\ entry \in Entries /\ entry.at \in visited /\ entry.at \in Transforms
        /\ turn = 0
    BY <1>1 DEF BoneInv, Entries
  <1>3. /\ childCount[entry.at] \in 0..Cardinality(Transforms)
        /\ \A j \in 1..childCount[entry.at] :
             kids[entry.at][j] \in Transforms /\ <<kids[entry.at][j], entry.at>> \in links
    <2>1. childCount[entry.at] \in 0..Cardinality(Transforms)
      BY <1>2 DEF TargetInv, KidsOK
    <2>2. ASSUME NEW j \in 1..childCount[entry.at]
          PROVE  kids[entry.at][j] \in Transforms /\ <<kids[entry.at][j], entry.at>> \in links
      <3>1. kids[entry.at][j] \in Transforms /\ parent[kids[entry.at][j]] = entry.at
        BY <1>2 DEF TargetInv, KidsOK
      <3>2. parent[kids[entry.at][j]] # None
        BY <1>2, <3>1, TreeNumbers
      <3>3. QED
        BY <3>1, <3>2 DEF TargetInv, LinksOK
    <2>3. QED
      BY <2>1, <2>2
  <1>4. ~ torn' => /\ \A y \in visited : WasBelow(y)'
                   /\ \A j \in 1..Len(stack) : WasBelow(stack[j].at)'
    BY <1>1 DEF BoneInv, WasBelow
  <1>5. CASE step' = "bone"
    <2>1. turn' = 0
      BY <1>1, <1>5
    <2>2. QED
      BY <1>1, <1>4, <1>5, <2>1 DEF BoneInv, WalkSteps
  <1>6. CASE step' = "child"
    <2>1. childrenCount' = childCount[entry.at] /\ UNCHANGED <<entry, turn>>
      BY <1>1, <1>6
    <2>2. QED
      BY <1>1, <1>2, <1>3, <1>4, <1>6, <2>1 DEF BoneInv, WalkSteps
  <1>7. QED
    BY <1>1, <1>5, <1>6

LEMMA ChildrenUnreadKeeps ==
  ASSUME BoneInv, Tree!ChildrenUnread
  PROVE  BoneInv'
  <1>1. Tree!Target /\ UNCHANGED <<stack, visited, bones, torn>> /\ step' = "bone" /\ turn' = 0
    BY DEF Tree!ChildrenUnread, Tree!EndOfTurn
  <1>2. QED
    BY <1>1, PathStepKeepsBones DEF WalkSteps

LEMMA ChildrenDoneKeeps ==
  ASSUME BoneInv, Tree!ChildrenDone
  PROVE  BoneInv'
  <1>1. Tree!Target /\ UNCHANGED <<stack, visited, bones, torn>> /\ step' = "bone" /\ turn' = 0
    BY DEF Tree!ChildrenDone, Tree!EndOfTurn, Tree!NothingLost
  <1>2. QED
    BY <1>1, PathStepKeepsBones DEF WalkSteps

LEMMA ChildUnreadKeeps ==
  ASSUME BoneInv, Tree!ChildUnread
  PROVE  BoneInv'
  <1>1. /\ step = "child" /\ turn' = turn + 1
        /\ UNCHANGED <<step, stack, entry, childrenCount, visited, bones, links, kids, torn>>
    BY DEF Tree!ChildUnread, Tree!Target, Tree!tree
  <1>2. turn \in Nat
    BY <1>1 DEF BoneInv
  <1>3. turn' \in Nat
    BY <1>1, <1>2
  <1>4. QED
    BY <1>1, <1>3 DEF BoneInv, WasBelow

LEMMA ReadChildKeeps ==
  ASSUME TargetInv, BoneInv, Tree!ReadChild
  PROVE  BoneInv'
  <1>1. /\ step = "child" /\ Tree!InArray /\ turn' = turn + 1
        /\ UNCHANGED <<step, entry, childrenCount, visited, bones, links, kids>>
        /\ torn' = (torn \/ childrenPtr # array[entry.at])
    BY DEF Tree!ReadChild, Tree!Torn, Tree!Target, Tree!tree
  <1>2. /\ entry \in Entries /\ entry.at \in visited /\ turn \in Nat
        /\ childrenCount \in 0..Cardinality(Transforms) /\ Cardinality(Transforms) \in Nat
        /\ \A j \in 1..childrenCount : kids[entry.at][j] \in Transforms /\ <<kids[entry.at][j], entry.at>> \in links
    BY <1>1, SizeOfTree DEF BoneInv
  <1>3. PICK child \in Tree!ChildWords :
          stack' = IF child = None THEN stack
                                   ELSE Append(stack, [at |-> child, depth |-> entry.depth + 1])
    BY DEF Tree!ReadChild
  <1> DEFINE new == [at |-> child, depth |-> entry.depth + 1]
  <1>4. turn + 1 \in 1..childrenCount
    BY <1>1, <1>2 DEF Tree!InArray
  <1>5. child # None => child \in Transforms
    BY <1>2, <1>3, <1>4, TreeAssumption DEF Tree!ChildWords
  <1>6. ~ torn' => child \in Transforms /\ <<child, entry.at>> \in links
    BY <1>1, <1>2, <1>3, <1>4 DEF Tree!ChildWords
  <1>7. /\ stack \in Seq(Entries) /\ Len(stack) \in Nat
        /\ ~ torn' => ~ torn /\ \A j \in 1..Len(stack) : WasBelow(stack[j].at)
    <2>1. ~ torn' => ~ torn
      BY <1>1, Zenon
    <2>2. stack \in Seq(Entries) /\ (~ torn => \A j \in 1..Len(stack) : WasBelow(stack[j].at))
      BY DEF BoneInv
    <2>3. QED
      BY <2>1, <2>2
  <1>8. turn' \in Nat
    BY <1>1, <1>2
  <1>9. CASE child = None
    <2>1. stack' = stack
      BY <1>3, <1>9
    <2>2. QED
      BY <1>1, <1>2, <1>7, <1>8, <2>1 DEF BoneInv, WasBelow
  <1>10. CASE child # None
    <2>1. stack' = Append(stack, new)
      BY <1>3, <1>10
    <2>2. new \in Entries /\ new.at = child
      BY <1>2, <1>5, <1>10 DEF Entries
    <2> HIDE DEF new
    <2>3. /\ stack' \in Seq(Entries) /\ Len(stack') = Len(stack) + 1
          /\ stack'[Len(stack) + 1] = new /\ \A j \in 1..Len(stack) : stack'[j] = stack[j]
      BY <1>7, <2>1, <2>2
    <2>4. ~ torn' => WasBelow(new.at)
      BY <1>2, <1>6, <2>2 DEF WasBelow
    <2>5. ~ torn' => \A j \in 1..Len(stack') : WasBelow(stack'[j].at)
      <3>1. \A j \in 1..Len(stack') : j = Len(stack) + 1 \/ j \in 1..Len(stack)
        BY <1>7, <2>3
      <3>2. QED
        BY <1>7, <2>3, <2>4, <3>1
    <2>6. QED
      BY <1>1, <1>2, <1>7, <1>8, <2>3, <2>5 DEF BoneInv, WasBelow
  <1>11. QED
    BY <1>9, <1>10

LEMMA SetParentKeepsBones ==
  ASSUME TargetInv, BoneInv, NEW x \in Transforms, NEW p \in Transforms, Tree!SetParent(x, p)
  PROVE  BoneInv'
  <1>1. UNCHANGED <<step, stack, entry, turn, childrenCount, visited, bones, torn>>
    BY DEF Tree!SetParent, Tree!NothingLost, Tree!boneLocals
  <1>2. links \subseteq links'
    BY LinksMove
  <1>3. \A y : WasBelow(y) => WasBelow(y)'
    BY <1>1, <1>2 DEF WasBelow
  <1>4. ASSUME step = "child", NEW j \in 1..childrenCount
        PROVE  kids'[entry.at][j] \in Transforms /\ <<kids'[entry.at][j], entry.at>> \in links'
    <2>1. /\ entry.at \in Transforms /\ j \in 1..Cardinality(Transforms)
          /\ kids[entry.at][j] \in Transforms /\ <<kids[entry.at][j], entry.at>> \in links
      BY <1>4, SizeOfTree DEF BoneInv
    <2>2. \/ kids'[entry.at][j] = kids[entry.at][j]
          \/ kids'[entry.at][j] \in Transforms /\ <<kids'[entry.at][j], entry.at>> \in links'
      BY <2>1, KidsMove DEF TargetInv
    <2>3. QED
      BY <1>2, <2>1, <2>2
  <1>5. QED
    BY <1>1, <1>3, <1>4 DEF BoneInv

LEMMA BonesKept ==
  ASSUME TargetInv, PathInv, BoneInv, Tree!Next
  PROVE  BoneInv'
  <1>0. CASE Tree!ReadIndex
    <2>1. Tree!Target /\ UNCHANGED <<stack, visited, bones>> /\ step' = "node"
      BY <1>0 DEF Tree!ReadIndex, Tree!boneLocals
    <2>2. ~ torn' => ~ torn
      BY <1>0 DEF Tree!ReadIndex, PathInv
    <2>3. step' \in WalkSteps \ {"bone", "children", "count", "child"}
      BY <2>1 DEF WalkSteps
    <2>4. QED
      BY <2>1, <2>2, <2>3, PathStepKeepsBones
  <1>1. CASE \/ Tree!ReadState \/ Tree!ReadArrays \/ Tree!ReadNode \/ Tree!ReadParent
             \/ Tree!PositionUnread \/ Tree!BonesDone
    <2>1. /\ Tree!Target /\ UNCHANGED <<stack, visited, bones, torn>>
          /\ step' \in WalkSteps \ {"bone", "children", "count", "child"}
      BY <1>1 DEF Tree!ReadState, Tree!ReadArrays, Tree!ReadNode, Tree!ReadParent, Tree!PositionUnread,
                  Tree!BonesDone, Tree!boneLocals, Tree!NothingLost, WalkSteps
    <2>2. QED
      BY <2>1, PathStepKeepsBones
  <1>2. CASE BoneStep /\ ~ Tree!BonesDone
    BY <1>2, VisitBoneKeeps, ReadChildrenKeeps, ReadCountKeeps, ChildrenUnreadKeeps, ReadChildKeeps,
       ChildUnreadKeeps, ChildrenDoneKeeps DEF BoneStep
  <1>3. CASE \E x, p \in Transforms : Tree!SetParent(x, p)
    BY <1>3, SetParentKeepsBones
  <1>4. QED
    BY <1>0, <1>1, <1>2, <1>3 DEF Tree!Next, Tree!Walk, BoneStep

(***************************************************************************)
(* In a tree that stands still the walk finds all: a child of a visited    *)
(* transform is visited, on the stack, cut off, or a word still to be      *)
(* read, unless there are too many children or it lies too deep.  The      *)
(* depth of an entry is how far it lies below Start, whichever way the     *)
(* walk came.                                                              *)
(***************************************************************************)
Depth(p) == CHOOSE d \in [Transforms -> 0..Cardinality(Transforms)] : Level(p, d)

Under(p, y) == Depth(p)[y] - Depth(p)[Start]

Path(p, n, y, k) ==
  \E f \in [0..k -> Transforms] :
    /\ f[0] = Start /\ f[k] = y
    /\ \A j \in 0..(k - 1) : p[f[j + 1]] = f[j] /\ n[f[j]] <= MaxChildren

Found(p, n, e) == e.depth = Under(p, e.at) /\ Path(p, n, e.at, e.depth)

\* As a child of z, y is within the limits.
Due(p, n, y, z) == p[y] = z /\ n[z] <= MaxChildren /\ Under(p, z) < MaxDepth

OnStack(s, y) == \E j \in 1..Len(s) : s[j].at = y

\* A bone walk in a tree that stood still, and not one that was cut short.
Searching ==
  /\ moves = 0
  /\ \/ step \in {"bone", "children", "count", "child"}
     \/ step = "done" /\ acc = <<>> /\ Len(bones) < MaxNodes

\* y is not lost, as a child of z.
Handled(y, z) ==
  \/ y \in visited
  \/ y \in cut
  \/ OnStack(stack, y)
  \/ step \in {"children", "count"} /\ entry.at = z
  \/ step = "child" /\ entry.at = z /\ \E j \in (turn + 1)..childrenCount : kids[z][j] = y

AllInv ==
  Searching =>
    /\ \A j \in 1..Len(stack) : Found(parent, childCount, stack[j])
    /\ \A y \in visited : \E k \in 0..MaxDepth : Path(parent, childCount, y, k)
    /\ step \in {"children", "count", "child"} => Found(parent, childCount, entry)
    /\ step \in {"count", "child"} => childrenPtr = array[entry.at]
    /\ step = "child" => childrenCount = childCount[entry.at] /\ childrenCount <= MaxChildren
    /\ \A y, z \in Transforms : z \in visited /\ Due(parent, childCount, y, z) => Handled(y, z)
    /\ Start \in visited \/ OnStack(stack, Start)
    /\ {bones[k] : k \in 1..Len(bones)} = visited \ Bare
    /\ step = "done" => stack = <<>>

LEMMA DepthIs ==
  ASSUME TargetInv, moves = 0
  PROVE  /\ \A y \in Transforms : Under(parent, y) \in Int
         /\ Under(parent, Start) = 0
         /\ \A y \in Transforms : parent[y] # None => Under(parent, y) = Under(parent, parent[y]) + 1
  <1>1. \E d \in [Transforms -> 0..Cardinality(Transforms)] : Level(parent, d)
    BY TreeAssumption DEF TargetInv, StandsStill
  <1>2. Depth(parent) \in [Transforms -> 0..Cardinality(Transforms)] /\ Level(parent, Depth(parent))
    BY <1>1 DEF Depth
  <1>3. \A y \in Transforms : Depth(parent)[y] \in Nat
    BY <1>2, SizeOfTree
  <1>4. \A y \in Transforms : parent[y] # None =>
          parent[y] \in Transforms /\ Depth(parent)[y] = Depth(parent)[parent[y]] + 1
    BY <1>2 DEF Level, TargetInv, HomesOK
  <1>5. QED
    BY <1>3, <1>4, TreeNumbers DEF Under

LEMMA AllAtFirst ==
  ASSUME Tree!Init, TargetInv
  PROVE  AllInv
  <1>1. SUFFICES ASSUME Searching
                 PROVE  AllInv
    BY DEF AllInv
  <1>2. /\ step = "bone" /\ stack = <<[at |-> Start, depth |-> 0]>> /\ visited = {} /\ bones = <<>> /\ moves = 0
    BY <1>1 DEF Tree!Init, Searching
  <1>3. Under(parent, Start) = 0
    BY <1>2, DepthIs
  <1>4. Path(parent, childCount, Start, 0)
    <2> DEFINE f == [k \in 0..0 |-> Start]
    <2>1. f \in [0..0 -> Transforms] /\ f[0] = Start
      BY TreeNumbers
    <2>2. \A j \in 0..(0 - 1) : FALSE
      OBVIOUS
    <2> HIDE DEF f
    <2>3. QED
      BY <2>1, <2>2 DEF Path
  <1>5. Len(stack) = 1 /\ stack[1].at = Start /\ stack[1].depth = 0
    BY <1>2
  <1>6. Found(parent, childCount, stack[1])
    BY <1>3, <1>4, <1>5 DEF Found
  <1>7. \A j \in 1..Len(stack) : j = 1
    BY <1>5
  <1>8. OnStack(stack, Start)
    BY <1>5 DEF OnStack
  <1>9. {bones[k] : k \in 1..Len(bones)} = {}
    BY <1>2
  <1>10. QED
    BY <1>2, <1>6, <1>7, <1>8, <1>9 DEF AllInv

LEMMA VisitBoneKeepsAll ==
  ASSUME TargetInv, BoneInv, AllInv, Tree!VisitBone
  PROVE  AllInv'
  <1> DEFINE rest == SubSeq(stack, 1, Len(stack) - 1)
             e == stack[Len(stack)]
             Lies(y) == \E k \in 0..MaxDepth : Path(parent, childCount, y, k)
  <1>1. /\ step = "bone" /\ stack # <<>> /\ stack' = rest
        /\ UNCHANGED <<parent, childCount, kids, array, cut, moves, acc>>
    BY DEF Tree!VisitBone, Tree!Target, Tree!NothingLost, Tree!tree, Tree!posLocals
  <1>2. SUFFICES ASSUME Searching'
                 PROVE  AllInv'
    BY DEF AllInv
  <1>3. moves = 0 /\ Searching
    BY <1>1, <1>2 DEF Searching
  <1>4. stack \in Seq(Entries) /\ visited \subseteq Transforms /\ bones \in Seq(visited)
    BY DEF BoneInv
  <1>5. /\ Len(stack) \in Nat \ {0} /\ Len(rest) = Len(stack) - 1
        /\ \A j \in 1..Len(rest) : j \in 1..Len(stack) /\ rest[j] = stack[j]
        /\ e \in Entries
    BY <1>1, <1>4, PoppedStack
  <1>6. Len(stack) \in 1..Len(stack) /\ \A j \in 1..Len(stack) : j = Len(stack) \/ j \in 1..Len(rest)
    BY <1>5
  <1>7. /\ \A j \in 1..Len(stack) : Found(parent, childCount, stack[j])
        /\ \A y \in visited : Lies(y)
        /\ \A y, z \in Transforms : z \in visited /\ Due(parent, childCount, y, z) => Handled(y, z)
        /\ Start \in visited \/ OnStack(stack, Start)
        /\ {bones[k] : k \in 1..Len(bones)} = visited \ Bare
    BY <1>3 DEF AllInv
  <1>8. Found(parent, childCount, e) /\ e.at \in Transforms /\ e.depth \in Nat
    BY <1>5, <1>6, <1>7 DEF Entries
  <1>9. e.depth = Under(parent, e.at) /\ Path(parent, childCount, e.at, e.depth)
    BY <1>8 DEF Found
  <1>10. \A j \in 1..Len(stack') : Found(parent, childCount, stack'[j])
    BY <1>1, <1>5, <1>7
  <1>11. \A y : OnStack(stack, y) => y = e.at \/ OnStack(stack', y)
    BY <1>1, <1>5, <1>6 DEF OnStack
  <1>12. \A y, z \in Transforms :
           z \in visited /\ Due(parent, childCount, y, z)
             => y \in visited \/ y \in cut \/ y = e.at \/ OnStack(stack', y)
    BY <1>1, <1>7, <1>11 DEF Handled
  <1> HIDE DEF rest, e, Lies
  <1>13. CASE Tree!Skipped(e)
    <2>1. UNCHANGED <<step, visited, bones>>
      BY <1>13 DEF Tree!VisitBone, e
    <2>2. e.depth > MaxDepth \/ e.at \in visited
      BY <1>13 DEF Tree!Skipped
    <2>3. ASSUME NEW z \in Transforms, Due(parent, childCount, e.at, z)
          PROVE  e.at \in visited
      <3>1. parent[e.at] = z /\ z # None /\ Under(parent, z) < MaxDepth /\ Under(parent, z) \in Int
        BY <1>3, <2>3, DepthIs, TreeNumbers DEF Due
      <3>2. e.depth = Under(parent, z) + 1
        BY <1>3, <1>8, <1>9, <3>1, DepthIs
      <3>3. QED
        BY <2>2, <3>1, <3>2, TreeNumbers
    <2>4. Start = e.at => Start \in visited
      BY <1>3, <1>9, <2>2, DepthIs, TreeNumbers
    <2>5. \A y, z \in Transforms : z \in visited /\ Due(parent, childCount, y, z)
                                     => y \in visited \/ y \in cut \/ OnStack(stack', y)
      BY <1>12, <2>3
    <2>6. Start \in visited \/ OnStack(stack', Start)
      BY <1>7, <1>11, <2>4
    <2>7. QED
      BY <1>1, <1>7, <1>10, <2>1, <2>5, <2>6 DEF AllInv, Handled, Lies
  <1>14. CASE ~ Tree!Skipped(e)
    <2>1. /\ visited' = visited \cup {e.at} /\ entry' = e
          /\ bones' = IF e.at \in Bare THEN bones ELSE Append(bones, e.at)
          /\ step' = IF e.at \notin Bare /\ Len(bones') >= MaxNodes THEN "done" ELSE "children"
      BY <1>14 DEF Tree!VisitBone, e
    <2>2. ~ (e.depth > MaxDepth)
      BY <1>14 DEF Tree!Skipped
    <2>3. bones \in Seq(Transforms) /\ Len(bones) \in Nat
      BY <1>4
    <2>4. /\ Len(bones') \in Nat
          /\ {bones'[k] : k \in 1..Len(bones')} = visited' \ Bare
      <3>1. CASE e.at \in Bare
        BY <1>7, <2>1, <2>3, <3>1
      <3>2. CASE e.at \notin Bare
        <4>1. /\ Len(bones') = Len(bones) + 1 /\ bones'[Len(bones) + 1] = e.at
              /\ \A j \in 1..Len(bones) : bones'[j] = bones[j]
          BY <1>8, <2>1, <2>3, <3>2
        <4>2. /\ \A j \in 1..Len(bones') : j = Len(bones) + 1 \/ j \in 1..Len(bones)
              /\ \A j \in 1..Len(bones) : j \in 1..Len(bones') /\ Len(bones) + 1 \in 1..Len(bones')
              /\ Len(bones) + 1 \in 1..Len(bones')
          BY <2>3, <4>1
        <4>3. {bones'[k] : k \in 1..Len(bones')} = {bones[k] : k \in 1..Len(bones)} \cup {e.at}
          BY <4>1, <4>2
        <4>4. QED
          BY <1>7, <2>1, <2>3, <3>2, <4>1, <4>3
      <3>3. QED
        BY <3>1, <3>2
    <2>5. step' = "children"
      <3>1. ~ (Len(bones') >= MaxNodes) \/ step' # "done"
        BY <1>2, <2>4, TreeNumbers DEF Searching
      <3>2. QED
        BY <2>1, <3>1
    <2>6. Lies(e.at)
      <3>1. e.depth \in 0..MaxDepth
        BY <1>8, <2>2, TreeNumbers
      <3>2. QED
        BY <1>9, <3>1 DEF Lies
    <2>7. \A y \in visited' : Lies(y)
      BY <1>7, <2>1, <2>6
    <2>8. \A y, z \in Transforms : z \in visited' /\ Due(parent, childCount, y, z)
                                     => y \in visited' \/ y \in cut \/ OnStack(stack', y) \/ entry'.at = z
      BY <1>12, <2>1
    <2>9. Start \in visited' \/ OnStack(stack', Start)
      BY <1>7, <1>11, <2>1
    <2>10. QED
      BY <1>1, <1>8, <1>10, <2>1, <2>4, <2>5, <2>7, <2>8, <2>9 DEF AllInv, Handled, Lies
  <1>15. QED
    BY <1>13, <1>14

\* The turn is over, and every child of the bone is cut off or none of them due.
LEMMA TurnEndsAll ==
  ASSUME BoneInv, AllInv, step \in {"children", "count", "child"}, step' = "bone",
         UNCHANGED <<parent, childCount, kids, array, moves, stack, visited, bones>>, cut \subseteq cut',
         \A y \in Transforms :
           Due(parent, childCount, y, entry.at) => y \in visited \/ y \in cut' \/ OnStack(stack, y)
  PROVE  AllInv'
  <1>1. SUFFICES ASSUME Searching'
                 PROVE  AllInv'
    BY DEF AllInv
  <1>2. Searching
    BY <1>1 DEF Searching
  <1>3. /\ \A j \in 1..Len(stack) : Found(parent, childCount, stack[j])
        /\ \A y \in visited : \E k \in 0..MaxDepth : Path(parent, childCount, y, k)
        /\ \A y, z \in Transforms : z \in visited /\ Due(parent, childCount, y, z) => Handled(y, z)
        /\ Start \in visited \/ OnStack(stack, Start)
        /\ {bones[k] : k \in 1..Len(bones)} = visited \ Bare
    BY <1>2 DEF AllInv
  <1>4. \A y, z \in Transforms : z \in visited /\ Due(parent, childCount, y, z)
                                   => y \in visited \/ y \in cut' \/ OnStack(stack, y)
    BY <1>3 DEF Handled
  <1>5. QED
    BY <1>3, <1>4 DEF AllInv, Handled

LEMMA ReadChildrenKeepsAll ==
  ASSUME TargetInv, BoneInv, AllInv, Tree!ReadChildren
  PROVE  AllInv'
  <1>1. /\ step = "children" /\ UNCHANGED <<parent, childCount, kids, array, moves, cut, stack, visited, bones>>
        /\ \/ array[entry.at] = 0 /\ step' = "bone"
           \/ step' = "count" /\ childrenPtr' = array[entry.at] /\ entry' = entry
    BY DEF Tree!ReadChildren, Tree!EndOfTurn, Tree!Target, Tree!NothingLost, Tree!tree
  <1>2. CASE array[entry.at] = 0 /\ step' = "bone"
    <2>1. entry.at \in Transforms
      BY <1>1 DEF BoneInv, Entries
    <2>2. childCount[entry.at] = 0
      BY <1>2, <2>1 DEF TargetInv, NumbersOK
    <2>3. \A y \in Transforms : parent[y] # entry.at
      BY <2>1, <2>2, TreeNumbers DEF TargetInv, KidsOK
    <2>4. QED
      BY <1>1, <1>2, <2>3, TurnEndsAll DEF Due
  <1>3. CASE step' = "count" /\ childrenPtr' = array[entry.at] /\ entry' = entry
    <2>1. Searching' => Searching
      BY <1>1 DEF Searching
    <2>2. QED
      BY <1>1, <1>3, <2>1 DEF AllInv, Handled
  <1>4. QED
    BY <1>1, <1>2, <1>3

LEMMA ChildrenUnreadKeepsAll ==
  ASSUME BoneInv, AllInv, Tree!ChildrenUnread
  PROVE  AllInv'
  <1>1. /\ step \in {"children", "count"} /\ step' = "bone"
        /\ UNCHANGED <<parent, childCount, kids, array, moves, stack, visited, bones>>
        /\ cut' = cut \cup Tree!ChildrenOf(parent, entry.at)
    BY DEF Tree!ChildrenUnread, Tree!EndOfTurn, Tree!Target, Tree!tree
  <1>2. \A y \in Transforms : parent[y] = entry.at => y \in cut'
    BY <1>1 DEF Tree!ChildrenOf
  <1>3. QED
    BY <1>1, <1>2, TurnEndsAll DEF Due

LEMMA ReadCountKeepsAll ==
  ASSUME TargetInv, BoneInv, AllInv, Tree!ReadCount
  PROVE  AllInv'
  <1>1. /\ step = "count" /\ UNCHANGED <<parent, childCount, kids, array, moves, cut, stack, visited, bones>>
        /\ IF childCount[entry.at] \in 1..MaxChildren
             THEN /\ step' = "child" /\ childrenCount' = childCount[entry.at]
                  /\ UNCHANGED <<entry, turn, childrenPtr>>
             ELSE step' = "bone"
    BY DEF Tree!ReadCount, Tree!EndOfTurn, Tree!Target, Tree!tree
  <1>4. entry.at \in Transforms /\ turn = 0
    BY <1>1 DEF BoneInv, Entries
  <1>5. childCount[entry.at] \in 0..Cardinality(Transforms) /\ childCount[entry.at] \in Nat
    BY <1>4, SizeOfTree DEF TargetInv, KidsOK
  <1>6. ASSUME NEW y \in Transforms, parent[y] = entry.at
        PROVE  \E j \in 1..childCount[entry.at] : kids[entry.at][j] = y
    BY <1>4, <1>6, TreeNumbers DEF TargetInv, KidsOK
  <1>9. CASE childCount[entry.at] \in 1..MaxChildren
    <2> SUFFICES ASSUME Searching'
                 PROVE  AllInv'
      BY DEF AllInv
    <2>3. Searching
      BY <1>1 DEF Searching
    <2>7. /\ \A j \in 1..Len(stack) : Found(parent, childCount, stack[j])
          /\ \A y \in visited : \E k \in 0..MaxDepth : Path(parent, childCount, y, k)
          /\ Found(parent, childCount, entry) /\ childrenPtr = array[entry.at]
          /\ \A y, z \in Transforms : z \in visited /\ Due(parent, childCount, y, z) => Handled(y, z)
          /\ Start \in visited \/ OnStack(stack, Start)
          /\ {bones[k] : k \in 1..Len(bones)} = visited \ Bare
      BY <1>1, <2>3 DEF AllInv
    <2>8. \A y, z \in Transforms : z \in visited /\ Due(parent, childCount, y, z)
                                     => y \in visited \/ y \in cut \/ OnStack(stack, y) \/ entry.at = z
      BY <1>1, <2>7 DEF Handled
    <2>1. /\ step' = "child" /\ childrenCount' = childCount[entry.at] /\ childrenCount' <= MaxChildren
          /\ UNCHANGED <<entry, turn, childrenPtr>>
      BY <1>1, <1>9, TreeNumbers
    <2>2. \A y, z \in Transforms : Due(parent, childCount, y, z) /\ entry.at = z
            => \E j \in (turn' + 1)..childrenCount' : kids[z][j] = y
      BY <1>4, <1>6, <2>1 DEF Due
    <2>9. QED
      BY <1>1, <2>7, <2>8, <2>1, <2>2 DEF AllInv, Handled
  <1>10. CASE childCount[entry.at] \notin 1..MaxChildren
    <2>1. step' = "bone"
      BY <1>1, <1>10
    <2>2. \A y \in Transforms : ~ Due(parent, childCount, y, entry.at)
      <3>1. SUFFICES ASSUME NEW y \in Transforms, Due(parent, childCount, y, entry.at)
                     PROVE  FALSE
        OBVIOUS
      <3>2. parent[y] = entry.at /\ childCount[entry.at] <= MaxChildren
        BY <3>1 DEF Due
      <3>3. childCount[entry.at] = 0
        BY <1>5, <1>10, <3>2, TreeNumbers
      <3>4. QED
        BY <1>6, <3>2, <3>3
    <2>3. QED
      BY <1>1, <2>1, <2>2, TurnEndsAll
  <1>11. QED
    BY <1>9, <1>10

\* A child of a transform with not too many is one further along the path.
LEMMA LongerPath ==
  ASSUME NEW p, NEW n, NEW k \in Nat, NEW y, Path(p, n, y, k), n[y] <= MaxChildren,
         NEW c \in Transforms, p[c] = y
  PROVE  Path(p, n, c, k + 1)
  <1>1. PICK f \in [0..k -> Transforms] :
          /\ f[0] = Start /\ f[k] = y
          /\ \A j \in 0..(k - 1) : p[f[j + 1]] = f[j] /\ n[f[j]] <= MaxChildren
    BY DEF Path
  <1> DEFINE g == [j \in 0..(k + 1) |-> IF j <= k THEN f[j] ELSE c]
  <1>2. g \in [0..(k + 1) -> Transforms]
    <2>1. \A j \in 0..(k + 1) : j <= k => j \in 0..k
      OBVIOUS
    <2>2. QED
      BY <2>1
  <1>3. g[0] = Start /\ g[k + 1] = c /\ \A j \in 0..k : g[j] = f[j]
    BY <1>1
  <1> HIDE DEF g
  <1>4. ASSUME NEW j \in 0..(k + 1 - 1)
        PROVE  p[g[j + 1]] = g[j] /\ n[g[j]] <= MaxChildren
    <2>1. CASE j = k
      BY <1>1, <1>3, <2>1
    <2>2. CASE j # k
      <3>1. j \in 0..(k - 1) /\ j \in 0..k /\ j + 1 \in 0..k
        BY <2>2
      <3>2. QED
        BY <1>1, <1>3, <3>1
    <2>3. QED
      BY <2>1, <2>2
  <1>5. QED
    BY <1>2, <1>3, <1>4 DEF Path

\* What is known of the words while they are read, in a tree at rest.
LEMMA AtChild ==
  ASSUME TargetInv, BoneInv, AllInv, Searching, step = "child"
  PROVE  /\ moves = 0 /\ childrenPtr = array[entry.at]
         /\ entry \in Entries /\ entry.at \in Transforms /\ entry.depth \in Nat
         /\ turn \in Nat /\ childrenCount \in Nat /\ stack \in Seq(Entries) /\ Len(stack) \in Nat
         /\ \A j \in 1..Len(stack) : Found(parent, childCount, stack[j])
         /\ \A y \in visited : \E k \in 0..MaxDepth : Path(parent, childCount, y, k)
         /\ Found(parent, childCount, entry)
         /\ childrenCount = childCount[entry.at] /\ childrenCount <= MaxChildren
         /\ Start \in visited \/ OnStack(stack, Start)
         /\ {bones[k] : k \in 1..Len(bones)} = visited \ Bare
         /\ \A y, z \in Transforms : z \in visited /\ Due(parent, childCount, y, z)
              => \/ y \in visited \/ y \in cut \/ OnStack(stack, y)
                 \/ entry.at = z /\ \E j \in (turn + 1)..childrenCount : kids[z][j] = y
  <1>1. /\ entry \in Entries /\ entry.at \in Transforms /\ entry.depth \in Nat
        /\ turn \in Nat /\ childrenCount \in Nat /\ stack \in Seq(Entries) /\ Len(stack) \in Nat
    BY SizeOfTree DEF BoneInv, Entries
  <1>2. QED
    BY <1>1 DEF AllInv, Searching, Handled

LEMMA ChildrenDoneKeepsAll ==
  ASSUME TargetInv, BoneInv, AllInv, Tree!ChildrenDone
  PROVE  AllInv'
  <1>1. /\ step = "child" /\ ~ Tree!InArray /\ step' = "bone"
        /\ UNCHANGED <<parent, childCount, kids, array, moves, cut, stack, visited, bones>>
    BY DEF Tree!ChildrenDone, Tree!EndOfTurn, Tree!Target, Tree!NothingLost, Tree!tree
  <1>2. CASE Searching
    <2>1. /\ turn \in Nat /\ childrenCount \in Nat /\ entry.at \in Transforms
          /\ \A y \in Transforms : entry.at \in visited /\ Due(parent, childCount, y, entry.at)
               => \/ y \in visited \/ y \in cut \/ OnStack(stack, y)
                  \/ \E j \in (turn + 1)..childrenCount : kids[entry.at][j] = y
      BY <1>1, <1>2, AtChild
    <2>2. \A j \in (turn + 1)..childrenCount : FALSE
      BY <1>1, <2>1 DEF Tree!InArray
    <2>3. entry.at \in visited
      BY <1>1 DEF BoneInv
    <2>4. QED
      BY <1>1, <2>1, <2>2, <2>3, TurnEndsAll
  <1>3. CASE ~ Searching
    BY <1>1, <1>3 DEF AllInv, Searching
  <1>4. QED
    BY <1>2, <1>3

LEMMA ChildUnreadKeepsAll ==
  ASSUME TargetInv, BoneInv, AllInv, Tree!ChildUnread
  PROVE  AllInv'
  <1>1. /\ step = "child" /\ Tree!InArray /\ turn' = turn + 1 /\ cut' = cut \cup Tree!ChildWords
        /\ UNCHANGED <<step, parent, childCount, kids, array, moves, stack, entry, childrenPtr, childrenCount,
                       visited, bones>>
    BY DEF Tree!ChildUnread, Tree!Target, Tree!tree
  <1>2. SUFFICES ASSUME Searching'
                 PROVE  AllInv'
    BY DEF AllInv
  <1>3. Searching
    BY <1>1, <1>2 DEF Searching
  <1>4. /\ moves = 0 /\ childrenPtr = array[entry.at] /\ turn \in Nat /\ childrenCount \in Nat
        /\ \A j \in 1..Len(stack) : Found(parent, childCount, stack[j])
        /\ \A y \in visited : \E k \in 0..MaxDepth : Path(parent, childCount, y, k)
        /\ Found(parent, childCount, entry)
        /\ childrenCount = childCount[entry.at] /\ childrenCount <= MaxChildren
        /\ Start \in visited \/ OnStack(stack, Start)
        /\ {bones[k] : k \in 1..Len(bones)} = visited \ Bare
        /\ \A y, z \in Transforms : z \in visited /\ Due(parent, childCount, y, z)
             => \/ y \in visited \/ y \in cut \/ OnStack(stack, y)
                \/ entry.at = z /\ \E j \in (turn + 1)..childrenCount : kids[z][j] = y
    BY <1>1, <1>3, AtChild
  <1>5. kids[entry.at][turn + 1] \in cut' /\ cut \subseteq cut'
    BY <1>1, <1>4 DEF Tree!ChildWords
  <1>6. ASSUME NEW y, \E j \in (turn + 1)..childrenCount : kids[entry.at][j] = y
        PROVE  y \in cut' \/ \E j \in (turn' + 1)..childrenCount : kids[entry.at][j] = y
    <2>1. PICK j \in (turn + 1)..childrenCount : kids[entry.at][j] = y
      BY <1>6
    <2>2. CASE j = turn + 1
      BY <1>5, <2>1, <2>2
    <2>3. CASE j # turn + 1
      <3>1. j \in (turn' + 1)..childrenCount
        BY <1>1, <1>4, <2>3
      <3>2. QED
        BY <2>1, <3>1
    <2>4. QED
      BY <2>2, <2>3
  <1>7. \A y, z \in Transforms : z \in visited /\ Due(parent, childCount, y, z)
          => \/ y \in visited \/ y \in cut' \/ OnStack(stack, y)
             \/ entry.at = z /\ \E j \in (turn' + 1)..childrenCount : kids[z][j] = y
    BY <1>4, <1>5, <1>6
  <1>8. QED
    BY <1>1, <1>4, <1>7 DEF AllInv, Handled

LEMMA ReadChildKeepsAll ==
  ASSUME TargetInv, BoneInv, AllInv, Tree!ReadChild
  PROVE  AllInv'
  <1>1. /\ step = "child" /\ Tree!InArray /\ turn' = turn + 1
        /\ UNCHANGED <<step, parent, childCount, kids, array, moves, cut, entry, childrenPtr, childrenCount,
                       visited, bones>>
    BY DEF Tree!ReadChild, Tree!Target, Tree!tree
  <1>2. SUFFICES ASSUME Searching'
                 PROVE  AllInv'
    BY DEF AllInv
  <1>3. Searching
    BY <1>1, <1>2 DEF Searching
  <1>4. /\ moves = 0 /\ childrenPtr = array[entry.at]
        /\ entry \in Entries /\ entry.at \in Transforms /\ entry.depth \in Nat
        /\ turn \in Nat /\ childrenCount \in Nat /\ stack \in Seq(Entries) /\ Len(stack) \in Nat
    BY <1>1, <1>3, AtChild
  <1>5. /\ \A j \in 1..Len(stack) : Found(parent, childCount, stack[j])
        /\ \A y \in visited : \E k \in 0..MaxDepth : Path(parent, childCount, y, k)
        /\ Found(parent, childCount, entry)
        /\ childrenCount = childCount[entry.at] /\ childrenCount <= MaxChildren
        /\ Start \in visited \/ OnStack(stack, Start)
        /\ {bones[k] : k \in 1..Len(bones)} = visited \ Bare
    BY <1>1, <1>3, AtChild
  <1>6. \A y, z \in Transforms : z \in visited /\ Due(parent, childCount, y, z)
          => \/ y \in visited \/ y \in cut \/ OnStack(stack, y)
             \/ entry.at = z /\ \E j \in (turn + 1)..childrenCount : kids[z][j] = y
    BY <1>1, <1>3, AtChild
  <1> DEFINE child == kids[entry.at][turn + 1]
             new == [at |-> child, depth |-> entry.depth + 1]
  <1>7. turn + 1 \in 1..childrenCount
    BY <1>1, <1>4 DEF Tree!InArray
  <1>8. child \in Transforms /\ parent[child] = entry.at /\ child # None
    BY <1>4, <1>5, <1>7, TreeNumbers DEF TargetInv, KidsOK
  <1>9. stack' = Append(stack, new)
    BY <1>4, <1>8 DEF Tree!ReadChild, Tree!ChildWords
  <1>10. new.at = child /\ new.depth = entry.depth + 1
    OBVIOUS
  <1> HIDE DEF new, child
  <1>11. /\ Len(stack') = Len(stack) + 1
         /\ stack'[Len(stack) + 1] = new /\ \A j \in 1..Len(stack) : stack'[j] = stack[j]
    BY <1>4, <1>9
  <1>12. /\ \A j \in 1..Len(stack') : j = Len(stack) + 1 \/ j \in 1..Len(stack)
         /\ \A j \in 1..Len(stack) : j \in 1..Len(stack')
         /\ Len(stack) + 1 \in 1..Len(stack')
    BY <1>4, <1>11
  <1>13. Found(parent, childCount, new)
    <2>1. entry.depth = Under(parent, entry.at) /\ Path(parent, childCount, entry.at, entry.depth)
      BY <1>5 DEF Found
    <2>2. Path(parent, childCount, child, entry.depth + 1)
      BY <1>4, <1>5, <1>8, <2>1, LongerPath
    <2>3. Under(parent, child) = entry.depth + 1
      BY <1>4, <1>8, <2>1, DepthIs, TreeNumbers
    <2>4. QED
      BY <1>10, <2>2, <2>3 DEF Found
  <1>14. \A j \in 1..Len(stack') : Found(parent, childCount, stack'[j])
    BY <1>5, <1>11, <1>12, <1>13
  <1>15. (\A y : OnStack(stack, y) => OnStack(stack', y)) /\ OnStack(stack', child)
    BY <1>10, <1>11, <1>12 DEF OnStack
  <1>16. ASSUME NEW y, \E j \in (turn + 1)..childrenCount : kids[entry.at][j] = y
         PROVE  OnStack(stack', y) \/ \E j \in (turn' + 1)..childrenCount : kids[entry.at][j] = y
    <2>1. PICK j \in (turn + 1)..childrenCount : kids[entry.at][j] = y
      BY <1>16
    <2>2. CASE j = turn + 1
      BY <1>15, <2>1, <2>2 DEF child
    <2>3. CASE j # turn + 1
      <3>1. j \in (turn' + 1)..childrenCount
        BY <1>1, <1>4, <2>3
      <3>2. QED
        BY <2>1, <3>1
    <2>4. QED
      BY <2>2, <2>3
  <1>17. \A y, z \in Transforms : z \in visited /\ Due(parent, childCount, y, z)
           => \/ y \in visited \/ y \in cut \/ OnStack(stack', y)
              \/ entry.at = z /\ \E j \in (turn' + 1)..childrenCount : kids[z][j] = y
    BY <1>6, <1>15, <1>16
  <1>18. \A y, z \in Transforms : z \in visited' /\ Due(parent, childCount, y, z) => Handled(y, z)'
    BY <1>1, <1>17 DEF Handled
  <1>19. Start \in visited \/ OnStack(stack', Start)
    BY <1>5, <1>15
  <1>20. childrenPtr' = array'[entry'.at]
    BY <1>1, <1>4
  <1>21. QED
    BY <1>1, <1>5, <1>14, <1>18, <1>19, <1>20 DEF AllInv

LEMMA AllKept ==
  ASSUME TargetInv, PathInv, BoneInv, AllInv, Tree!Next
  PROVE  AllInv'
  <1>1. CASE BoneStep /\ ~ Tree!BonesDone
    BY <1>1, VisitBoneKeepsAll, ReadChildrenKeepsAll, ReadCountKeepsAll, ChildrenUnreadKeepsAll,
       ReadChildKeepsAll, ChildUnreadKeepsAll, ChildrenDoneKeepsAll DEF BoneStep
  <1>2. CASE Tree!BonesDone
    <2>1. /\ step = "bone" /\ stack = <<>> /\ step' = "done"
          /\ UNCHANGED <<parent, childCount, kids, cut, moves, acc, stack, entry, turn, childrenCount, visited, bones>>
      BY <1>2 DEF Tree!BonesDone, Tree!Target, Tree!NothingLost, Tree!tree, Tree!posLocals, Tree!boneLocals
    <2>2. Searching' => Searching
      BY <2>1 DEF Searching
    <2>3. QED
      BY <2>1, <2>2 DEF AllInv, Handled
  <1>3. CASE Tree!ReadState \/ Tree!ReadArrays \/ Tree!ReadIndex \/ Tree!ReadNode \/ Tree!PositionUnread
    <2>1. step' \in {"nodeData", "parentIndices", "index", "node", "parent", "failed"}
      BY <1>3 DEF Tree!ReadState, Tree!ReadArrays, Tree!ReadIndex, Tree!ReadNode, Tree!PositionUnread
    <2>2. QED
      BY <2>1 DEF AllInv, Searching
  <1>4. CASE Tree!ReadParent
    <2>1. step = "parent" /\ step' \in {"node", "done"} /\ acc' = acc
      BY <1>4 DEF Tree!ReadParent
    <2>2. acc # <<>>
      BY <2>1 DEF PathInv
    <2>3. QED
      BY <2>1, <2>2 DEF AllInv, Searching
  <1>5. CASE \E x, p \in Transforms : Tree!SetParent(x, p)
    <2>1. moves' # 0
      BY <1>5 DEF Tree!SetParent, TargetInv, HistoryOK
    <2>2. QED
      BY <2>1 DEF AllInv, Searching
  <1>6. QED
    BY <1>1, <1>2, <1>3, <1>4, <1>5 DEF Tree!Next, Tree!Walk, BoneStep

LEMMA LeastOfNat ==
  ASSUME NEW T \in SUBSET Nat, T # {}
  PROVE  \E x \in T : \A y \in T : x <= y
  <1> DEFINE Less == {s \in Nat \X Nat : s[1] < s[2]}
  <1>1. Less = OpToRel(<, Nat)
    BY DEF OpToRel
  <1>2. IsWellFoundedOn(Less, Nat)
    BY <1>1, NatLessThanWellFounded
  <1> HIDE DEF Less
  <1>3. PICK x \in T : \A y \in T : ~ (<<y, x>> \in Less)
    BY <1>2, WFMin
  <1>4. ASSUME NEW y \in T PROVE x <= y
    <2>1. x \in Nat /\ y \in Nat
      OBVIOUS
    <2>2. ASSUME y < x PROVE <<y, x>> \in Less
      BY <2>1, <2>2 DEF Less
    <2>3. QED
      BY <1>3, <2>1, <2>2
  <1>5. QED
    BY <1>4

\* The walk is over: with the first transform of a path that was not visited,
\* the one before would have an unhandled child.
LEMMA AllFound ==
  ASSUME TargetInv, BoneInv, AllInv, Searching, step = "done",
         NEW n \in 0..MaxDepth, NEW f \in [0..n -> Transforms], Tree!IsPath(f, n),
         \A k \in 1..n : f[k] \notin cut
  PROVE  f[n] \in visited
  <1> DEFINE Good(k) == f[k] \in visited /\ Under(parent, f[k]) = k
             bad == {k \in 0..n : ~ Good(k)}
  <1>1. moves = 0 /\ n \in Nat /\ n <= MaxDepth /\ MaxDepth \in Nat /\ None \notin Transforms
    BY TreeNumbers DEF Searching
  <1>2. f[0] = Start /\ \A k \in 0..(n - 1) : parent[f[k + 1]] = f[k] /\ childCount[f[k]] <= MaxChildren
    BY DEF Tree!IsPath
  <1>3. /\ Start \in visited
        /\ \A y, z \in Transforms :
             z \in visited /\ Due(parent, childCount, y, z) => y \in visited \/ y \in cut
    <2>1. stack = <<>> /\ Len(stack) = 0
      BY DEF AllInv
    <2>2. \A y : ~ OnStack(stack, y)
      BY <2>1 DEF OnStack
    <2>3. QED
      BY <2>2 DEF AllInv, Handled
  <1>4. SUFFICES ASSUME bad # {}
                 PROVE  FALSE
    BY <1>1
  <1>5. PICK k \in bad : \A j \in bad : k <= j
    <2>1. bad \in SUBSET Nat
      BY <1>1
    <2> HIDE DEF bad
    <2>2. QED
      BY <1>4, <2>1, LeastOfNat
  <1>6. k # 0
    BY <1>1, <1>2, <1>3, DepthIs
  <1>7. k - 1 \in 0..(n - 1) /\ k - 1 \in 0..n /\ k \in 0..n /\ k = (k - 1) + 1
    BY <1>1, <1>6
  <1>8. Good(k - 1)
    BY <1>5, <1>7
  <1>9. parent[f[k]] = f[k - 1] /\ childCount[f[k - 1]] <= MaxChildren
    BY <1>2, <1>7
  <1>10. f[k] \in Transforms /\ f[k - 1] \in Transforms
    BY <1>7
  <1>11. Under(parent, f[k]) = k
    BY <1>1, <1>7, <1>8, <1>9, <1>10, DepthIs
  <1>12. Due(parent, childCount, f[k], f[k - 1])
    BY <1>1, <1>7, <1>8, <1>9 DEF Due
  <1>13. f[k] \in visited
    <2>1. k \in 1..n
      BY <1>1, <1>6, <1>7
    <2>2. f[k] \notin cut
      BY <2>1
    <2>3. QED
      BY <1>3, <1>8, <1>10, <1>12, <2>2
  <1>14. QED
    BY <1>5, <1>11, <1>13

LEMMA BonesMean ==
  ASSUME TargetInv, BoneInv, AllInv
  PROVE  Tree!NoBoneTwice /\ Tree!BonesWereBelow /\ Tree!BonesAreAll
  <1>1. Tree!NoBoneTwice /\ Tree!BonesWereBelow
    BY DEF BoneInv, WasBelow, Tree!NoBoneTwice, Tree!BonesWereBelow
  <1>2. Tree!BonesAreAll
    <2>1. SUFFICES ASSUME step = "done", acc = <<>>, moves = 0, Len(bones) < MaxNodes
                   PROVE  /\ {bones[k] : k \in 1..Len(bones)} \subseteq Tree!Reach({}) \ Bare
                          /\ Tree!Reach(cut) \ Bare \subseteq {bones[k] : k \in 1..Len(bones)}
      BY DEF Tree!BonesAreAll
    <2>2. Searching
      BY <2>1 DEF Searching
    <2>3. /\ {bones[k] : k \in 1..Len(bones)} = visited \ Bare
          /\ \A y \in visited : \E k \in 0..MaxDepth : Path(parent, childCount, y, k)
      BY <2>2 DEF AllInv
    <2>4. visited \subseteq Tree!Reach({})
      BY <2>3 DEF BoneInv, Path, Tree!Reach, Tree!IsPath
    <2>5. ASSUME NEW y \in Tree!Reach(cut) PROVE y \in visited
      <3>1. PICK n \in 0..MaxDepth : \E f \in [0..n -> Transforms] :
              Tree!IsPath(f, n) /\ f[n] = y /\ \A k \in 1..n : f[k] \notin cut
        BY DEF Tree!Reach
      <3>2. PICK f \in [0..n -> Transforms] :
              Tree!IsPath(f, n) /\ f[n] = y /\ \A k \in 1..n : f[k] \notin cut
        BY <3>1
      <3>3. QED
        BY <2>1, <2>2, <3>2, AllFound
    <2>6. QED
      BY <2>3, <2>4, <2>5
  <1>3. QED
    BY <1>1, <1>2

(***************************************************************************)
(* The world of the tree.                                                  *)
(***************************************************************************)
TreeInv == TargetInv /\ PathInv /\ BoneInv /\ AllInv

LEMMA TreeAtFirst == AllInit => (world = "tree" => TreeInv)
  <1>1. ASSUME Tree!Init
        PROVE  TreeInv
    <2>1. TargetInv
      BY <1>1, TargetAtFirst
    <2>2. QED
      BY <1>1, <2>1, PathAtFirst, BoneAtFirst, AllAtFirst DEF TreeInv
  <1>2. QED
    BY <1>1 DEF AllInit

LEMMA TreeKept ==
  ASSUME world = "tree" => TreeInv, [AllNext]_allVars
  PROVE  (world = "tree" => TreeInv)'
  <1> SUFFICES ASSUME world' = "tree"
               PROVE  TreeInv'
    OBVIOUS
  <1>1. world' = world
    BY DEF AllNext, ComponentNext, TreeNext, allVars
  <1>2. TreeInv
    BY <1>1
  <1>3. Tree!Next \/ UNCHANGED treeVars
    BY <1>1 DEF AllNext, ComponentNext, TreeNext, allVars
  <1>4. CASE Tree!Next
    BY <1>2, <1>4, TargetKept, PathKept, BonesKept, AllKept DEF TreeInv
  <1>5. CASE UNCHANGED treeVars
    <2>1. Tree!Target /\ UNCHANGED <<step, acc, state, index, stack, entry, childrenPtr, turn, childrenCount,
                                      visited, bones, torn, cut>>
      BY <1>5 DEF treeVars, Tree!Target, Tree!tree
    <2>2. TargetInv'
      BY <1>2, <2>1, TargetStays DEF TreeInv
    <2>3. UNCHANGED <<parent, place, parents, owner, array, kids, childCount, moves, reused, links>>
      BY <2>1 DEF Tree!Target, Tree!tree
    <2>4. PathInv'
      BY <1>2, <2>1, <2>3 DEF TreeInv, PathInv, Undisturbed, Tree!PathWasLinked, Tree!PathIsWhole
    <2>5. BoneInv'
      BY <1>2, <2>1, <2>3 DEF TreeInv, BoneInv, WasBelow
    <2>6. AllInv'
      BY <1>2, <2>1, <2>3 DEF TreeInv, AllInv, Searching, Handled
    <2>7. QED
      BY <2>2, <2>4, <2>5, <2>6 DEF TreeInv
  <1>6. QED
    BY <1>3, <1>4, <1>5

\* A position is computed along transforms each of which was the parent of the
\* one before at some time of the call, if Start was in the hierarchy read when
\* its slot was, and no slot gets another owner; in a tree at rest along all of
\* them up to the root if those are no more than allowed, and else along exactly
\* as many.  For any transforms, hierarchies and trees, any limit, however often
\* the target sets a parent, whichever reads fail.
THEOREM PathsAreOfTarget == AllSpec => []PathIsOfTarget
  <1> DEFINE J == world = "tree" => TreeInv
  <1>1. AllInit => J
    BY TreeAtFirst
  <1>2. J /\ [AllNext]_allVars => J'
    BY TreeKept
  <1>3. J => PathIsOfTarget
    BY DEF TreeInv, PathInv, PathIsOfTarget
  <1>4. QED
    BY <1>1, <1>2, <1>3, PTL DEF AllSpec

\* However parents are set and arrays of children replaced, no bone is reported
\* twice; if no array is replaced between the reads of its address and of its
\* count and words, each was a child of another visited one during the call; in
\* a tree at rest the bones are within the limits, and all there but what a
\* failing read cuts off.
THEOREM BonesAreAllOfTarget == AllSpec => []BonesAreOfTarget
  <1> DEFINE J == world = "tree" => TreeInv
  <1>1. AllInit => J
    BY TreeAtFirst
  <1>2. J /\ [AllNext]_allVars => J'
    BY TreeKept
  <1>3. J => BonesAreOfTarget
    BY BonesMean DEF TreeInv, BonesAreOfTarget
  <1>4. QED
    BY <1>1, <1>2, <1>3, PTL DEF AllSpec

\* The worlds of the run add nothing to the queries: what is proved of Spec
\* holds there.
LEMMA LookupInWorlds == AllSpec => Spec
  <1>1. AllInit => Init
    BY DEF AllInit
  <1>2. [AllNext]_allVars => [Next]_vars
    BY DEF AllNext, ComponentNext, TreeNext, allVars
  <1>3. QED
    BY <1>1, <1>2, PTL DEF AllSpec, Spec
==============================================================================
