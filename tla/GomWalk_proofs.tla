---------------------------- MODULE GomWalk_proofs ----------------------------
(***************************************************************************)
(* Theorems about GomWalk, for any set of nodes, tables and layouts and    *)
(* any limits.                                                             *)
(*                                                                         *)
(* Both results about entries need to know what the target can have left   *)
(* in the nodes the walk follows.  EmittedWasLinked is not inductive: the  *)
(* walk goes on from stale pointers of unlinked nodes, so one must know    *)
(* that such pointers lead to nodes that were on a list during the call    *)
(* (SeenInv), and that this is so when the call begins is a fact about     *)
(* the target's lists (RingInv): the next of a listed node is listed.      *)
(* That nothing is missed when the target only adds needs the converse,    *)
(* that every listed node is reached from a head (Reached).                *)
(***************************************************************************)
EXTENDS GomWalk, FiniteSetTheorems, TLAPS

LEMMA WordFacts ==
  /\ Heads \subseteq Nodes /\ Objects \subseteq Nodes /\ Null \notin Nodes
  /\ Objects \cap Heads = {} /\ Nodes \subseteq Words /\ Null \in Words
  BY TargetAssumption DEF Nodes, Words

LEMMA LayoutLen == \A t \in Tables : Len(Layout[t]) \in Nat
  BY WalkAssumption

(***************************************************************************)
(* A slot holds a list head or nothing, whatever index it is read at.      *)
(***************************************************************************)
LEMMA LayoutType ==
  ASSUME NEW t \in Tables, NEW i \in Nat \ {0}
  PROVE  SlotHead(t, i) \in Heads \cup {Null}
  <1>1. Layout[t] \in Seq(Heads \cup {Null})
    BY WalkAssumption
  <1>2. CASE t \in freed \/ i > Len(Layout[t])
    BY <1>2, WalkAssumption DEF SlotHead
  <1>3. CASE ~ (t \in freed \/ i > Len(Layout[t]))
    <2>1. i \in 1..Len(Layout[t])
      BY <1>1, <1>3
    <2>2. QED
      BY <1>1, <1>3, <2>1 DEF SlotHead
  <1>4. QED
    BY <1>2, <1>3

(***************************************************************************)
(* Type correctness.  A call that is past its first reads has a table, for *)
(* a manager once there stays there.                                       *)
(***************************************************************************)
TableKnown ==
  /\ pc \notin {"idle", "done"} => base \in Tables
  /\ pc \notin {"idle", "base", "done"} => rBase \in Tables

Typed == TypeOK /\ TableTypeOK /\ TableKnown

LEMMA TypedInit == Init => Typed
  <1> SUFFICES ASSUME Init PROVE Typed
    OBVIOUS
  <1>1. TargetTypeOK
    BY WordFacts DEF Init, TargetInit, TargetTypeOK, NoWrite
  <1>2. TableTypeOK /\ TableKnown
    BY WalkAssumption DEF Init, TableInit, TableTypeOK, TableKnown
  <1>3. rBase \in Tables \cup {Null} /\ list \in Heads /\ node \in Nodes
    BY WordFacts, WalkAssumption DEF Init, NoCall
  <1>4. rCount \in Nat /\ slot \in Nat \ {0} /\ steps \in Nat /\ buckets \in Seq(Nat \ {0})
    BY DEF Init, NoCall
  <1>5. /\ pc \in Pcs /\ phase \in {"buckets", "local"} /\ quiet \in BOOLEAN
        /\ visited \in SUBSET Nodes /\ seen \in SUBSET Nodes /\ kept \in SUBSET Objects
    BY DEF Init, NoCall, Pcs
  <1>6. out \in Seq(Nodes)
    BY DEF Init, NoCall
  <1>7. QED
    BY <1>1, <1>2, <1>3, <1>4, <1>5, <1>6 DEF Typed, TypeOK

(***************************************************************************)
(* The target's steps keep the target's types.                             *)
(***************************************************************************)
LEMMA LinkType ==
  ASSUME TargetTypeOK, NEW o \in Objects, NEW p \in linked, Link(o, p)
  PROVE  TargetTypeOK'
  <1>1. o \in Nodes /\ p \in Nodes /\ next[p] \in Words
    BY WordFacts DEF TargetTypeOK
  <1>2. next' \in [Nodes -> Words] /\ prev' \in [Nodes -> Words]
    BY <1>1, WordFacts DEF TargetTypeOK, Link
  <1>3. pending' \in [at : Words, word : Words]
    BY <1>1, WordFacts DEF Link
  <1>4. linked' \in SUBSET Nodes /\ Heads \subseteq linked' /\ unmapped' \in SUBSET (Objects \ linked')
    BY <1>1 DEF TargetTypeOK, Link
  <1>5. QED
    BY <1>2, <1>3, <1>4 DEF TargetTypeOK

LEMMA LeaveType ==
  ASSUME NEW kind \in Leaves, NEW o \in Words, NEW w \in Words
  PROVE  Leave(o, kind, w) \in Words
  BY TargetAssumption, WordFacts DEF Leave

LEMMA UnlinkType ==
  ASSUME TargetTypeOK, NEW o \in Objects, Unlink(o)
  PROVE  TargetTypeOK'
  <1>1. o \in Nodes /\ next[o] \in Words /\ prev[o] \in Words
    BY WordFacts DEF TargetTypeOK
  <1>2. PICK kind \in Leaves :
          /\ next' = [next EXCEPT ![prev[o]] = next[o], ![o] = Leave(o, kind, next[o])]
          /\ prev' = [prev EXCEPT ![o] = Leave(o, kind, prev[o])]
    BY DEF Unlink
  <1>3. Leave(o, kind, next[o]) \in Words /\ Leave(o, kind, prev[o]) \in Words
    BY <1>1, LeaveType, WordFacts
  <1>4. next' \in [Nodes -> Words] /\ prev' \in [Nodes -> Words]
    BY <1>1, <1>2, <1>3 DEF TargetTypeOK
  <1>5. pending' \in [at : Words, word : Words]
    BY <1>1 DEF Unlink
  <1>6. linked' \in SUBSET Nodes /\ Heads \subseteq linked' /\ unmapped' \in SUBSET (Objects \ linked')
    BY WordFacts DEF TargetTypeOK, Unlink
  <1>7. QED
    BY <1>4, <1>5, <1>6 DEF TargetTypeOK

LEMMA WriteBackType ==
  ASSUME TargetTypeOK, WriteBack
  PROVE  TargetTypeOK'
  <1>1. pending.word \in Words
    BY DEF TargetTypeOK
  <1>2. prev' \in [Nodes -> Words]
    BY <1>1 DEF TargetTypeOK, WriteBack
  <1>3. pending' \in [at : Words, word : Words]
    BY WordFacts DEF WriteBack, NoWrite
  <1>4. QED
    BY <1>2, <1>3 DEF TargetTypeOK, WriteBack

LEMMA UnmapType ==
  ASSUME TargetTypeOK, NEW o \in Objects, Unmap(o)
  PROVE  TargetTypeOK'
  BY DEF TargetTypeOK, Unmap

LEMMA ListStepType == TargetTypeOK /\ ListStep => TargetTypeOK'
  BY LinkType, UnlinkType, WriteBackType, UnmapType DEF ListStep

LEMMA TableStepType ==
  ASSUME TableTypeOK, CreateManager \/ RehashBase \/ RehashCount \/ FinishRehash \/ FreeTable
  PROVE  TableTypeOK' /\ (base \in Tables => base' \in Tables)
  <1>1. CASE CreateManager
    BY <1>1 DEF TableTypeOK, CreateManager
  <1>2. CASE RehashBase
    BY <1>2 DEF TableTypeOK, RehashBase
  <1>3. CASE RehashCount
    BY <1>3 DEF TableTypeOK, RehashCount
  <1>4. CASE FinishRehash
    BY <1>4 DEF TableTypeOK, FinishRehash
  <1>5. CASE FreeTable
    BY <1>5 DEF TableTypeOK, FreeTable
  <1>6. QED
    BY <1>1, <1>2, <1>3, <1>4, <1>5

(***************************************************************************)
(* The call's steps keep the types of its locals.                          *)
(***************************************************************************)
LEMMA CollectBucketType == Typed /\ CollectBucket => TypeOK'
  <1> SUFFICES ASSUME Typed, CollectBucket PROVE TypeOK'
    OBVIOUS
  <1>1. buckets' \in Seq(Nat \ {0})
    BY DEF Typed, TypeOK, CollectBucket
  <1>2. slot' \in Nat \ {0} /\ pc' \in Pcs
    BY DEF Typed, TypeOK, CollectBucket, Pcs
  <1>3. TargetTypeOK'
    BY DEF Typed, TypeOK, TargetTypeOK, CollectBucket, targetVars
  <1>4. QED
    BY <1>1, <1>2, <1>3 DEF Typed, TypeOK, CollectBucket, history

LEMMA EnterBucketType == Typed /\ EnterBucket => TypeOK'
  <1> SUFFICES ASSUME Typed, EnterBucket PROVE TypeOK'
    OBVIOUS
  <1>1. buckets' \in Seq(Nat \ {0}) /\ Head(buckets) \in Nat \ {0}
    BY DEF Typed, TypeOK, EnterBucket
  <1>2. SlotHead(rBase, Head(buckets)) \in Heads \cup {Null}
    BY <1>1, LayoutType DEF Typed, TableKnown, EnterBucket
  <1>3. list' \in Heads /\ node' \in Nodes /\ steps' \in Nat /\ pc' \in Pcs
    BY <1>2, WordFacts DEF Typed, TypeOK, EnterBucket, Pcs
  <1>4. TargetTypeOK'
    BY DEF Typed, TypeOK, TargetTypeOK, EnterBucket, targetVars
  <1>5. QED
    BY <1>1, <1>3, <1>4 DEF Typed, TypeOK, EnterBucket, history

LEMMA VisitNodeType == Typed /\ VisitNode => TypeOK'
  <1> SUFFICES ASSUME Typed, VisitNode PROVE TypeOK'
    OBVIOUS
  <1>1. node \in Nodes /\ next[node] \in Words
    BY DEF Typed, TypeOK, TargetTypeOK
  <1>2. visited' \in SUBSET Nodes /\ out' \in Seq(Nodes)
    <2>1. out' = out \/ out' = Append(out, node)
      BY DEF VisitNode, Entry
    <2>2. visited' = visited \cup {node}
      BY DEF VisitNode
    <2>3. QED
      BY <1>1, <2>1, <2>2 DEF Typed, TypeOK
  <1>3. node' \in Nodes /\ steps' \in Nat
    BY <1>1 DEF Typed, TypeOK, VisitNode, Stops, EndsList, Forward, Entry, Words
  <1>4. pc' \in Pcs
    BY DEF Typed, TypeOK, VisitNode, AfterList, Pcs
  <1>5. TargetTypeOK'
    BY DEF Typed, TypeOK, TargetTypeOK, VisitNode, targetVars
  <1>6. QED
    BY <1>2, <1>3, <1>4, <1>5 DEF Typed, TypeOK, VisitNode, history

LEMMA ReadType == Typed /\ (ReadBase \/ ReadCount \/ LastBucket \/ EnterLocal) => TypeOK'
  <1> SUFFICES ASSUME Typed, ReadBase \/ ReadCount \/ LastBucket \/ EnterLocal PROVE TypeOK'
    OBVIOUS
  <1>1. TargetTypeOK'
    BY DEF Typed, TypeOK, TargetTypeOK, ReadBase, ReadCount, LastBucket, EnterLocal, targetVars
  <1>2. CASE ReadBase
    BY <1>1, <1>2, WalkAssumption DEF Typed, TypeOK, TableTypeOK, ReadBase, history, Pcs
  <1>3. CASE ReadCount
    <2>1. rCount' \in Nat
      BY <1>3, LayoutLen DEF Typed, TableTypeOK, ReadCount
    <2>2. QED
      BY <1>1, <1>3, <2>1 DEF Typed, TypeOK, ReadCount, history, Pcs
  <1>4. CASE LastBucket
    BY <1>1, <1>4 DEF Typed, TypeOK, LastBucket, history, Pcs
  <1>5. CASE EnterLocal
    BY <1>1, <1>5, WalkAssumption, WordFacts DEF Typed, TypeOK, EnterLocal, history, Pcs
  <1>6. QED
    BY <1>2, <1>3, <1>4, <1>5

LEMMA CallType == Typed /\ (Begin \/ Return) => TypeOK'
  <1> SUFFICES ASSUME Typed, Begin \/ Return PROVE TypeOK'
    OBVIOUS
  <1>1. TargetTypeOK'
    BY DEF Typed, TypeOK, TargetTypeOK, Begin, Return, targetVars
  <1>2. CASE Begin
    <2>1. seen' \in SUBSET Nodes /\ kept' \in SUBSET Objects /\ quiet' \in BOOLEAN
      BY <1>2 DEF Typed, TypeOK, TargetTypeOK, Begin, Settled, Nodes
    <2>2. QED
      BY <1>1, <1>2, <2>1 DEF Typed, TypeOK, Begin, Pcs
  <1>3. CASE Return
    <2>1. list' \in Heads /\ node' \in Nodes /\ rBase' \in Tables \cup {Null}
      BY <1>3, WordFacts, WalkAssumption DEF Return
    <2>2. rCount' \in Nat /\ slot' \in Nat \ {0} /\ steps' \in Nat /\ buckets' \in Seq(Nat \ {0})
      BY <1>3 DEF Return
    <2>3. out' \in Seq(Nodes)
      BY <1>3 DEF Return
    <2>4. /\ pc' \in Pcs /\ phase' \in {"buckets", "local"} /\ quiet' \in BOOLEAN
          /\ visited' \in SUBSET Nodes /\ seen' \in SUBSET Nodes /\ kept' \in SUBSET Objects
      BY <1>3 DEF Return, Pcs
    <2>5. QED
      BY <1>1, <2>1, <2>2, <2>3, <2>4 DEF TypeOK
  <1>4. QED
    BY <1>2, <1>3

LEMMA TargetType == Typed /\ (ListStep \/ TableStep) => TypeOK'
  <1> SUFFICES ASSUME Typed, ListStep \/ TableStep PROVE TypeOK'
    OBVIOUS
  <1>1. CASE ListStep
    <2>1. TargetTypeOK'
      BY <1>1, ListStepType DEF Typed, TypeOK
    <2>2. seen' \in SUBSET Nodes /\ kept' \in SUBSET Objects /\ quiet' \in BOOLEAN
      BY <1>1, <2>1 DEF Typed, TypeOK, TargetTypeOK, ListStep
    <2>3. QED
      BY <1>1, <2>1, <2>2 DEF Typed, TypeOK, ListStep, callVars
  <1>2. CASE TableStep
    BY <1>2 DEF Typed, TypeOK, TargetTypeOK, TableStep, targetVars, callVars
  <1>3. QED
    BY <1>1, <1>2

LEMMA TypedNext == Typed /\ [Next]_vars => Typed'
  <1> SUFFICES ASSUME Typed, [Next]_vars PROVE Typed'
    OBVIOUS
  <1>1. TypeOK'
    <2>1. CASE UNCHANGED vars
      BY <2>1 DEF Typed, TypeOK, TargetTypeOK, vars, targetVars, callVars, history
    <2>2. CASE Next
      BY <2>2, CallType, ReadType, CollectBucketType, EnterBucketType, VisitNodeType, TargetType
      DEF Next, Reader
    <2>3. QED
      BY <2>1, <2>2
  <1>2. TableTypeOK' /\ (base \in Tables => base' \in Tables)
    <2>1. CASE TableStep
      BY <2>1, TableStepType DEF Typed, TableStep
    <2>2. CASE UNCHANGED tableVars
      BY <2>2 DEF Typed, TableTypeOK, tableVars
    <2>3. QED
      BY <2>1, <2>2 DEF Next, Reader, ListStep, Begin, Return, ReadBase, ReadCount,
        CollectBucket, EnterBucket, LastBucket, EnterLocal, VisitNode, vars
  <1>3. TableKnown'
    <2>1. CASE Begin
      BY <1>2, <2>1, WalkAssumption DEF Typed, TableTypeOK, TableKnown, Begin, tableVars
    <2>2. CASE Return
      BY <2>2 DEF TableKnown, Return
    <2>3. CASE Reader
      BY <2>3, WalkAssumption DEF Typed, TableTypeOK, TableKnown, Reader, ReadBase, ReadCount,
        CollectBucket, EnterBucket, LastBucket, EnterLocal, VisitNode, AfterList, tableVars
    <2>4. CASE ListStep \/ TableStep \/ UNCHANGED vars
      BY <1>2, <2>4 DEF Typed, TableKnown, ListStep, TableStep, callVars, tableVars, vars
    <2>5. QED
      BY <2>1, <2>2, <2>3, <2>4 DEF Next
  <1>4. QED
    BY <1>1, <1>2, <1>3 DEF Typed

LEMMA TypedAlways == Spec => []Typed
  BY TypedInit, TypedNext, PTL DEF Spec

(***************************************************************************)
(* The call and the target it reads keep their types: a word read from the *)
(* target is followed only when it is a node's address, and a slot index   *)
(* taken from one table may be used on another without leaving the types.  *)
(***************************************************************************)
THEOREM TypeCorrect == Spec => []TypeOK
  BY TypedAlways, PTL DEF Typed

(***************************************************************************)
(* No entry twice.                                                         *)
(***************************************************************************)
LEMMA AppendRange ==
  ASSUME NEW S, NEW s \in Seq(S), NEW e \in S
  PROVE  LET t == Append(s, e) IN
           {t[i] : i \in 1..Len(t)} = {s[i] : i \in 1..Len(s)} \cup {e}
  <1> DEFINE t == Append(s, e)
  <1>1. Len(s) \in Nat /\ Len(t) = Len(s) + 1 /\ 1..Len(t) = 1..Len(s) \cup {Len(t)}
    OBVIOUS
  <1>2. t[Len(t)] = e /\ \A i \in 1..Len(s) : t[i] = s[i]
    OBVIOUS
  <1> HIDE DEF t
  <1>3. {t[i] : i \in 1..Len(t)} = {s[i] : i \in 1..Len(s)} \cup {e}
    BY <1>1, <1>2
  <1>4. QED
    BY <1>3 DEF t

LEMMA EmittedStep ==
  ASSUME TypeOK, VisitNode
  PROVE  \/ out' = out /\ Emitted' = Emitted
         \/ /\ node \notin visited
            /\ out' = Append(out, node)
            /\ Emitted' = Emitted \cup {node}
  <1>1. CASE out' = out
    BY <1>1 DEF Emitted
  <1>2. CASE out' # out
    <2>1. node \notin visited /\ out' = Append(out, node)
      BY <1>2 DEF VisitNode, Stops, EndsList, Forward, Entry
    <2>2. out \in Seq(Nodes) /\ node \in Nodes
      BY DEF TypeOK
    <2>3. Emitted' = Emitted \cup {node}
      BY <2>1, <2>2, AppendRange DEF Emitted
    <2>4. QED
      BY <2>1, <2>3
  <1>3. QED
    BY <1>1, <1>2

NoDupInv == Emitted \subseteq visited /\ NoDuplicateEntry

LEMMA NoDupInit == Init => NoDupInv
  BY DEF Init, NoCall, NoDupInv, Emitted, NoDuplicateEntry

LEMMA NoDupNext == TypeOK /\ NoDupInv /\ [Next]_vars => NoDupInv'
  <1> SUFFICES ASSUME TypeOK, NoDupInv, [Next]_vars PROVE NoDupInv'
    OBVIOUS
  <1>1. CASE VisitNode
    <2>1. visited' = visited \cup {node}
      BY <1>1 DEF VisitNode
    <2>2. CASE out' = out /\ Emitted' = Emitted
      BY <2>1, <2>2 DEF NoDupInv, NoDuplicateEntry
    <2>3. CASE node \notin visited /\ out' = Append(out, node) /\ Emitted' = Emitted \cup {node}
      <3>1. Emitted' \subseteq visited'
        BY <2>1, <2>3 DEF NoDupInv
      <3>2. out \in Seq(Nodes) /\ node \in Nodes
        BY DEF TypeOK
      <3>3. /\ Len(out') = Len(out) + 1 /\ Len(out) \in Nat
            /\ out'[Len(out')] = node /\ \A i \in 1..Len(out) : out'[i] = out[i]
        BY <2>3, <3>2
      <3>4. \A i \in 1..Len(out) : out[i] # node
        BY <2>3 DEF NoDupInv, Emitted
      <3>5. ASSUME NEW i \in 1..Len(out'), NEW j \in 1..Len(out'), out'[i] = out'[j]
            PROVE  i = j
        BY <3>3, <3>4, <3>5 DEF NoDupInv, NoDuplicateEntry
      <3>6. QED
        BY <3>1, <3>5 DEF NoDupInv, NoDuplicateEntry
    <2>4. QED
      BY <1>1, <2>2, <2>3, EmittedStep
  <1>2. CASE Return
    <2>1. out' = <<>>
      BY <1>2 DEF Return
    <2>2. QED
      BY <2>1 DEF NoDupInv, Emitted, NoDuplicateEntry
  <1>3. CASE UNCHANGED <<visited, out>>
    BY <1>3 DEF NoDupInv, Emitted, NoDuplicateEntry
  <1>4. QED
    BY <1>1, <1>2, <1>3 DEF Next, Reader, Begin, ReadBase, ReadCount, CollectBucket, EnterBucket,
      LastBucket, EnterLocal, ListStep, TableStep, callVars, vars

(***************************************************************************)
(* No node is reported twice by one call, however many times the target    *)
(* moves it between lists ahead of the walk.                               *)
(***************************************************************************)
THEOREM NoDuplicates == Spec => []NoDuplicateEntry
  <1>1. Init => NoDupInv
    BY NoDupInit
  <1>2. TypeOK /\ NoDupInv /\ [Next]_vars => NoDupInv'
    BY NoDupNext
  <1>3. NoDupInv => NoDuplicateEntry
    BY DEF NoDupInv
  <1>4. QED
    BY <1>1, <1>2, <1>3, TypeCorrect, PTL DEF Spec

(***************************************************************************)
(* The target's lists.  EffPrev is the backward word of a node once the    *)
(* write under way has been made; with it every listed node's neighbours   *)
(* are listed and point back at it, between any two writes.                *)
(***************************************************************************)
EffPrev(n) == IF pending # NoWrite /\ n = pending.at THEN pending.word ELSE prev[n]

RingInv ==
  \A n \in linked :
    /\ next[n] \in linked /\ EffPrev(n) \in linked
    /\ EffPrev(next[n]) = n /\ next[EffPrev(n)] = n

LEMMA RingInit == Init => RingInv
  BY TargetAssumption, WordFacts DEF Init, TargetInit, RingInv, EffPrev

LEMMA RingLink ==
  ASSUME TargetTypeOK, RingInv, NEW o \in Objects, NEW p \in linked, Link(o, p)
  PROVE  RingInv'
  <1>1. pending = NoWrite /\ o \notin linked /\ o \in Nodes /\ p \in Nodes
    BY WordFacts DEF Link, TargetTypeOK
  <1>2. \A n \in linked : EffPrev(n) = prev[n]
    BY <1>1 DEF EffPrev
  <1>3. PICK q \in Nodes : q = next[p] /\ q \in linked /\ prev[q] = p
    BY <1>2 DEF RingInv, TargetTypeOK
  <1>4. pending' = [at |-> q, word |-> o] /\ pending' # NoWrite
    BY <1>3, WordFacts DEF Link, NoWrite
  <1>5. /\ next'[o] = q /\ next'[p] = o
        /\ \A n \in linked \ {p} : next'[n] = next[n]
    BY <1>1, <1>3 DEF Link, TargetTypeOK
  <1>6. /\ EffPrev(o)' = p /\ EffPrev(q)' = o
        /\ \A n \in linked \ {q} : EffPrev(n)' = prev[n]
    BY <1>1, <1>3, <1>4 DEF Link, TargetTypeOK, EffPrev
  <1>7. linked' = linked \cup {o}
    BY DEF Link
  <1>8. QED
    BY <1>1, <1>2, <1>3, <1>5, <1>6, <1>7 DEF RingInv

LEMMA RingUnlink ==
  ASSUME TargetTypeOK, RingInv, NEW o \in Objects, Unlink(o)
  PROVE  RingInv'
  <1>1. pending = NoWrite /\ o \in linked /\ o \notin Heads /\ o \in Nodes
    BY WordFacts DEF Unlink
  <1>2. \A n \in linked : EffPrev(n) = prev[n]
    BY <1>1 DEF EffPrev
  <1>3. PICK l \in Nodes, r \in Nodes : l = prev[o] /\ r = next[o]
    BY <1>1, <1>2 DEF RingInv, TargetTypeOK
  <1>4. /\ l \in linked /\ r \in linked /\ next[l] = o /\ prev[r] = o
        /\ l = o => r = o
        /\ r = o => l = o
    BY <1>1, <1>2, <1>3 DEF RingInv
  <1>5. pending' = [at |-> r, word |-> l] /\ pending' # NoWrite
    BY <1>3, WordFacts DEF Unlink, NoWrite
  <1>6. /\ l # o => next'[l] = r
        /\ \A n \in linked \ {o, l} : next'[n] = next[n]
    BY <1>1, <1>3 DEF Unlink, TargetTypeOK
  <1>7. /\ EffPrev(r)' = l
        /\ \A n \in linked \ {o, r} : EffPrev(n)' = prev[n]
    BY <1>1, <1>3, <1>5 DEF Unlink, TargetTypeOK, EffPrev
  <1>8. linked' = linked \ {o}
    BY DEF Unlink
  <1>9. QED
    BY <1>1, <1>2, <1>3, <1>4, <1>6, <1>7, <1>8 DEF RingInv

LEMMA RingNext == TargetTypeOK /\ RingInv /\ [Next]_vars => RingInv'
  <1> SUFFICES ASSUME TargetTypeOK, RingInv, [Next]_vars PROVE RingInv'
    OBVIOUS
  <1>1. CASE ListStep
    <2>1. CASE WriteBack
      <3>1. \A n \in linked : EffPrev(n)' = EffPrev(n)
        BY <2>1 DEF WriteBack, EffPrev, TargetTypeOK
      <3>2. next' = next /\ linked' = linked
        BY <2>1 DEF WriteBack
      <3>3. QED
        BY <3>1, <3>2 DEF RingInv
    <2>2. ASSUME NEW o \in Objects, Unmap(o)
          PROVE  RingInv'
      BY <2>2 DEF Unmap, RingInv, EffPrev
    <2>3. QED
      BY <1>1, <2>1, <2>2, RingLink, RingUnlink DEF ListStep
  <1>2. CASE UNCHANGED targetVars
    BY <1>2 DEF targetVars, RingInv, EffPrev
  <1>3. QED
    BY <1>1, <1>2 DEF Next, Reader, Begin, Return, ReadBase, ReadCount, CollectBucket,
      EnterBucket, LastBucket, EnterLocal, VisitNode, TableStep, vars

(***************************************************************************)
(* What the walk can step on.  Nodes off every list may still be followed, *)
(* but only to nodes that were on a list since the call began.             *)
(***************************************************************************)
SeenInv ==
  /\ pc = "idle" => node = LocalHead /\ out = <<>>
  /\ pc # "idle" => /\ linked \subseteq seen
                    /\ node \in seen
                    /\ \A n \in seen : next[n] \in seen \cup {Null}
  /\ Emitted \subseteq seen

LEMMA SeenInit == Init => SeenInv
  BY DEF Init, NoCall, SeenInv, Emitted

LEMMA SeenBegin == TypeOK /\ RingInv /\ SeenInv /\ Begin => SeenInv'
  <1> SUFFICES ASSUME TypeOK, RingInv, SeenInv, Begin PROVE SeenInv'
    OBVIOUS
  <1>1. /\ pc = "idle" /\ pc' # "idle" /\ seen' = linked
        /\ next' = next /\ linked' = linked /\ node' = node /\ out' = out
    BY DEF Begin, targetVars
  <1>2. LocalHead \in linked
    BY WalkAssumption DEF TypeOK, TargetTypeOK
  <1>3. \A n \in linked : next[n] \in linked
    BY DEF RingInv
  <1>4. Emitted' = {}
    BY <1>1 DEF SeenInv, Emitted
  <1>5. QED
    BY <1>1, <1>2, <1>3, <1>4 DEF SeenInv

LEMMA SeenVisit == TypeOK /\ SeenInv /\ VisitNode => SeenInv'
  <1> SUFFICES ASSUME TypeOK, SeenInv, VisitNode PROVE SeenInv'
    OBVIOUS
  <1>1. pc # "idle" /\ pc' # "idle" /\ next' = next /\ linked' = linked /\ seen' = seen
    BY DEF VisitNode, AfterList, targetVars, history
  <1>2. node' \in seen
    BY DEF SeenInv, VisitNode, Stops, EndsList, Forward, Entry
  <1>3. Emitted' \subseteq seen
    BY EmittedStep, <1>1 DEF SeenInv
  <1>4. QED
    BY <1>1, <1>2, <1>3 DEF SeenInv

(***************************************************************************)
(* A list step extends seen by what it links, and leaves no pointer from a *)
(* seen node to one that has never been on a list during the call.         *)
(***************************************************************************)
LEMMA SeenList == TypeOK /\ RingInv /\ SeenInv /\ ListStep => SeenInv'
  <1> SUFFICES ASSUME TypeOK, RingInv, SeenInv, ListStep PROVE SeenInv'
    OBVIOUS
  <1>1. UNCHANGED <<pc, node, out>> /\ seen' = IF pc = "idle" THEN seen ELSE seen \cup linked'
    BY DEF ListStep, callVars
  <1>2. Emitted' = Emitted
    BY <1>1 DEF Emitted
  <1>3. CASE pc = "idle"
    BY <1>1, <1>2, <1>3 DEF SeenInv
  <1>4. CASE pc # "idle"
    <2>1. \A n \in seen' : next'[n] \in seen' \cup {Null}
      <3>1. ASSUME NEW o \in Objects, NEW p \in linked, Link(o, p)
            PROVE  \A n \in seen' : next'[n] \in seen' \cup {Null}
        <4>1. linked' = linked \cup {o} /\ o \in Nodes /\ p \in Nodes /\ next[p] \in linked
          BY <3>1, WordFacts DEF Link, TypeOK, TargetTypeOK, RingInv
        <4>2. \A n \in Nodes : next'[n] \in {next[n], next[p], o}
          BY <3>1, <4>1 DEF Link, TypeOK, TargetTypeOK
        <4>3. seen' = seen \cup {o} /\ seen' \subseteq Nodes
          BY <1>1, <1>4, <4>1 DEF SeenInv, TypeOK
        <4>4. \A n \in seen : next'[n] \in seen' \cup {Null}
          BY <1>4, <4>1, <4>2, <4>3 DEF SeenInv
        <4>5. next'[o] = next[p]
          BY <3>1, <4>1 DEF Link, TypeOK, TargetTypeOK
        <4>6. QED
          BY <1>4, <4>1, <4>3, <4>4, <4>5 DEF SeenInv
      <3>2. ASSUME NEW o \in Objects, Unlink(o)
            PROVE  \A n \in seen' : next'[n] \in seen' \cup {Null}
        <4>1. linked' \subseteq linked /\ o \in linked /\ o \in Nodes /\ next[o] \in linked
          BY <3>2, WordFacts DEF Unlink, RingInv
        <4>2. seen' = seen /\ o \in seen /\ next[o] \in seen
          BY <1>1, <1>4, <4>1 DEF SeenInv
        <4>3. PICK kind \in Leaves :
                next' = [next EXCEPT ![prev[o]] = next[o], ![o] = Leave(o, kind, next[o])]
          BY <3>2 DEF Unlink
        <4>4. Leave(o, kind, next[o]) \in {next[o], Null, o}
          BY TargetAssumption DEF Leave
        <4>5. \A n \in Nodes : next'[n] \in {next[n], next[o], Null, o}
          BY <4>1, <4>3, <4>4 DEF TypeOK, TargetTypeOK
        <4>6. QED
          BY <1>4, <4>2, <4>5 DEF SeenInv, TypeOK
      <3>3. ASSUME UNCHANGED <<next, linked>>
            PROVE  \A n \in seen' : next'[n] \in seen' \cup {Null}
        BY <1>1, <1>4, <3>3 DEF SeenInv
      <3>4. QED
        BY <3>1, <3>2, <3>3 DEF ListStep, WriteBack, Unmap
    <2>2. QED
      BY <1>1, <1>2, <1>4, <2>1 DEF SeenInv
  <1>5. QED
    BY <1>3, <1>4

LEMMA SeenNext == Typed /\ RingInv /\ SeenInv /\ [Next]_vars => SeenInv'
  <1> SUFFICES ASSUME Typed, RingInv, SeenInv, [Next]_vars PROVE SeenInv'
    OBVIOUS
  <1>1. TypeOK
    BY DEF Typed
  <1>2. CASE EnterBucket \/ EnterLocal
    <2>1. /\ UNCHANGED <<next, linked, seen, out>> /\ pc # "idle" /\ pc' # "idle"
          /\ node' \in Heads \cup {node}
      <3>1. CASE EnterLocal
        BY <3>1, WalkAssumption DEF EnterLocal, targetVars, history
      <3>2. CASE EnterBucket
        <4>1. Head(buckets) \in Nat \ {0}
          BY <1>1, <3>2 DEF EnterBucket, TypeOK
        <4>2. SlotHead(rBase, Head(buckets)) \in Heads \cup {Null}
          BY <3>2, <4>1, LayoutType DEF Typed, TableKnown, EnterBucket
        <4>3. QED
          BY <3>2, <4>2 DEF EnterBucket, targetVars, history
      <3>3. QED
        BY <1>2, <3>1, <3>2
    <2>2. node' \in seen
      BY <1>1, <2>1 DEF SeenInv, TypeOK, TargetTypeOK
    <2>3. QED
      BY <2>1, <2>2 DEF SeenInv, Emitted
  <1>3. CASE Return
    <2>1. out' = <<>> /\ pc' = "idle" /\ node' = LocalHead
      BY <1>3 DEF Return
    <2>2. QED
      BY <2>1 DEF SeenInv, Emitted
  <1>4. CASE ReadBase \/ ReadCount \/ CollectBucket \/ LastBucket \/ TableStep \/ UNCHANGED vars
    <2>1. /\ UNCHANGED <<next, linked, seen, out, node>> /\ (pc = "idle") = (pc' = "idle")
      BY <1>4 DEF ReadBase, ReadCount, CollectBucket, LastBucket, TableStep, targetVars, callVars,
        history, vars
    <2>2. QED
      BY <2>1 DEF SeenInv, Emitted
  <1>5. QED
    BY <1>1, <1>2, <1>3, <1>4, SeenBegin, SeenVisit, SeenList DEF Next, Reader

(***************************************************************************)
(* Whatever the target does to its lists during a call, every entry is a   *)
(* node that was on a list at some time during that call.                  *)
(***************************************************************************)
THEOREM EntriesWereLinked == Spec => []EmittedWasLinked
  <1>1. Init => RingInv /\ SeenInv
    BY RingInit, SeenInit
  <1>2. Typed /\ RingInv /\ SeenInv /\ [Next]_vars => (RingInv /\ SeenInv)'
    BY RingNext, SeenNext DEF Typed, TypeOK
  <1>3. SeenInv => EmittedWasLinked
    BY DEF SeenInv, EmittedWasLinked
  <1>4. QED
    BY <1>1, <1>2, <1>3, TypedAlways, PTL DEF Spec

(***************************************************************************)
(* The refinement: each step of the call or the target is one of the       *)
(* listing's, or leaves what the listing sees alone.                       *)
(***************************************************************************)
LEMMA ListingInit == Init => Listing!Init
  <1> SUFFICES ASSUME Init PROVE Listing!Init
    OBVIOUS
  <1>1. Phase = "idle" /\ seen = {} /\ Emitted = {}
    BY DEF Init, NoCall, Phase, Emitted
  <1>2. linked \in SUBSET Nodes
    BY TypedInit DEF Typed, TypeOK, TargetTypeOK
  <1>3. QED
    BY <1>1, <1>2 DEF Listing!Init

LEMMA ListingBegin == Begin => Listing!Start
  <1> SUFFICES ASSUME Begin PROVE Listing!Start
    OBVIOUS
  <1>1. Phase = "idle" /\ Phase' \in {"running", "answered"}
    BY DEF Begin, Phase
  <1>2. seen' = linked /\ linked' = linked /\ Emitted' = Emitted
    BY DEF Begin, Emitted, targetVars
  <1>3. QED
    BY <1>1, <1>2 DEF Listing!Start, Listing!GoesOn

LEMMA ListingReturn == Return => Listing!Clear
  <1> SUFFICES ASSUME Return PROVE Listing!Clear
    OBVIOUS
  <1>1. Phase = "answered" /\ Phase' = "idle"
    BY DEF Return, Phase
  <1>2. seen' = {} /\ linked' = linked /\ Emitted' = {}
    BY DEF Return, Emitted, targetVars
  <1>3. QED
    BY <1>1, <1>2 DEF Listing!Clear

\* A turn of the node loop reports its node, which SeenInv knows, or nothing.
LEMMA ListingVisit ==
  ASSUME TypeOK, SeenInv, VisitNode
  PROVE  [Listing!Next]_Listing!listingVars
  <1>1. Phase = "running" /\ Phase' \in {"running", "answered"}
    BY DEF VisitNode, AfterList, Phase
  <1>2. linked' = linked /\ seen' = seen /\ node \in seen /\ node \in Nodes
    BY DEF VisitNode, targetVars, history, SeenInv, TypeOK
  <1>3. CASE Emitted' = Emitted
    <2>1. CASE Phase' = "running"
      BY <1>1, <1>2, <1>3, <2>1 DEF Listing!listingVars
    <2>2. CASE Phase' = "answered"
      BY <1>1, <1>2, <1>3, <2>2 DEF Listing!Answer, Listing!Next
    <2>3. QED
      BY <1>1, <2>1, <2>2
  <1>4. CASE Emitted' = Emitted \cup {node}
    <2>1. Listing!ReportOne(node)
      BY <1>1, <1>2, <1>4 DEF Listing!ReportOne, Listing!GoesOn
    <2>2. QED
      BY <1>2, <2>1 DEF Listing!Next
  <1>5. QED
    BY <1>3, <1>4, EmittedStep

LEMMA ListingTarget == TypeOK /\ ListStep => Listing!Change
  <1> SUFFICES ASSUME TypeOK, ListStep PROVE Listing!Change
    OBVIOUS
  <1>1. linked' \in SUBSET Nodes
    BY ListStepType DEF TypeOK, TargetTypeOK
  <1>2. pc' = pc /\ out' = out /\ pc # "done"
    BY DEF ListStep, callVars
  <1>3. Phase' = Phase /\ Emitted' = Emitted /\ (Phase = "running" <=> pc # "idle")
    BY <1>2 DEF Phase, Emitted
  <1>4. seen' = IF Phase = "running" THEN seen \cup linked' ELSE seen
    BY <1>3 DEF ListStep
  <1>5. QED
    BY <1>1, <1>3, <1>4 DEF Listing!Change

LEMMA ListingStutter ==
  ASSUME ReadBase \/ ReadCount \/ CollectBucket \/ EnterBucket \/ LastBucket \/ EnterLocal
         \/ TableStep \/ UNCHANGED vars
  PROVE  UNCHANGED Listing!listingVars
  <1>1. UNCHANGED <<linked, seen, out>>
    BY DEF ReadBase, ReadCount, CollectBucket, EnterBucket, LastBucket, EnterLocal, TableStep,
      targetVars, callVars, history, vars
  <1>2. Phase' = Phase
    BY DEF ReadBase, ReadCount, CollectBucket, EnterBucket, LastBucket, EnterLocal, TableStep,
      callVars, vars, Phase
  <1>3. Emitted' = Emitted
    BY <1>1 DEF Emitted
  <1>4. QED
    BY <1>1, <1>2, <1>3 DEF Listing!listingVars

LEMMA ListingNext ==
  Typed /\ SeenInv /\ [Next]_vars => [Listing!Next]_Listing!listingVars
  <1> SUFFICES ASSUME Typed, SeenInv, [Next]_vars PROVE [Listing!Next]_Listing!listingVars
    OBVIOUS
  <1>1. TypeOK
    BY DEF Typed
  <1>2. CASE Begin \/ Return
    BY <1>2, ListingBegin, ListingReturn DEF Listing!Next
  <1>3. CASE VisitNode
    BY <1>1, <1>3, ListingVisit
  <1>4. CASE ListStep
    BY <1>1, <1>4, ListingTarget DEF Listing!Next
  <1>5. CASE ReadBase \/ ReadCount \/ CollectBucket \/ EnterBucket \/ LastBucket \/ EnterLocal
             \/ TableStep \/ UNCHANGED vars
    BY <1>5, ListingStutter
  <1>6. QED
    BY <1>2, <1>3, <1>4, <1>5 DEF Next, Reader

(***************************************************************************)
(* EnumerateGameObjects is a listing: what it reports it reports one by    *)
(* one, each a node that was on a list since the call began, whatever the  *)
(* target does to its lists and tables meanwhile.                          *)
(***************************************************************************)
THEOREM WalkImplementsListing == Spec => ImplementsListing
  <1>1. Init => RingInv /\ SeenInv
    BY RingInit, SeenInit
  <1>2. Typed /\ RingInv /\ SeenInv /\ [Next]_vars => (RingInv /\ SeenInv)'
    BY RingNext, SeenNext DEF Typed, TypeOK
  <1>3. Spec => [](Typed /\ RingInv /\ SeenInv)
    BY <1>1, <1>2, TypedAlways, PTL DEF Spec
  <1>4. QED
    BY <1>3, ListingInit, ListingNext, PTL DEF Spec, ImplementsListing, Listing!Spec

(***************************************************************************)
(* Completeness of a call that only sees additions.  The nodes a walk can  *)
(* still come to cannot be counted off along the list, for the target adds *)
(* to it on both sides of the walk, so the argument is about sets instead: *)
(* a set that holds every head and the next of each of its members holds   *)
(* every listed node (Reached), and the call leaves such a set behind it   *)
(* whose objects it has reported (Cover).                                  *)
(***************************************************************************)
Reached ==
  \A C \in SUBSET linked : Heads \subseteq C /\ (\A n \in C : next[n] \in C) => linked \subseteq C

LEMMA ReachedInit == Init => Reached
  BY DEF Init, TargetInit, Reached

LEMMA ReachedLink ==
  ASSUME TargetTypeOK, RingInv, Reached, NEW o \in Objects, NEW p \in linked, Link(o, p)
  PROVE  Reached'
  <1> SUFFICES ASSUME NEW C \in SUBSET linked', Heads \subseteq C, \A n \in C : next'[n] \in C
               PROVE  linked' \subseteq C
    BY DEF Reached
  <1>1. /\ o \notin linked /\ linked' = linked \cup {o} /\ o \notin Heads
        /\ next'[p] = o /\ next'[o] = next[p]
        /\ \A n \in linked \ {p} : next'[n] = next[n]
    BY WordFacts DEF Link, TargetTypeOK
  <1>2. \A n \in linked : next[n] \in linked
    BY DEF RingInv
  <1>3. \A n \in C \ {o} : next[n] \in C \ {o}
    BY <1>1, <1>2
  <1>4. C \ {o} \in SUBSET linked /\ Heads \subseteq C \ {o}
    BY <1>1
  <1>5. linked \subseteq C \ {o}
    BY <1>3, <1>4 DEF Reached
  <1>6. QED
    BY <1>1, <1>5

LEMMA ReachedUnlink ==
  ASSUME TargetTypeOK, RingInv, Reached, NEW o \in Objects, Unlink(o)
  PROVE  Reached'
  <1> SUFFICES ASSUME NEW C \in SUBSET linked', Heads \subseteq C, \A n \in C : next'[n] \in C
               PROVE  linked' \subseteq C
    BY DEF Reached
  <1>1. pending = NoWrite /\ o \in linked /\ linked' = linked \ {o} /\ o \in Nodes
    BY WordFacts DEF Unlink
  <1>2. PICK l \in linked : l = prev[o] /\ next[l] = o
    BY <1>1 DEF RingInv, EffPrev
  <1>3. /\ l # o => next'[l] = next[o]
        /\ \A n \in linked \ {o, l} : next'[n] = next[n]
    BY <1>1, <1>2 DEF Unlink, TargetTypeOK
  <1>4. CASE l \in C
    <2>1. \A n \in C \cup {o} : next[n] \in C \cup {o}
      BY <1>1, <1>2, <1>3, <1>4
    <2>2. linked \subseteq C \cup {o}
      BY <1>1, <2>1 DEF Reached
    <2>3. QED
      BY <1>1, <2>2
  <1>5. CASE l \notin C
    <2>1. \A n \in C : next[n] \in C
      BY <1>1, <1>3, <1>5
    <2>2. linked \subseteq C
      BY <1>1, <2>1 DEF Reached
    <2>3. QED
      BY <1>1, <2>2
  <1>6. QED
    BY <1>4, <1>5

LEMMA ReachedNext == TargetTypeOK /\ RingInv /\ Reached /\ [Next]_vars => Reached'
  <1> SUFFICES ASSUME TargetTypeOK, RingInv, Reached, [Next]_vars PROVE Reached'
    OBVIOUS
  <1>1. CASE UNCHANGED <<next, linked>>
    BY <1>1 DEF Reached
  <1>2. CASE ListStep
    BY <1>1, <1>2, ReachedLink, ReachedUnlink DEF ListStep, WriteBack, Unmap
  <1>3. QED
    BY <1>1, <1>2 DEF Next, Reader, Begin, Return, ReadBase, ReadCount, CollectBucket,
      EnterBucket, LastBucket, EnterLocal, VisitNode, TableStep, targetVars, vars

(***************************************************************************)
(* While nothing but additions happens, the words the call has read are    *)
(* still those of the table, which is not freed.                           *)
(***************************************************************************)
QuietInv ==
  /\ base \notin freed
  /\ base = Nothing => freed = {}
  /\ kept \subseteq linked
  /\ quiet =>
       /\ pc # "idle"
       /\ Settled
       /\ pc # "base" => rBase = base
       /\ pc \notin {"base", "count"} => rCount = count

LEMMA QuietInit == Init => QuietInv
  BY DEF Init, TableInit, NoCall, QuietInv

LEMMA QuietNext == Typed /\ QuietInv /\ [Next]_vars => QuietInv'
  <1> SUFFICES ASSUME Typed, QuietInv, [Next]_vars PROVE QuietInv'
    OBVIOUS
  <1>1. CASE Begin
    BY <1>1 DEF Begin, QuietInv, Settled, tableVars, targetVars
  <1>2. CASE Return
    BY <1>2 DEF Return, QuietInv, tableVars
  <1>3. CASE Reader
    <2>1. UNCHANGED <<targetVars, tableVars, history>> /\ pc # "idle" /\ pc # "done" /\ pc' # "idle"
      BY <1>3 DEF Reader, ReadBase, ReadCount, CollectBucket, EnterBucket, LastBucket, EnterLocal,
        VisitNode, AfterList
    <2>2. pc = "base" => pc' = "count" /\ rBase' = base
      BY <1>3 DEF Reader, ReadBase, ReadCount, CollectBucket, EnterBucket, LastBucket, EnterLocal,
        VisitNode
    <2>3. pc = "count" => pc' # "base" /\ rBase' = rBase /\ rCount' = count
      BY <1>3 DEF Reader, ReadBase, ReadCount, CollectBucket, EnterBucket, LastBucket, EnterLocal,
        VisitNode
    <2>4. pc \notin {"base", "count"} =>
            pc' \notin {"base", "count"} /\ rBase' = rBase /\ rCount' = rCount
      BY <1>3 DEF Reader, ReadBase, ReadCount, CollectBucket, EnterBucket, LastBucket, EnterLocal,
        VisitNode, AfterList
    <2>5. QED
      BY <2>1, <2>2, <2>3, <2>4 DEF QuietInv, Settled, targetVars, tableVars, history
  <1>4. CASE ListStep
    BY <1>4 DEF ListStep, QuietInv, Settled, tableVars, callVars
  <1>5. CASE TableStep
    <2>1. quiet' = FALSE /\ UNCHANGED <<kept, linked>>
      BY <1>5 DEF TableStep, targetVars
    <2>2. base' \notin freed' /\ (base' = Nothing => freed' = {})
      BY <1>5, TableAssumption DEF TableStep, CreateManager, RehashBase, RehashCount, FinishRehash,
        FreeTable, Settled, QuietInv, Typed, TableTypeOK
    <2>3. QED
      BY <2>1, <2>2 DEF QuietInv
  <1>6. CASE UNCHANGED vars
    BY <1>6 DEF vars, targetVars, tableVars, callVars, history, QuietInv, Settled
  <1>7. QED
    BY <1>1, <1>2, <1>3, <1>4, <1>5, <1>6 DEF Next

(***************************************************************************)
(* The local list comes last, after every collected bucket.                *)
(***************************************************************************)
PhaseInv ==
  /\ pc \notin {"node", "done"} => phase = "buckets"
  /\ pc \in {"base", "count"} => buckets = <<>> /\ slot = 1
  /\ pc = "local" \/ phase = "local" => buckets = <<>>
  /\ pc = "done" /\ quiet => phase = "local"
  /\ pc = "idle" => buckets = <<>> /\ slot = 1 /\ ~ quiet /\ visited = {}
  /\ pc \in {"base", "count", "collect"} => visited = {}

LEMMA PhaseInit == Init => PhaseInv
  BY DEF Init, NoCall, PhaseInv

LEMMA PhaseNext == TypeOK /\ PhaseInv /\ [Next]_vars => PhaseInv'
  <1> SUFFICES ASSUME TypeOK, PhaseInv, [Next]_vars PROVE PhaseInv'
    OBVIOUS
  <1>1. phase \in {"buckets", "local"}
    BY DEF TypeOK
  <1>2. CASE Begin \/ Return
    BY <1>2 DEF Begin, Return, PhaseInv, Settled
  <1>3. CASE ReadBase \/ ReadCount \/ CollectBucket \/ EnterBucket \/ LastBucket
    BY <1>1, <1>3 DEF ReadBase, ReadCount, CollectBucket, EnterBucket, LastBucket, PhaseInv, history
  <1>4. CASE EnterLocal \/ VisitNode
    BY <1>1, <1>4 DEF EnterLocal, VisitNode, AfterList, PhaseInv, history
  <1>5. CASE ListStep \/ TableStep \/ UNCHANGED vars
    <2>1. UNCHANGED <<pc, phase, buckets, slot, visited>>
      BY <1>5 DEF ListStep, TableStep, callVars, vars
    <2>2. quiet' => quiet
      BY <1>5, Zenon DEF ListStep, TableStep, history, vars
    <2>3. QED
      BY <2>1, <2>2 DEF PhaseInv
  <1>6. QED
    BY <1>2, <1>3, <1>4, <1>5 DEF Next, Reader

(***************************************************************************)
(* The lists the walk has not come to yet, and the set it leaves behind:   *)
(* only the node it is about to look at may lie outside.                   *)
(***************************************************************************)
Waiting(h) ==
  \/ pc \in {"base", "count"}
  \/ phase = "buckets" /\ h = LocalHead
  \/ \E i \in 1..Len(buckets) : SlotHead(rBase, buckets[i]) = h
  \/ pc = "collect" /\ \E i \in slot..rCount : SlotHead(rBase, i) = h

Here == IF pc = "node" THEN {node} ELSE {}

Cover(V) ==
  /\ visited \subseteq V
  /\ V \cap kept \subseteq visited
  /\ \A n \in V : next[n] \in V \cup Here
  /\ \A h \in Heads : Waiting(h) \/ h \in V \cup Here
  /\ pc = "node" => list \in V \cup Here

CoverInv ==
  quiet =>
    /\ \E V \in SUBSET linked : Cover(V)
    /\ pc = "node" => node \in linked /\ steps <= Cardinality(visited)
    /\ visited \cap Objects \subseteq Emitted

CallInv == Typed /\ RingInv /\ Reached /\ QuietInv /\ PhaseInv

LEMMA CoverInit == Init => CoverInv
  BY DEF Init, NoCall, CoverInv

LEMMA CoverBegin == CallInv /\ Begin => CoverInv'
  <1> SUFFICES ASSUME CallInv, Begin, quiet' PROVE CoverInv'
    BY DEF CoverInv
  <1>1. pc' = "base" /\ visited' = {}
    BY DEF Begin, Settled, CallInv, PhaseInv
  <1>2. Cover({})'
    BY <1>1 DEF Cover, Waiting
  <1>3. QED
    BY <1>1, <1>2 DEF CoverInv

\* A step that reads the table: what is waiting stays so, or the slot was empty.
LEMMA CoverTable ==
  ASSUME CoverInv, quiet, UNCHANGED <<targetVars, visited, out, kept>>,
         pc # "node", pc' # "node", \A h \in Heads : Waiting(h) => Waiting(h)'
  PROVE  CoverInv'
  <1>1. PICK V \in SUBSET linked : Cover(V)
    BY DEF CoverInv
  <1>2. linked' = linked /\ next' = next
    BY DEF targetVars
  <1>3. Cover(V)'
    BY <1>1, <1>2 DEF Cover, Here
  <1>4. Emitted' = Emitted
    BY DEF Emitted
  <1>5. QED
    BY <1>2, <1>3, <1>4 DEF CoverInv

LEMMA ReadCountWaits ==
  ASSUME LimitsHold, CallInv, quiet, ReadCount, NEW h \in Heads
  PROVE  Waiting(h)'
  <1>1. /\ phase' = "buckets" /\ slot' = 1 /\ rBase' = base /\ rCount' = Len(Layout[base])
        /\ base \in Tables /\ freed' = freed /\ base \notin freed
    BY DEF CallInv, PhaseInv, QuietInv, Typed, TableKnown, Settled, ReadCount, tableVars
  <1>2. CASE h = LocalHead
    BY <1>1, <1>2 DEF Waiting
  <1>3. CASE h # LocalHead
    <2>1. PICK i \in 1..Len(Layout[base]) : Layout[base][i] = h
      BY <1>1, <1>3 DEF LimitsHold
    <2>2. Len(Layout[base]) \in 1..MaxBuckets
      BY <1>1, <2>1, LayoutLen, WalkAssumption DEF LimitsHold
    <2>3. pc' = "collect"
      BY <2>2 DEF ReadCount, CallInv, QuietInv, Settled
    <2>4. SlotHead(rBase, i)' = h
      BY <1>1, <2>1, LayoutLen DEF SlotHead
    <2>5. QED
      BY <1>1, <2>1, <2>3, <2>4 DEF Waiting
  <1>4. QED
    BY <1>2, <1>3

LEMMA CollectWaits ==
  ASSUME CallInv, CollectBucket, NEW h \in Heads, Waiting(h)
  PROVE  Waiting(h)'
  <1>1. /\ UNCHANGED <<rBase, rCount, phase, freed>> /\ pc = "collect"
        /\ buckets \in Seq(Nat \ {0}) /\ slot \in Nat \ {0} /\ rCount \in Nat /\ slot' = slot + 1
    BY DEF CallInv, Typed, TypeOK, CollectBucket, tableVars
  <1>2. h # Null
    BY TargetAssumption
  <1>3. \A i : SlotHead(rBase, i)' = SlotHead(rBase, i)
    BY <1>1 DEF SlotHead
  <1>4. CASE \E i \in 1..Len(buckets) : SlotHead(rBase, buckets[i]) = h
    <2>1. PICK i \in 1..Len(buckets) : SlotHead(rBase, buckets[i]) = h
      BY <1>4
    <2>2. i \in 1..Len(buckets') /\ buckets'[i] = buckets[i]
      BY <1>1, <2>1 DEF CollectBucket
    <2>3. SlotHead(rBase, buckets[i])' = h
      BY <1>3, <2>1, <2>2 DEF SlotHead
    <2>4. QED
      BY <2>2, <2>3 DEF Waiting
  <1>5. CASE \E i \in slot..rCount : SlotHead(rBase, i) = h
    <2>1. PICK i \in slot..rCount : SlotHead(rBase, i) = h
      BY <1>5
    <2>2. CASE i = slot
      <3>1. buckets' = Append(buckets, slot)
        BY <1>2, <2>1, <2>2 DEF CollectBucket
      <3>2. Len(buckets') \in 1..Len(buckets') /\ buckets'[Len(buckets')] = slot
        BY <1>1, <3>1
      <3>3. SlotHead(rBase, buckets[Len(buckets)])' = h
        BY <1>1, <2>1, <2>2, <3>2 DEF SlotHead
      <3>4. QED
        BY <3>2, <3>3 DEF Waiting
    <2>3. CASE i # slot
      <3>1. i \in slot'..rCount' /\ pc' = "collect"
        BY <1>1, <2>1, <2>3 DEF CollectBucket
      <3>2. SlotHead(rBase, i)' = h
        BY <1>1, <2>1 DEF SlotHead
      <3>3. QED
        BY <3>1, <3>2 DEF Waiting
    <2>4. QED
      BY <2>2, <2>3
  <1>6. CASE phase = "buckets" /\ h = LocalHead
    BY <1>1, <1>6 DEF Waiting
  <1>7. QED
    BY <1>1, <1>4, <1>5, <1>6 DEF Waiting

LEMMA CoverRead ==
  ASSUME LimitsHold, CallInv, CoverInv, ReadBase \/ ReadCount \/ CollectBucket \/ LastBucket
  PROVE  CoverInv'
  <1>1. /\ UNCHANGED <<targetVars, visited, out, kept, quiet>>
        /\ pc # "node" /\ pc' # "node"
    BY DEF ReadBase, ReadCount, CollectBucket, LastBucket, history
  <1>2. quiet => \A h \in Heads : Waiting(h) => Waiting(h)'
    <2>1. CASE ReadBase
      BY <2>1 DEF ReadBase, Waiting
    <2>2. CASE ReadCount
      BY <2>2, ReadCountWaits
    <2>3. CASE CollectBucket
      BY <2>3, CollectWaits
    <2>4. CASE LastBucket
      BY <2>4 DEF LastBucket, Waiting
    <2>5. QED
      BY <2>1, <2>2, <2>3, <2>4
  <1>3. CASE quiet
    BY <1>1, <1>2, <1>3, CoverTable
  <1>4. CASE ~ quiet
    BY <1>1, <1>4 DEF CoverInv
  <1>5. QED
    BY <1>3, <1>4

\* The node limit is not met before every node has been visited.
LEMMA NodeCount ==
  ASSUME LimitsHold, NEW S \in SUBSET Nodes
  PROVE  /\ IsFiniteSet(S) /\ Cardinality(S) \in Nat
         /\ Cardinality(S) <= MaxNodes
         /\ Cardinality(S) = MaxNodes => S = Nodes
  <1>1. IsFiniteSet(Nodes) /\ Cardinality(Nodes) \in Nat /\ Cardinality(Nodes) <= MaxNodes
    BY FS_CardinalityType DEF LimitsHold
  <1>2. /\ IsFiniteSet(S) /\ Cardinality(S) <= Cardinality(Nodes)
        /\ Cardinality(Nodes) = Cardinality(S) => Nodes = S
    BY <1>1, FS_Subset
  <1>3. Cardinality(S) \in Nat
    BY <1>2, FS_CardinalityType
  <1>4. QED
    BY <1>1, <1>2, <1>3, WalkAssumption

(***************************************************************************)
(* The walk comes to a list: its head is the node to look at next.         *)
(***************************************************************************)
LEMMA CoverEnter ==
  ASSUME LimitsHold, CallInv, CoverInv, quiet, UNCHANGED <<targetVars, visited, out, kept>>,
         pc # "node", pc' = "node", list' = node', node' \in Heads, steps' = 0,
         \A h \in Heads : Waiting(h) => Waiting(h)' \/ h = node'
  PROVE  CoverInv'
  <1>1. PICK V \in SUBSET linked : Cover(V)
    BY DEF CoverInv
  <1>2. linked' = linked /\ next' = next
    BY DEF targetVars
  <1>3. Here = {} /\ Here' = {node'}
    BY DEF Here
  <1>4. Cover(V)'
    BY <1>1, <1>2, <1>3 DEF Cover
  <1>5. Emitted' = Emitted
    BY DEF Emitted
  <1>6. node' \in linked'
    BY <1>2 DEF CallInv, Typed, TypeOK, TargetTypeOK
  <1>7. steps' <= Cardinality(visited')
    BY NodeCount DEF CallInv, Typed, TypeOK
  <1>8. QED
    BY <1>2, <1>4, <1>5, <1>6, <1>7 DEF CoverInv

LEMMA CoverEnterLocal == LimitsHold /\ CallInv /\ CoverInv /\ EnterLocal => CoverInv'
  <1> SUFFICES ASSUME LimitsHold, CallInv, CoverInv, EnterLocal, quiet PROVE CoverInv'
    BY DEF CoverInv, EnterLocal, history
  <1>1. /\ UNCHANGED <<targetVars, visited, out, kept>> /\ pc # "node" /\ pc' = "node"
        /\ list' = node' /\ node' = LocalHead /\ node' \in Heads /\ steps' = 0
    BY WalkAssumption DEF EnterLocal, history
  <1>2. \A h \in Heads : Waiting(h) => h = node'
    BY <1>1 DEF EnterLocal, CallInv, PhaseInv, Waiting
  <1>3. QED
    BY <1>1, <1>2, CoverEnter

LEMMA TailWaits ==
  ASSUME CallInv, pc = "bucket", phase' = phase, rBase' = rBase, freed' = freed,
         buckets # <<>>, buckets' = Tail(buckets), NEW h \in Heads, Waiting(h)
  PROVE  Waiting(h)' \/ h = SlotHead(rBase, Head(buckets))
  <1>1. buckets \in Seq(Nat \ {0})
    BY DEF CallInv, Typed, TypeOK
  <1>2. CASE phase = "buckets" /\ h = LocalHead
    BY <1>2 DEF Waiting
  <1>3. CASE \E i \in 1..Len(buckets) : SlotHead(rBase, buckets[i]) = h
    <2>1. PICK i \in 1..Len(buckets) : SlotHead(rBase, buckets[i]) = h
      BY <1>3
    <2>2. CASE i = 1
      BY <1>1, <2>1, <2>2
    <2>3. CASE i # 1
      <3>1. i - 1 \in 1..Len(buckets') /\ buckets'[i - 1] = buckets[i]
        BY <1>1, <2>1, <2>3
      <3>2. SlotHead(rBase, buckets[i - 1])' = h
        BY <2>1, <3>1 DEF SlotHead
      <3>3. QED
        BY <3>1, <3>2 DEF Waiting
    <2>4. QED
      BY <2>2, <2>3
  <1>4. QED
    BY <1>2, <1>3 DEF Waiting

LEMMA CoverEnterBucket == LimitsHold /\ CallInv /\ CoverInv /\ EnterBucket => CoverInv'
  <1> SUFFICES ASSUME LimitsHold, CallInv, CoverInv, EnterBucket, quiet PROVE CoverInv'
    BY DEF CoverInv, EnterBucket, history
  <1> DEFINE first == SlotHead(rBase, Head(buckets))
  <1>1. UNCHANGED <<targetVars, visited, out, kept>> /\ pc # "node"
    BY DEF EnterBucket, history
  <1>2. \A h \in Heads : Waiting(h) => Waiting(h)' \/ h = first
    BY TailWaits DEF EnterBucket, tableVars
  <1>3. CASE first = Null
    <2>1. pc' # "node" /\ \A h \in Heads : h # first
      BY <1>1, <1>3, TargetAssumption DEF EnterBucket
    <2>2. QED
      BY <1>1, <1>2, <2>1, CoverTable
  <1>4. CASE first # Null
    <2>1. Head(buckets) \in Nat \ {0}
      BY DEF EnterBucket, CallInv, Typed, TypeOK
    <2>2. first \in Heads
      BY <1>4, <2>1, LayoutType DEF CallInv, Typed, TableKnown, EnterBucket
    <2>3. pc' = "node" /\ list' = node' /\ node' = first /\ steps' = 0
      BY <1>4 DEF EnterBucket
    <2>4. QED
      BY <1>1, <1>2, <2>2, <2>3, CoverEnter
  <1>5. QED
    BY <1>3, <1>4

(***************************************************************************)
(* One turn of the node loop.  A node looked at before closes the set, and *)
(* so does the end of the list; the node limit is reached only when every  *)
(* node has been looked at.                                                *)
(***************************************************************************)
LEMMA VisitWaits ==
  ASSUME VisitNode, NEW h \in Heads, Waiting(h)
  PROVE  Waiting(h)'
  BY DEF VisitNode, Waiting, SlotHead, tableVars

LEMMA VisitEmits ==
  ASSUME TypeOK, VisitNode, ~ Stops
  PROVE  node \in Objects => node \in Emitted'
  <1> SUFFICES ASSUME node \in Objects PROVE node \in Emitted'
    OBVIOUS
  <1>1. out' = Append(out, node)
    BY TargetAssumption DEF VisitNode, Entry, NativeWord
  <1>2. out \in Seq(Nodes) /\ node \in Nodes
    BY DEF TypeOK
  <1>3. QED
    BY <1>1, <1>2, AppendRange DEF Emitted

LEMMA CoverVisit == LimitsHold /\ CallInv /\ CoverInv /\ VisitNode => CoverInv'
  <1> SUFFICES ASSUME LimitsHold, CallInv, CoverInv, VisitNode, quiet PROVE CoverInv'
    BY DEF CoverInv, VisitNode, history
  <1>1. /\ TypeOK /\ pc = "node" /\ node \in linked /\ node \in Nodes /\ Readable(node)
        /\ next[node] \in linked /\ next[node] # Null
    BY WordFacts DEF CallInv, Typed, TypeOK, TargetTypeOK, RingInv, CoverInv, VisitNode, Readable
  <1>2. /\ linked' = linked /\ next' = next /\ kept' = kept /\ list' = list
        /\ visited' = visited \cup {node}
    BY DEF VisitNode, targetVars, history
  <1>3. \A h \in Heads : Waiting(h) => Waiting(h)'
    BY VisitWaits
  <1>4. PICK V \in SUBSET linked : Cover(V)
    BY DEF CoverInv
  <1>5. PICK W \in SUBSET linked : W = V \cup {node}
    BY <1>1
  <1>6. /\ visited' \subseteq W
        /\ W \cap kept' \subseteq visited'
        /\ \A n \in V : next[n] \in W
        /\ \A h \in Heads : Waiting(h)' \/ h \in W
        /\ list \in W
    BY <1>1, <1>2, <1>3, <1>4, <1>5 DEF Cover, Here
  <1>7. CASE node \in visited
    <2>1. pc' # "node" /\ out' = out
      BY <1>7 DEF VisitNode, Stops, AfterList
    <2>2. W = V
      BY <1>4, <1>5, <1>7 DEF Cover
    <2>3. Cover(W)'
      BY <1>2, <1>6, <2>1, <2>2 DEF Cover
    <2>4. visited' = visited /\ Emitted' = Emitted
      BY <1>2, <1>7, <2>1 DEF Emitted
    <2>5. QED
      BY <1>2, <2>1, <2>3, <2>4 DEF CoverInv
  <1>8. CASE node \notin visited
    <2>1. ~ Stops
      BY <1>1, <1>8 DEF Stops
    <2>2. visited' \cap Objects \subseteq Emitted'
      BY <1>1, <1>2, <2>1, EmittedStep, VisitEmits DEF CoverInv
    <2>3. /\ Cardinality(visited') = Cardinality(visited) + 1
          /\ Cardinality(visited) \in Nat /\ steps \in Nat /\ steps <= Cardinality(visited)
      BY <1>1, <1>2, <1>8, NodeCount, FS_AddElement DEF CoverInv, TypeOK
    <2>4. CASE EndsList(next[node])
      <3>1. pc' # "node" /\ next[node] = list
        BY <1>1, <2>1, <2>4 DEF VisitNode, Forward, AfterList, EndsList
      <3>2. Cover(W)'
        BY <1>2, <1>5, <1>6, <3>1 DEF Cover
      <3>3. QED
        BY <1>2, <2>2, <3>1, <3>2 DEF CoverInv
    <2>5. CASE ~ EndsList(next[node])
      <3>1. /\ node' = next[node] /\ steps' = steps + 1
            /\ pc' = IF steps + 1 < MaxNodes THEN "node" ELSE AfterList
        BY <2>1, <2>5 DEF VisitNode, Forward
      <3>2. CASE steps + 1 < MaxNodes
        <4>1. Here' = {next[node]} /\ pc' = "node"
          BY <3>1, <3>2 DEF Here
        <4>2. Cover(W)'
          BY <1>2, <1>5, <1>6, <4>1 DEF Cover
        <4>3. node' \in linked' /\ steps' <= Cardinality(visited')
          BY <1>1, <1>2, <2>3, <3>1
        <4>4. QED
          BY <1>2, <2>2, <4>2, <4>3 DEF CoverInv
      <3>3. CASE ~ (steps + 1 < MaxNodes)
        <4>1. pc' # "node"
          BY <3>1, <3>3 DEF AfterList
        <4>2. visited' \in SUBSET Nodes
          BY <1>1, <1>2 DEF TypeOK
        <4>3. visited' = Nodes
          <5>1. Cardinality(visited') <= MaxNodes /\ (Cardinality(visited') = MaxNodes => visited' = Nodes)
            BY <4>2, NodeCount
          <5>2. QED
            BY <2>3, <3>3, <5>1, WalkAssumption
        <4>4. next[node] \in W
          BY <1>1, <1>6, <4>3 DEF TypeOK, TargetTypeOK
        <4>5. Cover(W)'
          BY <1>2, <1>5, <1>6, <4>1, <4>4 DEF Cover
        <4>6. QED
          BY <1>2, <2>2, <4>1, <4>5 DEF CoverInv
      <3>4. QED
        BY <3>2, <3>3
    <2>6. QED
      BY <2>4, <2>5
  <1>9. QED
    BY <1>7, <1>8

(***************************************************************************)
(* An addition behind a node of the set joins the set; any other stays     *)
(* outside, ahead of the walk.                                             *)
(***************************************************************************)
LEMMA CoverLink ==
  ASSUME CallInv, CoverInv, quiet, NEW o \in Objects, NEW p \in linked, Link(o, p),
         UNCHANGED <<tableVars, callVars>>, kept' = kept \cap linked'
  PROVE  CoverInv'
  <1>1. /\ o \notin linked /\ linked' = linked \cup {o}
        /\ next'[p] = o /\ next'[o] = next[p]
        /\ \A n \in linked \ {p} : next'[n] = next[n]
    BY WordFacts DEF Link, CallInv, Typed, TypeOK, TargetTypeOK
  <1>2. Here' = Here /\ \A h \in Heads : Waiting(h)' <=> Waiting(h)
    BY DEF callVars, tableVars, Here, Waiting, SlotHead
  <1>3. UNCHANGED <<visited, pc, list, node, steps, out>>
    BY DEF callVars
  <1>4. kept' = kept /\ o \notin kept
    BY <1>1 DEF CallInv, QuietInv
  <1>5. PICK V \in SUBSET linked : Cover(V)
    BY DEF CoverInv
  <1>6. PICK W \in SUBSET linked' : W = IF p \in V THEN V \cup {o} ELSE V
    BY <1>1
  <1>7. \A n \in W : next'[n] \in W \cup Here'
    <2>1. CASE p \in V
      BY <1>1, <1>2, <1>5, <1>6, <2>1 DEF Cover
    <2>2. CASE p \notin V
      BY <1>1, <1>2, <1>5, <1>6, <2>2 DEF Cover
    <2>3. QED
      BY <2>1, <2>2
  <1>8. Cover(W)'
    BY <1>2, <1>3, <1>4, <1>5, <1>6, <1>7 DEF Cover
  <1>9. Emitted' = Emitted
    BY <1>3 DEF Emitted
  <1>10. QED
    BY <1>1, <1>3, <1>8, <1>9 DEF CoverInv

LEMMA CoverStill ==
  ASSUME CoverInv, quiet' => quiet, UNCHANGED <<next, linked, tableVars, callVars, kept>>
  PROVE  CoverInv'
  <1> SUFFICES ASSUME quiet PROVE CoverInv'
    BY DEF CoverInv
  <1>1. Here' = Here /\ \A h \in Heads : Waiting(h)' <=> Waiting(h)
    BY DEF callVars, tableVars, Here, Waiting, SlotHead
  <1>2. PICK V \in SUBSET linked : Cover(V)
    BY DEF CoverInv
  <1>3. UNCHANGED <<visited, pc, list, node, steps, out>>
    BY DEF callVars
  <1>4. Cover(V)'
    BY <1>1, <1>2, <1>3 DEF Cover
  <1>5. Emitted' = Emitted
    BY <1>3 DEF Emitted
  <1>6. QED
    BY <1>3, <1>4, <1>5 DEF CoverInv

LEMMA CoverList == CallInv /\ CoverInv /\ ListStep => CoverInv'
  <1> SUFFICES ASSUME CallInv, CoverInv, ListStep, quiet' PROVE CoverInv'
    BY DEF CoverInv
  <1>1. quiet /\ linked \subseteq linked' /\ kept' = kept \cap linked'
        /\ UNCHANGED <<tableVars, callVars>>
    BY DEF ListStep
  <1>2. ASSUME NEW o \in Objects, NEW p \in linked, Link(o, p)
        PROVE  CoverInv'
    BY <1>1, <1>2, CoverLink
  <1>3. ASSUME NEW o \in Objects, Unlink(o)
        PROVE  CoverInv'
    BY <1>1, <1>3 DEF Unlink
  <1>4. ASSUME UNCHANGED <<next, linked>>
        PROVE  CoverInv'
    <2>1. kept' = kept
      BY <1>1, <1>4 DEF CallInv, QuietInv
    <2>2. QED
      BY <1>1, <1>4, <2>1, CoverStill
  <1>5. QED
    BY <1>2, <1>3, <1>4 DEF ListStep, WriteBack, Unmap

LEMMA CoverNext == LimitsHold /\ CallInv /\ CoverInv /\ [Next]_vars => CoverInv'
  <1> SUFFICES ASSUME LimitsHold, CallInv, CoverInv, [Next]_vars PROVE CoverInv'
    OBVIOUS
  <1>1. CASE Return \/ TableStep
    BY <1>1 DEF Return, TableStep, CoverInv
  <1>2. CASE UNCHANGED vars
    BY <1>2, CoverStill DEF vars, targetVars, history
  <1>3. QED
    BY <1>1, <1>2, CoverBegin, CoverRead, CoverEnterBucket, CoverEnterLocal, CoverVisit, CoverList
    DEF Next, Reader

LEMMA CompleteAtEnd == CallInv /\ CoverInv => InsertOnlyComplete
  <1> SUFFICES ASSUME CallInv, CoverInv, pc = "done", quiet PROVE kept \subseteq Emitted
    BY DEF InsertOnlyComplete
  <1>1. PICK V \in SUBSET linked : Cover(V)
    BY DEF CoverInv
  <1>2. buckets = <<>> /\ phase = "local"
    BY DEF CallInv, PhaseInv
  <1>3. Here = {} /\ \A h \in Heads : ~ Waiting(h)
    BY <1>2 DEF Here, Waiting
  <1>4. linked \subseteq V
    BY <1>1, <1>3 DEF Cover, CallInv, Reached
  <1>5. kept \subseteq visited \cap Objects
    BY <1>1, <1>4 DEF Cover, CallInv, QuietInv, Typed, TypeOK
  <1>6. QED
    BY <1>5 DEF CoverInv

(***************************************************************************)
(* A call during which the target only added objects, as many and wherever *)
(* it liked, reports every object that was there when it began, if the     *)
(* walk's limits lie beyond what the target has.                           *)
(***************************************************************************)
THEOREM CompleteUnderInsertion ==
  ASSUME LimitsHold
  PROVE  Spec => []InsertOnlyComplete
  <1>1. Init => CallInv /\ CoverInv
    BY TypedInit, RingInit, ReachedInit, QuietInit, PhaseInit, CoverInit DEF CallInv
  <1>2. CallInv /\ CoverInv /\ [Next]_vars => (CallInv /\ CoverInv)'
    BY TypedNext, RingNext, ReachedNext, QuietNext, PhaseNext, CoverNext DEF CallInv, Typed, TypeOK
  <1>3. CallInv /\ CoverInv => InsertOnlyComplete
    BY CompleteAtEnd
  <1>4. QED
    BY <1>1, <1>2, <1>3, PTL DEF Spec
==============================================================================
