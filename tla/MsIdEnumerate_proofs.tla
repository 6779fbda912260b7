------------------------- MODULE MsIdEnumerate_proofs -------------------------
(***************************************************************************)
(* Theorems about MsIdEnumerate for any tables, any objects and any chunk  *)
(* size: what is reported has been in the registry since the call began,   *)
(* the enumeration implements ObjectListing, and a call during which       *)
(* objects are only added reports each object once and misses none; about  *)
(* the search for objects of a class over any enumeration; and about the   *)
(* scan for the registry.                                                  *)
(***************************************************************************)
EXTENDS MCMsId, FiniteSetTheorems, SequenceTheorems, TLAPS

\* A slot in use holds an object.
Entries == {e \in Slots : e.live => e.object \in Objects}

\* As much of the types as the argument needs.
SlotsOK ==
  /\ slots = [t \in Tables |-> slots[t]]
  /\ \A t \in Tables : slots[t] \in [1..Capacity[t] -> Entries]
  /\ base \in Tables
  /\ capacity \in Nat

CallOK ==
  /\ pc \in Pcs
  /\ rBase \in Tables
  /\ rCapacity \in Nat /\ at \in Nat
  /\ buffer \in Seq(Entries)
  /\ pc = "entry" => buffer # <<>>
  /\ pc = "idle" => buffer = <<>> /\ out = <<>>
  /\ out \in Seq(Objects)

\* Every entry in use at place t has been listed since the call began.
AllSeen(t) == \A i \in 1..Capacity[t] : slots[t][i].live => slots[t][i].object \in seen

\* So has all the call will copy, has copied and has reported.
CallSeen ==
  pc # "idle" =>
    /\ pc \notin {"set", "base", "done"} => AllSeen(rBase)
    /\ \A i \in 1..Len(buffer) : buffer[i].live => buffer[i].object \in seen
    /\ \A i \in 1..Len(out) : out[i] \in seen

ListedSeen == pc # "idle" => Listed \subseteq seen

LEMMA EntryFacts ==
  /\ Empty \in Entries /\ ~ Empty.live
  /\ \A o \in Objects : Live(o) \in Entries /\ Live(o).live /\ Live(o).object = o
  /\ \A e \in Entries : e.live => e = Live(e.object)
  /\ \A e \in Entries : [e EXCEPT !.live = FALSE] \in Entries
                        /\ ~ [e EXCEPT !.live = FALSE].live
  /\ \A e \in Entries : e.live => e.object \in Objects
  <1>1. Empty \in Entries /\ ~ Empty.live
    BY DEF Entries, Slots, Empty
  <1>2. \A o \in Objects : Live(o) \in Entries /\ Live(o).live /\ Live(o).object = o
    BY DEF Entries, Slots, Live
  <1>3. ASSUME NEW e \in Entries, e.live PROVE e = Live(e.object)
    <2>1. e \in Slots /\ e.live = TRUE
      BY <1>3 DEF Entries, Slots
    <2>2. QED
      BY <2>1 DEF Slots, Live
  <1>4. ASSUME NEW e \in Entries
        PROVE  [e EXCEPT !.live = FALSE] \in Entries /\ ~ [e EXCEPT !.live = FALSE].live
    BY <1>4 DEF Entries, Slots
  <1>5. QED
    BY <1>1, <1>2, <1>3, <1>4 DEF Entries

LEMMA ListedLive ==
  ASSUME SlotsOK, NEW i \in 1..Capacity[base], slots[base][i].live
  PROVE  slots[base][i].object \in Listed
  <1>1. slots[base][i] \in Entries
    BY DEF SlotsOK
  <1>2. QED
    BY <1>1, EntryFacts DEF Listed

(***************************************************************************)
(* Types.                                                                  *)
(***************************************************************************)
LEMMA SlotsInit == Init => SlotsOK /\ CallOK
  BY EntryFacts, IdTableAssumption
     DEF Init, TableInit, NoCall, NoEntries, SlotsOK, CallOK, Pcs

LEMMA SlotsSet ==
  ASSUME SlotsOK, NEW t \in Tables, NEW new \in [1..Capacity[t] -> Entries],
         slots' = [slots EXCEPT ![t] = new], base' \in Tables, capacity' \in Nat
  PROVE  SlotsOK'
  BY DEF SlotsOK

LEMMA RebuiltType ==
  ASSUME NEW t \in Tables, NEW new \in Rebuilt(t)
  PROVE  /\ new \in [1..Capacity[t] -> Entries]
         /\ \A i \in 1..Capacity[t] : new[i].live => new[i].object \in Listed
  <1>1. new \in [1..Capacity[t] -> {Empty} \cup {Live(o) : o \in Listed}]
    BY DEF Rebuilt
  <1>2. Listed \subseteq Objects
    BY DEF Listed
  <1>3. \A i \in 1..Capacity[t] :
          new[i] \in Entries /\ (new[i].live => new[i].object \in Listed)
    <2>1. ASSUME NEW i \in 1..Capacity[t]
          PROVE  new[i] \in Entries /\ (new[i].live => new[i].object \in Listed)
      <3>1. new[i] = Empty \/ \E o \in Listed : new[i] = Live(o)
        BY <1>1
      <3>2. QED
        BY <1>2, <3>1, EntryFacts
    <2>2. QED
      BY <2>1
  <1>4. QED
    BY <1>1, <1>3

LEMMA SlotsTableStep == ASSUME SlotsOK, TableStep PROVE SlotsOK'
  <1>1. CASE \E o \in Objects \ gone : Insert(o)
    <2>1. PICK o \in Objects, i \in 1..Capacity[base] :
            slots' = [slots EXCEPT ![base][i] = Live(o)] /\ UNCHANGED <<base, capacity>>
      BY <1>1 DEF Insert
    <2>2. [slots[base] EXCEPT ![i] = Live(o)] \in [1..Capacity[base] -> Entries]
      BY <2>1, EntryFacts DEF SlotsOK
    <2>3. slots' = [slots EXCEPT ![base] = [slots[base] EXCEPT ![i] = Live(o)]]
      BY <2>1
    <2>4. QED
      BY <2>1, <2>2, <2>3, SlotsSet DEF SlotsOK
  <1>2. CASE \E o \in Objects : Erase(o)
    <2>1. PICK i \in 1..Capacity[base] :
            slots' = [slots EXCEPT ![base][i].live = FALSE] /\ UNCHANGED <<base, capacity>>
      BY <1>2 DEF Erase
    <2>2. slots[base] \in [1..Capacity[base] -> Entries] /\ slots[base][i] \in Entries
      BY DEF SlotsOK
    <2>3. [slots[base][i] EXCEPT !.live = FALSE] \in Entries
      BY <2>2, EntryFacts
    <2>4. [slots[base] EXCEPT ![i] = [slots[base][i] EXCEPT !.live = FALSE]]
            \in [1..Capacity[base] -> Entries]
      BY <2>2, <2>3
    <2>5. slots' = [slots EXCEPT ![base] =
                      [slots[base] EXCEPT ![i] = [slots[base][i] EXCEPT !.live = FALSE]]]
      BY <2>1
    <2>6. QED
      BY <2>1, <2>4, <2>5, SlotsSet DEF SlotsOK
  <1>3. CASE \E t \in Tables : Grow(t)
    <2>1. PICK t \in Tables : Grow(t)
      BY <1>3
    <2>2. PICK new \in Rebuilt(t) : slots' = [slots EXCEPT ![t] = new]
      BY <2>1 DEF Grow
    <2>3. base' \in Tables /\ capacity' \in Nat
      BY <2>1, IdTableAssumption DEF Grow, SlotsOK
    <2>4. QED
      BY <2>2, <2>3, RebuiltType, SlotsSet
  <1>4. CASE FinishGrow
    BY <1>4, IdTableAssumption DEF FinishGrow, SlotsOK
  <1>5. CASE \E t \in Tables : Free(t)
    <2>1. PICK t \in Tables :
            slots' = [slots EXCEPT ![t] = [i \in 1..Capacity[t] |-> Empty]]
            /\ UNCHANGED <<base, capacity>>
      BY <1>5 DEF Free
    <2>2. [i \in 1..Capacity[t] |-> Empty] \in [1..Capacity[t] -> Entries]
      BY EntryFacts
    <2>3. QED
      BY <2>1, <2>2, SlotsSet DEF SlotsOK
  <1>6. QED
    BY <1>1, <1>2, <1>3, <1>4, <1>5 DEF TableStep

LEMMA SlotsStep == ASSUME SlotsOK, [Next]_vars PROVE SlotsOK'
  <1>1. CASE World
    <2>1. CASE TableStep
      BY <2>1, SlotsTableStep
    <2>2. CASE UNCHANGED tableVars
      BY <2>2 DEF tableVars, SlotsOK
    <2>3. QED
      BY <1>1, <2>1, <2>2 DEF World, Destroy
  <1>2. CASE Begin \/ Return \/ Reader \/ UNCHANGED vars
    BY <1>2 DEF Begin, Return, Reader, ReadSet, ReadBase, ReadCapacity, ReadCount, HeaderUnread,
                CopyChunk, ChunkUnread, ChunksDone, LookAtEntry, NextEntry, EntryNotInUse,
                ObjectPassedOver, ClassKnown, ClassMet, vars, worldVars, tableVars, SlotsOK
  <1>3. QED
    BY <1>1, <1>2 DEF Next

LEMMA CopiedType ==
  ASSUME SlotsOK, CallOK, at < rCapacity
  PROVE  /\ Copied \in Seq(Entries) /\ Len(Copied) = ChunkEnd - at
         /\ \A j \in 1..Len(Copied) :
              Copied[j].live => \E i \in 1..Capacity[rBase] : Copied[j] = slots[rBase][i]
  <1>1. ChunkEnd - at \in Nat
    BY EnumerateAssumption DEF CallOK, ChunkEnd, Minimum
  <1>2. ASSUME NEW j \in 1..(ChunkEnd - at)
        PROVE  /\ SlotAt(at + j) \in Entries
               /\ SlotAt(at + j).live =>
                    \E i \in 1..Capacity[rBase] : SlotAt(at + j) = slots[rBase][i]
    <2>1. at + j \in Nat \ {0} /\ Capacity[rBase] \in Nat
      BY <1>1, IdTableAssumption DEF CallOK
    <2>2. CASE at + j <= Capacity[rBase]
      <3>1. at + j \in 1..Capacity[rBase]
        BY <2>1, <2>2
      <3>2. QED
        BY <2>2, <3>1 DEF SlotAt, SlotsOK, CallOK
    <2>3. CASE ~ (at + j <= Capacity[rBase])
      BY <2>3, EntryFacts DEF SlotAt
    <2>4. QED
      BY <2>2, <2>3
  <1>3. Copied = [j \in 1..(ChunkEnd - at) |-> SlotAt(at + j)]
    BY DEF Copied
  <1>4. Copied \in [1..(ChunkEnd - at) -> Entries]
    BY <1>2, <1>3
  <1>5. Copied \in Seq(Entries) /\ Len(Copied) = ChunkEnd - at
    BY <1>1, <1>4
  <1>6. QED
    BY <1>2, <1>3, <1>5

\* What looking at an entry comes to, whichever way it goes.
LEMMA LookFacts ==
  ASSUME LookAtEntry
  PROVE  /\ pc = "entry" /\ buffer' = Tail(buffer)
         /\ pc' = IF buffer' = NoEntries THEN "chunk" ELSE "entry"
         /\ UNCHANGED <<worldVars, options, rBase, rCapacity, at, ok, seen, kept, headerLost, quiet>>
         /\ \/ out' = out
            \/ InUse(Head(buffer)) /\ out' = Append(out, Head(buffer).object)
  BY DEF LookAtEntry, EntryNotInUse, ObjectPassedOver, ClassKnown, ClassMet, NextEntry, Judged

HeaderStep == ReadSet \/ ReadBase \/ ReadCapacity \/ ReadCount \/ HeaderUnread

LEMMA ReaderSteps == Reader <=> HeaderStep \/ CopyChunk \/ ChunkUnread \/ ChunksDone \/ LookAtEntry
  BY DEF Reader, HeaderStep

LEMMA HeaderFacts ==
  ASSUME HeaderStep
  PROVE  /\ pc \in {"set", "base", "capacity", "count"} /\ pc' \in {"base", "capacity", "count", "chunk", "done"}
         /\ UNCHANGED <<worldVars, options, at, buffer, classCache, out, ok, seen, kept, lost, misread, quiet>>
         /\ rBase' = rBase \/ (pc = "base" /\ rBase' = base)
         /\ rCapacity' = rCapacity \/ rCapacity' = capacity
  BY DEF HeaderStep, ReadSet, ReadBase, ReadCapacity, ReadCount, HeaderUnread, history, failures

LEMMA CallStep == ASSUME SlotsOK, CallOK, [Next]_vars PROVE CallOK'
  <1>1. CASE Begin \/ ChunkUnread \/ ChunksDone
    <2>1. at' \in Nat
      BY <1>1, EnumerateAssumption DEF Begin, ChunkUnread, ChunksDone, CallOK
    <2>2. QED
      BY <1>1, <2>1 DEF Begin, ChunkUnread, ChunksDone, CallOK, Pcs, SlotsOK
  <1>7. CASE HeaderStep
    BY <1>7, HeaderFacts DEF CallOK, Pcs, SlotsOK
  <1>2. CASE Return
    BY <1>2, IdTableAssumption DEF Return, NoEntries, CallOK, Pcs
  <1>3. CASE CopyChunk
    <2>1. buffer' \in Seq(Entries) /\ Len(buffer') = ChunkEnd - at
      BY <1>3, CopiedType DEF CopyChunk
    <2>2. at' \in Nat
      BY <1>3, EnumerateAssumption DEF CopyChunk, CallOK
    <2>3. pc' \in Pcs /\ buffer' # <<>>
      <3>1. ChunkEnd - at \in Nat \ {0}
        BY <1>3, EnumerateAssumption DEF CopyChunk, CallOK, ChunkEnd, Minimum
      <3>2. QED
        BY <1>3, <2>1, <3>1 DEF CopyChunk, Pcs
    <2>4. QED
      BY <1>3, <2>1, <2>2, <2>3 DEF CopyChunk, CallOK
  <1>4. CASE LookAtEntry
    <2>1. buffer \in Seq(Entries) /\ buffer # <<>>
      BY <1>4, LookFacts DEF CallOK
    <2>2. Head(buffer) \in Entries /\ Tail(buffer) \in Seq(Entries)
      BY <2>1
    <2>3. out' \in Seq(Objects)
      <3>1. out' = out \/ (InUse(Head(buffer)) /\ out' = Append(out, Head(buffer).object))
        BY <1>4, LookFacts
      <3>2. InUse(Head(buffer)) => Head(buffer).object \in Objects
        BY <2>2, EntryFacts DEF InUse
      <3>3. QED
        BY <3>1, <3>2 DEF CallOK
    <2>4. pc' \in Pcs /\ (pc' = "entry" => buffer' # <<>>)
      BY <1>4, LookFacts DEF NoEntries, Pcs
    <2>5. QED
      BY <1>4, <2>2, <2>3, <2>4, LookFacts DEF CallOK
  <1>5. CASE World \/ UNCHANGED vars
    BY <1>5 DEF World, callVars, vars, CallOK
  <1>6. QED
    BY <1>1, <1>2, <1>3, <1>4, <1>5, <1>7, ReaderSteps DEF Next

(***************************************************************************)
(* What the call can meet has been listed.                                 *)
(***************************************************************************)
LEMMA AllSeenTableStep ==
  ASSUME SlotsOK, ListedSeen, pc # "idle", TableStep, Remember,
         NEW t \in Tables, AllSeen(t)
  PROVE  AllSeen(t)'
  <1>1. seen' = seen \cup Listed' /\ Listed \subseteq seen
    BY DEF Remember, ListedSeen
  <1>2. SUFFICES ASSUME NEW i \in 1..Capacity[t], slots'[t][i].live
                 PROVE  slots'[t][i].object \in seen'
    BY DEF AllSeen
  <1>3. slots[t][i].live => slots[t][i].object \in seen
    BY DEF AllSeen
  <1>4. slots[t] \in [1..Capacity[t] -> Entries] /\ t \in DOMAIN slots
    BY DEF SlotsOK
  <1>5. CASE \E o \in Objects \ gone : Insert(o)
    <2>1. PICK o \in Objects, k \in 1..Capacity[base] :
            slots' = [slots EXCEPT ![base][k] = Live(o)] /\ base' = base
      BY <1>5 DEF Insert
    <2>2. CASE t = base /\ i = k
      <3>1. slots'[base][k] = Live(o)
        BY <1>4, <2>1, <2>2
      <3>2. o \in Listed'
        BY <2>1, <3>1 DEF Listed
      <3>3. QED
        BY <1>1, <2>2, <3>1, <3>2, EntryFacts
    <2>3. CASE ~ (t = base /\ i = k)
      <3>1. slots'[t][i] = slots[t][i]
        BY <1>4, <2>1, <2>3
      <3>2. QED
        BY <1>1, <1>2, <1>3, <3>1
    <2>4. QED
      BY <2>2, <2>3
  <1>6. CASE \E o \in Objects : Erase(o)
    <2>1. PICK k \in 1..Capacity[base] :
            slots' = [slots EXCEPT ![base][k].live = FALSE]
      BY <1>6 DEF Erase
    <2>2. CASE t = base /\ i = k
      <3>1. slots'[t][i] = [slots[t][i] EXCEPT !.live = FALSE] /\ slots[t][i] \in Entries
        BY <1>4, <2>1, <2>2
      <3>2. QED
        BY <1>2, <3>1, EntryFacts
    <2>3. CASE ~ (t = base /\ i = k)
      <3>1. slots'[t][i] = slots[t][i]
        BY <1>4, <2>1, <2>3
      <3>2. QED
        BY <1>1, <1>2, <1>3, <3>1
    <2>4. QED
      BY <2>2, <2>3
  <1>7. CASE \E u \in Tables : Grow(u)
    <2>1. PICK u \in Tables : Grow(u)
      BY <1>7
    <2>2. PICK new \in Rebuilt(u) : slots' = [slots EXCEPT ![u] = new]
      BY <2>1 DEF Grow
    <2>3. CASE t = u
      <3>1. slots'[t] = new
        BY <1>4, <2>2, <2>3
      <3>2. new[i].live => new[i].object \in Listed
        BY <2>3, RebuiltType
      <3>3. QED
        BY <1>1, <1>2, <3>1, <3>2
    <2>4. CASE t # u
      BY <1>1, <1>2, <1>3, <1>4, <2>2, <2>4
    <2>5. QED
      BY <2>3, <2>4
  <1>8. CASE FinishGrow
    BY <1>1, <1>2, <1>3, <1>8 DEF FinishGrow
  <1>9. CASE \E u \in Tables : Free(u)
    <2>1. PICK u \in Tables :
            slots' = [slots EXCEPT ![u] = [j \in 1..Capacity[u] |-> Empty]]
      BY <1>9 DEF Free
    <2>2. CASE t = u
      <3>1. slots'[t][i] = Empty
        BY <1>4, <2>1, <2>2
      <3>2. QED
        BY <1>2, <3>1, EntryFacts
    <2>3. CASE t # u
      BY <1>1, <1>2, <1>3, <1>4, <2>1, <2>3
    <2>4. QED
      BY <2>2, <2>3
  <1>10. QED
    BY <1>5, <1>6, <1>7, <1>8, <1>9 DEF TableStep

LEMMA CallSeenWorld ==
  ASSUME SlotsOK, CallOK, ListedSeen, CallSeen, World
  PROVE  CallSeen'
  <1>1. UNCHANGED callVars /\ Remember
    BY DEF World
  <1>2. CASE pc # "idle"
    <2>1. seen \subseteq seen'
      BY <1>1, <1>2 DEF Remember
    <2>2. ASSUME pc \notin {"set", "base", "done"} PROVE AllSeen(rBase)'
      <3>1. AllSeen(rBase) /\ rBase \in Tables /\ rBase' = rBase
        BY <1>1, <1>2, <2>2 DEF CallSeen, CallOK, callVars
      <3>2. CASE TableStep
        <4> DEFINE t == rBase
        <4>1. t \in Tables /\ AllSeen(t)
          BY <3>1
        <4>2. \A u \in Tables : AllSeen(u) =>
                \A i \in 1..Capacity[u] : slots'[u][i].live => slots'[u][i].object \in seen'
          BY <1>1, <1>2, <3>2, AllSeenTableStep DEF AllSeen
        <4>3. QED
          BY <3>1, <4>2 DEF AllSeen
      <3>3. CASE UNCHANGED tableVars
        BY <2>1, <3>1, <3>3 DEF AllSeen, tableVars
      <3>4. QED
        BY <3>2, <3>3 DEF World, Destroy
    <2>3. QED
      BY <1>1, <1>2, <2>1, <2>2 DEF CallSeen, callVars
  <1>3. QED
    BY <1>1, <1>2 DEF CallSeen, callVars

LEMMA CallSeenCopy ==
  ASSUME SlotsOK, CallOK, CallSeen, CopyChunk
  PROVE  CallSeen'
  <1>1. /\ AllSeen(rBase) /\ pc = "chunk" /\ at < rCapacity
        /\ \A i \in 1..Len(out) : out[i] \in seen
    BY DEF CopyChunk, CallSeen
  <1>2. \A i \in 1..Len(buffer') : buffer'[i].live => buffer'[i].object \in seen
    <2>1. buffer' = Copied
      BY DEF CopyChunk
    <2>2. \A j \in 1..Len(Copied) :
            Copied[j].live => \E i \in 1..Capacity[rBase] : Copied[j] = slots[rBase][i]
      BY <1>1, CopiedType
    <2>3. QED
      BY <1>1, <2>1, <2>2 DEF AllSeen
  <1>3. UNCHANGED <<slots, rBase, out, seen>>
    BY DEF CopyChunk, worldVars, tableVars, history
  <1>4. QED
    BY <1>1, <1>2, <1>3 DEF CallSeen, AllSeen

LEMMA CallSeenLook ==
  ASSUME SlotsOK, CallOK, CallSeen, LookAtEntry
  PROVE  CallSeen'
  <1>1. /\ buffer \in Seq(Entries) /\ buffer # <<>> /\ out \in Seq(Objects)
        /\ pc = "entry" /\ AllSeen(rBase)
        /\ \A i \in 1..Len(buffer) : buffer[i].live => buffer[i].object \in seen
        /\ \A i \in 1..Len(out) : out[i] \in seen
    BY LookFacts DEF CallOK, CallSeen
  <1>2. Head(buffer).live => Head(buffer).object \in seen
    BY <1>1
  <1>3. \A i \in 1..Len(buffer') : buffer'[i].live => buffer'[i].object \in seen
    <2>1. buffer' = Tail(buffer)
      BY LookFacts
    <2>2. \A i \in 1..Len(Tail(buffer)) :
            i + 1 \in 1..Len(buffer) /\ Tail(buffer)[i] = buffer[i + 1]
      BY <1>1
    <2>3. QED
      BY <1>1, <2>1, <2>2
  <1>4. \A i \in 1..Len(out') : out'[i] \in seen
    <2>1. CASE out' = out
      BY <1>1, <2>1
    <2>2. CASE InUse(Head(buffer)) /\ out' = Append(out, Head(buffer).object)
      <3>1. Head(buffer).object \in seen
        BY <1>2, <2>2 DEF InUse
      <3>2. QED
        BY <1>1, <2>2, <3>1
    <2>3. QED
      BY <2>1, <2>2, LookFacts
  <1>5. UNCHANGED <<slots, rBase, seen>>
    BY LookFacts DEF worldVars, tableVars
  <1>6. QED
    BY <1>1, <1>3, <1>4, <1>5 DEF CallSeen, AllSeen

LEMMA CallSeenReads ==
  ASSUME SlotsOK, CallOK, ListedSeen, CallSeen,
         HeaderStep \/ ChunkUnread \/ ChunksDone
  PROVE  CallSeen'
  <1>1. UNCHANGED <<slots, base, buffer, out, seen>> /\ pc # "idle"
    BY HeaderFacts DEF ChunkUnread, ChunksDone, worldVars, tableVars, history
  <1>2. ASSUME pc' \notin {"set", "base", "done"} PROVE AllSeen(rBase)'
    <2>1. CASE ReadBase
      <3>1. rBase' = base /\ Listed \subseteq seen
        BY <1>1, <2>1 DEF ReadBase, ListedSeen
      <3>2. QED
        BY <1>1, <3>1, ListedLive DEF AllSeen
    <2>2. CASE ~ ReadBase
      <3>1. rBase' = rBase /\ AllSeen(rBase)
        BY <1>1, <1>2, <2>2
           DEF HeaderStep, ReadSet, ReadCapacity, ReadCount, HeaderUnread, ChunkUnread, ChunksDone, CallSeen
      <3>2. QED
        BY <1>1, <3>1 DEF AllSeen
    <2>3. QED
      BY <2>1, <2>2
  <1>3. QED
    BY <1>1, <1>2 DEF CallSeen

LEMMA SeenStep ==
  ASSUME SlotsOK, CallOK, ListedSeen, CallSeen, [Next]_vars
  PROVE  ListedSeen' /\ CallSeen'
  <1>1. ListedSeen'
    <2>1. CASE World
      BY <2>1 DEF World, Remember, ListedSeen, callVars
    <2>2. CASE Begin \/ Return
      BY <2>2 DEF Begin, Return, ListedSeen, worldVars, tableVars, Listed
    <2>3. CASE Reader \/ UNCHANGED vars
      <3>1. UNCHANGED <<worldVars, seen>> /\ (pc = "idle" => pc' = "idle")
        BY <2>3, ReaderSteps, HeaderFacts, LookFacts DEF CopyChunk, ChunkUnread, ChunksDone,
           vars, callVars, history
      <3>2. QED
        BY <3>1 DEF worldVars, tableVars, ListedSeen, Listed
    <2>4. QED
      BY <2>1, <2>2, <2>3 DEF Next
  <1>2. CallSeen'
    <2>1. CASE Begin
      BY <2>1 DEF Begin, CallOK, CallSeen
    <2>2. CASE Return
      BY <2>2 DEF Return, CallSeen
    <2>3. CASE Reader
      BY <2>3, CallSeenCopy, CallSeenLook, CallSeenReads, ReaderSteps
    <2>4. CASE World
      BY <2>4, CallSeenWorld
    <2>5. CASE UNCHANGED vars
      BY <2>5 DEF vars, worldVars, tableVars, callVars, history, CallSeen, AllSeen
    <2>6. QED
      BY <2>1, <2>2, <2>3, <2>4, <2>5 DEF Next
  <1>3. QED
    BY <1>1, <1>2

CallInv == SlotsOK /\ CallOK /\ ListedSeen /\ CallSeen

LEMMA CallInvAlways == Spec => []CallInv
  <1>1. Init => CallInv
    <2>1. Init => ListedSeen /\ CallSeen
      BY DEF Init, ListedSeen, CallSeen
    <2>2. QED
      BY <2>1, SlotsInit DEF CallInv
  <1>2. CallInv /\ [Next]_vars => CallInv'
    BY SlotsStep, CallStep, SeenStep DEF CallInv
  <1>3. QED
    BY <1>1, <1>2, PTL DEF Spec

\* EnumerateMsIdToPointerObjects reports only what has been in the registry
\* since it was called, whatever its size and the size of the chunks, however
\* often it is rebuilt or moved between two reads of the header.
THEOREM ReportsAreListed == Spec => []ReportedWasListed
  <1>1. CallInv => ReportedWasListed
    BY DEF CallInv, CallOK, CallSeen, ReportedWasListed, Reported
  <1>2. QED
    BY <1>1, CallInvAlways, PTL

(***************************************************************************)
(* The refinement: each step of the call or the target is one of the       *)
(* listing's, or leaves what the listing sees alone.                       *)
(***************************************************************************)
LEMMA ListingInit == Init => Listing!Init
  <1> SUFFICES ASSUME Init PROVE Listing!Init
    OBVIOUS
  <1>1. Phase = "idle" /\ seen = {} /\ Reported = {}
    BY DEF Init, NoCall, Phase, Reported
  <1>2. Listed \in SUBSET Objects
    BY DEF Listed
  <1>3. QED
    BY <1>1, <1>2 DEF Listing!Init

LEMMA ListingBegin == Begin => Listing!Start
  <1> SUFFICES ASSUME Begin PROVE Listing!Start
    OBVIOUS
  <1>1. Phase = "idle" /\ Phase' = "running"
    BY DEF Begin, Phase
  <1>2. seen' = Listed /\ Listed' = Listed /\ Reported' = Reported
    BY DEF Begin, Reported, Listed, worldVars, tableVars
  <1>3. QED
    BY <1>1, <1>2 DEF Listing!Start, Listing!GoesOn

LEMMA ListingReturn == Return => Listing!Clear
  <1> SUFFICES ASSUME Return PROVE Listing!Clear
    OBVIOUS
  <1>1. Phase = "answered" /\ Phase' = "idle"
    BY DEF Return, Phase
  <1>2. seen' = {} /\ Listed' = Listed /\ Reported' = {}
    BY DEF Return, Reported, Listed, worldVars, tableVars
  <1>3. QED
    BY <1>1, <1>2 DEF Listing!Clear

LEMMA AppendReports ==
  ASSUME out \in Seq(Objects), NEW o \in Objects, out' = Append(out, o)
  PROVE  Reported' = Reported \cup {o}
  <1>1. /\ Len(out) \in Nat /\ Len(out') = Len(out) + 1
        /\ 1..Len(out') = 1..Len(out) \cup {Len(out')}
    OBVIOUS
  <1>2. out'[Len(out')] = o /\ \A i \in 1..Len(out) : out'[i] = out[i]
    OBVIOUS
  <1>3. {out'[i] : i \in 1..Len(out')} = {out[i] : i \in 1..Len(out)} \cup {o}
    BY <1>1, <1>2
  <1>4. QED
    BY <1>3 DEF Reported

\* An entry that is reported is in use in the copy the call has made, and so
\* has been listed since it began.
LEMMA ListingLook ==
  ASSUME CallOK, CallSeen, LookAtEntry
  PROVE  [Listing!Next]_Listing!listingVars
  <1>1. Phase = "running" /\ Phase' = "running"
    BY LookFacts DEF Phase
  <1>2. Listed' = Listed /\ seen' = seen
    BY LookFacts DEF Listed, worldVars, tableVars
  <1>3. CASE out' = out
    <2>1. Reported' = Reported
      BY <1>3 DEF Reported
    <2>2. QED
      BY <1>1, <1>2, <2>1 DEF Listing!listingVars
  <1>4. CASE InUse(Head(buffer)) /\ out' = Append(out, Head(buffer).object)
    <2> DEFINE o == Head(buffer).object
    <2>1. buffer \in Seq(Entries) /\ buffer # <<>> /\ out \in Seq(Objects)
      BY LookFacts DEF CallOK
    <2>2. Head(buffer) \in Entries /\ Head(buffer) = buffer[1] /\ 1 \in 1..Len(buffer)
      BY <2>1
    <2>3. o \in Objects
      BY <1>4, <2>2 DEF Entries, InUse
    <2>4. o \in seen
      BY <1>4, <2>2, LookFacts DEF CallSeen, InUse
    <2>5. Reported' = Reported \cup {o}
      BY <1>4, <2>1, <2>3, AppendReports
    <2>6. Listing!ReportOne(o)
      BY <1>1, <1>2, <2>4, <2>5 DEF Listing!ReportOne, Listing!GoesOn
    <2>7. QED
      BY <2>3, <2>6 DEF Listing!Next
  <1>5. QED
    BY <1>3, <1>4, LookFacts

\* Reads of the header and of chunks report nothing; some of them may end the call.
LEMMA ListingReads ==
  ASSUME HeaderStep \/ CopyChunk \/ ChunkUnread \/ ChunksDone
  PROVE  [Listing!Next]_Listing!listingVars
  <1>1. Phase = "running" /\ Phase' \in {"running", "answered"}
    BY HeaderFacts DEF CopyChunk, ChunkUnread, ChunksDone, Phase
  <1>2. Listed' = Listed /\ seen' = seen /\ Reported' = Reported
    BY HeaderFacts DEF CopyChunk, ChunkUnread, ChunksDone, Listed, Reported, worldVars, tableVars, history
  <1>3. CASE Phase' = "running"
    BY <1>1, <1>2, <1>3 DEF Listing!listingVars
  <1>4. CASE Phase' = "answered"
    BY <1>1, <1>2, <1>4 DEF Listing!Answer, Listing!Next
  <1>5. QED
    BY <1>1, <1>3, <1>4

LEMMA ListingWorld == World => Listing!Change
  <1> SUFFICES ASSUME World PROVE Listing!Change
    OBVIOUS
  <1>1. Listed' \in SUBSET Objects
    BY DEF Listed
  <1>2. pc' = pc /\ out' = out /\ pc # "done" /\ Remember
    BY DEF World, callVars
  <1>3. Phase' = Phase /\ Reported' = Reported /\ (Phase = "running" <=> pc # "idle")
    BY <1>2 DEF Phase, Reported
  <1>4. seen' = IF Phase = "running" THEN seen \cup Listed' ELSE seen
    BY <1>2, <1>3 DEF Remember
  <1>5. QED
    BY <1>1, <1>3, <1>4 DEF Listing!Change

LEMMA ListingNext ==
  CallInv /\ [Next]_vars => [Listing!Next]_Listing!listingVars
  <1> SUFFICES ASSUME CallInv, [Next]_vars PROVE [Listing!Next]_Listing!listingVars
    OBVIOUS
  <1>1. CASE Begin \/ Return
    BY <1>1, ListingBegin, ListingReturn DEF Listing!Next
  <1>2. CASE LookAtEntry
    BY <1>2, ListingLook DEF CallInv
  <1>3. CASE HeaderStep \/ CopyChunk \/ ChunkUnread \/ ChunksDone
    BY <1>3, ListingReads
  <1>4. CASE World
    BY <1>4, ListingWorld DEF Listing!Next
  <1>5. CASE UNCHANGED vars
    <2>1. Phase' = Phase /\ Listed' = Listed /\ seen' = seen /\ Reported' = Reported
      BY <1>5 DEF vars, worldVars, tableVars, callVars, history, Phase, Listed, Reported
    <2>2. QED
      BY <2>1 DEF Listing!listingVars
  <1>6. QED
    BY <1>1, <1>2, <1>3, <1>4, <1>5, ReaderSteps DEF Next

(***************************************************************************)
(* EnumerateMsIdToPointerObjects is a listing: what it reports it reports  *)
(* one by one, each an object that was in the registry since the call      *)
(* began, whatever the target does to the registry meanwhile.              *)
(***************************************************************************)
THEOREM EnumerationImplementsListing == Spec => ImplementsListing
  BY CallInvAlways, ListingInit, ListingNext, PTL DEF Spec, ImplementsListing, Listing!Spec

(***************************************************************************)
(* A call during which objects are only added.  No object has two entries  *)
(* of a table (OneEntry), and an entry in use stays where it is, so what   *)
(* the call has looked at are the slots up to some number (Done): of these *)
(* it has reported the entries it should have, and no others.              *)
(***************************************************************************)
OneEntry ==
  \A t \in Tables : \A i, j \in 1..Capacity[t] :
    slots[t][i].live /\ slots[t][j] = slots[t][i] => i = j

\* What is remembered of a class is its kind, or too little, and that only if
\* something of it could not be read.
CacheTrue ==
  /\ classCache \in [Classes -> Kinds \cup {"unknown", "invalid"}]
  /\ \A c \in Classes :
       /\ classCache[c] \in {"unknown", "invalid", "Other", KindOf(c)}
       /\ classCache[c] \in {"unknown", KindOf(c)} \/ c \in misread

StandingInv ==
  /\ base \notin freed
  /\ kept \subseteq Listed /\ Listed \cap gone = {}
  /\ CacheTrue
  /\ pc = "idle" => classCache = Unknown /\ at = 0 /\ ~ quiet
  /\ pc \notin {"idle", "entry"} => buffer = <<>>
  /\ pc \in {"set", "base", "capacity", "count"} => at = 0 /\ out = <<>>
  /\ headerLost => pc = "done"

Done == Minimum(at, rCapacity) - Len(buffer)

\* The buffer is a copy of the slots behind Done: what it holds in use is
\* there, and what was there before the call it holds.
BufferTrue ==
  \A j \in 1..Len(buffer) :
    /\ buffer[j].live => buffer[j] = slots[base][Done + j]
    /\ \A o \in kept : slots[base][Done + j] = Live(o) => buffer[j] = Live(o)

OutTrue ==
  /\ \A k \in 1..Len(out) : \E i \in 1..Done : slots[base][i] = Live(out[k])
  /\ \A k, l \in 1..Len(out) : out[k] = out[l] => k = l
  /\ \A k \in 1..Len(out) : Wanted(KindOf(ClassOf[out[k]]))
  /\ \A i \in 1..Done, o \in Expected : slots[base][i] = Live(o) => o \in Reported

QuietInv ==
  quiet /\ ~ headerLost =>
    /\ Settled
    /\ pc \notin {"set", "base"} => rBase = base
    /\ pc \notin {"set", "base", "capacity"} => rCapacity = capacity
    /\ pc \in {"chunk", "entry", "done"} =>
         Done \in 0..rCapacity /\ BufferTrue /\ OutTrue
    /\ pc = "done" => ok /\ Done = rCapacity

LEMMA CapacityNat == \A t \in Tables : Capacity[t] \in Nat \ {0}
  BY IdTableAssumption

(***************************************************************************)
(* The tables.                                                             *)
(***************************************************************************)
LEMMA LiveIs == \A o \in Objects, p \in Objects : Live(o) = Live(p) => o = p
  BY DEF Live

LEMMA RebuiltOnce ==
  ASSUME NEW t \in Tables, NEW new \in Rebuilt(t), NEW i \in 1..Capacity[t], NEW j \in 1..Capacity[t],
         new[i].live, new[j] = new[i]
  PROVE  i = j
  <1>1. new \in [1..Capacity[t] -> {Empty} \cup {Live(o) : o \in Listed}]
    BY DEF Rebuilt
  <1>2. PICK o \in Listed : new[i] = Live(o)
    BY <1>1, EntryFacts
  <1> DEFINE S == {k \in 1..Capacity[t] : new[k] = Live(o)}
  <1>3. Cardinality(S) = 1
    BY DEF Rebuilt
  <1>4. IsFiniteSet(1..Capacity[t])
    BY CapacityNat, FS_Interval
  <1>5. IsFiniteSet(S)
    BY <1>4, FS_Subset
  <1>6. \E x : S = {x}
    BY <1>3, <1>5, FS_Singleton
  <1>7. i \in S /\ j \in S
    BY <1>2
  <1>8. QED
    BY <1>6, <1>7

LEMMA OneEntryInit == Init => OneEntry
  BY EntryFacts DEF Init, TableInit, OneEntry

LEMMA OneEntrySet ==
  ASSUME SlotsOK, OneEntry, NEW t \in Tables, NEW new \in [1..Capacity[t] -> Entries],
         slots' = [slots EXCEPT ![t] = new],
         \A i, j \in 1..Capacity[t] : new[i].live /\ new[j] = new[i] => i = j
  PROVE  OneEntry'
  BY DEF OneEntry, SlotsOK

LEMMA OneEntryTableStep == ASSUME SlotsOK, OneEntry, TableStep PROVE OneEntry'
  <1>1. CASE \E o \in Objects \ gone : Insert(o)
    <2>1. PICK o \in Objects, k \in 1..Capacity[base] :
            slots' = [slots EXCEPT ![base][k] = Live(o)] /\ o \notin Listed
      BY <1>1 DEF Insert
    <2> DEFINE new == [slots[base] EXCEPT ![k] = Live(o)]
    <2>2. base \in Tables /\ new \in [1..Capacity[base] -> Entries]
      BY <2>1, EntryFacts DEF SlotsOK
    <2>3. slots' = [slots EXCEPT ![base] = new]
      BY <2>1
    <2>4. \A i \in 1..Capacity[base] : new[i] = IF i = k THEN Live(o) ELSE slots[base][i]
      BY <2>1 DEF SlotsOK
    <2>5. \A i \in 1..Capacity[base] : slots[base][i] # Live(o)
      BY <2>1 DEF Listed
    <2>6. \A i, j \in 1..Capacity[base] : new[i].live /\ new[j] = new[i] => i = j
      BY <2>2, <2>4, <2>5 DEF OneEntry
    <2>7. QED
      BY <2>2, <2>3, <2>6, OneEntrySet
  <1>2. CASE \E o \in Objects : Erase(o)
    <2>1. PICK k \in 1..Capacity[base] : slots' = [slots EXCEPT ![base][k].live = FALSE]
      BY <1>2 DEF Erase
    <2> DEFINE new == [slots[base] EXCEPT ![k] = [slots[base][k] EXCEPT !.live = FALSE]]
    <2>2. base \in Tables /\ slots[base][k] \in Entries /\ slots[base] \in [1..Capacity[base] -> Entries]
      BY DEF SlotsOK
    <2>3. [slots[base][k] EXCEPT !.live = FALSE] \in Entries /\ ~ [slots[base][k] EXCEPT !.live = FALSE].live
      BY <2>2, EntryFacts
    <2>4. new \in [1..Capacity[base] -> Entries]
      BY <2>2, <2>3
    <2>5. slots' = [slots EXCEPT ![base] = new]
      BY <2>1
    <2>6. \A i \in 1..Capacity[base] : i # k => new[i] = slots[base][i]
      BY <2>2
    <2>7. ~ new[k].live
      BY <2>2, <2>3
    <2>8. \A i, j \in 1..Capacity[base] : new[i].live /\ new[j] = new[i] => i = j
      BY <2>2, <2>6, <2>7 DEF OneEntry
    <2>9. QED
      BY <2>2, <2>4, <2>5, <2>8, OneEntrySet
  <1>3. CASE \E t \in Tables : Grow(t)
    <2>0. PICK t \in Tables : Grow(t)
      BY <1>3
    <2>1. PICK new \in Rebuilt(t) : slots' = [slots EXCEPT ![t] = new]
      BY <2>0 DEF Grow
    <2>2. \A i, j \in 1..Capacity[t] : new[i].live /\ new[j] = new[i] => i = j
      BY RebuiltOnce
    <2>3. new \in [1..Capacity[t] -> Entries]
      BY RebuiltType
    <2>4. QED
      BY <2>1, <2>2, <2>3, OneEntrySet
  <1>4. CASE FinishGrow
    BY <1>4 DEF FinishGrow, OneEntry
  <1>5. CASE \E t \in Tables : Free(t)
    <2>1. PICK t \in Tables : slots' = [slots EXCEPT ![t] = [i \in 1..Capacity[t] |-> Empty]]
      BY <1>5 DEF Free
    <2>2. [i \in 1..Capacity[t] |-> Empty] \in [1..Capacity[t] -> Entries]
      BY EntryFacts
    <2>3. QED
      BY <2>1, <2>2, EntryFacts, OneEntrySet
  <1>6. QED
    BY <1>1, <1>2, <1>3, <1>4, <1>5 DEF TableStep

\* Only a step of the table writes it.
LEMMA TableStill ==
  ASSUME [Next]_vars, ~ (World /\ TableStep)
  PROVE  UNCHANGED tableVars
  BY ReaderSteps, HeaderFacts, LookFacts DEF Next, World, Destroy, Begin, Return,
    CopyChunk, ChunkUnread, ChunksDone, vars, worldVars

LEMMA OneEntryStep == ASSUME SlotsOK, OneEntry, [Next]_vars PROVE OneEntry'
  <1>1. CASE UNCHANGED tableVars
    BY <1>1 DEF tableVars, OneEntry
  <1>2. QED
    BY <1>1, TableStill, OneEntryTableStep

(***************************************************************************)
(* What holds of every call.                                               *)
(***************************************************************************)
\* What is listed after a change of the table was listed, or is still there.
LEMMA ListedTableStep ==
  ASSUME SlotsOK, TableStep, Listed \cap gone = {}
  PROVE  Listed' \cap gone' = {}
  <1>1. gone' = gone
    BY DEF TableStep
  <1>2. Listed' \subseteq Listed \cup (Objects \ gone)
    <2>1. CASE \E o \in Objects \ gone : Insert(o)
      <3>1. PICK o \in Objects \ gone, k \in 1..Capacity[base] :
              slots' = [slots EXCEPT ![base][k] = Live(o)] /\ base' = base
        BY <2>1 DEF Insert
      <3>2. \A i \in 1..Capacity[base] : slots'[base][i] = IF i = k THEN Live(o) ELSE slots[base][i]
        BY <3>1 DEF SlotsOK
      <3>3. QED
        BY <3>1, <3>2, LiveIs DEF Listed
    <2>2. CASE \E o \in Objects : Erase(o)
      <3>1. PICK k \in 1..Capacity[base] :
              slots' = [slots EXCEPT ![base][k].live = FALSE] /\ base' = base
        BY <2>2 DEF Erase
      <3>2. \A i \in 1..Capacity[base] :
              slots'[base][i] = IF i = k THEN [slots[base][i] EXCEPT !.live = FALSE] ELSE slots[base][i]
        BY <3>1 DEF SlotsOK
      <3>3. slots[base][k] \in Entries
        BY DEF SlotsOK
      <3>4. \A o \in Objects : slots'[base][k] # Live(o)
        <4>1. slots'[base][k] = [slots[base][k] EXCEPT !.live = FALSE]
          BY <3>2
        <4>2. ~ slots'[base][k].live
          BY <3>3, <4>1, EntryFacts
        <4>3. QED
          BY <4>2, EntryFacts
      <3>5. QED
        BY <3>1, <3>2, <3>4 DEF Listed
    <2>3. CASE \E t \in Tables : Grow(t)
      <3>1. PICK t \in Tables : Grow(t)
        BY <2>3
      <3>2. PICK new \in Rebuilt(t) : slots' = [slots EXCEPT ![t] = new]
        BY <3>1 DEF Grow
      <3>3. \A u \in Tables : slots'[u] = IF u = t THEN new ELSE slots[u]
        BY <3>2 DEF SlotsOK
      <3>4. t # base /\ base' \in {t, base}
        BY <3>1 DEF Grow
      <3>5. ASSUME NEW o \in Objects, NEW i \in 1..Capacity[t], new[i] = Live(o) PROVE o \in Listed
        BY <3>5, RebuiltType, EntryFacts
      <3>6. QED
        BY <3>3, <3>4, <3>5 DEF Listed, SlotsOK
    <2>4. CASE FinishGrow
      <3>1. slots' = slots /\ (base' = base \/ \E t \in Tables : base' = t /\ slots[t] \in Rebuilt(t))
        BY <2>4 DEF FinishGrow
      <3>2. ASSUME NEW t \in Tables, slots[t] \in Rebuilt(t), NEW o \in Objects,
                   NEW i \in 1..Capacity[t], slots[t][i] = Live(o)
            PROVE  o \in Listed
        BY <3>2, RebuiltType, EntryFacts
      <3>3. QED
        BY <3>1, <3>2 DEF Listed
    <2>5. CASE \E t \in Tables : Free(t)
      <3>1. PICK t \in Tables : t # base /\ slots' = [slots EXCEPT ![t] = [i \in 1..Capacity[t] |-> Empty]]
                              /\ base' = base
        BY <2>5 DEF Free
      <3>2. slots'[base] = slots[base]
        BY <3>1 DEF SlotsOK
      <3>3. QED
        BY <3>1, <3>2 DEF Listed
    <2>6. QED
      BY <2>1, <2>2, <2>3, <2>4, <2>5 DEF TableStep
  <1>3. QED
    BY <1>1, <1>2

LEMMA OtherWanted == Wanted("Other") => \A k : Wanted(k)
  BY DEF Wanted

LEMMA KindIsKind == \A c : KindOf(c) \in Kinds
  BY DEF KindOf, Kinds

\* A class is found to be of its kind, or of too little; if all of it could be
\* read, and has no more parents than are looked at, of its kind.
LEMMA VerdictFacts ==
  ASSUME LimitsHold, NEW c \in Classes, NEW r \in ClassReads(c)
  PROVE  /\ Verdict(c, r) \in {"invalid", "Other", KindOf(c)}
         /\ r = AllRead => Verdict(c, r) = KindOf(c)
  <1>1. \A b, l : IsClassOrParent(c, b, l) => Has(c, b)
    BY DEF IsClassOrParent, Has
  <1>2. ~ (Has(c, GameObject) /\ Has(c, ScriptableObject))
    BY EnumerateAssumption
  <1>3. \A b : Has(c, b) => IsClassOrParent(c, b, {})
    <2>1. Len(Lineage[c]) \in Nat /\ MaxDepth \in Nat /\ Len(Lineage[c]) <= MaxDepth
      BY EnumerateAssumption DEF LimitsHold
    <2>2. \A n \in 1..Len(Lineage[c]) : n <= MaxDepth
      BY <2>1
    <2>3. QED
      BY <2>2 DEF Has, IsClassOrParent
  <1>4. r.name \in BOOLEAN
    BY DEF ClassReads
  <1>5. CASE r.name
    <2>1. \/ Verdict(c, r) = "GameObject" /\ IsClassOrParent(c, GameObject, r.go)
          \/ /\ Verdict(c, r) = "ScriptableObject"
             /\ ~ IsClassOrParent(c, GameObject, r.go) /\ IsClassOrParent(c, ScriptableObject, r.so)
          \/ /\ Verdict(c, r) = "Other"
             /\ ~ IsClassOrParent(c, GameObject, r.go) /\ ~ IsClassOrParent(c, ScriptableObject, r.so)
      BY <1>5 DEF Verdict
    <2>2. r = AllRead => r.go = {} /\ r.so = {}
      BY DEF AllRead
    <2>3. QED
      BY <1>1, <1>2, <1>3, <2>1, <2>2 DEF KindOf
  <1>6. CASE ~ r.name
    <2>1. Verdict(c, r) = "invalid"
      BY <1>4, <1>6 DEF Verdict
    <2>2. r # AllRead
      BY <1>6 DEF AllRead
    <2>3. QED
      BY <2>1, <2>2
  <1>7. QED
    BY <1>4, <1>5, <1>6

LEMMA CacheStart == Unknown \in [Classes -> Kinds \cup {"unknown", "invalid"}]
                    /\ \A c \in Classes : Unknown[c] = "unknown"
  BY DEF Unknown

LEMMA StandingInit == Init => StandingInv
  <1>1. ASSUME Init PROVE Listed \cap gone = {} /\ kept = {} /\ base \notin freed
    BY <1>1 DEF Init, TableInit, NoCall
  <1>2. QED
    BY <1>1, CacheStart DEF Init, NoCall, NoEntries, StandingInv, CacheTrue

\* A class met for the first time.
LEMMA CacheLook ==
  ASSUME LimitsHold, CallOK, CacheTrue, LookAtEntry
  PROVE  CacheTrue'
  <1>1. CASE UNCHANGED <<classCache, misread>>
    BY <1>1 DEF CacheTrue
  <1>2. CASE ClassMet
    <2>1. buffer \in Seq(Entries) /\ buffer # <<>> /\ Head(buffer).live
      BY <1>2, LookFacts DEF ClassMet, InUse, CallOK
    <2>2. Head(buffer).object \in Objects
      BY <2>1, EntryFacts
    <2>0. PICK c \in Classes : c = ClassOf[Head(buffer).object]
      BY <2>2, EnumerateAssumption
    <2>3. PICK r \in ClassReads(c) :
            /\ classCache' = [classCache EXCEPT ![c] = Verdict(c, r)]
            /\ misread' = IF r = AllRead THEN misread ELSE misread \cup {c}
      BY <1>2, <2>0 DEF ClassMet
    <2>4. /\ Verdict(c, r) \in {"invalid", "Other", KindOf(c)}
          /\ r = AllRead => Verdict(c, r) = KindOf(c)
      BY VerdictFacts
    <2>5. Verdict(c, r) \in Kinds \cup {"unknown", "invalid"}
      BY <2>4, KindIsKind DEF Kinds
    <2>6. /\ classCache' \in [Classes -> Kinds \cup {"unknown", "invalid"}]
          /\ \A d \in Classes : classCache'[d] = IF d = c THEN Verdict(c, r) ELSE classCache[d]
      BY <2>3, <2>5 DEF CacheTrue
    <2>7. misread \subseteq misread' /\ (r = AllRead \/ c \in misread')
      BY <2>3
    <2>8. \A d : KindOf(d)' = KindOf(d)
      BY DEF KindOf, Has
    <2>9. QED
      BY <2>4, <2>6, <2>7, <2>8 DEF CacheTrue
  <1>3. QED
    BY <1>1, <1>2 DEF LookAtEntry, EntryNotInUse, ObjectPassedOver, ClassKnown

LEMMA StandingStep == ASSUME LimitsHold, SlotsOK, CallOK, StandingInv, [Next]_vars PROVE StandingInv'
  <1>1. base' \notin freed'
    <2>1. CASE TableStep
      BY <2>1 DEF TableStep, Insert, Erase, Grow, FinishGrow, Free, StandingInv
    <2>2. CASE UNCHANGED tableVars
      BY <2>2 DEF tableVars, StandingInv
    <2>3. QED
      BY <2>1, <2>2, TableStill
  <1>2. CASE World
    <2>1. kept' \subseteq Listed'
      BY <1>2 DEF World, Remember
    <2>2. Listed' \cap gone' = {}
      <3>1. CASE TableStep
        BY <3>1, ListedTableStep DEF StandingInv
      <3>2. CASE \E o \in Objects : Destroy(o)
        BY <3>2 DEF Destroy, tableVars, Listed, StandingInv
      <3>3. QED
        BY <1>2, <3>1, <3>2 DEF World
    <2>3. UNCHANGED <<callVars, failures>> /\ (quiet' = quiet \/ quiet' = FALSE)
      BY <1>2 DEF World, Remember, TableStep, Destroy
    <2>4. CacheTrue'
      BY <2>3 DEF callVars, failures, StandingInv, CacheTrue, KindOf, Has
    <2>5. QED
      BY <1>1, <2>1, <2>2, <2>3, <2>4 DEF callVars, failures, StandingInv
  <1>3. CASE Begin
    <2>1. UNCHANGED <<worldVars, rBase, rCapacity, at, buffer, classCache, out, ok, failures>>
          /\ pc = "idle" /\ pc' = "set" /\ kept' = Listed /\ buffer = <<>> /\ out = <<>>
      BY <1>3 DEF Begin, CallOK
    <2>2. Listed' = Listed /\ gone' = gone /\ CacheTrue'
      BY <2>1 DEF worldVars, tableVars, Listed, failures, StandingInv, CacheTrue, KindOf, Has
    <2>3. QED
      BY <1>1, <2>1, <2>2 DEF StandingInv, failures
  <1>4. CASE Return
    <2>1. Listed' = Listed /\ gone' = gone
      BY <1>4 DEF Return, worldVars, tableVars, Listed
    <2>2. classCache' = Unknown /\ CacheTrue'
      BY <1>4, CacheStart DEF Return, CacheTrue, KindOf, Has, Unknown
    <2>3. QED
      BY <1>1, <1>4, <2>1, <2>2 DEF Return, NoEntries, StandingInv, Unknown
  <1>5. CASE Reader
    <2>1. UNCHANGED <<worldVars, kept, quiet>> /\ pc # "idle" /\ pc' # "idle"
      BY <1>5, ReaderSteps, HeaderFacts, LookFacts DEF CopyChunk, ChunkUnread, ChunksDone, history
    <2>2. Listed' = Listed /\ gone' = gone
      BY <2>1 DEF worldVars, tableVars, Listed
    <2>3. CacheTrue'
      <3>1. CASE LookAtEntry
        BY <3>1, CacheLook DEF StandingInv
      <3>2. CASE ~ LookAtEntry
        <4>1. UNCHANGED <<classCache, misread>>
          BY <1>5, <3>2, ReaderSteps, HeaderFacts DEF CopyChunk, ChunkUnread, ChunksDone, history, failures
        <4>2. QED
          BY <4>1 DEF StandingInv, CacheTrue, KindOf, Has
      <3>3. QED
        BY <3>1, <3>2
    <2>4. /\ pc' \notin {"idle", "entry"} => buffer' = <<>>
          /\ pc' \in {"set", "base", "capacity", "count"} => at' = 0 /\ out' = <<>>
      <3>1. CASE HeaderStep
        BY <3>1, HeaderFacts DEF StandingInv
      <3>2. CASE LookAtEntry
        BY <3>2, LookFacts DEF NoEntries
      <3>3. CASE CopyChunk \/ ChunkUnread \/ ChunksDone
        BY <3>3 DEF CopyChunk, ChunkUnread, ChunksDone, StandingInv
      <3>4. QED
        BY <1>5, <3>1, <3>2, <3>3, ReaderSteps
    <2>5. headerLost' => pc' = "done"
      BY <1>5, ReaderSteps, LookFacts DEF HeaderStep, ReadSet, ReadBase, ReadCapacity, ReadCount,
         HeaderUnread, CopyChunk, ChunkUnread, ChunksDone, history, failures, StandingInv
    <2>6. QED
      BY <1>1, <2>1, <2>2, <2>3, <2>4, <2>5 DEF StandingInv
  <1>6. CASE UNCHANGED vars
    BY <1>1, <1>6 DEF vars, worldVars, tableVars, callVars, history, failures, StandingInv, CacheTrue,
       KindOf, Has, Listed
  <1>7. QED
    BY <1>2, <1>3, <1>4, <1>5, <1>6 DEF Next

LEMMA AtMostTrans ==
  ASSUME NEW a \in Nat, NEW b \in Nat, NEW c \in Nat, a <= b, b <= c
  PROVE  a <= c
  OBVIOUS

LEMMA ListedBound == ASSUME SlotsOK PROVE Cardinality(Listed) <= Capacity[base]
  <1> DEFINE C == Capacity[base]
             f == [i \in 1..C |-> slots[base][i].object]
             T == {f[i] : i \in 1..C}
  <1>1. base \in Tables /\ C \in Nat \ {0}
    BY CapacityNat DEF SlotsOK
  <1>2. IsFiniteSet(1..C) /\ Cardinality(1..C) = C
    BY <1>1, FS_Interval
  <1>3. f \in Surjection(1..C, T)
    BY DEF Surjection
  <1>4. IsFiniteSet(T) /\ Cardinality(T) <= Cardinality(1..C)
    BY <1>2, <1>3, FS_Surjection
  <1>5. Listed \in SUBSET T
    <2>1. ASSUME NEW o \in Listed PROVE o \in T
      <3>1. PICK i \in 1..C : slots[base][i] = Live(o)
        BY DEF Listed
      <3>2. f[i] = o
        BY <3>1 DEF Live
      <3>3. QED
        BY <3>2
    <2>2. QED
      BY <2>1
  <1>6. Cardinality(Listed) <= Cardinality(T) /\ Cardinality(Listed) \in Nat /\ Cardinality(T) \in Nat
    BY <1>4, <1>5, FS_Subset, FS_CardinalityType
  <1>7. Cardinality(T) <= C
    BY <1>2, <1>4
  <1>8. QED
    BY <1>1, <1>6, <1>7, AtMostTrans, Zenon

\* The call, with the numbers it counts by.
LEMMA Counts ==
  ASSUME SlotsOK, CallOK, StandingInv, QuietInv, quiet, ~ headerLost, pc \in {"chunk", "entry", "done"}
  PROVE  /\ rBase = base /\ rCapacity = Capacity[base] /\ Capacity[base] \in Nat \ {0}
         /\ base \in Tables /\ rBase \notin freed
         /\ at \in Nat /\ Chunk \in Nat \ {0} /\ Len(buffer) \in Nat
         /\ Done \in 0..Capacity[base]
         /\ Done + Len(buffer) = Minimum(at, Capacity[base])
         /\ Done + Len(buffer) <= Capacity[base]
         /\ BufferTrue /\ OutTrue
  <1>1. /\ rBase = base /\ rCapacity = capacity /\ capacity = Capacity[base]
        /\ base \in Tables /\ base \notin freed /\ Done \in 0..rCapacity /\ BufferTrue /\ OutTrue
    BY DEF QuietInv, Settled, SlotsOK, StandingInv
  <1>2. at \in Nat /\ Len(buffer) \in Nat /\ Chunk \in Nat \ {0} /\ Capacity[base] \in Nat \ {0}
    BY <1>1, CapacityNat, EnumerateAssumption DEF CallOK
  <1>3. QED
    BY <1>1, <1>2 DEF Done, Minimum

(***************************************************************************)
(* An addition takes a slot that is not in use, for an object that was not *)
(* listed.                                                                 *)
(***************************************************************************)
LEMMA QuietTable ==
  ASSUME SlotsOK, World, quiet'
  PROVE  /\ quiet /\ UNCHANGED <<base, capacity, freed, callVars>> /\ kept' \subseteq kept
         /\ failures' = failures
         /\ \A i \in 1..Capacity[base] :
              /\ slots[base][i].live => slots'[base][i] = slots[base][i]
              /\ \A o \in Listed : slots'[base][i] = Live(o) => slots[base][i] = Live(o)
  <1>1. UNCHANGED <<callVars, failures>> /\ kept' \subseteq kept
    BY DEF World, Remember
  <1>2. CASE \E o \in Objects \ gone : Insert(o) /\ UNCHANGED quiet
    <2>1. PICK o \in Objects, k \in 1..Capacity[base] :
            /\ slots' = [slots EXCEPT ![base][k] = Live(o)]
            /\ ~ slots[base][k].live /\ o \notin Listed /\ UNCHANGED <<base, capacity, freed, quiet>>
      BY <1>2 DEF Insert
    <2>2. \A i \in 1..Capacity[base] : slots'[base][i] = IF i = k THEN Live(o) ELSE slots[base][i]
      BY <2>1 DEF SlotsOK
    <2>3. \A p \in Listed : p \in Objects /\ p # o
      BY <2>1 DEF Listed
    <2>4. QED
      BY <1>1, <2>1, <2>2, <2>3, LiveIs
  <1>3. CASE UNCHANGED <<tableVars, quiet>>
    BY <1>1, <1>3 DEF tableVars
  <1>4. QED
    BY <1>2, <1>3 DEF World, TableStep, Destroy

LEMMA QuietWorld ==
  ASSUME SlotsOK, CallOK, StandingInv, QuietInv, World
  PROVE  QuietInv'
  <1> SUFFICES ASSUME quiet', ~ headerLost' PROVE QuietInv'
    BY DEF QuietInv
  <1>1. /\ quiet /\ UNCHANGED <<base, capacity, freed, callVars>> /\ kept' \subseteq kept
        /\ UNCHANGED <<headerLost, lost, misread>>
        /\ \A i \in 1..Capacity[base] :
             /\ slots[base][i].live => slots'[base][i] = slots[base][i]
             /\ \A o \in Listed : slots'[base][i] = Live(o) => slots[base][i] = Live(o)
    BY QuietTable DEF failures
  <1>2. UNCHANGED <<pc, options, rBase, rCapacity, at, buffer, out, ok>> /\ Done' = Done
    BY <1>1 DEF callVars, Done
  <1>3. Expected' \subseteq Expected /\ Reported' = Reported /\ (\A k : Wanted(k)' = Wanted(k))
        /\ (\A c : KindOf(c)' = KindOf(c))
    BY <1>1, <1>2 DEF Expected, Reported, Wanted, KindOf, Has
  <1>4. kept \subseteq Listed /\ Expected \subseteq kept
    BY DEF StandingInv, Expected
  <1>5. CASE pc \in {"chunk", "entry", "done"}
    <2>1. /\ Done \in 0..Capacity[base] /\ Len(buffer) \in Nat /\ Capacity[base] \in Nat
          /\ Done + Len(buffer) <= Capacity[base] /\ BufferTrue /\ OutTrue
      BY <1>1, <1>5, Counts
    <2>2. BufferTrue'
      <3>1. ASSUME NEW j \in 1..Len(buffer)
            PROVE  /\ buffer[j].live => buffer[j] = slots'[base][Done + j]
                   /\ \A o \in kept' : slots'[base][Done + j] = Live(o) => buffer[j] = Live(o)
        <4>1. Done + j \in 1..Capacity[base]
          BY <2>1
        <4>2. QED
          BY <1>1, <1>4, <2>1, <4>1 DEF BufferTrue
      <3>2. QED
        BY <1>1, <1>2, <3>1 DEF BufferTrue
    <2>3. OutTrue'
      <3>1. \A i \in 1..Done : i \in 1..Capacity[base]
        BY <2>1
      <3>2. \A o : Live(o).live
        BY DEF Live
      <3>3. \A k \in 1..Len(out) : \E i \in 1..Done : slots'[base][i] = Live(out[k])
        BY <1>1, <2>1, <3>1, <3>2 DEF OutTrue
      <3>4. \A i \in 1..Done, o \in Expected : slots'[base][i] = Live(o) => o \in Reported
        BY <1>1, <1>4, <2>1, <3>1 DEF OutTrue
      <3>5. QED
        BY <1>1, <1>2, <1>3, <2>1, <3>3, <3>4 DEF OutTrue
    <2>4. QED
      BY <1>1, <1>2, <2>2, <2>3 DEF QuietInv, Settled
  <1>6. CASE pc \notin {"chunk", "entry", "done"}
    BY <1>1, <1>2, <1>6 DEF QuietInv, Settled
  <1>7. QED
    BY <1>5, <1>6

(***************************************************************************)
(* The call's own steps.                                                   *)
(***************************************************************************)
LEMMA ReaderStill ==
  ASSUME Reader
  PROVE  /\ UNCHANGED <<slots, base, capacity, freed, gone, options, seen, kept, quiet>>
         /\ Listed' = Listed /\ (\A k : Wanted(k)' = Wanted(k)) /\ (\A c : KindOf(c)' = KindOf(c))
         /\ lost \subseteq lost' /\ misread \subseteq misread' /\ Expected' \subseteq Expected
         /\ headerLost => headerLost'
  <1>1. UNCHANGED <<worldVars, options, seen, kept, quiet>>
    BY ReaderSteps, HeaderFacts, LookFacts DEF CopyChunk, ChunkUnread, ChunksDone, history
  <1>2. lost \subseteq lost' /\ misread \subseteq misread'
    BY ReaderSteps, HeaderFacts DEF CopyChunk, ChunkUnread, ChunksDone, history, failures,
       LookAtEntry, EntryNotInUse, ObjectPassedOver, ClassKnown, ClassMet, Judged
  <1>3. headerLost => headerLost'
    BY ReaderSteps, LookFacts DEF HeaderStep, ReadSet, ReadBase, ReadCapacity, ReadCount, HeaderUnread,
       CopyChunk, ChunkUnread, ChunksDone, history, failures
  <1>4. (\A k : Wanted(k)' = Wanted(k)) /\ (\A c : KindOf(c)' = KindOf(c)) /\ Listed' = Listed
    BY <1>1 DEF worldVars, tableVars, Wanted, KindOf, Has, Listed
  <1>5. Expected' \subseteq Expected
    BY <1>1, <1>2, <1>4 DEF Expected
  <1>6. QED
    BY <1>1, <1>2, <1>3, <1>4, <1>5 DEF worldVars, tableVars

LEMMA QuietHeader ==
  ASSUME LimitsHold, SlotsOK, CallOK, StandingInv, QuietInv, quiet, ~ headerLost', HeaderStep
  PROVE  QuietInv'
  <1>1. /\ UNCHANGED <<slots, base, capacity, freed, kept, quiet>> /\ ~ headerLost
    BY ReaderStill, ReaderSteps
  <1>2. Settled /\ at = 0 /\ out = <<>> /\ buffer = <<>> /\ UNCHANGED <<at, out, buffer>>
    BY <1>1, HeaderFacts DEF StandingInv, QuietInv
  <1>3. CASE ReadSet \/ ReadBase \/ ReadCapacity
    BY <1>1, <1>3 DEF ReadSet, ReadBase, ReadCapacity, QuietInv, Settled
  <1>4. CASE ReadCount
    <2>1. rBase = base /\ rCapacity = Capacity[base] /\ Capacity[base] \in Nat \ {0}
          /\ UNCHANGED <<rBase, rCapacity>>
      BY <1>1, <1>2, <1>4, CapacityNat DEF ReadCount, QuietInv, Settled, SlotsOK
    <2>2. Cardinality(Listed) <= rCapacity /\ rCapacity \in 1..MaxCapacity
      BY <2>1, ListedBound, EnumerateAssumption DEF LimitsHold, SlotsOK
    <2>3. pc' = "chunk"
      BY <1>4, <2>2 DEF ReadCount
    <2>4. Done' = 0
      BY <1>2, <2>1 DEF Done, Minimum
    <2>5. BufferTrue' /\ OutTrue'
      BY <1>2, <2>4 DEF BufferTrue, OutTrue
    <2>6. QED
      BY <1>1, <1>2, <2>1, <2>3, <2>4, <2>5 DEF QuietInv, Settled
  <1>5. QED
    BY <1>3, <1>4 DEF HeaderStep, HeaderUnread

LEMMA QuietCopy ==
  ASSUME SlotsOK, CallOK, StandingInv, QuietInv, quiet, CopyChunk
  PROVE  QuietInv'
  <1>0. ~ headerLost /\ ~ headerLost'
    BY DEF StandingInv, CopyChunk, history, failures
  <1>1. /\ UNCHANGED <<slots, base, capacity, freed, kept, quiet>> /\ Expected' \subseteq Expected
        /\ (\A k : Wanted(k)' = Wanted(k)) /\ (\A c : KindOf(c)' = KindOf(c))
    BY ReaderStill, ReaderSteps
  <1>2. UNCHANGED <<rBase, rCapacity, out>> /\ Reported' = Reported /\ pc = "chunk" /\ at < rCapacity
        /\ buffer = <<>> /\ at' = at + Chunk
    BY DEF CopyChunk, Reported, StandingInv
  <1> DEFINE C == Capacity[base]
  <1>3. /\ rBase = base /\ rCapacity = C /\ C \in Nat \ {0} /\ at \in Nat /\ Chunk \in Nat \ {0}
        /\ base \in Tables /\ rBase \notin freed /\ OutTrue /\ Done + Len(buffer) = Minimum(at, C)
    BY <1>0, <1>2, Counts
  <1>4. Done = at
    BY <1>2, <1>3 DEF Done, Minimum
  <1>5. ChunkEnd = Minimum(at + Chunk, C) /\ ChunkEnd \in Nat /\ ChunkEnd - at \in Nat \ {0}
        /\ ChunkEnd <= C
    BY <1>2, <1>3 DEF ChunkEnd, Minimum
  <1>6. buffer' = Copied
    BY DEF CopyChunk
  <1>7. Copied = [j \in 1..(ChunkEnd - at) |-> slots[base][at + j]]
    <2>1. ASSUME NEW j \in 1..(ChunkEnd - at) PROVE SlotAt(at + j) = slots[base][at + j]
      BY <1>3, <1>5 DEF SlotAt
    <2>2. QED
      BY <2>1 DEF Copied
  <1>8. buffer' \in Seq(Entries) /\ Len(buffer') = ChunkEnd - at
    BY <1>2, <1>5, <1>6, <1>7, CopiedType
  <1>9. pc' = "entry"
    BY DEF CopyChunk
  <1>10. Done' = at
    BY <1>2, <1>3, <1>5, <1>8 DEF Done, Minimum
  <1>11. BufferTrue'
    <2>1. \A j \in 1..Len(buffer') : buffer'[j] = slots'[base'][at + j]
      BY <1>1, <1>6, <1>7, <1>8
    <2>2. QED
      BY <1>10, <2>1 DEF BufferTrue
  <1>12. OutTrue'
    BY <1>1, <1>2, <1>3, <1>4, <1>10 DEF OutTrue
  <1>13. QED
    BY <1>0, <1>1, <1>2, <1>3, <1>9, <1>10, <1>11, <1>12 DEF QuietInv, Settled

\* A chunk that cannot be read: what was in its slots is lost.
LEMMA QuietUnread ==
  ASSUME SlotsOK, CallOK, StandingInv, QuietInv, quiet, ChunkUnread
  PROVE  QuietInv'
  <1>0. ~ headerLost /\ ~ headerLost'
    BY DEF StandingInv, ChunkUnread, history, failures
  <1>1. /\ UNCHANGED <<slots, base, capacity, freed, kept, quiet>> /\ Expected' \subseteq Expected
        /\ (\A k : Wanted(k)' = Wanted(k)) /\ (\A c : KindOf(c)' = KindOf(c))
    BY ReaderStill, ReaderSteps
  <1>2. /\ UNCHANGED <<rBase, rCapacity, out, buffer, pc, headerLost>> /\ Reported' = Reported
        /\ pc = "chunk" /\ at < rCapacity /\ buffer = <<>> /\ at' = at + Chunk
        /\ lost' = lost \cup {o \in Objects : \E i \in (at + 1)..ChunkEnd : SlotAt(i) = Live(o)}
    BY DEF ChunkUnread, Reported, StandingInv
  <1> DEFINE C == Capacity[base]
  <1>3. /\ rBase = base /\ rCapacity = C /\ C \in Nat \ {0} /\ at \in Nat /\ Chunk \in Nat \ {0}
        /\ base \in Tables /\ OutTrue /\ Done + Len(buffer) = Minimum(at, C)
    BY <1>0, <1>2, Counts
  <1>4. Done = at
    BY <1>2, <1>3 DEF Done, Minimum
  <1>5. ChunkEnd = Minimum(at + Chunk, C) /\ ChunkEnd \in Nat /\ ChunkEnd <= C /\ at <= ChunkEnd
    BY <1>2, <1>3 DEF ChunkEnd, Minimum
  <1>6. Done' = ChunkEnd /\ buffer' = <<>>
    BY <1>2, <1>3, <1>5 DEF Done
  <1>7. \A i \in 1..ChunkEnd, o \in Expected' : slots[base][i] = Live(o) => o \in Reported
    <2>1. SUFFICES ASSUME NEW i \in 1..ChunkEnd, NEW o \in Expected', slots[base][i] = Live(o)
                   PROVE  o \in Reported
      OBVIOUS
    <2>2. o \in Expected /\ o \notin lost' /\ o \in Objects
      BY <1>1 DEF Expected, StandingInv, Listed
    <2>3. CASE i <= at
      BY <1>3, <1>4, <2>1, <2>2, <2>3 DEF OutTrue
    <2>4. CASE ~ (i <= at)
      <3>1. i \in (at + 1)..ChunkEnd /\ i <= C
        BY <1>3, <1>5, <2>4
      <3>2. SlotAt(i) = Live(o)
        BY <1>3, <2>1, <3>1 DEF SlotAt
      <3>3. QED
        BY <1>2, <2>2, <3>1, <3>2
    <2>5. QED
      BY <2>3, <2>4
  <1>8. \A k \in 1..Len(out) : \E i \in 1..ChunkEnd : slots[base][i] = Live(out[k])
    <2>1. \A i \in 1..at : i \in 1..ChunkEnd
      BY <1>3, <1>5
    <2>2. QED
      BY <1>3, <1>4, <2>1 DEF OutTrue
  <1>9. OutTrue'
    BY <1>1, <1>2, <1>3, <1>6, <1>7, <1>8 DEF OutTrue
  <1>10. BufferTrue'
    BY <1>6 DEF BufferTrue
  <1>11. Done' \in 0..rCapacity
    BY <1>3, <1>5, <1>6
  <1>12. Settled' /\ rCapacity' = capacity'
    BY <1>1, <1>2, <1>3 DEF QuietInv, Settled, StandingInv
  <1>13. QED
    BY <1>1, <1>2, <1>3, <1>9, <1>10, <1>11, <1>12 DEF QuietInv

LEMMA QuietDone ==
  ASSUME SlotsOK, CallOK, StandingInv, QuietInv, quiet, ChunksDone
  PROVE  QuietInv'
  <1>0. ~ headerLost /\ ~ headerLost'
    BY DEF StandingInv, ChunksDone, history, failures
  <1>1. /\ UNCHANGED <<slots, base, capacity, freed, kept, quiet>> /\ Expected' \subseteq Expected
        /\ (\A k : Wanted(k)' = Wanted(k)) /\ (\A c : KindOf(c)' = KindOf(c))
    BY ReaderStill, ReaderSteps
  <1>2. /\ UNCHANGED <<rBase, rCapacity, out, at, buffer>> /\ Reported' = Reported
        /\ pc = "chunk" /\ pc' = "done" /\ ok' = TRUE /\ at >= rCapacity /\ buffer = <<>>
    BY DEF ChunksDone, Reported, StandingInv
  <1>3. /\ BufferTrue /\ OutTrue /\ Done + Len(buffer) = Minimum(at, rCapacity)
        /\ at \in Nat /\ rCapacity \in Nat /\ Done \in 0..rCapacity
    BY <1>0, <1>2, Counts
  <1>4. Done' = Done /\ Done = rCapacity
    BY <1>2, <1>3 DEF Done, Minimum
  <1>5. BufferTrue' /\ OutTrue'
    BY <1>1, <1>2, <1>3, <1>4 DEF BufferTrue, OutTrue
  <1>6. QED
    BY <1>0, <1>1, <1>2, <1>3, <1>4, <1>5 DEF QuietInv, Settled

\* What is remembered of the class of an entry decides; it is right enough for
\* an object that is reported to be wanted, and right if nothing was unread.
LEMMA ReportedIsWanted ==
  ASSUME LimitsHold, CacheTrue, LookAtEntry, InUse(Head(buffer)) => Head(buffer).object \in Objects
  PROVE  \/ out' = out
         \/ /\ InUse(Head(buffer)) /\ out' = Append(out, Head(buffer).object)
            /\ Wanted(KindOf(ClassOf[Head(buffer).object]))
  <1> DEFINE o == Head(buffer).object
  <1>1. CASE EntryNotInUse \/ ObjectPassedOver
    BY <1>1 DEF EntryNotInUse, ObjectPassedOver
  <1>2. ASSUME InUse(Head(buffer)), NEW v \in {"unknown", "invalid", "Other", KindOf(ClassOf[o])}, Judged(o, v)
        PROVE  out' = out \/ (out' = Append(out, o) /\ Wanted(KindOf(ClassOf[o])))
    <2>1. KindOf(ClassOf[o]) \in Kinds
      BY KindIsKind
    <2>2. Wanted("Other") => \A k : Wanted(k)
      BY OtherWanted
    <2>3. QED
      BY <1>2, <2>1, <2>2 DEF Judged, Passes, Kinds
  <1>3. CASE ClassKnown
    <2>1. o \in Objects /\ ClassOf[o] \in Classes
      BY <1>3, EnumerateAssumption DEF ClassKnown
    <2>2. classCache[ClassOf[o]] \in {"unknown", "invalid", "Other", KindOf(ClassOf[o])}
      BY <2>1 DEF CacheTrue
    <2>3. InUse(Head(buffer)) /\ Judged(o, classCache[ClassOf[o]])
      BY <1>3 DEF ClassKnown
    <2>4. QED
      BY <1>2, <2>2, <2>3
  <1>4. CASE ClassMet
    <2>1. o \in Objects /\ ClassOf[o] \in Classes
      BY <1>4, EnumerateAssumption DEF ClassMet
    <2>2. PICK r \in ClassReads(ClassOf[o]) : Judged(o, Verdict(ClassOf[o], r))
      BY <1>4 DEF ClassMet
    <2>3. Verdict(ClassOf[o], r) \in {"unknown", "invalid", "Other", KindOf(ClassOf[o])}
      BY <2>1, <2>2, VerdictFacts
    <2>4. InUse(Head(buffer))
      BY <1>4 DEF ClassMet
    <2>5. QED
      BY <1>2, <2>2, <2>3, <2>4
  <1>5. QED
    BY <1>1, <1>3, <1>4 DEF LookAtEntry

LEMMA WantedIsReported ==
  ASSUME LimitsHold, CacheTrue, LookAtEntry, NEW o \in Objects,
         Head(buffer).live, Head(buffer).object = o, o \notin lost', ClassOf[o] \notin misread',
         Wanted(KindOf(ClassOf[o]))
  PROVE  out' = Append(out, o)
  <1>1. InUse(Head(buffer)) /\ ClassOf[o] \in Classes /\ KindOf(ClassOf[o]) \in Kinds
    BY KindIsKind, EnumerateAssumption DEF InUse
  <1>2. CASE ClassKnown
    <2>1. classCache[ClassOf[o]] = KindOf(ClassOf[o])
      BY <1>1, <1>2 DEF ClassKnown, CacheTrue
    <2>2. QED
      BY <1>1, <1>2, <2>1 DEF ClassKnown, Judged, Passes
  <1>3. CASE ClassMet
    <2>1. PICK r \in ClassReads(ClassOf[o]) :
            /\ Judged(o, Verdict(ClassOf[o], r))
            /\ misread' = IF r = AllRead THEN misread ELSE misread \cup {ClassOf[o]}
      BY <1>3 DEF ClassMet
    <2>2. r = AllRead
      BY <2>1
    <2>3. Verdict(ClassOf[o], r) = KindOf(ClassOf[o])
      BY <1>1, <2>1, <2>2, VerdictFacts
    <2>4. QED
      BY <1>1, <2>1, <2>3 DEF Judged, Passes
  <1>4. QED
    BY <1>1, <1>2, <1>3 DEF LookAtEntry, EntryNotInUse, ObjectPassedOver

\* An entry of the buffer is looked at: it is reported if it should be, and
\* the slot it came from is the next one.
LEMMA QuietLook ==
  ASSUME LimitsHold, SlotsOK, CallOK, OneEntry, StandingInv, QuietInv, quiet, LookAtEntry
  PROVE  QuietInv'
  <1>0. ~ headerLost /\ ~ headerLost'
    BY LookFacts DEF StandingInv
  <1> DEFINE e == Head(buffer)
             C == Capacity[base]
  <1>1. /\ UNCHANGED <<slots, base, capacity, freed, kept, quiet>> /\ Expected' \subseteq Expected
        /\ (\A k : Wanted(k)' = Wanted(k)) /\ (\A c : KindOf(c)' = KindOf(c))
        /\ lost \subseteq lost' /\ misread \subseteq misread'
    BY ReaderStill, ReaderSteps
  <1>2. UNCHANGED <<rBase, rCapacity, at, headerLost>> /\ pc = "entry" /\ buffer' = Tail(buffer)
        /\ pc' \in {"chunk", "entry"}
    BY LookFacts
  <1>3. /\ BufferTrue /\ OutTrue /\ Done \in 0..C /\ C \in Nat /\ Len(buffer) \in Nat
        /\ at \in Nat /\ Done + Len(buffer) <= C /\ base \in Tables /\ rCapacity = C
    BY <1>0, <1>2, Counts
  <1>4. /\ buffer \in Seq(Entries) /\ buffer # <<>> /\ out \in Seq(Objects)
    BY <1>2 DEF CallOK
  <1>5. /\ e = buffer[1] /\ e \in Entries /\ 1 \in 1..Len(buffer) /\ Len(buffer) >= 1
        /\ Len(buffer') = Len(buffer) - 1
        /\ \A j \in 1..Len(buffer') : j + 1 \in 1..Len(buffer) /\ buffer'[j] = buffer[j + 1]
    BY <1>2, <1>4
  <1>6. Done' = Done + 1 /\ Done + 1 \in 1..C /\ Done' \in 0..C
    <2>1. Minimum(at, rCapacity) \in Nat
      BY <1>3 DEF Minimum
    <2>2. Done' = Minimum(at, rCapacity) - (Len(buffer) - 1)
      BY <1>2, <1>5 DEF Done, Minimum
    <2>3. Done' = Done + 1
      BY <1>3, <2>1, <2>2 DEF Done
    <2>4. QED
      BY <1>3, <1>5, <2>3
  <1>7. e.live => e = slots[base][Done + 1] /\ e.object \in Objects /\ e = Live(e.object)
    BY <1>3, <1>5, EntryFacts DEF BufferTrue
  <1>8. BufferTrue'
    <2>1. ASSUME NEW j \in 1..Len(buffer')
          PROVE  /\ buffer'[j].live => buffer'[j] = slots[base][Done + 1 + j]
                 /\ \A o \in kept : slots[base][Done + 1 + j] = Live(o) => buffer'[j] = Live(o)
      <3>1. j + 1 \in 1..Len(buffer) /\ buffer'[j] = buffer[j + 1]
        BY <1>5
      <3>2. Done + 1 + j = Done + (j + 1)
        <4>1. Done \in Nat /\ j \in Nat
          BY <1>3, <1>5
        <4>2. QED
          BY <4>1
      <3>3. /\ buffer[j + 1].live => buffer[j + 1] = slots[base][Done + (j + 1)]
            /\ \A o \in kept : slots[base][Done + (j + 1)] = Live(o) => buffer[j + 1] = Live(o)
        BY <1>3, <3>1 DEF BufferTrue
      <3>4. QED
        BY <3>1, <3>2, <3>3
    <2>2. QED
      BY <1>1, <1>6, <2>1 DEF BufferTrue
  <1>9. \/ out' = out
        \/ InUse(e) /\ out' = Append(out, e.object) /\ Wanted(KindOf(ClassOf[e.object]))
    BY <1>7, ReportedIsWanted DEF InUse, StandingInv
  <1>10. Reported \subseteq Reported'
    <2>1. CASE InUse(e) /\ out' = Append(out, e.object)
      BY <1>4, <1>7, <2>1, AppendReports DEF InUse
    <2>2. QED
      BY <1>9, <2>1 DEF Reported
  <1>11. \A i \in 1..Done', o \in Expected' : slots[base][i] = Live(o) => o \in Reported'
    <2>1. ASSUME NEW o \in Expected', slots[base][Done + 1] = Live(o)
          PROVE  o \in Reported'
      <3>1. /\ o \in kept /\ o \in Objects /\ o \notin lost' /\ ClassOf[o] \notin misread'
            /\ Wanted(KindOf(ClassOf[o])) /\ ClassOf[o] \in Classes
        BY <1>1, EnumerateAssumption DEF Expected, StandingInv, Listed
      <3>2. e = Live(o) /\ e.object = o /\ e.live
        BY <1>3, <1>5, <2>1, <3>1, EntryFacts DEF BufferTrue
      <3>3. out' = Append(out, o)
        BY <3>1, <3>2, WantedIsReported DEF StandingInv
      <3>4. QED
        BY <1>4, <3>1, <3>3, AppendReports
    <2>2. ASSUME NEW i \in 1..Done', NEW o \in Expected', slots[base][i] = Live(o)
          PROVE  o \in Reported'
      <3>1. CASE i = Done + 1
        BY <2>1, <2>2, <3>1
      <3>2. CASE i # Done + 1
        <4>1. i \in 1..Done
          BY <1>3, <1>6, <3>2
        <4>2. QED
          BY <1>1, <1>3, <1>10, <2>2, <4>1 DEF OutTrue
      <3>3. QED
        BY <3>1, <3>2
    <2>3. QED
      BY <2>2
  <1>12. /\ \A k \in 1..Len(out') : \E i \in 1..Done' : slots[base][i] = Live(out'[k])
         /\ \A k, l \in 1..Len(out') : out'[k] = out'[l] => k = l
         /\ \A k \in 1..Len(out') : Wanted(KindOf(ClassOf[out'[k]]))
    <2>1. \A i \in 1..Done : i \in 1..Done' /\ i \in 1..C /\ i # Done + 1
      BY <1>3, <1>6
    <2>2. CASE out' = out
      BY <1>3, <2>1, <2>2 DEF OutTrue
    <2>3. CASE InUse(e) /\ out' = Append(out, e.object) /\ Wanted(KindOf(ClassOf[e.object]))
      <3>1. e.live /\ slots[base][Done + 1] = Live(e.object) /\ e.object \in Objects
        BY <1>7, <2>3 DEF InUse
      <3>2. /\ Len(out') = Len(out) + 1 /\ out'[Len(out) + 1] = e.object /\ Len(out) \in Nat
            /\ \A k \in 1..Len(out) : out'[k] = out[k]
            /\ \A k \in 1..Len(out') : k \in 1..Len(out) \/ k = Len(out) + 1
        BY <1>4, <2>3, <3>1
      <3>3. Done + 1 \in 1..Done'
        BY <1>3, <1>6
      <3>4. \A k \in 1..Len(out') : \E i \in 1..Done' : slots[base][i] = Live(out'[k])
        BY <1>3, <2>1, <3>1, <3>2, <3>3 DEF OutTrue
      <3>5. \A k \in 1..Len(out) : out[k] # e.object
        <4>1. SUFFICES ASSUME NEW k \in 1..Len(out), out[k] = e.object PROVE FALSE
          OBVIOUS
        <4>2. PICK i \in 1..Done : slots[base][i] = Live(e.object)
          BY <1>3, <4>1 DEF OutTrue
        <4>3. slots[base][Done + 1].live /\ slots[base][i] = slots[base][Done + 1]
          BY <3>1, <4>2 DEF Live
        <4>4. QED
          BY <1>3, <1>6, <2>1, <4>3 DEF OneEntry
      <3>6. \A k, l \in 1..Len(out') : out'[k] = out'[l] => k = l
        BY <1>3, <3>2, <3>5 DEF OutTrue
      <3>7. \A k \in 1..Len(out') : Wanted(KindOf(ClassOf[out'[k]]))
        BY <1>3, <2>3, <3>2 DEF OutTrue
      <3>8. QED
        BY <3>4, <3>6, <3>7
    <2>4. QED
      BY <1>9, <2>2, <2>3
  <1>13. OutTrue'
    BY <1>1, <1>11, <1>12 DEF OutTrue
  <1>14. QED
    BY <1>1, <1>2, <1>3, <1>6, <1>8, <1>13 DEF QuietInv, Settled

LEMMA QuietStep ==
  ASSUME LimitsHold, SlotsOK, CallOK, OneEntry, StandingInv, QuietInv, [Next]_vars
  PROVE  QuietInv'
  <1>1. CASE Begin
    BY <1>1 DEF Begin, QuietInv, Settled, worldVars, tableVars
  <1>2. CASE Return
    BY <1>2 DEF Return, QuietInv
  <1>3. CASE Reader
    <2>1. quiet' = quiet
      BY <1>3, ReaderStill
    <2>2. CASE quiet
      <3>1. CASE headerLost'
        BY <3>1 DEF QuietInv
      <3>2. CASE ~ headerLost'
        BY <1>3, <2>2, <3>2, QuietHeader, QuietCopy, QuietUnread, QuietDone, QuietLook, ReaderSteps
      <3>3. QED
        BY <3>1, <3>2
    <2>3. CASE ~ quiet
      BY <2>1, <2>3 DEF QuietInv
    <2>4. QED
      BY <2>2, <2>3
  <1>4. CASE World
    BY <1>4, QuietWorld
  <1>5. CASE UNCHANGED vars
    BY <1>5 DEF vars, worldVars, tableVars, callVars, history, failures, QuietInv, Settled, Done,
      BufferTrue, OutTrue, Expected, Wanted, Reported, KindOf, Has
  <1>6. QED
    BY <1>1, <1>2, <1>3, <1>4, <1>5 DEF Next

LEMMA ExactAtEnd ==
  ASSUME SlotsOK, CallOK, StandingInv, QuietInv
  PROVE  InsertOnlyExact
  <1> SUFFICES ASSUME pc = "done", quiet, ~ headerLost
               PROVE  /\ ok
                      /\ \A i, j \in 1..Len(out) : out[i] = out[j] => i = j
                      /\ \A i \in 1..Len(out) : Wanted(KindOf(ClassOf[out[i]]))
                      /\ Expected \subseteq Reported
    BY DEF InsertOnlyExact
  <1>1. ok /\ OutTrue /\ Done = Capacity[base]
    BY Counts DEF QuietInv
  <1>2. ASSUME NEW o \in Expected PROVE o \in Reported
    <2>1. PICK i \in 1..Capacity[base] : slots[base][i] = Live(o)
      BY DEF Expected, StandingInv, Listed
    <2>2. QED
      BY <1>1, <2>1 DEF OutTrue
  <1>3. QED
    BY <1>1, <1>2 DEF OutTrue

(***************************************************************************)
(* A call during which the registry only got new objects, as many and into *)
(* whatever slots it likes, and that could read the header, succeeds,      *)
(* reports no object twice and none of a kind not wanted, and misses none  *)
(* that was there all the time, except what lay in a chunk that could not  *)
(* be read, what did not lead to its class, and what is of a class not     *)
(* fully read when it was first met: for any chunk size, any lineages up   *)
(* to maxDepth and any tables within the limit on capacity, whichever      *)
(* reads fail.                                                             *)
(***************************************************************************)
THEOREM ExactUnderInsertion ==
  ASSUME LimitsHold
  PROVE  Spec => []InsertOnlyExact
  <1>1. Init => SlotsOK /\ CallOK /\ OneEntry /\ StandingInv /\ QuietInv
    <2>1. Init => QuietInv
      BY DEF Init, NoCall, QuietInv
    <2>2. QED
      BY <2>1, SlotsInit, OneEntryInit, StandingInit
  <1>2. SlotsOK /\ CallOK /\ OneEntry /\ StandingInv /\ QuietInv /\ [Next]_vars
          => (SlotsOK /\ CallOK /\ OneEntry /\ StandingInv /\ QuietInv)'
    BY SlotsStep, CallStep, OneEntryStep, StandingStep, QuietStep
  <1>3. SlotsOK /\ CallOK /\ StandingInv /\ QuietInv => InsertOnlyExact
    BY ExactAtEnd
  <1>4. QED
    BY <1>1, <1>2, <1>3, PTL DEF Spec

(***************************************************************************)
(* In every world of MCMsId the enumeration behaves by Spec, so that what  *)
(* is said of Spec above holds there as well.                              *)
(***************************************************************************)
LEMMA EnumerationInWorlds == AllSpec => Spec
  <1>1. AllInit => Init
    BY DEF AllInit, EnumerateInit, FindsInit, ScansInit
  <1>2. [AllNext]_allVars => [Next]_vars
    BY DEF AllNext, EnumerateNext, FindsNext, ScansNext, allVars
  <1>3. QED
    BY <1>1, <1>2, PTL DEF AllSpec, Spec

(***************************************************************************)
(* FindObjects, in its world of MCMsId, for any objects and any names.     *)
(*                                                                         *)
(* What is found is what the callback keeps of the objects reported, and   *)
(* nothing is left of a call when the next one begins.                     *)
(***************************************************************************)
FindInv ==
  /\ reported \subseteq Listable /\ bare \subseteq reported
  /\ found = {o \in reported : Find!Matches(Find!AtLastDot(Find!FullName(o)))}
  /\ phase = "idle" => reported = {}

\* Taken apart at its last dot, the name of a class that has no dot in it
\* gives back the namespace and the class, however deep the namespace is.
LEMMA LastDotSeparates ==
  ASSUME NEW o \in Listable, Len(ClassName[o]) = 1
  PROVE  /\ Find!AtLastDot(Find!FullName(o)).ns = Find!NamespaceRead(o)
         /\ Find!AtLastDot(Find!FullName(o)).class = ClassName[o]
  <1> DEFINE ns == Find!NamespaceRead(o)
             cn == ClassName[o]
             n  == ns \o cn
  <1>1. ns \in Seq(NameParts) /\ cn \in Seq(NameParts) /\ Len(cn) = 1 /\ Len(ns) \in Nat
    BY FindAssumption DEF Find!NamespaceRead
  <1> HIDE DEF ns, cn
  <1>2. /\ n \in Seq(NameParts) /\ Len(n) = Len(ns) + Len(cn)
        /\ \A k \in 1..(Len(ns) + Len(cn)) : n[k] = IF k <= Len(ns) THEN ns[k] ELSE cn[k - Len(ns)]
    BY <1>1, ConcatProperties
  <1> HIDE DEF n
  <1>3. n[Len(n)] = cn[1] /\ Len(n) = Len(ns) + 1 /\ \A k \in 1..Len(ns) : n[k] = ns[k]
    BY <1>1, <1>2
  <1>4. SubSeq(n, 1, Len(n) - 1) = ns
    <2>1. SubSeq(n, 1, Len(ns)) = [k \in 1..Len(ns) |-> n[k]]
      BY <1>1, <1>2
    <2>2. [k \in 1..Len(ns) |-> n[k]] = [k \in 1..Len(ns) |-> ns[k]]
      BY <1>3
    <2>3. [k \in 1..Len(ns) |-> ns[k]] = ns
      BY <1>1
    <2>4. Len(n) - 1 = Len(ns)
      BY <1>1, <1>2
    <2>5. QED
      BY <2>1, <2>2, <2>3, <2>4
  <1>5. <<n[Len(n)]>> = cn
    BY <1>1, <1>3
  <1>6. Find!FullName(o) = n
    BY DEF Find!FullName, n, ns, cn
  <1>7. QED
    BY <1>4, <1>5, <1>6 DEF Find!AtLastDot, ns, cn

LEMMA FindStart == FindsInit => FindInv
  BY DEF FindsInit, FindInv, Find!FindInit, Find!Init

LEMMA FindStep ==
  ASSUME FindInv, Find!FindNext
  PROVE  FindInv'
  <1>1. CASE Find!Find
    <2>1. reported' = {} /\ found' = {} /\ bare' = {}
      BY <1>1 DEF FindInv, Find!Find, Find!Start
    <2>2. QED
      BY <2>1 DEF FindInv
  <1>2. ASSUME NEW o \in Listable, Find!Callback(o)
        PROVE  FindInv'
    <2> DEFINE Kept(x) == Find!Matches(Find!AtLastDot(Find!FullName(x)))
    <2>1. /\ asked' = asked /\ reported' = reported \cup {o} /\ phase' # "idle"
          /\ found' = IF Kept(o)' THEN found \cup {o} ELSE found
          /\ bare' = bare \/ (o \notin reported /\ bare' = bare \cup {o})
      BY <1>2 DEF Find!Callback, Find!ReportOne, Find!GoesOn, Find!Matches
    <2>2. \A x : x # o \/ bare' = bare => Kept(x)' = Kept(x)
      BY <2>1 DEF Find!Matches, Find!AtLastDot, Find!FullName, Find!NamespaceRead
    <2>3. found = {x \in reported : Kept(x)} /\ reported \subseteq Listable /\ bare \subseteq reported
      BY DEF FindInv
    <2> HIDE DEF Kept
    <2>4. \A x \in reported : Kept(x)' = Kept(x)
      BY <2>1, <2>2
    <2>5. reported' \subseteq Listable /\ bare' \subseteq reported'
      BY <2>1, <2>3
    <2>6. found' = {x \in reported' : Kept(x)'}
      BY <2>1, <2>3, <2>4
    <2>7. QED
      BY <2>1, <2>5, <2>6 DEF FindInv, Kept
  <1>3. CASE Find!Answered
    BY <1>3 DEF FindInv, Find!Answered, Find!Answer, Find!Matches, Find!AtLastDot, Find!FullName,
       Find!NamespaceRead
  <1>4. CASE Find!Taken
    <2>1. reported' = {} /\ found' = {} /\ bare' = {}
      BY <1>4 DEF Find!Taken, Find!Clear
    <2>2. QED
      BY <2>1 DEF FindInv
  <1>5. CASE Find!Moves
    BY <1>5 DEF FindInv, Find!Moves, Find!Change, Find!Matches, Find!AtLastDot, Find!FullName,
       Find!NamespaceRead
  <1>6. QED
    BY <1>1, <1>2, <1>3, <1>4, <1>5 DEF Find!FindNext

\* FindObjectsOfTypeAll keeps exactly the reported objects of the class and the
\* namespace asked for, though it gets both in one name and takes that apart:
\* whatever the registry does, for any names of classes without a dot; one whose
\* namespace could not be read only if no namespace is asked for.
THEOREM FoundAreAsked == AllSpec => []FoundIsAsked
  <1> DEFINE J == world = "find" => FindInv
  <1>1. AllInit => J
    BY FindStart DEF AllInit, EnumerateInit, FindsInit, ScansInit
  <1>2. J /\ [AllNext]_allVars => J'
    <2> SUFFICES ASSUME J, [AllNext]_allVars, world' = "find"
                 PROVE  FindInv'
      OBVIOUS
    <2>1. world' = world
      BY DEF AllNext, EnumerateNext, FindsNext, ScansNext, allVars
    <2>2. FindInv
      BY <2>1
    <2>3. Find!FindNext \/ UNCHANGED findVars
      BY <2>1 DEF AllNext, EnumerateNext, FindsNext, ScansNext, allVars
    <2>4. CASE UNCHANGED findVars
      BY <2>2, <2>4 DEF findVars, FindInv, Find!Matches, Find!AtLastDot, Find!FullName, Find!NamespaceRead
    <2>5. QED
      BY <2>2, <2>3, <2>4, FindStep
  <1>3. J => FoundIsAsked
    <2> SUFFICES ASSUME J, world = "find", NEW o \in reported, Len(ClassName[o]) = 1
                 PROVE  o \in found <=>
                          /\ ClassName[o] = asked.class
                          /\ asked.ns = <<>> \/ (asked.ns = NamespaceOf[o] /\ o \notin bare)
      BY DEF FoundIsAsked, Find!FoundIsAsked
    <2>1. o \in Listable /\ (o \in found <=> Find!Matches(Find!AtLastDot(Find!FullName(o))))
      BY DEF FindInv
    <2>2. QED
      BY <2>1, LastDotSeparates DEF Find!Matches, Find!NamespaceRead
  <1>4. QED
    BY <1>1, <1>2, <1>3, PTL DEF AllSpec

(***************************************************************************)
(* The scan for the registry.  Tables are counted in batches, and the      *)
(* registry goes on changing while it is.                                  *)
(***************************************************************************)
ObjectsOf(t, S) == {i \in S : t[i] = "object"}

LEMMA CardinalityIs == \A S : Scan!Cardinality(S) = Cardinality(S)
  BY Zenon DEF Scan!Cardinality, Cardinality

LEMMA CountOf == \A t : Scan!ObjectsIn(t) = Cardinality(ObjectsOf(t, 1..Len(t)))
  BY CardinalityIs DEF Scan!ObjectsIn, ObjectsOf

\* Counts of slots, and how they add up.
LEMMA CountFacts ==
  ASSUME NEW t, NEW m \in Nat, NEW n \in Nat
  PROVE  /\ IsFiniteSet(ObjectsOf(t, m..n)) /\ Cardinality(ObjectsOf(t, m..n)) \in Nat
         /\ m > n => Cardinality(ObjectsOf(t, m..n)) = 0
         /\ m = 1 => Cardinality(ObjectsOf(t, m..n)) <= n
  <1>1. IsFiniteSet(m..n) /\ Cardinality(m..n) = IF m > n THEN 0 ELSE n - m + 1
    BY FS_Interval
  <1>2. ObjectsOf(t, m..n) \in SUBSET (m..n)
    BY DEF ObjectsOf
  <1>3. IsFiniteSet(ObjectsOf(t, m..n)) /\ Cardinality(ObjectsOf(t, m..n)) <= Cardinality(m..n)
    BY <1>1, <1>2, FS_Subset
  <1>4. Cardinality(ObjectsOf(t, m..n)) \in Nat
    BY <1>3, FS_CardinalityType
  <1>5. QED
    BY <1>1, <1>3, <1>4

LEMMA CountSplit ==
  ASSUME NEW t, NEW m \in Nat, NEW k \in Nat, NEW n \in Nat, m <= k + 1, k <= n
  PROVE  Cardinality(ObjectsOf(t, m..n)) =
           Cardinality(ObjectsOf(t, m..k)) + Cardinality(ObjectsOf(t, (k + 1)..n))
  <1> DEFINE A == ObjectsOf(t, m..k)
             B == ObjectsOf(t, (k + 1)..n)
  <1>1. IsFiniteSet(A) /\ IsFiniteSet(B) /\ Cardinality(A) \in Nat /\ Cardinality(B) \in Nat
    BY CountFacts
  <1>2. A \cup B = ObjectsOf(t, m..n) /\ A \cap B = {}
    BY DEF ObjectsOf
  <1>3. Cardinality(A \cap B) = 0
    BY <1>2, FS_EmptySet
  <1>4. Cardinality(A \cup B) = Cardinality(A) + Cardinality(B) - Cardinality(A \cap B)
    BY <1>1, FS_Union
  <1>5. Cardinality(A \cup B) = Cardinality(A) + Cardinality(B)
    <2> HIDE DEF A, B
    <2>1. QED
      BY <1>1, <1>3, <1>4
  <1>6. QED
    BY <1>2, <1>5

LEMMA CountGrows ==
  ASSUME NEW t, NEW u, NEW m \in Nat, NEW n \in Nat, NEW k \in Nat, n <= k,
         \A i \in m..n : t[i] = "object" => u[i] = "object"
  PROVE  Cardinality(ObjectsOf(t, m..n)) <= Cardinality(ObjectsOf(u, m..k))
  <1>1. ObjectsOf(t, m..n) \in SUBSET ObjectsOf(u, m..k)
    BY DEF ObjectsOf
  <1>2. QED
    BY <1>1, CountFacts, FS_Subset

States == {"empty", "erased", "object"}
Sections == [wanted : BOOLEAN, lost : BOOLEAN, words : Seq(Sets \cup {NoSet})]

ScanTypes ==
  /\ image \in Seq(Sections)
  /\ entries \in [1..RegistrySlots -> States]
  /\ word \in [section : Nat \ {0}, word : Nat \ {0}]
  /\ standing \in SUBSET (1..RegistrySlots)
  /\ step \in {"word", "batch", "done"}
  /\ table \in Nat /\ expected \in Nat /\ batch \in Nat /\ objCount \in Nat
  /\ bestObjCount \in Nat

\* What counts as standing is still there.
Stands == \A i \in standing : entries[i] = "object"

Passed(a) == a.section < word.section \/ (a.section = word.section /\ a.word < word.word)

Word(a) == image[a.section].words[a.word]

\* The table that is being counted: of the registry, what stands in the batches
\* that are behind has been counted; of another, no more has been counted than
\* lies there.
CountKnows ==
  step = "batch" =>
    \E s \in Sets :
      /\ word \in Scan!Searched(s) /\ Word(word) = s
      /\ s = Registry =>
           /\ table = RegistrySlots
           /\ Cardinality(standing) <= expected
           /\ Cardinality(standing \cap (1..batch)) <= objCount
      /\ s # Registry =>
           \E k \in 0..Len(TableOf[s]) : k <= batch /\ objCount <= Cardinality(ObjectsOf(TableOf[s], 1..k))

\* The best count is that of a word to the registry, or not more than another
\* table seems to have.
BestIs ==
  \/ bestObjCount = 0
  \/ \E s \in Sets \ {Registry} : Scan!Searched(s) # {} /\ bestObjCount <= Scan!ObjectsIn(TableOf[s])
  \/ \E a \in Scan!Searched(Registry) : bestAddr = Scan!PlaceOf(a)

\* After a word to the registry it is at least what still stands there.
BestKnows == \A a \in Scan!Searched(Registry) : Passed(a) => Cardinality(standing) <= bestObjCount

DoneKnows == step = "done" => word.section > Len(image)

ScanInv == ScanTypes /\ Stands /\ CountKnows /\ BestIs /\ BestKnows /\ DoneKnows

LEMMA StandingFacts ==
  ASSUME NEW S \in SUBSET (1..RegistrySlots)
  PROVE  /\ IsFiniteSet(S) /\ Cardinality(S) \in Nat
         /\ \A U \in SUBSET S : IsFiniteSet(U) /\ Cardinality(U) \in Nat /\ Cardinality(U) <= Cardinality(S)
         /\ S # {} => Cardinality(S) > 0
  <1>1. IsFiniteSet(1..RegistrySlots)
    BY ScanAssumption, FS_Interval
  <1>2. IsFiniteSet(S)
    BY <1>1, FS_Subset
  <1>3. Cardinality(S) \in Nat /\ \A U \in SUBSET S : IsFiniteSet(U) /\ Cardinality(U) \in Nat /\ Cardinality(U) <= Cardinality(S)
    BY <1>2, FS_Subset, FS_CardinalityType
  <1>4. S # {} => Cardinality(S) # 0
    BY <1>2, FS_EmptySet
  <1>5. QED
    BY <1>2, <1>3, <1>4

\* Which words are searched, and where they are, no step changes.
LEMMA PlaceStays == ASSUME NEW CONSTANT a, image' = image PROVE Scan!PlaceOf(a)' = Scan!PlaceOf(a)
  BY DEF Scan!PlaceOf

LEMMA SearchedStays ==
  ASSUME image' = image, manager' = manager
  PROVE  /\ \A s : Scan!Searched(s)' = Scan!Searched(s)
         /\ \A a : Scan!PlaceOf(a)' = Scan!PlaceOf(a)
  <1>1. \A a : Scan!PlaceOf(a)' = Scan!PlaceOf(a)
    BY PlaceStays
  <1>2. \A p : Scan!InRange(p)' = Scan!InRange(p)
    BY DEF Scan!InRange
  <1>3. \A a : Scan!InRange(Scan!PlaceOf(a))' = Scan!InRange(Scan!PlaceOf(a))
    BY <1>1, <1>2
  <1>4. \A s : Scan!Searched(s)' = Scan!Searched(s)
    BY <1>3 DEF Scan!Searched
  <1>5. QED
    BY <1>1, <1>4

LEMMA SearchedIs ==
  ASSUME ScanTypes, NEW s
  PROVE  /\ \A a \in Scan!Searched(s) :
              /\ a = [section |-> a.section, word |-> a.word]
              /\ a.section \in 1..Len(image) /\ a.word \in 1..Len(image[a.section].words)
              /\ image[a.section].words[a.word] = s
              /\ image[a.section].wanted /\ ~ image[a.section].lost /\ Scan!InRange(Scan!PlaceOf(a))
         /\ \A n \in 1..Len(image) : \A i \in 1..Len(image[n].words) :
              /\ image[n].words[i] = s /\ image[n].wanted /\ ~ image[n].lost
              /\ Scan!InRange(Scan!PlaceOf([section |-> n, word |-> i]))
              => [section |-> n, word |-> i] \in Scan!Searched(s)
  <1>1. /\ Len(image) \in Nat /\ DOMAIN image = 1..Len(image)
        /\ \A n \in 1..Len(image) : image[n] \in Sections
    BY DEF ScanTypes
  <1>2. \A n \in 1..Len(image) : Len(image[n].words) \in Nat /\ DOMAIN image[n].words = 1..Len(image[n].words)
    BY <1>1 DEF Sections
  <1>3. ASSUME NEW a
        PROVE  a \in UNION {[section : {n}, word : DOMAIN image[n].words] : n \in DOMAIN image} <=>
                 \E n \in 1..Len(image) : \E i \in 1..Len(image[n].words) : a = [section |-> n, word |-> i]
    <2>1. ASSUME NEW n \in 1..Len(image)
          PROVE  a \in [section : {n}, word : DOMAIN image[n].words] <=>
                   \E i \in 1..Len(image[n].words) : a = [section |-> n, word |-> i]
      BY <1>2, <2>1
    <2>2. QED
      BY <1>1, <2>1
  <1>4. QED
    BY <1>3 DEF Scan!Searched

\* What is known of the best word stays known while no word to the registry is
\* passed, even if less stands there than before.
LEMMA BestStays ==
  ASSUME BestIs, BestKnows, ScanTypes, UNCHANGED <<image, manager, bestObjCount, bestAddr>>,
         standing' \subseteq standing,
         standing' # {} => \A a \in Scan!Searched(Registry) : Passed(a)' => Passed(a)
  PROVE  BestIs' /\ BestKnows'
  <1>1. /\ \A s : Scan!Searched(s)' = Scan!Searched(s)
        /\ \A a : Scan!PlaceOf(a)' = Scan!PlaceOf(a)
    BY SearchedStays
  <1>2. \A t : Scan!ObjectsIn(t)' = Scan!ObjectsIn(t)
    BY DEF Scan!ObjectsIn
  <1>3. BestIs'
    BY <1>1, <1>2, Zenon DEF BestIs
  <1>4. standing \in SUBSET (1..RegistrySlots) /\ bestObjCount \in Nat
    BY DEF ScanTypes
  <1>5. /\ Cardinality(standing') <= Cardinality(standing) /\ Cardinality(standing') \in Nat
        /\ Cardinality(standing) \in Nat /\ (standing' = {} => Cardinality(standing') = 0)
    BY <1>4, StandingFacts, FS_EmptySet
  <1>6. BestKnows'
    <2>1. SUFFICES ASSUME NEW a \in Scan!Searched(Registry), Passed(a)'
                   PROVE  Cardinality(standing') <= bestObjCount
      BY <1>1 DEF BestKnows
    <2>2. CASE standing' = {}
      BY <1>4, <1>5, <2>2
    <2>3. CASE standing' # {}
      <3>1. Cardinality(standing) <= bestObjCount
        BY <2>1, <2>3 DEF BestKnows
      <3>2. QED
        BY <1>4, <1>5, <3>1
    <2>4. QED
      BY <2>2, <2>3
  <1>7. QED
    BY <1>3, <1>6

\* The table that is being counted goes on being known, if no more stands.
LEMMA CountStays ==
  ASSUME ScanTypes, CountKnows, standing' \subseteq standing,
         UNCHANGED <<step, image, manager, word, table, expected, batch, objCount>>
  PROVE  CountKnows'
  <1> SUFFICES ASSUME step = "batch" PROVE CountKnows'
    BY DEF CountKnows
  <1>1. PICK s \in Sets :
          /\ word \in Scan!Searched(s) /\ Word(word) = s
          /\ s = Registry =>
               /\ table = RegistrySlots
               /\ Cardinality(standing) <= expected
               /\ Cardinality(standing \cap (1..batch)) <= objCount
          /\ s # Registry =>
               \E k \in 0..Len(TableOf[s]) : k <= batch /\ objCount <= Cardinality(ObjectsOf(TableOf[s], 1..k))
    BY DEF CountKnows
  <1>2. word' \in Scan!Searched(s)' /\ Word(word)' = s
    BY <1>1, SearchedStays DEF Word
  <1>3. standing \in SUBSET (1..RegistrySlots) /\ expected \in Nat /\ objCount \in Nat
    BY DEF ScanTypes
  <1>4. /\ Cardinality(standing') <= Cardinality(standing) /\ Cardinality(standing') \in Nat
        /\ Cardinality(standing) \in Nat
    BY <1>3, StandingFacts
  <1>5. /\ Cardinality(standing' \cap (1..batch)) <= Cardinality(standing \cap (1..batch))
        /\ Cardinality(standing' \cap (1..batch)) \in Nat /\ Cardinality(standing \cap (1..batch)) \in Nat
    <2>1. /\ standing \cap (1..batch) \in SUBSET (1..RegistrySlots)
          /\ standing' \cap (1..batch) \in SUBSET (standing \cap (1..batch))
      BY <1>3
    <2>2. QED
      BY <2>1, StandingFacts
  <1>6. s = Registry =>
          /\ Cardinality(standing') <= expected
          /\ Cardinality(standing' \cap (1..batch)) <= objCount
    BY <1>1, <1>3, <1>4, <1>5
  <1>7. QED
    BY <1>1, <1>2, <1>6 DEF CountKnows, ObjectsOf

\* An object that is erased no longer stands.
LEMMA MoveKeeps == ASSUME ScanInv, Scan!Move PROVE ScanInv'
  <1>1. /\ UNCHANGED <<step, image, manager, word, table, expected, batch, objCount, bestObjCount, bestAddr>>
        /\ \E i \in 1..RegistrySlots : Scan!Insert(i) \/ Scan!Erase(i)
    BY DEF Scan!Move, Scan!table
  <1>2. ScanTypes /\ Stands
    BY DEF ScanInv
  <1>3. /\ entries' \in [1..RegistrySlots -> States] /\ standing' \subseteq standing /\ Stands'
    <2>1. PICK i \in 1..RegistrySlots : Scan!Insert(i) \/ Scan!Erase(i)
      BY <1>1
    <2>2. entries \in [1..RegistrySlots -> States] /\ standing \in SUBSET (1..RegistrySlots)
      BY <1>2 DEF ScanTypes
    <2>3. CASE Scan!Insert(i)
      BY <1>2, <2>2, <2>3 DEF Scan!Insert, States, Stands
    <2>4. CASE Scan!Erase(i)
      BY <1>2, <2>2, <2>4 DEF Scan!Erase, States, Stands
    <2>5. QED
      BY <2>1, <2>3, <2>4
  <1>4. ScanTypes'
    BY <1>1, <1>2, <1>3 DEF ScanTypes
  <1>5. CountKnows'
    BY <1>1, <1>3, CountStays DEF ScanInv
  <1>6. BestIs' /\ BestKnows'
    <2>1. \A a : Passed(a)' => Passed(a)
      BY <1>1 DEF Passed
    <2>2. QED
      BY <1>1, <1>3, <2>1, BestStays DEF ScanInv
  <1>7. QED
    BY <1>1, <1>3, <1>4, <1>5, <1>6 DEF ScanInv, DoneKnows

WordFacts == word.section \in Nat \ {0} /\ word.word \in Nat \ {0}

LEMMA WordIs == ScanTypes => WordFacts /\ word = [section |-> word.section, word |-> word.word]
  BY DEF ScanTypes, WordFacts

\* A word that is passed: if it led to the registry, it would have been counted.
LEMMA NextWordPasses ==
  ASSUME ScanTypes, Scan!NextWord, NEW a \in Scan!Searched(Registry), Passed(a)'
  PROVE  Passed(a) \/ a = word
  <1>1. word' = [word EXCEPT !.word = @ + 1] /\ WordFacts /\ word = [section |-> word.section, word |-> word.word]
    BY WordIs DEF Scan!NextWord
  <1>2. word'.section = word.section /\ word'.word = word.word + 1
    BY <1>1 DEF WordFacts
  <1>3. a = [section |-> a.section, word |-> a.word] /\ a.section \in Int /\ a.word \in Int
    BY SearchedIs
  <1>4. Passed(a)' <=> (a.section < word'.section \/ (a.section = word'.section /\ a.word < word'.word))
    BY DEF Passed
  <1>5. a.section < word.section \/ (a.section = word.section /\ a.word < word.word)
        \/ (a.section = word.section /\ a.word = word.word)
    BY <1>1, <1>2, <1>3, <1>4 DEF WordFacts
  <1>6. QED
    BY <1>1, <1>3, <1>5 DEF Passed

LEMMA NextWordTyped ==
  ASSUME ScanTypes, Scan!NextWord
  PROVE  word' \in [section : Nat \ {0}, word : Nat \ {0}]
  BY WordIs DEF Scan!NextWord, WordFacts

LEMMA SectionKeeps == ASSUME ScanInv, Scan!NextSection PROVE ScanInv'
  <1>1. /\ UNCHANGED <<step, image, manager, entries, standing, table, expected, batch, objCount,
                       bestObjCount, bestAddr>>
        /\ step = "word" /\ word.section <= Len(image)
        /\ word' = [section |-> word.section + 1, word |-> 1]
        /\ ~ image[word.section].wanted \/ image[word.section].lost
             \/ word.word > Len(image[word.section].words)
    BY DEF Scan!NextSection, Scan!Target, Scan!table
  <1>2. ScanTypes /\ WordFacts
    BY WordIs DEF ScanInv
  <1>3. ScanTypes'
    BY <1>1, <1>2 DEF ScanTypes, WordFacts
  <1>4. Stands'
    BY <1>1 DEF ScanInv, Stands
  <1>5. ASSUME NEW a \in Scan!Searched(Registry), Passed(a)'
        PROVE  Passed(a)
    <2>1. /\ a.section \in 1..Len(image) /\ a.word \in 1..Len(image[a.section].words)
          /\ image[a.section].wanted /\ ~ image[a.section].lost
      BY <1>2, SearchedIs
    <2>2. word'.section = word.section + 1 /\ word'.word = 1
      BY <1>1
    <2>3. Passed(a)' <=> (a.section < word'.section \/ (a.section = word'.section /\ a.word < word'.word))
      BY DEF Passed
    <2>4. Len(image) \in Nat /\ Len(image[a.section].words) \in Nat
      BY <1>2, <2>1 DEF ScanTypes, Sections
    <2>5. a.section < word.section \/ a.section = word.section
      BY <1>2, <1>5, <2>1, <2>2, <2>3, <2>4 DEF WordFacts
    <2>6. a.section = word.section => a.word < word.word
      BY <1>1, <1>2, <2>1, <2>4 DEF WordFacts
    <2>7. QED
      BY <2>5, <2>6 DEF Passed
  <1>6. BestIs' /\ BestKnows'
    BY <1>1, <1>5, BestStays DEF ScanInv
  <1>7. QED
    BY <1>1, <1>3, <1>4, <1>6 DEF ScanInv, CountKnows, DoneKnows

\* A word to the registry is never left without counting its table.
LEMMA RegistryCount ==
  ASSUME ScanTypes, Stands
  PROVE  /\ Scan!HeaderAt(Registry) = [capacity |-> RegistrySlots, count |-> Scan!ObjectsIn(entries)]
         /\ Scan!ObjectsIn(entries) \in Nat /\ Scan!ObjectsIn(entries) <= RegistrySlots
         /\ Cardinality(standing) \in Nat /\ Cardinality(standing) <= Scan!ObjectsIn(entries)
  <1>1. Len(entries) = RegistrySlots /\ RegistrySlots \in Nat
    BY ScanAssumption DEF ScanTypes
  <1>2. Scan!ObjectsIn(entries) = Cardinality(ObjectsOf(entries, 1..RegistrySlots))
    BY <1>1, CountOf
  <1>3. Scan!ObjectsIn(entries) \in Nat /\ Scan!ObjectsIn(entries) <= RegistrySlots
    BY <1>1, <1>2, CountFacts
  <1>4. standing \in SUBSET ObjectsOf(entries, 1..RegistrySlots)
    BY DEF ScanTypes, Stands, ObjectsOf
  <1>5. IsFiniteSet(ObjectsOf(entries, 1..RegistrySlots))
    BY <1>1, CountFacts
  <1>6. Cardinality(standing) <= Cardinality(ObjectsOf(entries, 1..RegistrySlots))
    BY <1>4, <1>5, FS_Subset
  <1>7. Cardinality(standing) \in Nat
    BY StandingFacts DEF ScanTypes
  <1>8. QED
    BY <1>2, <1>3, <1>6, <1>7 DEF Scan!HeaderAt

LEMMA RegistryPlausible ==
  ASSUME ScanTypes, Stands, standing # {}
  PROVE  Scan!Plausible(Scan!HeaderAt(Registry))
  <1>1. Cardinality(standing) > 0
    BY StandingFacts DEF ScanTypes
  <1>2. Scan!ObjectsIn(entries) \in 1..MaxCount /\ RegistrySlots \in 1..MaxScanned
    BY <1>1, RegistryCount, ScanAssumption
  <1>3. QED
    BY <1>2, RegistryCount DEF Scan!Plausible

LEMMA HeaderTyped ==
  ASSUME ScanTypes, NEW s \in Sets
  PROVE  Scan!HeaderAt(s).capacity \in Nat /\ Scan!HeaderAt(s).count \in Nat
  <1>1. CASE s = Registry
    <2>1. Len(entries) = RegistrySlots /\ RegistrySlots \in Nat
      BY ScanAssumption DEF ScanTypes
    <2>2. Scan!ObjectsIn(entries) \in Nat
      BY <2>1, CountOf, CountFacts
    <2>3. QED
      BY <1>1, <2>1, <2>2 DEF Scan!HeaderAt
  <1>2. CASE s # Registry
    BY <1>2, ScanAssumption DEF Scan!HeaderAt
  <1>3. QED
    BY <1>1, <1>2

\* The word the scan is at is one of those it searches.
LEMMA HereIsSearched ==
  ASSUME ScanTypes, Scan!AtWord, Scan!InRange(Scan!PlaceOf(word))
  PROVE  word \in Scan!Searched(Scan!Here)
  <1>1. WordFacts /\ word = [section |-> word.section, word |-> word.word]
    BY WordIs
  <1>2. /\ word.section <= Len(image) /\ image[word.section].wanted /\ ~ image[word.section].lost
        /\ word.word <= Len(image[word.section].words)
    BY DEF Scan!AtWord
  <1>3. Len(image) \in Nat /\ word.section \in 1..Len(image)
    BY <1>1, <1>2 DEF ScanTypes, WordFacts
  <1>4. Len(image[word.section].words) \in Nat /\ word.word \in 1..Len(image[word.section].words)
    BY <1>1, <1>2, <1>3 DEF ScanTypes, Sections, WordFacts
  <1>5. QED
    BY <1>1, <1>2, <1>3, <1>4, SearchedIs DEF Scan!Here

\* A word is left without a table being counted.  If it leads to the registry,
\* nothing stands there any more.
LEMMA LeftKeeps ==
  ASSUME ScanInv, step = "word", Scan!NextWord,
         UNCHANGED <<step, image, manager, entries, table, expected, batch, objCount, bestObjCount, bestAddr>>,
         standing' \subseteq standing,
         word \in Scan!Searched(Registry) => standing' = {}
  PROVE  ScanInv'
  <1>1. ScanTypes /\ WordFacts /\ word = [section |-> word.section, word |-> word.word]
    BY WordIs DEF ScanInv
  <1>2. ScanTypes' /\ Stands'
    BY <1>1, NextWordTyped DEF ScanTypes, ScanInv, Stands
  <1>3. ASSUME standing' # {}, NEW a \in Scan!Searched(Registry), Passed(a)'
        PROVE  Passed(a)
    BY <1>1, <1>3, NextWordPasses
  <1>4. BestIs' /\ BestKnows'
    BY <1>3, BestStays DEF ScanInv
  <1>5. QED
    BY <1>2, <1>4 DEF ScanInv, CountKnows, DoneKnows

LEMMA WordKeeps == ASSUME ScanInv, Scan!LookAtWord \/ Scan!WordUnread PROVE ScanInv'
  <1> DEFINE w == Scan!Here
             Taken == Scan!InRange(Scan!PlaceOf(word)) /\ w \in Sets /\ Scan!Plausible(Scan!HeaderAt(w))
  <1>1. UNCHANGED <<image, manager, entries, bestObjCount, bestAddr>> /\ Scan!AtWord /\ step = "word"
    BY DEF Scan!LookAtWord, Scan!WordUnread, Scan!Target, Scan!AtWord
  <1>2. ScanTypes /\ Stands /\ WordFacts
    BY WordIs DEF ScanInv
  <1>3. CASE Scan!LookAtWord /\ Taken
    <2>1. /\ table' = Scan!HeaderAt(w).capacity /\ expected' = Scan!HeaderAt(w).count
          /\ batch' = 0 /\ objCount' = 0 /\ step' = "batch" /\ word' = word /\ standing' = standing
      BY <1>3 DEF Scan!LookAtWord
    <2>2. ScanTypes' /\ Stands'
      BY <1>1, <1>2, <1>3, <2>1, HeaderTyped DEF ScanTypes, Stands
    <2>3. CountKnows'
      <3>0. PICK s : s = w
        OBVIOUS
      <3>1. s \in Sets /\ word \in Scan!Searched(s)
        BY <1>1, <1>2, <1>3, <3>0, HereIsSearched
      <3>2. word' \in Scan!Searched(s)'
        BY <1>1, <2>1, <3>1, SearchedStays
      <3>3. Word(word)' = s
        BY <1>1, <2>1, <3>0 DEF Word, Scan!Here
      <3>4. ASSUME s = Registry
            PROVE  /\ table' = RegistrySlots
                   /\ Cardinality(standing') <= expected'
                   /\ Cardinality(standing' \cap (1..batch')) <= objCount'
        <4>1. standing' \cap (1..batch') = {}
          BY <2>1
        <4>2. Cardinality(standing' \cap (1..batch')) = 0
          BY <4>1, FS_EmptySet
        <4>3. QED
          BY <1>2, <2>1, <3>0, <3>4, <4>2, RegistryCount
      <3>5. ASSUME s # Registry
            PROVE  \E k \in 0..Len(TableOf[s]) :
                     k <= batch' /\ objCount' <= Cardinality(ObjectsOf(TableOf[s], 1..k))
        <4>1. Len(TableOf[s]) \in Nat
          BY <3>1, <3>5, ScanAssumption
        <4>2. Cardinality(ObjectsOf(TableOf[s], 1..0)) = 0
          BY CountFacts
        <4>3. QED
          BY <2>1, <4>1, <4>2
      <3>6. QED
        BY <3>1, <3>2, <3>3, <3>4, <3>5 DEF CountKnows, ObjectsOf
    <2>4. BestIs' /\ BestKnows'
      <3>1. \A a : Passed(a)' => Passed(a)
        BY <2>1 DEF Passed
      <3>2. QED
        BY <1>1, <2>1, <3>1, BestStays DEF ScanInv
    <2>5. QED
      BY <2>1, <2>2, <2>3, <2>4 DEF ScanInv, DoneKnows
  <1>4. ASSUME word \in Scan!Searched(Registry)
        PROVE  w = Registry /\ Scan!InRange(Scan!PlaceOf(word))
    BY <1>2, <1>4, SearchedIs DEF Scan!Here
  <1>5. CASE Scan!LookAtWord /\ ~ Taken
    <2>1. Scan!NextWord /\ UNCHANGED <<step, table, expected, batch, objCount, standing>>
      BY <1>5 DEF Scan!LookAtWord, Scan!table
    <2>2. ASSUME word \in Scan!Searched(Registry) PROVE standing' = {}
      <3>1. ~ Scan!Plausible(Scan!HeaderAt(Registry))
        BY <1>4, <1>5, <2>2, ScanAssumption
      <3>2. QED
        BY <1>2, <2>1, <3>1, RegistryPlausible
    <2>3. QED
      BY <1>1, <2>1, <2>2, LeftKeeps
  <1>6. CASE Scan!WordUnread
    <2>1. /\ Scan!NextWord /\ UNCHANGED <<step, table, expected, batch, objCount>>
          /\ standing' = IF w = Registry THEN {} ELSE standing
      BY <1>6 DEF Scan!WordUnread, Scan!table
    <2>2. standing' \subseteq standing /\ (word \in Scan!Searched(Registry) => standing' = {})
      BY <1>4, <2>1
    <2>3. QED
      BY <1>1, <2>1, <2>2, LeftKeeps
  <1>7. QED
    BY <1>3, <1>5, <1>6

\* Of what stands in a batch of the registry, all is counted that is not passed
\* over.
LEMMA StandsBehind ==
  ASSUME NEW S \in SUBSET (1..RegistrySlots), NEW b \in Nat, NEW e \in Nat, NEW C, IsFiniteSet(C),
         \A i \in S : i \in (b + 1)..e => i \in C
  PROVE  Cardinality(S \cap (1..e)) <= Cardinality(S \cap (1..b)) + Cardinality(C)
  <1> DEFINE A == S \cap (1..b)
  <1>1. A \in SUBSET (1..RegistrySlots) /\ S \cap (1..e) \in SUBSET (1..RegistrySlots)
    OBVIOUS
  <1>2. IsFiniteSet(A) /\ Cardinality(A) \in Nat /\ Cardinality(S \cap (1..e)) \in Nat
    BY <1>1, StandingFacts
  <1>3. Cardinality(C) \in Nat
    BY FS_CardinalityType
  <1>4. IsFiniteSet(A \cup C) /\ Cardinality(A \cup C) = Cardinality(A) + Cardinality(C) - Cardinality(A \cap C)
    BY <1>2, FS_Union
  <1>5. Cardinality(A \cap C) \in Nat
    BY <1>2, FS_Subset, FS_CardinalityType
  <1>6. S \cap (1..e) \in SUBSET (A \cup C)
    <2>1. ASSUME NEW i \in S \cap (1..e) PROVE i \in A \cup C
      BY ScanAssumption
    <2>2. QED
      BY <2>1
  <1>7. Cardinality(S \cap (1..e)) <= Cardinality(A \cup C)
    BY <1>4, <1>6, FS_Subset
  <1>8. Cardinality(S \cap (1..e)) <= Cardinality(A) + Cardinality(C)
    <2> HIDE DEF A
    <2>1. QED
      BY <1>2, <1>3, <1>4, <1>5, <1>7
  <1>9. QED
    BY <1>8

LEMMA BatchKeeps == ASSUME ScanInv, Scan!CountBatch \/ Scan!BatchUnread PROVE ScanInv'
  <1> DEFINE end == Scan!End
  <1>1. UNCHANGED <<step, image, manager, entries, word, table, expected, bestObjCount, bestAddr>>
        /\ step = "batch" /\ batch < table
    BY DEF Scan!CountBatch, Scan!BatchUnread, Scan!Target
  <1>2. ScanTypes /\ Stands
    BY DEF ScanInv
  <1>3. PICK s \in Sets :
          /\ word \in Scan!Searched(s) /\ Word(word) = s
          /\ s = Registry =>
               /\ table = RegistrySlots
               /\ Cardinality(standing) <= expected
               /\ Cardinality(standing \cap (1..batch)) <= objCount
          /\ s # Registry =>
               \E k \in 0..Len(TableOf[s]) : k <= batch /\ objCount <= Cardinality(ObjectsOf(TableOf[s], 1..k))
    BY <1>1 DEF ScanInv, CountKnows
  <1>4. PICK t : t = Scan!EntriesAt(s)
    OBVIOUS
  <1>5. Scan!Here = s
    BY <1>3 DEF Word, Scan!Here
  <1>6. PICK unread \in SUBSET ((batch + 1)..end) :
          /\ standing' = IF s = Registry THEN standing \ unread ELSE standing
          /\ \/ /\ end <= Len(t)
                /\ objCount' = objCount + Cardinality({i \in ((batch + 1)..end) \ unread : t[i] = "object"})
                /\ batch' = IF objCount' >= expected THEN table ELSE batch + Batch
             \/ unread = (batch + 1)..end /\ batch' = batch + Batch /\ objCount' = objCount
    <2>1. CASE Scan!CountBatch
      <3>1. PICK unread \in SUBSET ((batch + 1)..end) :
              LET n == objCount + Scan!Cardinality({i \in ((batch + 1)..end) \ unread : Scan!EntriesAt(Scan!Here)[i] = "object"})
              IN  /\ objCount' = n
                  /\ batch' = IF Scan!Enough(n) THEN table ELSE batch + Batch
                  /\ Scan!Misses(unread)
        BY <2>1 DEF Scan!CountBatch
      <3>2. end <= Len(t)
        BY <1>4, <1>5, <2>1 DEF Scan!CountBatch
      <3>3. QED
        BY <1>4, <1>5, <3>1, <3>2, CardinalityIs DEF Scan!Enough, Scan!Misses
    <2>2. CASE Scan!BatchUnread
      BY <1>5, <2>2 DEF Scan!BatchUnread, Scan!Misses
    <2>3. QED
      BY <2>1, <2>2
  <1> DEFINE C == {i \in ((batch + 1)..end) \ unread : t[i] = "object"}
  <1>7. /\ batch \in Nat /\ table \in Nat /\ expected \in Nat /\ objCount \in Nat
        /\ Batch \in Nat \ {0} /\ standing \in SUBSET (1..RegistrySlots) /\ RegistrySlots \in Nat
    BY <1>2, ScanAssumption DEF ScanTypes
  <1>8. end \in Nat /\ batch < end /\ end <= table /\ end <= batch + Batch
        /\ (end = batch + Batch \/ end = table)
    BY <1>1, <1>7 DEF Scan!End
  <1> HIDE DEF end
  <1>9. IsFiniteSet(C) /\ Cardinality(C) \in Nat
    <2>1. IsFiniteSet((batch + 1)..end) /\ C \in SUBSET ((batch + 1)..end)
      BY <1>7, <1>8, FS_Interval
    <2>2. QED
      BY <2>1, FS_Subset, FS_CardinalityType
  <1>10. batch' \in Nat /\ objCount' \in Nat /\ end <= batch'
    BY <1>6, <1>7, <1>8, <1>9
  <1>11. standing' \subseteq standing /\ Stands'
    BY <1>1, <1>2, <1>6 DEF Stands
  <1>12. ScanTypes'
    BY <1>1, <1>2, <1>10, <1>11 DEF ScanTypes
  <1>13. ASSUME s = Registry
         PROVE  /\ Cardinality(standing') <= expected
                /\ Cardinality(standing' \cap (1..batch')) <= objCount'
    <2>1. /\ Cardinality(standing') \in Nat /\ Cardinality(standing) \in Nat
          /\ Cardinality(standing') <= Cardinality(standing)
      BY <1>7, <1>11, StandingFacts
    <2>2. Cardinality(standing') <= expected
      BY <1>3, <1>7, <1>13, <2>1
    <2>3. /\ Cardinality(standing' \cap (1..batch)) <= Cardinality(standing \cap (1..batch))
          /\ Cardinality(standing' \cap (1..batch)) \in Nat /\ Cardinality(standing \cap (1..batch)) \in Nat
      <3>1. /\ standing \cap (1..batch) \in SUBSET (1..RegistrySlots)
            /\ standing' \cap (1..batch) \in SUBSET (standing \cap (1..batch))
        BY <1>7, <1>11
      <3>2. QED
        BY <3>1, StandingFacts
    <2>4. Cardinality(standing' \cap (1..end)) \in Nat /\ standing' \in SUBSET (1..RegistrySlots)
      <3>1. standing' \cap (1..end) \in SUBSET (1..RegistrySlots) /\ standing' \in SUBSET (1..RegistrySlots)
        BY <1>7, <1>11
      <3>2. QED
        BY <3>1, StandingFacts
    <2>5. Cardinality(standing' \cap (1..end)) <= objCount'
      <3>1. CASE objCount' = objCount + Cardinality(C)
        <4>1. t = entries
          BY <1>4, <1>13 DEF Scan!EntriesAt
        <4>2. \A i \in standing' : i \in (batch + 1)..end => i \in C
          BY <1>2, <1>6, <1>13, <4>1 DEF Stands
        <4>3. Cardinality(standing' \cap (1..end)) <= Cardinality(standing' \cap (1..batch)) + Cardinality(C)
          BY <1>7, <1>8, <1>9, <2>4, <4>2, StandsBehind
        <4> HIDE DEF C
        <4>4. QED
          BY <1>3, <1>7, <1>9, <1>13, <2>3, <2>4, <3>1, <4>3
      <3>2. CASE unread = (batch + 1)..end /\ objCount' = objCount
        <4>1. standing' \cap (1..end) \in SUBSET (standing' \cap (1..batch))
          BY <1>6, <1>7, <1>8, <1>13, <3>2
        <4>2. standing' \cap (1..batch) \in SUBSET (1..RegistrySlots)
          BY <2>4
        <4>3. Cardinality(standing' \cap (1..end)) <= Cardinality(standing' \cap (1..batch))
          BY <4>1, <4>2, StandingFacts
        <4>4. QED
          BY <1>3, <1>7, <1>13, <2>3, <2>4, <3>2, <4>3
      <3>3. QED
        BY <1>6, <3>1, <3>2
    <2>6. CASE batch' = end \/ end = table
      <3>1. standing' \cap (1..batch') = standing' \cap (1..end)
        <4>1. CASE batch' = end
          BY <4>1
        <4>2. CASE end = table
          <5>1. end = RegistrySlots /\ batch' >= RegistrySlots
            BY <1>3, <1>10, <1>13, <4>2
          <5>2. QED
            BY <1>7, <1>10, <2>4, <5>1
        <4>3. QED
          BY <2>6, <4>1, <4>2
      <3>2. QED
        BY <2>2, <2>5, <3>1
    <2>7. CASE batch' = table /\ objCount' >= expected
      <3>1. Cardinality(standing' \cap (1..batch')) <= Cardinality(standing')
            /\ Cardinality(standing' \cap (1..batch')) \in Nat
        BY <2>4, StandingFacts
      <3>2. QED
        BY <1>7, <1>10, <2>1, <2>2, <2>7, <3>1
    <2>8. QED
      BY <1>6, <1>8, <2>6, <2>7
  <1>14. ASSUME s # Registry
         PROVE  \E k \in 0..Len(TableOf[s]) : k <= batch' /\ objCount' <= Cardinality(ObjectsOf(TableOf[s], 1..k))
    <2>1. t = TableOf[s] /\ Len(t) \in Nat
      BY <1>4, <1>14, ScanAssumption DEF Scan!EntriesAt
    <2>2. PICK k \in 0..Len(t) : k <= batch /\ objCount <= Cardinality(ObjectsOf(t, 1..k))
      BY <1>3, <1>14, <2>1
    <2>3. CASE objCount' = objCount
      <3>1. k <= batch'
        BY <1>7, <1>8, <1>10, <2>1, <2>2
      <3>2. QED
        BY <2>1, <2>2, <2>3, <3>1
    <2>4. CASE end <= Len(t) /\ objCount' = objCount + Cardinality(C)
      <3>0. IsFiniteSet(ObjectsOf(t, (batch + 1)..end))
        BY <1>7, <1>8, CountFacts
      <3>1. C \in SUBSET ObjectsOf(t, (batch + 1)..end) /\ IsFiniteSet(ObjectsOf(t, (batch + 1)..end))
        BY <3>0 DEF ObjectsOf
      <3>2. Cardinality(C) <= Cardinality(ObjectsOf(t, (batch + 1)..end))
        BY <3>1, FS_Subset
      <3> HIDE DEF C
      <3>3. Cardinality(ObjectsOf(t, 1..end)) =
              Cardinality(ObjectsOf(t, 1..batch)) + Cardinality(ObjectsOf(t, (batch + 1)..end))
        BY <1>7, <1>8, CountSplit
      <3>4. Cardinality(ObjectsOf(t, 1..k)) <= Cardinality(ObjectsOf(t, 1..batch))
        BY <1>7, <2>2, CountGrows
      <3>5. /\ Cardinality(ObjectsOf(t, 1..k)) \in Nat
            /\ Cardinality(ObjectsOf(t, 1..batch)) \in Nat
            /\ Cardinality(ObjectsOf(t, (batch + 1)..end)) \in Nat
            /\ Cardinality(ObjectsOf(t, 1..end)) \in Nat
        BY <1>7, <1>8, <2>2, CountFacts
      <3>6. objCount' <= Cardinality(ObjectsOf(t, 1..end))
        BY <1>7, <1>9, <2>2, <2>4, <3>2, <3>3, <3>4, <3>5
      <3>7. end \in 0..Len(t)
        BY <1>8, <2>1, <2>4
      <3>8. QED
        BY <1>10, <2>1, <3>6, <3>7
    <2>5. QED
      BY <1>6, <2>3, <2>4
  <1>15. CountKnows'
    <2>1. word' \in Scan!Searched(s)' /\ Word(word)' = s
      BY <1>1, <1>3, SearchedStays DEF Word
    <2>2. QED
      BY <1>1, <1>3, <1>13, <1>14, <2>1 DEF CountKnows, ObjectsOf
  <1>16. BestIs' /\ BestKnows'
    <2>1. \A a : Passed(a)' => Passed(a)
      BY <1>1 DEF Passed
    <2>2. QED
      BY <1>1, <1>11, <2>1, BestStays DEF ScanInv
  <1>17. QED
    BY <1>1, <1>11, <1>12, <1>15, <1>16 DEF ScanInv, DoneKnows

\* A table has been counted: the registry's has at least what stands there,
\* another's no more than it seems to have.
LEMMA CountedKeeps == ASSUME ScanInv, Scan!TableCounted PROVE ScanInv'
  <1>1. /\ UNCHANGED <<image, manager, entries, standing>>
        /\ step = "batch" /\ batch >= table /\ step' = "word" /\ Scan!NextWord
        /\ table' = 0 /\ expected' = 0 /\ batch' = 0 /\ objCount' = 0
        /\ \/ /\ objCount > 0 /\ objCount > bestObjCount
              /\ bestObjCount' = objCount /\ bestAddr' = Scan!PlaceOf(word)
           \/ ~ (objCount > 0 /\ objCount > bestObjCount) /\ UNCHANGED <<bestObjCount, bestAddr>>
    BY DEF Scan!TableCounted, Scan!Target, Scan!NoTable, Scan!Better
  <1>2. ScanTypes /\ WordFacts
    BY WordIs DEF ScanInv
  <1>3. PICK s \in Sets :
          /\ word \in Scan!Searched(s) /\ Word(word) = s
          /\ s = Registry =>
               /\ table = RegistrySlots
               /\ Cardinality(standing) <= expected
               /\ Cardinality(standing \cap (1..batch)) <= objCount
          /\ s # Registry =>
               \E k \in 0..Len(TableOf[s]) : k <= batch /\ objCount <= Cardinality(ObjectsOf(TableOf[s], 1..k))
    BY <1>1 DEF ScanInv, CountKnows
  <1>4. /\ batch \in Nat /\ table \in Nat /\ objCount \in Nat /\ bestObjCount \in Nat /\ RegistrySlots \in Nat
        /\ standing \in SUBSET (1..RegistrySlots) /\ Cardinality(standing) \in Nat
    BY <1>2, ScanAssumption, StandingFacts DEF ScanTypes
  <1>5. ScanTypes' /\ Stands'
    BY <1>1, <1>2, NextWordTyped DEF ScanTypes, ScanInv, Stands
  <1>6. ASSUME s = Registry PROVE Cardinality(standing) <= objCount
    <2>1. ASSUME NEW i \in standing PROVE i \in 1..batch
      BY <1>1, <1>3, <1>4, <1>6
    <2>2. standing \cap (1..batch) = standing
      BY <2>1
    <2>3. QED
      BY <1>3, <1>6, <2>2
  <1>7. ASSUME s # Registry PROVE objCount <= Scan!ObjectsIn(TableOf[s])
    <2>1. PICK k \in 0..Len(TableOf[s]) : objCount <= Cardinality(ObjectsOf(TableOf[s], 1..k))
      BY <1>3, <1>7
    <2>2. Len(TableOf[s]) \in Nat
      BY <1>7, ScanAssumption
    <2>3. Cardinality(ObjectsOf(TableOf[s], 1..k)) <= Scan!ObjectsIn(TableOf[s])
      BY <2>1, <2>2, CountGrows, CountOf
    <2>4. Cardinality(ObjectsOf(TableOf[s], 1..k)) \in Nat /\ Scan!ObjectsIn(TableOf[s]) \in Nat
      BY <2>1, <2>2, CountFacts, CountOf
    <2>5. QED
      BY <1>4, <2>1, <2>3, <2>4
  <1>8. /\ \A r : Scan!Searched(r)' = Scan!Searched(r)
        /\ \A a : Scan!PlaceOf(a)' = Scan!PlaceOf(a)
        /\ \A u : Scan!ObjectsIn(u)' = Scan!ObjectsIn(u)
    BY <1>1, SearchedStays DEF Scan!ObjectsIn
  <1>9. BestIs'
    <2>1. CASE UNCHANGED <<bestObjCount, bestAddr>>
      BY <1>8, <2>1, Zenon DEF ScanInv, BestIs
    <2>2. CASE bestObjCount' = objCount /\ bestAddr' = Scan!PlaceOf(word)
      BY <1>3, <1>7, <1>8, <2>2, Zenon DEF BestIs
    <2>3. QED
      BY <1>1, <2>1, <2>2
  <1>10. BestKnows'
    <2>1. SUFFICES ASSUME NEW a \in Scan!Searched(Registry), Passed(a)'
                   PROVE  Cardinality(standing) <= bestObjCount'
      BY <1>1, <1>8 DEF BestKnows
    <2>2. bestObjCount' >= bestObjCount /\ bestObjCount' >= objCount /\ bestObjCount' \in Nat
      BY <1>1, <1>4
    <2>3. Passed(a) \/ a = word
      BY <1>1, <1>2, <2>1, NextWordPasses
    <2>4. CASE Passed(a)
      BY <1>4, <2>1, <2>2, <2>4 DEF ScanInv, BestKnows
    <2>5. CASE a = word
      <3>1. s = Registry
        BY <1>2, <1>3, <2>1, <2>5, SearchedIs DEF Word
      <3>2. QED
        BY <1>4, <1>6, <2>2, <3>1
    <2>6. QED
      BY <2>3, <2>4, <2>5
  <1>11. QED
    BY <1>1, <1>5, <1>9, <1>10 DEF ScanInv, CountKnows, DoneKnows

LEMMA EndKeeps == ASSUME ScanInv, Scan!ScanDone \/ UNCHANGED scanVars PROVE ScanInv'
  <1>1. /\ UNCHANGED <<image, manager, entries, standing, word, table, expected, batch, objCount,
                       bestObjCount, bestAddr>>
        /\ step' = step \/ (step = "word" /\ step' = "done" /\ word.section > Len(image))
    BY DEF Scan!ScanDone, Scan!Target, Scan!table, scanVars
  <1>2. ScanTypes' /\ Stands'
    BY <1>1 DEF ScanInv, ScanTypes, Stands
  <1>3. CountKnows'
    <2>1. CASE step' = step
      BY <1>1, <2>1, CountStays DEF ScanInv
    <2>2. CASE step' = "done"
      BY <2>2 DEF CountKnows
    <2>3. QED
      BY <1>1, <2>1, <2>2
  <1>4. BestIs' /\ BestKnows'
    <2>1. \A a : Passed(a)' => Passed(a)
      BY <1>1 DEF Passed
    <2>2. QED
      BY <1>1, <2>1, BestStays DEF ScanInv
  <1>5. QED
    BY <1>1, <1>2, <1>3, <1>4 DEF ScanInv, DoneKnows

LEMMA ScanStarts == Scan!Init => ScanInv
  <1> SUFFICES ASSUME Scan!Init PROVE ScanInv
    OBVIOUS
  <1>1. /\ image \in Images /\ entries \in [1..RegistrySlots -> States]
        /\ step = "word" /\ word = [section |-> 1, word |-> 1]
        /\ table = 0 /\ expected = 0 /\ batch = 0 /\ objCount = 0 /\ bestObjCount = 0
        /\ standing = {i \in 1..RegistrySlots : entries[i] = "object"}
    BY DEF Scan!Init, States
  <1>2. ScanTypes
    <2>1. image \in Seq(Sections)
      BY <1>1, ScanAssumption DEF Sections
    <2>2. word \in [section : Nat \ {0}, word : Nat \ {0}]
      BY <1>1
    <2>3. QED
      BY <1>1, <2>1, <2>2 DEF ScanTypes
  <1>3. Stands
    BY <1>1 DEF Stands
  <1>4. BestKnows
    <2>1. ASSUME NEW a \in Scan!Searched(Registry) PROVE ~ Passed(a)
      <3>1. a.section \in 1..Len(image) /\ a.word \in 1..Len(image[a.section].words)
        BY <1>2, SearchedIs
      <3>2. Len(image) \in Nat /\ Len(image[a.section].words) \in Nat
        BY <1>2, <3>1 DEF ScanTypes, Sections
      <3>3. QED
        BY <1>1, <3>1, <3>2 DEF Passed
    <2>2. QED
      BY <2>1 DEF BestKnows
  <1>5. QED
    BY <1>1, <1>2, <1>3, <1>4 DEF ScanInv, CountKnows, BestIs, DoneKnows

LEMMA ScanAnswers == ScanInv => Scan!RegistryFound
  <1> SUFFICES ASSUME ScanInv, step = "done", standing # {},
                      \A s \in Sets \ {Registry} :
                        Scan!Searched(s) # {} => Scan!ObjectsIn(TableOf[s]) < Cardinality(standing),
                      Scan!Searched(Registry) # {}
               PROVE  bestAddr \in {Scan!PlaceOf(a) : a \in Scan!Searched(Registry)}
    BY CardinalityIs DEF Scan!RegistryFound
  <1>1. PICK a : a \in Scan!Searched(Registry)
    OBVIOUS
  <1>2. a.section \in 1..Len(image) /\ Len(image) \in Nat
    BY <1>1, SearchedIs DEF ScanInv, ScanTypes
  <1>3. Passed(a)
    BY <1>2, WordIs DEF ScanInv, DoneKnows, Passed, WordFacts
  <1>4. Cardinality(standing) <= bestObjCount /\ Cardinality(standing) \in Nat /\ Cardinality(standing) > 0
    BY <1>1, <1>3, StandingFacts DEF ScanInv, ScanTypes, BestKnows
  <1>5. bestObjCount \in Nat /\ \A s \in Sets \ {Registry} : Scan!ObjectsIn(TableOf[s]) \in Nat
    <2>1. \A s \in Sets \ {Registry} : Len(TableOf[s]) \in Nat
      BY ScanAssumption
    <2>2. QED
      BY <2>1, CountOf, CountFacts DEF ScanInv, ScanTypes
  <1>6. ~ (bestObjCount = 0)
    BY <1>4, <1>5
  <1>7. \A s \in Sets \ {Registry} : Scan!Searched(s) # {} => ~ (bestObjCount <= Scan!ObjectsIn(TableOf[s]))
    BY <1>4, <1>5
  <1>8. QED
    BY <1>6, <1>7 DEF ScanInv, BestIs

\* The scan ends at a word that points to the registry, if more objects stay in
\* it and are read than any other table it looks at seems to have: for any
\* sections, limits and size of a batch, whatever is inserted or erased behind or
\* ahead of the batch that is being counted, and whichever reads fail.
THEOREM RegistryIsFound == AllSpec => []RegistryFound
  <1> DEFINE J == world = "scan" => ScanInv
  <1>1. AllInit => J
    BY ScanStarts DEF AllInit, EnumerateInit, FindsInit, ScansInit
  <1>2. J /\ [AllNext]_allVars => J'
    <2> SUFFICES ASSUME J, [AllNext]_allVars, world' = "scan"
                 PROVE  ScanInv'
      OBVIOUS
    <2>1. world' = world
      BY DEF AllNext, EnumerateNext, FindsNext, ScansNext, allVars
    <2>2. ScanInv
      BY <2>1
    <2>3. Scan!Next \/ UNCHANGED scanVars
      BY <2>1 DEF AllNext, EnumerateNext, FindsNext, ScansNext, allVars
    <2>4. QED
      BY <2>2, <2>3, SectionKeeps, WordKeeps, BatchKeeps, CountedKeeps, EndKeeps, MoveKeeps DEF Scan!Next
  <1>3. J => RegistryFound
    BY ScanAnswers DEF RegistryFound
  <1>4. QED
    BY <1>1, <1>2, <1>3, PTL DEF AllSpec
==============================================================================
