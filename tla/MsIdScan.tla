------------------------------ MODULE MsIdScan -------------------------------
(***************************************************************************)
(* FindMsIdToPointerSlotVaByScan (msid/msid_scan.hpp): every word of the   *)
(* module's data sections, or only those near the slot of the              *)
(* GameObjectManager, is taken for a pointer to the registry; the one      *)
(* wins whose table has the most entries that look like objects.           *)
(*                                                                         *)
(* One action is one word looked at or one batch of a table counted.  The  *)
(* registry may get and lose objects in between; the other memory stays.   *)
(* What a word points to, a batch of a table and the managed side of an    *)
(* object may be unreadable whenever they are read.                        *)
(***************************************************************************)
EXTENDS Integers, Sequences, FiniteSets

CONSTANTS
  Images,    \* per module its sections: [wanted, lost, words], words may be sets
  Sets,      \* what a word may point to
  HeaderOf,  \* per set but the registry [capacity, count]
  TableOf,   \* per set but the registry its entries; behind them is nothing to read
  Registry,  \* the set that is the registry
  Slots,     \* the size of its table
  Managers,  \* places of the GameObjectManager's slot, 0 when not known
  Near,      \* kMaxDistanceFromGom
  Batch,     \* kBatchSize
  MaxCount, MaxCapacity,  \* 5000000, 20000000
  Null       \* a word that is no pointer, or to no readable memory

VARIABLES
  pc, image, manager,
  entries,    \* target: the registry's table, per slot "empty", "erased" or "object"
  at,         \* the word looked at, as [section, word]
  capacity, expected, batch, objCount,   \* of the table that is being counted
  bestObjCount, bestAddr,
  \* history, not in the code
  standing   \* slots of the registry with an object since the scan began, none of it unread

table == <<capacity, expected, batch, objCount>>
vars == <<pc, image, manager, entries, at, table, bestObjCount, bestAddr, standing>>

NoTable == /\ capacity' = 0 /\ expected' = 0 /\ batch' = 0 /\ objCount' = 0

ObjectsIn(t) == Cardinality({i \in 1..Len(t) : t[i] = "object"})

Init ==
  /\ image \in Images /\ manager \in Managers
  /\ entries \in [1..Slots -> {"empty", "erased", "object"}]
  /\ pc = "word"
  /\ at = [section |-> 1, word |-> 1]
  /\ capacity = 0 /\ expected = 0 /\ batch = 0 /\ objCount = 0
  /\ bestObjCount = 0 /\ bestAddr = 0
  /\ standing = {i \in 1..Slots : entries[i] = "object"}

Target == UNCHANGED <<image, manager, entries>>

\* Places are counted through all sections.
PlaceOf(a) ==
  LET size[s \in 0..Len(image)] == IF s = 0 THEN 0 ELSE size[s - 1] + Len(image[s].words)
  IN  size[a.section - 1] + a.word

InRange(p) == manager = 0 \/ p \in (manager - Near)..(manager + Near)

NextWord == at' = [at EXCEPT !.word = @ + 1]

HeaderAt(s) == IF s = Registry THEN [capacity |-> Slots, count |-> ObjectsIn(entries)] ELSE HeaderOf[s]
EntriesAt(s) == IF s = Registry THEN entries ELSE TableOf[s]

\* The checks on a header.
Plausible(h) == h.count \in 1..MaxCount /\ h.capacity \in 1..MaxCapacity

\* A section that is not wanted or cannot be read is passed over.
NextSection ==
  /\ pc = "word" /\ at.section <= Len(image)
  /\ LET sec == image[at.section] IN ~ sec.wanted \/ sec.lost \/ at.word > Len(sec.words)
  /\ at' = [section |-> at.section + 1, word |-> 1]
  /\ Target /\ UNCHANGED <<pc, table, bestObjCount, bestAddr, standing>>

AtWord ==
  /\ pc = "word" /\ at.section <= Len(image)
  /\ image[at.section].wanted /\ ~ image[at.section].lost
  /\ at.word <= Len(image[at.section].words)

Here == image[at.section].words[at.word]

LookAtWord ==
  /\ AtWord
  /\ LET w == Here
     IN IF InRange(PlaceOf(at)) /\ w \in Sets /\ Plausible(HeaderAt(w))
          THEN /\ capacity' = HeaderAt(w).capacity /\ expected' = HeaderAt(w).count
               /\ batch' = 0 /\ objCount' = 0
               /\ pc' = "batch" /\ UNCHANGED at
          ELSE NextWord /\ UNCHANGED <<pc, table>>
  /\ Target /\ UNCHANGED <<bestObjCount, bestAddr, standing>>

\* The header of what the word points to, or its table, cannot be read.
WordUnread ==
  /\ AtWord
  /\ NextWord
  /\ standing' = IF Here = Registry THEN {} ELSE standing
  /\ Target /\ UNCHANGED <<pc, table, bestObjCount, bestAddr>>

\* Mutant: one object is enough to leave the loop.
SomeObject(n) == n > 0

\* objCount >= expectedCount, tested after each batch that could be read.
Enough(n) == n >= expected

End == IF batch + Batch < capacity THEN batch + Batch ELSE capacity

\* Slots of the registry no longer count once they have been passed over.
Misses(unread) == standing' = IF Here = Registry THEN standing \ unread ELSE standing

\* An object is counted unless its managed side is there and cannot be read.
CountBatch ==
  /\ pc = "batch" /\ batch < capacity
  /\ End <= Len(EntriesAt(Here))
  /\ \E unread \in SUBSET ((batch + 1)..End) :
       LET n == objCount + Cardinality({i \in ((batch + 1)..End) \ unread : EntriesAt(Here)[i] = "object"})
       IN  /\ objCount' = n
           /\ batch' = IF Enough(n) THEN capacity ELSE batch + Batch
           /\ Misses(unread)
  /\ Target /\ UNCHANGED <<pc, at, capacity, expected, bestObjCount, bestAddr>>

\* A batch that cannot be read is passed over.
BatchUnread ==
  /\ pc = "batch" /\ batch < capacity
  /\ batch' = batch + Batch
  /\ Misses((batch + 1)..End)
  /\ Target /\ UNCHANGED <<pc, at, capacity, expected, objCount, bestObjCount, bestAddr>>

\* objCount > bestObjCount
Better(n) == n > bestObjCount

TableCounted ==
  /\ pc = "batch" /\ batch >= capacity
  /\ IF objCount > 0 /\ Better(objCount)
       THEN bestObjCount' = objCount /\ bestAddr' = PlaceOf(at)
       ELSE UNCHANGED <<bestObjCount, bestAddr>>
  /\ NoTable /\ NextWord /\ pc' = "word"
  /\ Target /\ UNCHANGED standing

ScanDone ==
  /\ pc = "word" /\ at.section > Len(image)
  /\ pc' = "done"
  /\ Target /\ UNCHANGED <<at, table, bestObjCount, bestAddr, standing>>

\* The target.
Insert(i) ==
  /\ entries[i] # "object"
  /\ entries' = [entries EXCEPT ![i] = "object"]
  /\ UNCHANGED standing

Erase(i) ==
  /\ entries[i] = "object"
  /\ entries' = [entries EXCEPT ![i] = "erased"]
  /\ standing' = standing \ {i}

Move ==
  /\ pc # "done"
  /\ \E i \in 1..Slots : Insert(i) \/ Erase(i)
  /\ UNCHANGED <<pc, image, manager, at, table, bestObjCount, bestAddr>>

Next ==
  \/ NextSection \/ LookAtWord \/ WordUnread \/ CountBatch \/ BatchUnread
  \/ TableCounted \/ ScanDone \/ Move

(***************************************************************************)
(* Properties.                                                             *)
(***************************************************************************)
Searched(s) ==
  {a \in UNION {[section : {n}, word : DOMAIN image[n].words] : n \in DOMAIN image} :
     /\ image[a.section].words[a.word] = s
     /\ image[a.section].wanted /\ ~ image[a.section].lost /\ InRange(PlaceOf(a))}

\* Whatever the registry gets and loses while its table and others are counted,
\* and whatever of it cannot be read: as long as the objects that were there all
\* the time and never passed over are more than any other table seems to have,
\* the scan finds one of the words it looks at that point to the registry.
RegistryFound ==
  (/\ pc = "done"
   /\ standing # {}
   /\ \A s \in Sets \ {Registry} : Searched(s) # {} => ObjectsIn(TableOf[s]) < Cardinality(standing)
   /\ Searched(Registry) # {}) =>
     bestAddr \in {PlaceOf(a) : a \in Searched(Registry)}
==============================================================================
