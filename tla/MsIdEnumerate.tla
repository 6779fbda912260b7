---------------------------- MODULE MsIdEnumerate -----------------------------
(***************************************************************************)
(* EnumerateMsIdToPointerObjects (msid/enumerate_objects.hpp) with the     *)
(* header reads of msid/ms_id_to_pointer.hpp: copy the table chunk by      *)
(* chunk and report, entry by entry, the objects of the wanted kinds.  The *)
(* kind is that of the object's class (IsClassOrParent and                 *)
(* ReadIl2CppClassName of object/managed/il2cpp_class.hpp), which is read  *)
(* once a call and remembered.                                             *)
(*                                                                         *)
(* One action is one read of target memory and the code up to the next     *)
(* one, except that a chunk is copied, and an entry looked at, in one step *)
(* each.  Every read may fail.  Names of objects are not modelled          *)
(* (filterLower is empty).                                                 *)
(***************************************************************************)
EXTENDS IdTable

CONSTANTS
  Classes,    \* classes of the target
  Lineage,    \* each class and its parents, up to the last
  GameObject, ScriptableObject, \* the classes of these names in UnityEngine
  ClassOf,    \* the class of each object
  MaxDepth,   \* maxDepth (10): how many of a lineage are looked at
  Options,    \* the EnumerateOptions callers use
  Chunk,      \* kChunkSize (65536)
  MaxCapacity \* the limit on capacity (50000000)

AnyOptions == [onlyGo : BOOLEAN, onlySo : BOOLEAN]

\* EnumerateOptions{}
DefaultOptions == [onlyGo |-> TRUE, onlySo |-> TRUE]

Kinds == {"GameObject", "ScriptableObject", "Other"}

Has(c, b) == \E n \in 1..Len(Lineage[c]) : Lineage[c][n] = b

ASSUME EnumerateAssumption ==
  /\ Lineage \in [Classes -> Seq(Classes)]
  /\ \A c \in Classes : ~ (Has(c, GameObject) /\ Has(c, ScriptableObject))
  /\ ClassOf \in [Objects -> Classes]
  /\ MaxDepth \in Nat
  /\ Options \subseteq AnyOptions
  /\ Chunk \in Nat \ {0}
  /\ MaxCapacity \in Nat

VARIABLES
  gone,      \* objects whose memory cannot be read any more
  pc,        \* what the running call does next
  options,   \* EnumerateOptions: [onlyGo, onlySo]
  rBase,     \* entriesBase
  rCapacity, \* capacity
  at,        \* i, counted from 0
  buffer,    \* the entries of the chunk still to be looked at
  classCache, \* what is remembered of a class: its kind, or that its name could not be read
  out,       \* the objects the callback was given
  ok,        \* what the call returned
  \* history of the current call, not in the code
  seen,      \* objects that have been listed since it began
  kept,      \* objects that have been listed and there ever since it began
  headerLost, \* the pointer to the registry or its header could not be read
  lost,      \* objects whose entry was in a chunk, or whose way to their class, that could not be read
  misread,   \* classes of which something could not be read
  quiet      \* nothing has been erased and no table rebuilt since then

worldVars == <<tableVars, gone>>
callVars == <<pc, options, rBase, rCapacity, at, buffer, classCache, out, ok>>
failures == <<headerLost, lost, misread>>
history == <<seen, kept, failures, quiet>>
vars == <<worldVars, callVars, history>>

NoEntries == <<>>
Unknown == [c \in Classes |-> "unknown"]

NoCall ==
  /\ options = DefaultOptions
  /\ rBase = FirstTable /\ rCapacity = 0 /\ at = 0
  /\ buffer = NoEntries
  /\ classCache = Unknown
  /\ out = <<>>
  /\ ok = FALSE
  /\ seen = {} /\ kept = {} /\ quiet = FALSE
  /\ headerLost = FALSE /\ lost = {} /\ misread = {}

Init ==
  /\ TableInit
  /\ gone = {}
  /\ pc = "idle"
  /\ NoCall

(***************************************************************************)
(* The call.                                                               *)
(***************************************************************************)
Begin ==
  /\ pc = "idle"
  /\ options' \in Options
  /\ pc' = "set"
  /\ seen' = Listed /\ kept' = Listed
  /\ quiet' = Settled
  /\ UNCHANGED <<worldVars, rBase, rCapacity, at, buffer, classCache, out, ok, failures>>

\* The caller has what it wanted; the call's locals are gone.
Return ==
  /\ pc = "done"
  /\ pc' = "idle"
  /\ options' = DefaultOptions
  /\ rBase' = FirstTable /\ rCapacity' = 0 /\ at' = 0
  /\ buffer' = NoEntries
  /\ classCache' = Unknown
  /\ out' = <<>>
  /\ ok' = FALSE
  /\ seen' = {} /\ kept' = {} /\ quiet' = FALSE
  /\ headerLost' = FALSE /\ lost' = {} /\ misread' = {}
  /\ UNCHANGED worldVars

\* ReadMsIdToPointerSet: the pointer to the registry, which stays where it is.
ReadSet ==
  /\ pc = "set"
  /\ pc' = "base"
  /\ UNCHANGED <<worldVars, options, rBase, rCapacity, at, buffer, classCache, out, ok, history>>

\* ReadMsIdEntriesHeader, word by word.
ReadBase ==
  /\ pc = "base"
  /\ rBase' = base
  /\ pc' = "capacity"
  /\ UNCHANGED <<worldVars, options, rCapacity, at, buffer, classCache, out, ok, history>>

ReadCapacity ==
  /\ pc = "capacity"
  /\ rCapacity' = capacity
  /\ pc' = "count"
  /\ UNCHANGED <<worldVars, options, rBase, at, buffer, classCache, out, ok, history>>

\* count > capacity is refused, and so is a capacity out of bounds.
ReadCount ==
  /\ pc = "count"
  /\ pc' = IF Cardinality(Listed) <= rCapacity /\ rCapacity \in 1..MaxCapacity
             THEN "chunk" ELSE "done"
  /\ UNCHANGED <<worldVars, options, rBase, rCapacity, at, buffer, classCache, out, ok, history>>

\* One of these reads fails, and the call with it.
HeaderUnread ==
  /\ pc \in {"set", "base", "capacity", "count"}
  /\ pc' = "done"
  /\ headerLost' = TRUE
  /\ UNCHANGED <<worldVars, options, rBase, rCapacity, at, buffer, classCache, out, ok,
                 seen, kept, lost, misread, quiet>>

Minimum(a, b) == IF a <= b THEN a ELSE b

\* Where the current chunk ends.
ChunkEnd == Minimum(at + Chunk, rCapacity)

\* Behind the table there may be memory of something else, whose words do not
\* pass for an object.
SlotAt(i) == IF i <= Capacity[rBase] THEN slots[rBase][i] ELSE Empty

Copied == [j \in 1..(ChunkEnd - at) |-> SlotAt(at + j)]

CopyChunk ==
  /\ pc = "chunk"
  /\ at < rCapacity
  /\ rBase \notin freed
  /\ buffer' = Copied
  /\ at' = at + Chunk
  /\ pc' = "entry"
  /\ UNCHANGED <<worldVars, options, rBase, rCapacity, classCache, out, ok, history>>

\* A chunk that cannot be read is passed over, and the objects in it are lost.
ChunkUnread ==
  /\ pc = "chunk"
  /\ at < rCapacity
  /\ at' = at + Chunk
  /\ lost' = lost \cup {o \in Objects : \E i \in (at + 1)..ChunkEnd : SlotAt(i) = Live(o)}
  /\ UNCHANGED <<worldVars, pc, options, rBase, rCapacity, buffer, classCache, out, ok,
                 seen, kept, headerLost, misread, quiet>>

\* Mutant: what is left over and does not fill a chunk is not read.
WholeChunksDone ==
  /\ pc = "chunk"
  /\ at + Chunk > rCapacity
  /\ ok' = TRUE
  /\ pc' = "done"
  /\ UNCHANGED <<worldVars, options, rBase, rCapacity, at, buffer, classCache, out, history>>

ChunksDone ==
  /\ pc = "chunk"
  /\ at >= rCapacity
  /\ ok' = TRUE
  /\ pc' = "done"
  /\ UNCHANGED <<worldVars, options, rBase, rCapacity, at, buffer, classCache, out, history>>

\* Mutant: the object of an erased entry is taken.
AnyEntry(e) == e.object # "none"

\* hashMask and key: the entry is in use.
InUse(e) == e.live

\* The filtering logic on the kind.
Wanted(kind) ==
  CASE options.onlyGo /\ ~ options.onlySo -> kind = "GameObject"
    [] ~ options.onlyGo /\ options.onlySo -> kind = "ScriptableObject"
    [] options.onlyGo /\ options.onlySo   -> kind \in {"GameObject", "ScriptableObject"}
    [] OTHER                              -> TRUE

(***************************************************************************)
(* The class of an object.  IsClassOrParent goes up the lineage and stops  *)
(* where a name or a parent cannot be read; a namespace that cannot be     *)
(* read is taken for none, which UnityEngine is not.  lostAt has the       *)
(* places of the lineage where that happens.                               *)
(***************************************************************************)
IsClassOrParent(c, b, lostAt) ==
  \E n \in 1..Len(Lineage[c]) : n <= MaxDepth /\ Lineage[c][n] = b /\ lostAt \cap (1..n) = {}

\* Three readings of the class: as a GameObject, as a ScriptableObject, its name.
ClassReads(c) ==
  [go : SUBSET (1..Len(Lineage[c])), so : SUBSET (1..Len(Lineage[c])), name : BOOLEAN]

AllRead == [go |-> {}, so |-> {}, name |-> TRUE]

\* What classCache is to keep: whether the class is valid, and its kind.
Verdict(c, r) ==
  CASE ~ r.name -> "invalid"
    [] r.name /\ IsClassOrParent(c, GameObject, r.go) -> "GameObject"
    [] r.name /\ ~ IsClassOrParent(c, GameObject, r.go)
         /\ IsClassOrParent(c, ScriptableObject, r.so) -> "ScriptableObject"
    [] OTHER -> "Other"

\* An object whose class is found to be of this kind is reported.
Passes(verdict) == verdict \in Kinds /\ Wanted(verdict)

NextEntry ==
  /\ pc = "entry"
  /\ buffer' = Tail(buffer)
  /\ pc' = IF buffer' = NoEntries THEN "chunk" ELSE "entry"
  /\ UNCHANGED <<worldVars, options, rBase, rCapacity, at, ok, seen, kept, headerLost, quiet>>

EntryNotInUse ==
  /\ NextEntry
  /\ ~ InUse(Head(buffer))
  /\ UNCHANGED <<classCache, out, lost, misread>>

\* The object cannot be read, its vtable is not one of UnityPlayer, it has no
\* managed wrapper at the moment, or that cannot be read.
ObjectPassedOver ==
  /\ NextEntry
  /\ InUse(Head(buffer))
  /\ lost' = lost \cup {Head(buffer).object}
  /\ UNCHANGED <<classCache, out, misread>>

\* The class of the object is known; it is read when it is first met.
Judged(o, verdict) ==
  /\ out' = IF Passes(verdict) THEN Append(out, o) ELSE out
  /\ UNCHANGED lost

ClassKnown ==
  /\ NextEntry
  /\ LET e == Head(buffer) IN
     /\ InUse(e) /\ e.object \notin gone
     /\ classCache[ClassOf[e.object]] # "unknown"
     /\ Judged(e.object, classCache[ClassOf[e.object]])
  /\ UNCHANGED <<classCache, misread>>

ClassMet ==
  /\ NextEntry
  /\ LET e == Head(buffer)
         c == ClassOf[e.object]
     IN  /\ InUse(e) /\ e.object \notin gone
         /\ classCache[c] = "unknown"
         /\ \E r \in ClassReads(c) :
              /\ classCache' = [classCache EXCEPT ![c] = Verdict(c, r)]
              /\ misread' = IF r = AllRead THEN misread ELSE misread \cup {c}
              /\ Judged(e.object, Verdict(c, r))

LookAtEntry == EntryNotInUse \/ ObjectPassedOver \/ ClassKnown \/ ClassMet

Reader ==
  \/ ReadSet \/ ReadBase \/ ReadCapacity \/ ReadCount \/ HeaderUnread
  \/ CopyChunk \/ ChunkUnread \/ ChunksDone
  \/ LookAtEntry

(***************************************************************************)
(* The target.  An erased object may be destroyed; an object is not listed *)
(* again after that.                                                       *)
(***************************************************************************)
Remember ==
  /\ seen' = IF pc = "idle" THEN seen ELSE seen \cup Listed'
  /\ kept' = kept \cap Listed'
  /\ UNCHANGED failures

TableStep ==
  /\ \/ /\ \E o \in Objects \ gone : Insert(o)
        /\ UNCHANGED quiet
     \/ /\ \/ \E o \in Objects : Erase(o)
           \/ \E t \in Tables : Grow(t)
           \/ FinishGrow
           \/ \E t \in Tables : Free(t)
        /\ quiet' = FALSE
  /\ UNCHANGED gone

Destroy(o) ==
  /\ o \notin gone \cup Listed
  /\ gone' = gone \cup {o}
  /\ UNCHANGED <<tableVars, quiet>>

World ==
  /\ pc # "done"
  /\ TableStep \/ (\E o \in Objects : Destroy(o))
  /\ Remember
  /\ UNCHANGED callVars

Next == Begin \/ Return \/ Reader \/ World

Spec == Init /\ [][Next]_vars

(***************************************************************************)
(* Properties.                                                             *)
(***************************************************************************)
Pcs == {"idle", "set", "base", "capacity", "count", "chunk", "entry", "done"}

\* Type invariant of the call and the table it reads.
TypeOK ==
  /\ TableTypeOK
  /\ gone \in SUBSET Objects
  /\ pc \in Pcs
  /\ options \in AnyOptions
  /\ rBase \in Tables /\ rCapacity \in Nat /\ at \in Nat
  /\ buffer \in Seq(Slots)
  /\ classCache \in [Classes -> Kinds \cup {"unknown", "invalid"}]
  /\ out \in Seq(Objects)
  /\ ok \in BOOLEAN
  /\ seen \in SUBSET Objects /\ kept \in SUBSET Objects
  /\ headerLost \in BOOLEAN /\ lost \in SUBSET Objects /\ misread \in SUBSET Classes
  /\ quiet \in BOOLEAN

Reported == {out[i] : i \in 1..Len(out)}

\* Whatever the registry does meanwhile, rebuilding itself in another place
\* between the reads of the header included, an object that is reported has
\* been in it since the call began: what erasing leaves behind in a slot, and
\* what lies behind a table, is not reported.
ReportedWasListed == Reported \subseteq seen

\* The ObjectKind of a class, by all of its lineage.
KindOf(c) ==
  IF Has(c, GameObject) THEN "GameObject"
  ELSE IF Has(c, ScriptableObject) THEN "ScriptableObject" ELSE "Other"

\* A call during which the registry only got new objects, and that can read the
\* header, succeeds, reports no object twice and none of a kind not wanted, and
\* misses none that was there all the time but those in a chunk that could not
\* be read, those that did not lead to their class when they were looked at
\* (not readable, or without a readable managed wrapper), and those of a class
\* of which a name, a namespace or a parent could not be read when it was first
\* met: that one failure costs all objects of the class, and nothing else does.
Expected ==
  {o \in kept : o \notin lost /\ ClassOf[o] \notin misread /\ Wanted(KindOf(ClassOf[o]))}

InsertOnlyExact ==
  pc = "done" /\ quiet /\ ~ headerLost =>
    /\ ok
    /\ \A i, j \in 1..Len(out) : out[i] = out[j] => i = j
    /\ \A i \in 1..Len(out) : Wanted(KindOf(ClassOf[out[i]]))
    /\ Expected \subseteq Reported

\* What that takes: every table's capacity is one the reader accepts, and no
\* class has more parents than are looked at.
LimitsHold ==
  /\ \A t \in Tables : Capacity[t] <= MaxCapacity
  /\ \A c \in Classes : Len(Lineage[c]) <= MaxDepth

\* The enumeration implements the listing other parts are built on.
Phase == CASE pc = "idle" -> "idle" [] pc = "done" -> "answered" [] OTHER -> "running"

Listing == INSTANCE ObjectListing WITH
  Things <- Objects, phase <- Phase, present <- Listed, reported <- Reported

ImplementsListing == Listing!Spec
===============================================================================
