--------------------------- MODULE ComponentLookup ----------------------------
(***************************************************************************)
(* The component queries: GetComponentThroughTypeId and -ThroughTypeName   *)
(* (gom_search_component.hpp), GetTransformComponent, GetCameraComponent   *)
(* and GetAllComponents (init/component.hpp).  Each reads the address of   *)
(* the array, then the count, then goes through the slots; none of them    *)
(* looks at the count or the address again.                                *)
(*                                                                         *)
(* One action is one read of target memory and the code up to the next     *)
(* one, the class of a component being read in one step.  The callers'     *)
(* checks for a zero argument and an attached context are left out.        *)
(***************************************************************************)
EXTENDS ComponentPool

CONSTANTS
  Types,       \* component classes; a type id stands for one of them
  TypeOf,      \* the class of each component
  Names,       \* class names
  NameOf,      \* the name of each class, without its namespace
  Fickle,      \* components that may lose and get their managed object
  Queries,     \* the queries made: some of AnyQuery
  SearchCap,   \* slots looked at by the two searches (1024)
  ListCap      \* and by the other three (128)

\* [kind |-> "typeId", of |-> a class], [kind |-> "typeName", of |-> a name],
\* [kind |-> "class", of |-> a class] (Transform, Camera), [kind |-> "all"]
AnyQuery ==
  [kind : {"typeId", "class"}, of : Types] \cup [kind : {"typeName"}, of : Names]
    \cup [kind : {"all"}, of : {None}]

NoQuery == [kind |-> "all", of |-> None]

ASSUME LookupAssumption ==
  /\ TypeOf \in [Components -> Types]
  /\ NameOf \in [Types -> Names]
  /\ Fickle \subseteq Components
  /\ Queries \subseteq AnyQuery
  /\ SearchCap \in Nat \ {0} /\ ListCap \in Nat \ {0}

VARIABLES
  unreadable,  \* components whose class cannot be read
  pc,
  query,
  rPool,       \* pool
  rCount,      \* count
  i,
  cur,         \* nativeComp
  found,       \* what is returned: one component, or all of result
  \* history of the current call, not in the code
  seen,        \* components the GameObject has had since the call began
  start,       \* whether the array has stayed where the call found it
  quiet        \* nothing has changed since the call began

callVars == <<pc, query, rPool, rCount, i, cur, found>>
history == <<seen, start, quiet>>
vars == <<poolVars, unreadable, callVars, history>>

NoCall ==
  /\ query = NoQuery
  /\ rPool = None /\ rCount = 0 /\ i = 1 /\ cur = None
  /\ found = <<>>
  /\ seen = {} /\ start = FALSE /\ quiet = FALSE

Init ==
  /\ PoolInit
  /\ unreadable = {}
  /\ pc = "idle"
  /\ NoCall

Begin ==
  /\ pc = "idle"
  /\ query' \in Queries
  /\ pc' = "pool"
  /\ seen' = Attached
  /\ start' = TRUE
  /\ quiet' = (gap = 0)
  /\ UNCHANGED <<poolVars, unreadable, rPool, rCount, i, cur, found>>

\* The caller has the answer; the call's locals are gone.
Return ==
  /\ pc = "done"
  /\ pc' = "idle"
  /\ query' = NoQuery
  /\ rPool' = None /\ rCount' = 0 /\ i' = 1 /\ cur' = None
  /\ found' = <<>>
  /\ seen' = {} /\ start' = FALSE /\ quiet' = FALSE
  /\ UNCHANGED <<poolVars, unreadable>>

Reads == UNCHANGED <<poolVars, unreadable, query, history>>

\* GetComponentPool
ReadPool ==
  /\ pc = "pool"
  /\ rPool' = pool
  /\ pc' = IF pool = None THEN "done" ELSE "count"
  /\ UNCHANGED <<rCount, i, cur, found>>
  /\ Reads

Cap == IF query.kind \in {"typeId", "typeName"} THEN SearchCap ELSE ListCap

\* Mutant: the slot behind the last one is looked at as well.
OneMore(n) == IF n >= Cap THEN Cap ELSE n + 1

\* count, cut off at the cap.
Bounded(n) == IF n > Cap THEN Cap ELSE n

\* GetComponentCount
ReadCount ==
  /\ pc = "count"
  /\ rCount' = Bounded(count)
  /\ pc' = IF count = 0 THEN "done" ELSE "slot"
  /\ UNCHANGED <<rPool, i, cur, found>>
  /\ Reads

\* What a read of slot i gives: nothing of an array that is gone, and nothing
\* that passes for a component behind the end of one.
SlotWord == IF i <= PoolSize[rPool] THEN slots[rPool][i] ELSE None

SlotReadable == rPool \notin freed

\* continue
NextSlot ==
  /\ i' = i + 1
  /\ cur' = None
  /\ pc' = IF i + 1 > rCount THEN "done" ELSE "slot"

Answer(c) == found' = <<c>> /\ pc' = "done" /\ cur' = None /\ UNCHANGED i

\* GetComponentSlotTypeId
ReadTypeId ==
  /\ pc = "slot" /\ query.kind = "typeId"
  /\ IF SlotReadable /\ SlotWord # None /\ TypeOf[SlotWord] = query.of
       THEN pc' = "native" /\ UNCHANGED <<i, cur>>
       ELSE NextSlot
  /\ UNCHANGED <<rPool, rCount, found>>
  /\ Reads

\* GetComponentSlotNative, of a slot whose type id was the right one.
ReadNative ==
  /\ pc = "native"
  /\ IF SlotReadable THEN Answer(SlotWord) ELSE NextSlot /\ UNCHANGED found
  /\ UNCHANGED <<rPool, rCount>>
  /\ Reads

\* Mutant: a zero word is taken for a component.
AnyWord(w) == TRUE

\* !nativeComp
IsComponent(w) == w # None

\* GetComponentSlotNative
ReadComponent ==
  /\ pc = "slot" /\ query.kind # "typeId"
  /\ IF ~ SlotReadable \/ ~ IsComponent(SlotWord)
       THEN NextSlot /\ UNCHANGED found
       ELSE IF query.kind = "all"
       THEN NextSlot /\ found' = Append(found, SlotWord)
       ELSE cur' = SlotWord /\ pc' = "class" /\ UNCHANGED <<i, found>>
  /\ UNCHANGED <<rPool, rCount>>
  /\ Reads

\* Mutant: the namespace is not compared.
NameOnly(c) ==
  NameOf[TypeOf[c]] = IF query.kind = "typeName" THEN query.of ELSE NameOf[query.of]

\* The name comparison of ThroughTypeName, or with the namespace as well.
Matches(c) ==
  IF query.kind = "typeName" THEN NameOf[TypeOf[c]] = query.of ELSE TypeOf[c] = query.of

\* GetNativeComponentManaged and ReadManagedObjectTypeInfo
ReadClass ==
  /\ pc = "class"
  /\ IF cur \notin unreadable /\ Matches(cur) THEN Answer(cur) ELSE NextSlot /\ UNCHANGED found
  /\ UNCHANGED <<rPool, rCount>>
  /\ Reads

Query ==
  ReadPool \/ ReadCount \/ ReadTypeId \/ ReadNative \/ ReadComponent \/ ReadClass

(***************************************************************************)
(* The target.                                                             *)
(***************************************************************************)
PoolStep ==
  /\ \/ NewPool
     \/ \E c \in Components : AddComponent(c)
     \/ RemoveComponent
     \/ FinishRemoval
     \/ \E p \in Pools : MovePool(p) \/ FreePool(p)
  /\ UNCHANGED unreadable

ChangeManaged(c) ==
  /\ unreadable' = IF c \in unreadable THEN unreadable \ {c} ELSE unreadable \cup {c}
  /\ UNCHANGED poolVars

World ==
  /\ pc # "done"
  /\ PoolStep \/ (\E c \in Fickle : ChangeManaged(c))
  /\ seen' = IF pc = "idle" THEN seen ELSE seen \cup Attached'
  /\ start' = (start /\ pool' = pool)
  /\ quiet' = FALSE
  /\ UNCHANGED callVars

Next == Begin \/ Return \/ Query \/ World

Spec == Init /\ [][Next]_vars

(***************************************************************************)
(* Properties.                                                             *)
(***************************************************************************)
Pcs == {"idle", "pool", "count", "slot", "native", "class", "done"}

\* Type invariant of the call and the array it reads.
TypeOK ==
  /\ PoolTypeOK
  /\ unreadable \in SUBSET Components
  /\ pc \in Pcs
  /\ query \in AnyQuery
  /\ rPool \in Pools \cup {None} /\ rCount \in Nat /\ i \in Nat \ {0}
  /\ cur \in Components \cup {None} /\ (pc = "class" => cur # None)
  /\ found \in Seq(Components \cup {None})
  /\ seen \in SUBSET Components /\ start \in BOOLEAN /\ quiet \in BOOLEAN

Returned == {found[k] : k \in 1..Len(found)} \ {None}

\* As long as the array is not replaced, components may be added and removed
\* under the reader: what a query returns is a component the GameObject has
\* had since the query began, never what a removal left behind the count.
ReturnedWasAttached == start => Returned \subseteq seen

\* A query during which nothing changes returns the first component that
\* matches among the slots it looks at, or all of these.
Looked == IF count <= Cap THEN 1..count ELSE 1..Cap

Asked ==
  IF query.kind = "typeName"
    THEN {c \in Components : NameOf[TypeOf[c]] = query.of}
    ELSE {c \in Components : TypeOf[c] = query.of}

MatchAt(k) ==
  /\ slots[pool][k] \in Asked
  /\ query.kind # "typeId" => slots[pool][k] \notin unreadable

QuietExact ==
  pc = "done" /\ quiet =>
    IF query.kind = "all" THEN found = [k \in Looked |-> slots[pool][k]]
    ELSE \/ /\ found = <<>>
            /\ \A k \in Looked : ~ MatchAt(k)
         \/ \E k \in Looked :
              /\ MatchAt(k) /\ \A j \in Looked : j < k => ~ MatchAt(j)
              /\ found = <<slots[pool][k]>>
===============================================================================
