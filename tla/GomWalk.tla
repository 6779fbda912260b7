------------------------------- MODULE GomWalk -------------------------------
(***************************************************************************)
(* EnumerateGameObjects (gom_walker.hpp): collect the buckets of the       *)
(* manager's table, walk the list of each, then walk the local list, with  *)
(* one set of visited node addresses for the whole call.                   *)
(*                                                                         *)
(* One action is one read of target memory and the code up to the next     *)
(* one; the target of GomTarget and GomTable moves in between.  A node's   *)
(* 24 bytes are one read: native_object never changes while the node       *)
(* exists, so only the word next can be seen at different times.           *)
(*                                                                         *)
(* EnumerateGameObjects can be called again and again; each call starts    *)
(* from nothing, and its locals are gone when it returns.                  *)
(***************************************************************************)
EXTENDS GomTarget, GomTable

CONSTANTS
  LocalHead,  \* manager + 0x28: head of the local GameObject list
  HeadWord,   \* what lies where a head would have its native_object
  MaxNodes,   \* kMaxNodesPerBucket (200000)
  MaxBuckets  \* the sanity limit on bucketCount (0x100000)

ASSUME WalkAssumption ==
  /\ LocalHead \in Heads
  /\ Nothing = Null
  /\ Layout \in [Tables -> Seq(Heads \cup {Null})]
  /\ MaxNodes \in Nat \ {0}
  /\ MaxBuckets \in Nat

VARIABLES
  pc,        \* where the call is
  rBase,     \* bucketsBase
  rCount,    \* bucketCount
  slot,      \* bi
  buckets,   \* outBuckets, as slots of rBase
  phase,     \* which of the two node loops runs
  list,      \* listHead / localListHead
  node,      \* node
  steps,     \* nodeCount
  visited,   \* visitedNodes
  out,       \* out, as the nodes of its entries
  \* history of the current call, not in the code
  seen,      \* nodes that have been on a list since the call began
  kept,      \* objects that have been on a list ever since the call began
  quiet      \* the table was whole then; nothing was unlinked, no table changed since

callVars == <<pc, rBase, rCount, slot, buckets, phase, list, node, steps, visited, out>>
history == <<seen, kept, quiet>>
vars == <<targetVars, tableVars, callVars, history>>

NativeWord(n) == IF n \in Objects THEN n ELSE HeadWord[n]

Emitted == {out[i] : i \in 1..Len(out)}

\* No call is running: its locals are not there.
NoCall ==
  /\ rBase = Null /\ rCount = 0 /\ slot = 1 /\ buckets = <<>>
  /\ phase = "buckets" /\ list = LocalHead /\ node = LocalHead /\ steps = 0
  /\ visited = {}
  /\ out = <<>>
  /\ seen = {} /\ kept = {} /\ quiet = FALSE

Init ==
  /\ TargetInit
  /\ TableInit
  /\ pc = "idle"
  /\ NoCall

(***************************************************************************)
(* The call.                                                               *)
(***************************************************************************)

\* out.clear(), fresh visitedNodes, GetGomManagerFromGlobalSlot.
Begin ==
  /\ pc = "idle"
  /\ pc' = IF base = Nothing THEN "done" ELSE "base"
  /\ seen' = linked /\ kept' = linked \ Heads /\ quiet' = Settled
  /\ UNCHANGED <<targetVars, tableVars, rBase, rCount, slot, buckets, phase, list, node,
                 steps, visited, out>>

\* The caller has taken out; the call's locals are gone.
Return ==
  /\ pc = "done"
  /\ pc' = "idle"
  /\ rBase' = Null /\ rCount' = 0 /\ slot' = 1 /\ buckets' = <<>>
  /\ phase' = "buckets" /\ list' = LocalHead /\ node' = LocalHead /\ steps' = 0
  /\ visited' = {}
  /\ out' = <<>>
  /\ seen' = {} /\ kept' = {} /\ quiet' = FALSE
  /\ UNCHANGED <<targetVars, tableVars>>

\* GetGomBucketsPtr.
ReadBase ==
  /\ pc = "base"
  /\ rBase' = base
  /\ pc' = "count"
  /\ UNCHANGED <<targetVars, tableVars, rCount, slot, buckets, phase, list, node, steps,
                 visited, out, history>>

\* GetGomBucketCount and its sanity check.
ReadCount ==
  /\ pc = "count"
  /\ rCount' = count
  /\ pc' = IF count \in 1..MaxBuckets THEN "collect" ELSE "local"
  /\ UNCHANGED <<targetVars, tableVars, rBase, slot, buckets, phase, list, node, steps,
                 visited, out, history>>

\* The loop of GetAllLinkedBucketsFromManager: keep slots that hash to their
\* key and have a list head.
CollectBucket ==
  /\ pc = "collect"
  /\ buckets' = IF SlotHead(rBase, slot) = Null THEN buckets ELSE Append(buckets, slot)
  /\ slot' = slot + 1
  /\ pc' = IF slot + 1 > rCount THEN "bucket" ELSE "collect"
  /\ UNCHANGED <<targetVars, tableVars, rBase, rCount, phase, list, node, steps,
                 visited, out, history>>

\* The for over buckets: the list head is read a second time, from the slot
\* address collected before.
EnterBucket ==
  /\ pc = "bucket"
  /\ buckets # <<>>
  /\ buckets' = Tail(buckets)
  /\ LET h == SlotHead(rBase, Head(buckets)) IN
       IF h = Null
         THEN UNCHANGED <<pc, list, node, steps>>
         ELSE list' = h /\ node' = h /\ steps' = 0 /\ pc' = "node"
  /\ UNCHANGED <<targetVars, tableVars, rBase, rCount, slot, phase, visited, out, history>>

LastBucket ==
  /\ pc = "bucket"
  /\ buckets = <<>>
  /\ pc' = "local"
  /\ UNCHANGED <<targetVars, tableVars, rBase, rCount, slot, buckets, phase, list, node,
                 steps, visited, out, history>>

\* GetGomLocalGameObjectListHead.
EnterLocal ==
  /\ pc = "local"
  /\ phase' = "local"
  /\ list' = LocalHead /\ node' = LocalHead /\ steps' = 0
  /\ pc' = "node"
  /\ UNCHANGED <<targetVars, tableVars, rBase, rCount, slot, buckets, visited, out, history>>

\* Mutant: a failed read is tried again.
AfterListRetry ==
  IF ~ Readable(node) THEN "node" ELSE IF phase = "buckets" THEN "bucket" ELSE "done"

AfterList == IF phase = "buckets" THEN "bucket" ELSE "done"

\* Mutant: nothing remembers the visited nodes.
StopsUnlessRead == ~ Readable(node)

\* The breaks at the top of a turn.
Stops == node \in visited \/ ~ Readable(node)

\* Mutant: the list is walked through the other word.
Backward(n) == prev[n]

\* nodeStruct.next
Forward(n) == next[n]

\* Mutant: a zero word is followed.
OnlyHeadEnds(w) == w = list

\* The break at the bottom of a turn.
EndsList(w) == w \in {Null, list}

\* Mutant: the end of the list is seen before the node is reported.
EntryUnlessLast(n) ==
  IF NativeWord(n) = Null \/ EndsList(next[n]) THEN out ELSE Append(out, n)

\* out after the node has been looked at.
Entry(n) == IF NativeWord(n) = Null THEN out ELSE Append(out, n)

\* One turn of either do-while.
VisitNode ==
  /\ pc = "node"
  /\ visited' = visited \cup {node}
  /\ IF Stops
       THEN pc' = AfterList /\ UNCHANGED <<out, node, steps>>
       ELSE /\ out' = Entry(node)
            /\ IF EndsList(Forward(node))
                 THEN pc' = AfterList /\ UNCHANGED <<node, steps>>
                 ELSE /\ node' = Forward(node)
                      /\ steps' = steps + 1
                      /\ pc' = IF steps + 1 < MaxNodes THEN "node" ELSE AfterList
  /\ UNCHANGED <<targetVars, tableVars, rBase, rCount, slot, buckets, phase, list, history>>

Reader ==
  \/ ReadBase \/ ReadCount \/ CollectBucket \/ EnterBucket \/ LastBucket
  \/ EnterLocal \/ VisitNode

(***************************************************************************)
(* The target, with the history it leaves for the current call.  What it   *)
(* does between two calls it does while pc = "idle".                       *)
(***************************************************************************)
ListStep ==
  /\ pc # "done"
  /\ \/ \E o \in Objects : \/ \E p \in linked : Link(o, p)
                           \/ Unlink(o)
                           \/ Unmap(o)
     \/ WriteBack
  /\ seen' = IF pc = "idle" THEN seen ELSE seen \cup linked'
  /\ kept' = kept \cap linked'
  /\ quiet' = (quiet /\ linked \subseteq linked')
  /\ UNCHANGED <<tableVars, callVars>>

TableStep ==
  /\ pc # "done"
  /\ CreateManager \/ RehashBase \/ RehashCount \/ FinishRehash \/ FreeTable
  /\ quiet' = FALSE
  /\ UNCHANGED <<targetVars, callVars, seen, kept>>

Next == Begin \/ Return \/ Reader \/ ListStep \/ TableStep

Spec == Init /\ [][Next]_vars

\* The calling thread keeps running; nothing is assumed of the target.
FairSpec == Spec /\ WF_vars(Reader)

(***************************************************************************)
(* Properties.                                                             *)
(***************************************************************************)
Pcs == {"idle", "base", "count", "collect", "bucket", "local", "node", "done"}

\* Type invariant of the call and the target it reads.
TypeOK ==
  /\ TargetTypeOK
  /\ pc \in Pcs
  /\ rBase \in Tables \cup {Null}
  /\ rCount \in Nat /\ slot \in Nat \ {0} /\ steps \in Nat
  /\ buckets \in Seq(Nat \ {0})
  /\ phase \in {"buckets", "local"}
  /\ list \in Heads
  /\ node \in Nodes
  /\ visited \in SUBSET Nodes
  /\ out \in Seq(Nodes)
  /\ seen \in SUBSET Nodes
  /\ kept \in SUBSET Objects
  /\ quiet \in BOOLEAN

\* No node is reported twice by one call, although lists share the visited
\* set and the target moves nodes between lists during the call
\* (visitedNodes, gom_walker.hpp).
NoDuplicateEntry == \A i, j \in 1..Len(out) : out[i] = out[j] => i = j

\* Whatever the target does to the lists meanwhile, including leaving stale
\* pointers in nodes it took out, an entry is a node that was on a list at
\* some time during the call: the walk never strays into a node that had been
\* taken off before the call began.
EmittedWasLinked == Emitted \subseteq seen

\* A call during which the target only added objects (it may add any number,
\* anywhere) and left its table alone reports every object that was there
\* when the call began.
InsertOnlyComplete == (pc = "done" /\ quiet) => kept \subseteq Emitted

\* What that takes: the limits the walk gives up at (kMaxNodesPerBucket, the
\* sanity limit on bucketCount) lie beyond what the target has, and every list
\* but the local one is reached from each table.
LimitsHold ==
  /\ IsFiniteSet(Nodes) /\ Cardinality(Nodes) <= MaxNodes
  /\ \A t \in Tables :
       /\ Len(Layout[t]) <= MaxBuckets
       /\ \A h \in Heads \ {LocalHead} : \E i \in 1..Len(Layout[t]) : Layout[t][i] = h

\* A call ends, even if the target keeps relinking nodes forever.
CallEnds == (pc = "base") ~> (pc = "done")

\* gom_list_node.hpp:38: the list head is a header, the first node is its
\* next.  Every entry is a GameObject's node.
OnlyGameObjects == Emitted \cap Heads = {}

\* The enumeration implements the listing other parts are built on: with
\* nodes on lists as what is there, every step is one of the listing's.
Phase == CASE pc = "idle" -> "idle" [] pc = "done" -> "answered" [] OTHER -> "running"

Listing == INSTANCE ObjectListing WITH
  Things <- Nodes, phase <- Phase, present <- linked, reported <- Emitted

ImplementsListing == Listing!Spec
==============================================================================
