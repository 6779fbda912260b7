---------------------------- MODULE TransformTree ----------------------------
(***************************************************************************)
(* The two walks over the transforms of a running target: from one to its  *)
(* root, for its position in the world (transform.hpp), and from one to    *)
(* everything below it (init/bones.hpp).                                   *)
(*                                                                         *)
(* A transform has a slot (index) of a hierarchy, which keeps one array of *)
(* nodes and one of parents in their places, and an array of children with *)
(* their number, whose array may be replaced by another when one is added. *)
(* Setting the parent moves a transform, with all below it, to free slots  *)
(* of the new parent's hierarchy; words left behind stay what they were.   *)
(* One action is one read, which may fail, and the code up to the next     *)
(* one.  A position is the sequence of the nodes it was computed from.     *)
(***************************************************************************)
EXTENDS Integers, SequencesExt

CONSTANTS
  Transforms,
  Start,       \* the transform a call is about
  Trees,       \* [parent, place] a target may start with
  Hierarchies, Slots,
  Bare,        \* transforms whose GameObject cannot be read
  MaxDepth,    \* maxDepth of either walk (50, 10)
  MaxNodes,    \* maxNodes (4096)
  MaxChildren, \* 99
  Left,        \* what may lie behind the end of an array, or where one was
  MaxMoves,    \* bound: times the target sets a parent during a call
  None

VARIABLES
  pc,
  \* the target
  parent,      \* per transform its parent or None
  place,       \* per transform [h, i]: its hierarchy and slot
  parents,     \* per hierarchy and slot the parent's slot, 0 for none (-1)
  owner,       \* per hierarchy and slot the transform whose node is there
  array,       \* per transform the number of its array of children, 0 for none yet
  kids, count, \* per transform the words of that array; the number of children
  \* GetTransformWorldPosition
  state, index, acc,
  \* GetBoneTransformAll
  stack, cur, childrenPtr, i, childrenCount, visited, out,
  \* history of the call, not in the code
  moves,  \* parents set since it began
  torn,   \* words were read that do not belong together: a slot of one hierarchy
          \* for the arrays of another, or of an array of children that was replaced
  reused, \* a slot that was somebody else's has been used since it began
  links,  \* [child, parent] that held at some time since then
  cut     \* the words for the children that could not be read

tree == <<parent, place, parents, owner, array, kids, count>>
posLocals == <<state, index, acc>>
boneLocals == <<stack, cur, childrenPtr, i, childrenCount, visited, out>>
history == <<moves, torn, reused, links, cut>>
vars == <<pc, tree, posLocals, boneLocals, history>>

LinksOf(p) == {<<t, p[t]>> : t \in {u \in Transforms : p[u] # None}}

Holder(l, h, s) ==
  IF \E t \in Transforms : l[t] = [h |-> h, i |-> s]
    THEN CHOOSE t \in Transforms : l[t] = [h |-> h, i |-> s] ELSE None

NoEntry == [at |-> None, depth |-> 0]

ChildrenOf(p, t) == {u \in Transforms : p[u] = t}

Init ==
  /\ \E t \in Trees :
       /\ parent = t.parent /\ place = t.place
       /\ owner = [h \in Hierarchies |-> [s \in 1..Slots |-> Holder(place, h, s)]]
  /\ parents = [h \in Hierarchies |-> [s \in 1..Slots |->
                  IF owner[h][s] = None \/ parent[owner[h][s]] = None
                    THEN 0 ELSE place[parent[owner[h][s]]].i]]
  /\ count = [t \in Transforms |-> Cardinality(ChildrenOf(parent, t))]
  /\ array = [t \in Transforms |-> IF count[t] = 0 THEN 0 ELSE 1]
  \* Behind its end an array has what was left there.
  /\ \E left \in Left :
       kids = [t \in Transforms |-> [j \in 1..Cardinality(Transforms) |->
                 IF j <= count[t] THEN SetToSeq(ChildrenOf(parent, t))[j] ELSE left]]
  /\ pc \in {"state", "bone"}
  /\ state = None /\ index = 0 /\ acc = <<>>
  /\ stack = IF pc = "bone" THEN <<[at |-> Start, depth |-> 0]>> ELSE <<>>
  /\ cur = NoEntry /\ childrenPtr = 0 /\ i = 0 /\ childrenCount = 0 /\ visited = {} /\ out = <<>>
  /\ moves = 0 /\ torn = FALSE /\ reused = FALSE /\ links = LinksOf(parent) /\ cut = {}

Target == UNCHANGED <<tree, moves, reused, links>>
NothingLost == UNCHANGED <<torn, cut>>

(***************************************************************************)
(* ReadTransformHierarchyState: the hierarchy, the addresses of its two    *)
(* arrays, and then the slot.                                              *)
(***************************************************************************)
ReadState ==
  /\ pc = "state"
  /\ state' = place[Start].h
  /\ pc' = "nodeData"
  /\ Target /\ NothingLost /\ UNCHANGED <<index, acc, boneLocals>>

\* The arrays stay where they are, so that their addresses are those of state.
ReadArrays ==
  /\ \/ pc = "nodeData" /\ pc' = "parentIndices"
     \/ pc = "parentIndices" /\ pc' = "index"
  /\ Target /\ NothingLost /\ UNCHANGED <<posLocals, boneLocals>>

\* Mutant: the slots are counted from one.
SlotAfter == IF place[Start].i < Slots THEN place[Start].i + 1 ELSE 1

SlotOfStart == place[Start].i

ReadIndex ==
  /\ pc = "index"
  /\ index' = SlotOfStart
  /\ torn' = (place[Start].h # state)
  /\ pc' = "node"
  /\ Target /\ UNCHANGED <<cut, state, acc, boneLocals>>

(***************************************************************************)
(* ComputeWorldPositionFromHierarchy: the node of a slot, then the slot of *)
(* its parent.                                                             *)
(***************************************************************************)
ReadNode ==
  /\ pc = "node"
  /\ acc' = Append(acc, owner[state][index])
  /\ pc' = "parent"
  /\ Target /\ NothingLost /\ UNCHANGED <<state, index, boneLocals>>

\* Mutant: the loop ends one parent early.
OneParentLess(p) == p > 0 /\ Len(acc) < MaxDepth

\* while (parent >= 0 && depth < maxDepth); the nodes read but the first
\* are depth.
GoesUp(p) == p > 0 /\ Len(acc) - 1 < MaxDepth

ReadParent ==
  /\ pc = "parent"
  /\ index' = parents[state][index]
  /\ pc' = IF GoesUp(index') THEN "node" ELSE "done"
  /\ Target /\ NothingLost /\ UNCHANGED <<state, acc, boneLocals>>

\* return false, at any of these reads.
PositionUnread ==
  /\ pc \in {"state", "nodeData", "parentIndices", "index", "node", "parent"}
  /\ pc' = "failed"
  /\ Target /\ NothingLost /\ UNCHANGED <<posLocals, boneLocals>>

(***************************************************************************)
(* GetBoneTransformAll: depth first with a stack.                          *)
(***************************************************************************)

\* Mutant: the deepest level is left out.
NotDeepest(e) == e.depth >= MaxDepth \/ e.at \in visited

\* Mutant: nothing remembers what has been visited.
TooDeep(e) == e.depth > MaxDepth

\* The continue at the top of a turn.
Skipped(e) == e.depth > MaxDepth \/ e.at \in visited

VisitBone ==
  /\ pc = "bone" /\ stack # <<>>
  /\ stack' = SubSeq(stack, 1, Len(stack) - 1)
  /\ LET e == stack[Len(stack)] IN
     IF Skipped(e)
       THEN UNCHANGED <<pc, cur, visited, out>>
       ELSE /\ visited' = visited \cup {e.at}
            /\ cur' = e
            /\ out' = IF e.at \in Bare THEN out ELSE Append(out, e.at)
            /\ pc' = IF e.at \notin Bare /\ Len(out') >= MaxNodes THEN "done" ELSE "children"
  /\ Target /\ NothingLost /\ UNCHANGED <<posLocals, childrenPtr, i, childrenCount>>

\* The next bone; what was read of this one is forgotten.
EndOfTurn ==
  pc' = "bone" /\ cur' = NoEntry /\ childrenPtr' = 0 /\ i' = 0 /\ childrenCount' = 0

ReadChildren ==
  /\ pc = "children"
  /\ IF array[cur.at] = 0
       THEN EndOfTurn
       ELSE /\ childrenPtr' = array[cur.at]
            /\ pc' = "count"
            /\ UNCHANGED <<cur, i, childrenCount>>
  /\ Target /\ NothingLost /\ UNCHANGED <<posLocals, stack, visited, out>>

Torn == torn' = (torn \/ childrenPtr # array[cur.at])

ReadCount ==
  /\ pc = "count"
  /\ IF count[cur.at] \in 1..MaxChildren
       THEN childrenCount' = count[cur.at] /\ pc' = "child" /\ UNCHANGED <<cur, childrenPtr, i>>
       ELSE EndOfTurn
  /\ Torn
  /\ Target /\ UNCHANGED <<cut, posLocals, stack, visited, out>>

\* continue: the address of the array or the count cannot be read.
ChildrenUnread ==
  /\ pc \in {"children", "count"}
  /\ EndOfTurn
  /\ cut' = cut \cup ChildrenOf(parent, cur.at)
  /\ Target /\ UNCHANGED <<torn, posLocals, stack, visited, out>>

\* Mutant: one word more is taken for a child.
OneMore == i <= childrenCount

\* i < childrenCount
InArray == i < childrenCount

\* The word at i of the array; where an array was there may be anything.
ChildWords == IF childrenPtr = array[cur.at] THEN {kids[cur.at][i + 1]} ELSE Left

ReadChild ==
  /\ pc = "child" /\ InArray
  /\ \E child \in ChildWords :
       stack' = IF child = None THEN stack
                                ELSE Append(stack, [at |-> child, depth |-> cur.depth + 1])
  /\ i' = i + 1
  /\ Torn
  /\ Target /\ UNCHANGED <<cut, pc, posLocals, cur, childrenPtr, childrenCount, visited, out>>

ChildUnread ==
  /\ pc = "child" /\ InArray
  /\ i' = i + 1
  /\ cut' = cut \cup ChildWords
  /\ Target /\ UNCHANGED <<torn, pc, posLocals, stack, cur, childrenPtr, childrenCount, visited, out>>

ChildrenDone ==
  /\ pc = "child" /\ ~ InArray
  /\ EndOfTurn
  /\ Target /\ NothingLost /\ UNCHANGED <<posLocals, stack, visited, out>>

BonesDone ==
  /\ pc = "bone" /\ stack = <<>>
  /\ pc' = "done"
  /\ Target /\ NothingLost /\ UNCHANGED <<posLocals, boneLocals>>

Walk ==
  \/ ReadState \/ ReadArrays \/ ReadIndex \/ ReadNode \/ ReadParent \/ PositionUnread
  \/ VisitBone \/ ReadChildren \/ ReadCount \/ ChildrenUnread
  \/ ReadChild \/ ChildUnread \/ ChildrenDone \/ BonesDone

(***************************************************************************)
(* The target: SetParent of t to p, which is not below t.                  *)
(***************************************************************************)

\* t and all below it: the least set with t that has the children of what it has.
Below(p, t) ==
  {u \in Transforms : \A s \in SUBSET Transforms :
     (t \in s /\ \A c \in Transforms : p[c] \in s => c \in s) => u \in s}

FreeSlots(h) == {s \in 1..Slots : \A u \in Transforms : place[u] # [h |-> h, i |-> s]}

\* Where the transforms below t may go.
NewPlaces(t, h) ==
  IF place[t].h = h THEN {place}
  ELSE {[u \in Transforms |-> IF u \in DOMAIN f THEN [h |-> h, i |-> f[u]] ELSE place[u]] :
          f \in {g \in [Below(parent, t) -> FreeSlots(h)] :
                  \A u, v \in DOMAIN g : g[u] = g[v] => u = v}}

\* The words before the removed one stay, those behind move up, the last one
\* stays behind.
Removed(row, n, t) ==
  LET k == CHOOSE j \in 1..n : row[j] = t IN
  [j \in DOMAIN row |-> IF j < k \/ j >= n THEN row[j] ELSE row[j + 1]]

SetParent(t, p) ==
  /\ pc \notin {"done", "failed"} /\ moves < MaxMoves
  /\ p \notin Below(parent, t) /\ parent[t] # p
  /\ parent' = [parent EXCEPT ![t] = p]
  /\ place' \in NewPlaces(t, place[p].h)
  /\ owner' = [h \in Hierarchies |-> [s \in 1..Slots |->
                 IF Holder(place', h, s) = None THEN owner[h][s] ELSE Holder(place', h, s)]]
  /\ parents' = [h \in Hierarchies |-> [s \in 1..Slots |->
                   IF Holder(place', h, s) = None THEN parents[h][s]
                   ELSE IF parent'[Holder(place', h, s)] = None THEN 0
                   ELSE place'[parent'[Holder(place', h, s)]].i]]
  /\ LET old == parent[t]
         less == IF old = None THEN kids ELSE [kids EXCEPT ![old] = Removed(@, count[old], t)]
     IN  /\ kids' = [less EXCEPT ![p] = [@ EXCEPT ![count[p] + 1] = t]]
         /\ count' = [u \in Transforms |-> IF u = old THEN count[u] - 1
                                           ELSE IF u = p THEN count[u] + 1 ELSE count[u]]
  \* The array of the new parent may be replaced by a larger one.
  /\ \E new \in {array[p], array[p] + 1} \ {0} : array' = [array EXCEPT ![p] = new]
  /\ moves' = moves + 1
  /\ reused' = (reused \/ \E h \in Hierarchies, s \in 1..Slots : owner[h][s] # None /\ owner'[h][s] # owner[h][s])
  /\ links' = links \cup LinksOf(parent')
  /\ NothingLost /\ UNCHANGED <<pc, posLocals, boneLocals>>

Next == Walk \/ \E t, p \in Transforms : SetParent(t, p)

(***************************************************************************)
(* Properties.                                                             *)
(***************************************************************************)

\* However the transforms move, and wherever else the one asked about goes, a
\* position is computed along transforms each of which was the parent of the
\* one before at some time during the call, although the words of the path are
\* read one after the other; unless a slot gets another owner meanwhile, or the
\* one asked about is in another hierarchy by the time its slot is read.
PathWasLinked ==
  (acc # <<>> /\ ~ torn /\ ~ reused) =>
    /\ acc[1] = Start
    /\ \A k \in 1..(Len(acc) - 1) : <<acc[k], acc[k + 1]>> \in links

\* The position in a tree that stands still takes in every parent up to the
\* root if there are no more than MaxDepth.  Of a transform further down it
\* takes in exactly that many and is given out all the same, though it is not
\* one in the world.
PathIsWhole ==
  (pc = "done" /\ acc # <<>> /\ moves = 0) =>
    IF Len(acc) <= MaxDepth THEN parent[acc[Len(acc)]] = None ELSE Len(acc) = MaxDepth + 1

\* However the tree moves, no bone is reported twice.
NoBoneTwice == \A j, k \in 1..Len(out) : out[j] = out[k] => j = k

\* However parents are set, a bone was a child of another visited one at some
\* time during the call; what a shrinking array leaves behind its end is not
\* taken for a child.  That ends where an array is replaced between the read of
\* its address and those of its count and words.
BonesWereBelow ==
  ~ torn => \A t \in visited \ {Start} : \E p \in visited : <<t, p>> \in links

\* Down from Start, each the parent of the next and none with too many children.
IsPath(f, n) ==
  /\ f[0] = Start
  /\ \A k \in 0..(n - 1) : parent[f[k + 1]] = f[k] /\ count[f[k]] <= MaxChildren

\* Within the limits below Start, and not cut off by any of lost.
Reach(lost) ==
  {t \in Transforms : \E n \in 0..MaxDepth : \E f \in [0..n -> Transforms] :
     IsPath(f, n) /\ f[n] = t /\ \A k \in 1..n : f[k] \notin lost}

\* In a tree that stands still the bones are within the limits, and include all
\* there with a GameObject, except what a word for a child that could not
\* be read cuts off.
BonesAreAll ==
  (pc = "done" /\ acc = <<>> /\ moves = 0 /\ Len(out) < MaxNodes) =>
    /\ {out[k] : k \in 1..Len(out)} \subseteq Reach({}) \ Bare
    /\ Reach(cut) \ Bare \subseteq {out[k] : k \in 1..Len(out)}
==============================================================================
