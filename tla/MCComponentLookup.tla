-------------------------- MODULE MCComponentLookup ---------------------------
(***************************************************************************)
(* ComponentLookup with three components of three classes, two of which    *)
(* have the same name, and an array of three slots and one of a single     *)
(* slot.  One of the components may lose its managed object.               *)
(***************************************************************************)
EXTENDS ComponentLookup, TLC

VARIABLES
  world,
  \* TransformTree; its other variables have names of ComponentLookup's
  step, parent, place, parents, owner, array, kids, childCount, state, index, acc,
  stack, entry, childrenPtr, turn, childrenCount, visited, bones, moves, torn, reused, links, cut

Idle == "idle"
treeVars == <<step, parent, place, parents, owner, array, kids, childCount, state, index, acc,
              stack, entry, childrenPtr, turn, childrenCount, visited, bones,
              moves, torn, reused, links, cut>>
allVars == <<world, vars, treeVars>>

CONSTANTS c1, c2, c3, transform, script, lookalike, large, small

MCComponents == {c1, c2, c3}
MCFickle == {c1}
MCPools == {large, small}
MCPoolSize == large :> 3 @@ small :> 1
MCTypes == {transform, script, lookalike}
MCTypeOf == c1 :> transform @@ c2 :> script @@ c3 :> lookalike
MCNames == {"Transform", "Script"}
MCNameOf == transform :> "Transform" @@ script :> "Script" @@ lookalike :> "Transform"

MCQueries ==
  {[kind |-> "typeId", of |-> script], [kind |-> "typeName", of |-> "Transform"],
   [kind |-> "class", of |-> transform], [kind |-> "all", of |-> None]}

(***************************************************************************)
(* TransformTree with four transforms: a chain of three in one hierarchy   *)
(* and a root in another, or a root with two children and another root, or *)
(* a root with a child that has two, or a chain of all four, up and down,  *)
(* which is deeper than the limit; two parents set during a call.          *)
(***************************************************************************)
CONSTANTS
  Transforms, Start, Trees, Hierarchies, Slots, Bare,
  MaxDepth, MaxNodes, MaxChildren, Left, MaxMoves

At(h, s) == [h |-> h, i |-> s]
Chain ==
  [parent |-> 1 :> 2 @@ 2 :> 3 @@ 3 :> None @@ 4 :> None,
   place |-> 1 :> At(1, 3) @@ 2 :> At(1, 2) @@ 3 :> At(1, 1) @@ 4 :> At(2, 1)]
Fork ==
  [parent |-> 1 :> None @@ 2 :> 1 @@ 3 :> 1 @@ 4 :> None,
   place |-> 1 :> At(1, 2) @@ 2 :> At(1, 1) @@ 3 :> At(1, 3) @@ 4 :> At(2, 3)]
Deep ==
  [parent |-> 1 :> None @@ 2 :> 1 @@ 3 :> 2 @@ 4 :> 2,
   place |-> 1 :> At(1, 1) @@ 2 :> At(1, 2) @@ 3 :> At(1, 3) @@ 4 :> At(1, 4)]

Up ==
  [parent |-> 1 :> 2 @@ 2 :> 3 @@ 3 :> 4 @@ 4 :> None,
   place |-> [t \in 1..4 |-> At(1, t)]]
Down ==
  [parent |-> 1 :> None @@ 2 :> 1 @@ 3 :> 2 @@ 4 :> 3,
   place |-> [t \in 1..4 |-> At(1, t)]]

MCTransforms == 1..4
MCTrees == {Chain, Fork, Deep, Up, Down}
MCHierarchies == {1, 2}
MCBare == {2}
MCLeft == {3, None}

\* A transform is as many levels below its root as its parent, and one.
Level(p, d) == \A x \in Transforms : p[x] # None => d[x] = d[p[x]] + 1

\* The trees a target may have: a transform has a slot of its own, in the
\* hierarchy of its parent, and is not below itself.
ASSUME TreeAssumption ==
  /\ IsFiniteSet(Transforms) /\ None \notin Transforms
  /\ Start \in Transforms /\ Left \subseteq Transforms \cup {None}
  /\ Slots \in Nat /\ MaxDepth \in Nat /\ MaxNodes \in Nat /\ MaxChildren \in Nat /\ MaxMoves \in Nat
  /\ \A tree \in Trees :
       /\ tree.parent \in [Transforms -> Transforms \cup {None}]
       /\ tree.place \in [Transforms -> [h : Hierarchies, i : 1..Slots]]
       /\ \A x, y \in Transforms : tree.place[x] = tree.place[y] => x = y
       /\ \A x \in Transforms : tree.parent[x] # None => tree.place[tree.parent[x]].h = tree.place[x].h
       /\ \E d \in [Transforms -> 0..Cardinality(Transforms)] : Level(tree.parent, d)

Tree == INSTANCE TransformTree WITH
  pc <- step, count <- childCount, cur <- entry, i <- turn, out <- bones

TreeIdle ==
  /\ step = Idle /\ parent = Idle /\ place = Idle /\ parents = Idle /\ owner = Idle /\ array = Idle
  /\ kids = Idle /\ childCount = Idle /\ state = Idle /\ index = Idle /\ acc = Idle
  /\ stack = Idle /\ entry = Idle /\ childrenPtr = Idle /\ turn = Idle /\ childrenCount = Idle
  /\ visited = Idle /\ bones = Idle
  /\ moves = Idle /\ torn = Idle /\ reused = Idle /\ links = Idle /\ cut = Idle

\* The position is that of a path of the target, if what was read of the start
\* belongs together; in a tree at rest the path is whole, or as long as is
\* allowed, and then the position is not one in the world.
PathIsOfTarget == world = "tree" => Tree!PathWasLinked /\ Tree!PathIsWhole

\* No bone is reported twice; unless an array of children is replaced while it
\* is read, the bones are transforms below the start, and when nothing was moved
\* all that the limits and the reads that failed allow.
BonesAreOfTarget ==
  world = "tree" => Tree!NoBoneTwice /\ Tree!BonesWereBelow /\ Tree!BonesAreAll

AllInit ==
  \/ world = "component" /\ Init /\ TreeIdle
  \/ world = "tree" /\ Tree!Init /\ Init
ComponentNext == world = "component" /\ Next /\ UNCHANGED <<world, treeVars>>
TreeNext == world = "tree" /\ Tree!Next /\ UNCHANGED <<world, vars>>
AllNext == ComponentNext \/ TreeNext
AllSpec == AllInit /\ [][AllNext]_allVars
==============================================================================
