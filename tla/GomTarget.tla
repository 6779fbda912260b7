------------------------------ MODULE GomTarget ------------------------------
(***************************************************************************)
(* The part of the target process that the GameObjectManager readers walk: *)
(* circular doubly linked lists of nodes, one list per tag bucket and one  *)
(* local list, and the hash table of buckets that leads to them.           *)
(*                                                                         *)
(* The target is another process (or, for LocalMemoryAccessor, other       *)
(* threads of this one): it is not part of the library, no lock is shared  *)
(* with it, and it moves between any two reads.  Its layout is the one the *)
(* readers assume (gom_offsets.hpp): a node is the words prev, next,       *)
(* native_object; a list is reached through its head.                      *)
(*                                                                         *)
(* Updates are written a word at a time, forward pointer first, so that a  *)
(* reader can see a half-made change (pending # NoWrite).                  *)
(***************************************************************************)
EXTENDS Naturals, FiniteSets

CONSTANTS
  Objects,   \* list nodes embedded in GameObjects
  Heads,     \* list heads
  Leaves,    \* what Unlink may leave in a node: some of {"stale", "zero", "self"}
  Null       \* the zero word

ASSUME TargetAssumption ==
  /\ Objects \cap Heads = {}
  /\ Null \notin Objects \cup Heads
  /\ Leaves \subseteq {"stale", "zero", "self"}

VARIABLES
  next,      \* word at node + 0x08
  prev,      \* word at node + 0x00
  linked,    \* nodes on some list (heads always are)
  unmapped,  \* nodes whose page has been given back: reads fail
  pending    \* the backward-pointer write still to be made, or NoWrite

targetVars == <<next, prev, linked, unmapped, pending>>

Nodes == Objects \cup Heads
Words == Nodes \cup {Null}
NoWrite == [at |-> Null, word |-> Null]

(***************************************************************************)
(* A read fails exactly on pages that are not there.                       *)
(***************************************************************************)
Readable(n) == n \in Nodes /\ n \notin unmapped

(***************************************************************************)
(* Lists start empty, a head pointing at itself both ways.                 *)
(***************************************************************************)
TargetInit ==
  /\ next = [n \in Nodes |-> IF n \in Heads THEN n ELSE Null]
  /\ prev = [n \in Nodes |-> IF n \in Heads THEN n ELSE Null]
  /\ linked = Heads
  /\ unmapped = {}
  /\ pending = NoWrite

(***************************************************************************)
(* Link o behind the linked node p.  o's own words are written before any  *)
(* list node points at it.                                                 *)
(***************************************************************************)
Link(o, p) ==
  /\ pending = NoWrite
  /\ o \notin linked
  /\ p \in linked
  /\ next' = [next EXCEPT ![o] = next[p], ![p] = o]
  /\ prev' = [prev EXCEPT ![o] = p]
  /\ linked' = linked \cup {o}
  /\ unmapped' = unmapped \ {o}
  /\ pending' = [at |-> next[p], word |-> o]

(***************************************************************************)
(* Unlink o.  What is left in its own words is up to the target: the old   *)
(* neighbours, zeroes, or o itself.                                        *)
(***************************************************************************)
Leave(o, kind, old) ==
  CASE kind = "stale" -> old
    [] kind = "zero"  -> Null
    [] kind = "self"  -> o

Unlink(o) ==
  /\ pending = NoWrite
  /\ o \in linked \ Heads
  /\ \E kind \in Leaves :
       /\ next' = [next EXCEPT ![prev[o]] = next[o], ![o] = Leave(o, kind, next[o])]
       /\ prev' = [prev EXCEPT ![o] = Leave(o, kind, prev[o])]
  /\ linked' = linked \ {o}
  /\ pending' = [at |-> next[o], word |-> prev[o]]
  /\ UNCHANGED unmapped

(***************************************************************************)
(* The second half of a Link or an Unlink.                                 *)
(***************************************************************************)
WriteBack ==
  /\ pending # NoWrite
  /\ prev' = [prev EXCEPT ![pending.at] = pending.word]
  /\ pending' = NoWrite
  /\ UNCHANGED <<next, linked, unmapped>>

(***************************************************************************)
(* The page of a destroyed GameObject is given back.                       *)
(***************************************************************************)
Unmap(o) ==
  /\ o \in Objects \ linked
  /\ unmapped' = unmapped \cup {o}
  /\ UNCHANGED <<next, prev, linked, pending>>

TargetTypeOK ==
  /\ next \in [Nodes -> Words]
  /\ prev \in [Nodes -> Words]
  /\ linked \in SUBSET Nodes
  /\ Heads \subseteq linked
  /\ unmapped \in SUBSET (Objects \ linked)
  /\ pending \in [at : Words, word : Words]
==============================================================================
