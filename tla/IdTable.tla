------------------------------- MODULE IdTable --------------------------------
(***************************************************************************)
(* The target's registry of objects by instance id (MsIdToPointer): an     *)
(* open hash table whose slots hold a status word, the id and the object.  *)
(* Erasing an entry writes its status only: id and object stay behind.     *)
(* A table that has grown full is rebuilt in another place; the words      *)
(* entriesBase and capacity of the set are then written one after the      *)
(* other, in either order, and the old table may be given back.            *)
(*                                                                         *)
(* External to the library, which reads it with the layout of              *)
(* ms_id_to_pointer.hpp.  An object has one id for life, so a slot is      *)
(* modelled by its status and its object.                                  *)
(***************************************************************************)
EXTENDS Naturals, FiniteSets, Sequences

CONSTANTS
  Objects,   \* objects of the target
  Tables,    \* places a table can be in
  Capacity,  \* the number of slots of each
  FirstTable \* the table the target starts with

ASSUME IdTableAssumption ==
  /\ Capacity \in [Tables -> Nat \ {0}]
  /\ FirstTable \in Tables

VARIABLES
  slots,       \* per table its slots
  base,        \* set + 0x00: entriesBase
  capacity,    \* set + 0x08
  freed        \* tables given back

tableVars == <<slots, base, capacity, freed>>

Empty == [live |-> FALSE, object |-> "none"]
Live(o) == [live |-> TRUE, object |-> o]

Slots == [live : BOOLEAN, object : Objects \cup {"none"}]

TableInit ==
  /\ slots = [t \in Tables |-> [i \in 1..Capacity[t] |-> Empty]]
  /\ base = FirstTable
  /\ capacity = Capacity[FirstTable]
  /\ freed = {}

Settled == capacity = Capacity[base]

Listed == {o \in Objects : \E i \in 1..Capacity[base] : slots[base][i] = Live(o)}

Insert(o) ==
  /\ Settled
  /\ o \notin Listed
  /\ \E i \in 1..Capacity[base] :
       /\ ~ slots[base][i].live
       /\ slots' = [slots EXCEPT ![base][i] = Live(o)]
  /\ UNCHANGED <<base, capacity, freed>>

Erase(o) ==
  /\ Settled
  /\ \E i \in 1..Capacity[base] :
       /\ slots[base][i] = Live(o)
       /\ slots' = [slots EXCEPT ![base][i].live = FALSE]
  /\ UNCHANGED <<base, capacity, freed>>

(***************************************************************************)
(* Rebuild the live entries, in any order, in table t.                     *)
(***************************************************************************)
Rebuilt(t) ==
  {new \in [1..Capacity[t] -> {Empty} \cup {Live(o) : o \in Listed}] :
     \A o \in Listed : Cardinality({i \in 1..Capacity[t] : new[i] = Live(o)}) = 1}

Grow(t) ==
  /\ Settled
  /\ t \notin freed \cup {base}
  /\ \E new \in Rebuilt(t) : slots' = [slots EXCEPT ![t] = new]
  /\ \/ base' = t /\ UNCHANGED capacity
     \/ capacity' = Capacity[t] /\ UNCHANGED base
  /\ UNCHANGED freed

\* The other word.
FinishGrow ==
  /\ ~ Settled
  /\ \/ capacity' = Capacity[base] /\ UNCHANGED base
     \/ \E t \in Tables \ freed :
          /\ Capacity[t] = capacity
          /\ slots[t] \in Rebuilt(t)
          /\ base' = t
          /\ UNCHANGED capacity
  /\ UNCHANGED <<slots, freed>>

Free(t) ==
  /\ Settled
  /\ t \notin freed \cup {base}
  /\ freed' = freed \cup {t}
  /\ slots' = [slots EXCEPT ![t] = [i \in 1..Capacity[t] |-> Empty]]
  /\ UNCHANGED <<base, capacity>>

TableTypeOK ==
  /\ DOMAIN slots = Tables
  /\ \A t \in Tables : slots[t] \in [1..Capacity[t] -> Slots]
  /\ base \in Tables
  /\ capacity \in {Capacity[t] : t \in Tables}
  /\ freed \in SUBSET Tables
===============================================================================
