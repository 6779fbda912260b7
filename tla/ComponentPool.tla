---------------------------- MODULE ComponentPool -----------------------------
(***************************************************************************)
(* The components of one GameObject of the target: an array of (type id,   *)
(* component) pairs reached through two words of the GameObject, the       *)
(* address of the array and the number of components.  Removing a          *)
(* component moves the ones behind it up, a slot at a time, and then       *)
(* writes the count; what lies behind the count stays.  A full array is    *)
(* replaced by another one, and the old one may be given back.             *)
(*                                                                         *)
(* External to the library, which reads it with the layout of gom_pool.hpp *)
(* and native_component.hpp.                                               *)
(***************************************************************************)
EXTENDS Naturals, FiniteSets, Sequences

CONSTANTS
  Components,  \* components of the target
  Pools,       \* places the array can be in
  PoolSize,    \* the number of slots of each
  None         \* the zero word

ASSUME PoolAssumption ==
  /\ PoolSize \in [Pools -> Nat \ {0}]
  /\ None \notin Components \cup Pools

VARIABLES
  slots,    \* per array the component of each slot
  pool,     \* GameObject + component_pool
  count,    \* GameObject + component_count
  gap,      \* the slot to be overwritten next by a removal; 0: no removal
  freed     \* arrays given back

poolVars == <<slots, pool, count, gap, freed>>

PoolInit ==
  /\ slots = [p \in Pools |-> [i \in 1..PoolSize[p] |-> None]]
  /\ pool = None
  /\ count = 0
  /\ gap = 0
  /\ freed = {}

\* The components the GameObject has.
Attached == {c \in Components : \E i \in 1..count : slots[pool][i] = c}

\* The first component needs an array.
NewPool ==
  /\ pool = None
  /\ \E p \in Pools : pool' = p
  /\ UNCHANGED <<slots, count, gap, freed>>

AddComponent(c) ==
  /\ pool # None /\ gap = 0
  /\ c \notin Attached
  /\ count < PoolSize[pool]
  /\ slots' = [slots EXCEPT ![pool][count + 1] = c]
  /\ count' = count + 1
  /\ UNCHANGED <<pool, gap, freed>>

RemoveComponent ==
  /\ gap = 0
  /\ gap' \in 1..count
  /\ UNCHANGED <<slots, pool, count, freed>>

\* One more slot moves up, or the count is written.
FinishRemoval ==
  /\ gap # 0
  /\ IF gap < count
       THEN /\ slots' = [slots EXCEPT ![pool][gap] = slots[pool][gap + 1]]
            /\ gap' = gap + 1
            /\ UNCHANGED count
       ELSE /\ count' = count - 1
            /\ gap' = 0
            /\ UNCHANGED slots
  /\ UNCHANGED <<pool, freed>>

MovePool(p) ==
  /\ pool # None /\ gap = 0
  /\ p \notin freed \cup {pool}
  /\ PoolSize[p] >= count
  /\ slots' = [slots EXCEPT ![p] =
                 [i \in 1..PoolSize[p] |-> IF i <= count THEN slots[pool][i] ELSE slots[p][i]]]
  /\ pool' = p
  /\ UNCHANGED <<count, gap, freed>>

FreePool(p) ==
  /\ pool # None
  /\ p \notin freed \cup {pool}
  /\ freed' = freed \cup {p}
  /\ UNCHANGED <<slots, pool, count, gap>>

PoolTypeOK ==
  /\ DOMAIN slots = Pools
  /\ \A p \in Pools : slots[p] \in [1..PoolSize[p] -> Components \cup {None}]
  /\ pool \in Pools \cup {None}
  /\ count \in Nat /\ (pool = None => count = 0) /\ (pool # None => count <= PoolSize[pool])
  /\ gap \in 0..count
  /\ freed \in SUBSET Pools
===============================================================================
