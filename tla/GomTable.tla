------------------------------ MODULE GomTable -------------------------------
(***************************************************************************)
(* The bucket table of the target's GameObjectManager.  The manager holds  *)
(* two words the readers fetch one after the other: the address of the     *)
(* table and the number of slots.  When the target rehashes it writes the  *)
(* two words one after the other as well, in either order, and later frees *)
(* the table it left.                                                      *)
(***************************************************************************)
EXTENDS Naturals, Sequences

CONSTANTS
  Tables,    \* addresses a bucket table can have
  Layout,    \* what each table holds: per slot a list head, or Nothing
  Nothing    \* a slot that is empty, deleted or does not hash to its key

ASSUME TableAssumption == Nothing \notin Tables

VARIABLES
  base,      \* manager + 0x00: the table, Nothing until there is a manager
  count,     \* manager + 0x08: the number of slots
  freed      \* tables whose memory is gone

tableVars == <<base, count, freed>>

TableInit ==
  /\ base = Nothing
  /\ count = 0
  /\ freed = {}

Settled == base # Nothing /\ count = Len(Layout[base])

CreateManager ==
  /\ base = Nothing
  /\ \E t \in Tables : base' = t /\ count' = Len(Layout[t])
  /\ UNCHANGED freed

(***************************************************************************)
(* Either word of a rehash first; FinishRehash writes the other one.       *)
(***************************************************************************)
RehashBase ==
  /\ Settled
  /\ \E t \in Tables \ (freed \cup {base}) : base' = t
  /\ UNCHANGED <<count, freed>>

RehashCount ==
  /\ Settled
  /\ \E t \in Tables \ (freed \cup {base}) : count' = Len(Layout[t])
  /\ UNCHANGED <<base, freed>>

FinishRehash ==
  /\ base # Nothing
  /\ ~ Settled
  /\ \/ count' = Len(Layout[base]) /\ UNCHANGED base
     \/ \E t \in Tables \ freed : Len(Layout[t]) = count /\ base' = t /\ UNCHANGED count
  /\ UNCHANGED freed

FreeTable ==
  /\ Settled
  /\ \E t \in Tables \ (freed \cup {base}) : freed' = freed \cup {t}
  /\ UNCHANGED <<base, count>>

(***************************************************************************)
(* What a reader finds at slot i of table t: the list head the slot holds, *)
(* Nothing when the slot is unused, when i runs past the table, or when    *)
(* the table's memory is gone and the read fails.                          *)
(***************************************************************************)
SlotHead(t, i) ==
  IF t \in freed \/ i > Len(Layout[t]) THEN Nothing ELSE Layout[t][i]

TableTypeOK ==
  /\ base \in Tables \cup {Nothing}
  /\ count \in {0} \cup {Len(Layout[t]) : t \in Tables}
  /\ freed \in SUBSET Tables
==============================================================================
