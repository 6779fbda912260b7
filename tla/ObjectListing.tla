---------------------------- MODULE ObjectListing ----------------------------
(***************************************************************************)
(* What the enumerations of a running target promise                       *)
(* (EnumerateGameObjects, EnumerateMsIdToPointerObjects): between a call   *)
(* and its answer they report things one by one, each of which was there   *)
(* at some time since the call began.  The target goes on meanwhile.       *)
(*                                                                         *)
(* GomWalk and MsIdEnumerate are shown to implement this module;           *)
(* FindObjects is built on it.                                             *)
(***************************************************************************)

CONSTANT Things

VARIABLES
  phase,    \* of the call: idle, running, answered
  present,  \* what is there now
  seen,     \* what has been there since the call began
  reported

listingVars == <<phase, present, seen, reported>>

Init ==
  /\ phase = "idle"
  /\ present \in SUBSET Things
  /\ seen = {} /\ reported = {}

GoesOn == phase' \in {"running", "answered"}

Start ==
  /\ phase = "idle"
  /\ GoesOn
  /\ seen' = present
  /\ UNCHANGED <<present, reported>>

ReportOne(o) ==
  /\ phase = "running"
  /\ o \in seen
  /\ GoesOn
  /\ reported' = reported \cup {o}
  /\ UNCHANGED <<present, seen>>

Answer ==
  /\ phase = "running"
  /\ phase' = "answered"
  /\ UNCHANGED <<present, seen, reported>>

Clear ==
  /\ phase = "answered"
  /\ phase' = "idle"
  /\ seen' = {} /\ reported' = {}
  /\ UNCHANGED present

Change ==
  /\ present' \in SUBSET Things
  /\ seen' = IF phase = "running" THEN seen \cup present' ELSE seen
  /\ UNCHANGED <<phase, reported>>

Next == Start \/ (\E o \in Things : ReportOne(o)) \/ Answer \/ Clear \/ Change

Spec == Init /\ [][Next]_listingVars
==============================================================================
