----------------------------- MODULE DumpProgress -----------------------------
(***************************************************************************)
(* DumpSdkProgressScope (dump_progress.hpp): a stage of a dump reports how *)
(* far it is to a callback, throttled to about Parts reports unless time   *)
(* passes.  The callback is one atomic slot that any thread may change at  *)
(* any time; a callback that throws is treated as one that does not.       *)
(*                                                                         *)
(* One action is one call on the scope (or its destructor), one store to   *)
(* the slot, or the clock reaching 100 ms since the last report.           *)
(***************************************************************************)
EXTENDS Naturals, Sequences

CONSTANTS
  Totals,     \* totals a stage may be given
  Parts,      \* 100
  Listeners,  \* callbacks
  NoListener  \* nullptr

ASSUME ProgressAssumption ==
  Totals \subseteq Nat /\ Parts \in Nat \ {0} /\ NoListener \notin Listeners

VARIABLES
  callback,      \* the slot
  alive,         \* between constructor and destructor
  active, total, current, lastReported,   \* active_, total_, current_, lastReported_
  interval,      \* 100 ms have passed since lastEmission_
  \* history of the scope, not in the code
  log,           \* events some callback was called with
  heard,         \* one callback has been in the slot since the scope began
  byStep         \* Update events the clock did not cause

scope == <<alive, active, total, current, lastReported, interval>>
vars == <<callback, scope, log, heard, byStep>>

\* ReportDumpSdkProgress
Report(state, at) ==
  log' = IF callback = NoListener THEN log ELSE Append(log, [state |-> state, current |-> at])

Init ==
  /\ callback = NoListener
  /\ alive = FALSE /\ active = FALSE
  /\ total = 0 /\ current = 0 /\ lastReported = 0 /\ interval = FALSE
  /\ log = <<>> /\ heard = FALSE /\ byStep = 0

SetDumpSdkProgressCallback ==
  /\ \E c \in Listeners \cup {NoListener} : callback' = c
  /\ heard' = (heard /\ callback' = callback)
  /\ UNCHANGED <<scope, log, byStep>>

\* A stage begins; the log of the one before is not looked at again.
Construct ==
  /\ ~ alive
  /\ alive' = TRUE /\ active' = TRUE
  /\ total' \in Totals
  /\ current' = 0 /\ lastReported' = 0 /\ interval' = FALSE
  /\ log' = IF callback = NoListener THEN <<>> ELSE <<[state |-> "Begin", current |-> 0]>>
  /\ heard' = (callback # NoListener)
  /\ byStep' = 0
  /\ UNCHANGED callback

\* The stage is over; the log stays until the next one begins.
Destruct ==
  /\ alive
  /\ alive' = FALSE /\ active' = FALSE
  /\ IF active THEN Report("Failed", current) ELSE UNCHANGED log
  /\ UNCHANGED <<callback, total, current, lastReported, interval, heard, byStep>>

\* total_ / 100 rounded up
Step == IF total % Parts = 0 THEN total \div Parts ELSE total \div Parts + 1

\* Mutant: progress that goes back is taken as well.
AnyProgress(value) == IF value > total THEN total ELSE value

\* current after Update(value): never past the total, never back.
Progress(value) ==
  IF value > total THEN total ELSE IF value > current THEN value ELSE current

\* Mutant: a report does not restart the count to the next step.
StepSinceBegin(to) == to >= Step

\* current_ - lastReported_ >= step, once current_ is to
ReachedStep(to) == to - lastReported >= Step

Update(value) ==
  /\ alive
  /\ IF ~ active \/ total = 0 \/ Progress(value) = current
       THEN UNCHANGED vars
       ELSE /\ current' = Progress(value)
            /\ IF ReachedStep(Progress(value)) \/ interval \/ Progress(value) = total
                 THEN /\ lastReported' = Progress(value)
                      /\ interval' = FALSE
                      /\ Report("Update", Progress(value))
                      /\ byStep' = IF ReachedStep(Progress(value)) \/ ~ interval THEN byStep + 1
                                                                             ELSE byStep
                 ELSE UNCHANGED <<lastReported, interval, log, byStep>>
            /\ UNCHANGED <<callback, alive, active, total, heard>>

Complete ==
  /\ alive
  /\ IF active
       THEN current' = total /\ active' = FALSE /\ Report("Complete", total)
       ELSE UNCHANGED <<current, active, log>>
  /\ UNCHANGED <<callback, alive, total, lastReported, interval, heard, byStep>>

\* Mutant: a failed stage can still be completed or fail again.
FailStaysActive ==
  /\ alive
  /\ IF active THEN Report("Failed", current) ELSE UNCHANGED log
  /\ UNCHANGED <<callback, scope, heard, byStep>>

Fail ==
  /\ alive
  /\ IF active
       THEN active' = FALSE /\ Report("Failed", current)
       ELSE UNCHANGED <<active, log>>
  /\ UNCHANGED <<callback, alive, total, current, lastReported, interval, heard, byStep>>

Tick ==
  /\ alive /\ ~ interval
  /\ interval' = TRUE
  /\ UNCHANGED <<callback, alive, active, total, current, lastReported, log, heard, byStep>>

\* Values a stage may pass: past the total as well.
Values == 0..(total + 1)

Next ==
  \/ SetDumpSdkProgressCallback \/ Construct \/ Destruct
  \/ \E value \in Values : Update(value)
  \/ Complete \/ Fail \/ Tick

Spec == Init /\ [][Next]_vars

(***************************************************************************)
(* Properties.                                                             *)
(***************************************************************************)
States == {"Begin", "Update", "Complete", "Failed"}

Events == [state : States, current : Nat]

\* Type invariant; lastReported_ never passes current_, so that their unsigned
\* difference in Update cannot wrap.
TypeOK ==
  /\ callback \in Listeners \cup {NoListener}
  /\ alive \in BOOLEAN /\ active \in BOOLEAN /\ interval \in BOOLEAN /\ heard \in BOOLEAN
  /\ total \in Nat /\ current \in 0..total /\ lastReported \in 0..current
  /\ log \in Seq(Events)
  /\ byStep \in Nat

\* Whoever listens, and whenever, the reports of one stage never go back
\* (ProgressSmoke.cpp asserts it for one listener and one sequence).
ReportsNeverGoBack == \A i, j \in 1..Len(log) : i <= j => log[i].current <= log[j].current

\* A callback that is there for a whole stage is told once that it begins,
\* first, and once how it ends, last.
Terminal(e) == e.state \in {"Complete", "Failed"}

StageIsFramed ==
  heard /\ log # <<>> =>
    /\ \A i \in 1..Len(log) : log[i].state = "Begin" <=> i = 1
    /\ \A i \in 1..Len(log) : Terminal(log[i]) => i = Len(log)
    /\ ~ active => Terminal(log[Len(log)])

\* However finely a stage reports, what the clock does not add is at most
\* Parts updates (ProgressSmoke.cpp: at most 103 events of 10000 updates).
Throttled == byStep <= Parts
==============================================================================
