----------------------------- MODULE MCDump_proofs -----------------------------
(***************************************************************************)
(* Theorems about the parts of a dump, each in its world of MCDump, for    *)
(* any values of the constants: the progress of a stage (any totals), the  *)
(* access to the memory of the own process (any number of pages, any       *)
(* chunk, any number of changes), the export of a hint (any module), the   *)
(* files of a call (any assemblies, any number of calls) and the addresses *)
(* of methods (any target).  A world's invariant is proved of the          *)
(* component's own Init and Next; that the steps of the other worlds leave *)
(* it alone is said once, in the theorem.                                  *)
(***************************************************************************)
EXTENDS MCDump, FiniteSetTheorems, WellFoundedInduction, TLAPS

(***************************************************************************)
(* DumpProgress.  For any totals, any number of listeners and any Parts:   *)
(* types, reports that never go back, the bound on what is reported, and   *)
(* the frame of a stage.                                                   *)
(***************************************************************************)
LEMMA ProgressRange ==
  ASSUME TypeOK, NEW value \in Nat
  PROVE  Progress(value) \in current..total
  BY DEF TypeOK, Progress

LEMMA EventType ==
  /\ \A state \in States, at \in Nat : [state |-> state, current |-> at] \in Events
  /\ \A e \in Events : e.current \in Nat
  BY DEF Events

LEMMA ReportType ==
  ASSUME TypeOK, NEW state \in States, NEW at \in Nat, Report(state, at)
  PROVE  log' \in Seq(Events)
  <1>1. [state |-> state, current |-> at] \in Events /\ log \in Seq(Events)
    BY EventType DEF TypeOK
  <1>2. QED
    BY <1>1 DEF Report

LEMMA TypeInit == Init => TypeOK
  <1> SUFFICES ASSUME Init PROVE TypeOK
    OBVIOUS
  <1>1. log \in Seq(Events)
    BY DEF Init
  <1>2. total \in Nat /\ current \in 0..total /\ lastReported \in 0..current /\ byStep \in Nat
    BY DEF Init
  <1>3. QED
    BY <1>1, <1>2 DEF Init, TypeOK

LEMMA TypeUpdate == ASSUME TypeOK, NEW value \in Nat, Update(value) PROVE TypeOK'
  <1>1. CASE UNCHANGED vars
    BY <1>1 DEF vars, scope, TypeOK
  <1>2. CASE ~ UNCHANGED vars
    <2>1. Progress(value) \in current..total /\ Progress(value) \in Nat
      BY ProgressRange DEF TypeOK
    <2>2. log' \in Seq(Events)
      <3>1. CASE Report("Update", Progress(value))
        BY <2>1, <3>1, ReportType DEF States
      <3>2. CASE log' = log
        BY <3>2 DEF TypeOK
      <3>3. QED
        BY <1>2, <3>1, <3>2 DEF Update
    <2>3. /\ current' = Progress(value) /\ total' = total
          /\ lastReported' = lastReported \/ lastReported' = Progress(value)
          /\ byStep' = byStep \/ byStep' = byStep + 1
          /\ UNCHANGED <<callback, alive, active, heard>>
      BY <1>2 DEF Update
    <2>4. interval' \in BOOLEAN
      BY <1>2 DEF Update, TypeOK
    <2>5. current' \in 0..total' /\ lastReported' \in 0..current' /\ byStep' \in Nat /\ total' \in Nat
      BY <2>1, <2>3 DEF TypeOK
    <2>6. QED
      BY <2>2, <2>3, <2>4, <2>5 DEF TypeOK
  <1>3. QED
    BY <1>1, <1>2

LEMMA TypeClose == ASSUME TypeOK, Complete \/ Fail \/ Destruct PROVE TypeOK'
  <1>1. log' \in Seq(Events)
    <2>1. total \in Nat /\ current \in Nat /\ log \in Seq(Events)
      BY DEF TypeOK
    <2>2. log' = log \/ Report("Complete", total) \/ Report("Failed", current)
      BY DEF Complete, Fail, Destruct
    <2>3. QED
      BY <2>1, <2>2, ReportType DEF States
  <1>2. /\ current' \in 0..total' /\ lastReported' \in 0..current' /\ byStep' \in Nat /\ total' \in Nat
    BY DEF Complete, Fail, Destruct, TypeOK
  <1>3. /\ callback' \in Listeners \cup {NoListener}
        /\ alive' \in BOOLEAN /\ active' \in BOOLEAN /\ interval' \in BOOLEAN /\ heard' \in BOOLEAN
    BY DEF Complete, Fail, Destruct, TypeOK
  <1>4. QED
    BY <1>1, <1>2, <1>3 DEF TypeOK

LEMMA TypeNext == TypeOK /\ [Next]_vars => TypeOK'
  <1> SUFFICES ASSUME TypeOK, [Next]_vars PROVE TypeOK'
    OBVIOUS
  <1>1. CASE SetDumpSdkProgressCallback
    <2>1. callback' \in Listeners \cup {NoListener} /\ heard' \in BOOLEAN
      BY <1>1 DEF SetDumpSdkProgressCallback, TypeOK
    <2>2. QED
      BY <1>1, <2>1 DEF SetDumpSdkProgressCallback, scope, TypeOK
  <1>2. CASE Construct
    <2>1. log' \in Seq(Events)
      <3>1. CASE log' = <<>>
        BY <3>1
      <3>2. CASE log' = <<[state |-> "Begin", current |-> 0]>>
        <4>1. [state |-> "Begin", current |-> 0] \in Events
          BY EventType DEF States
        <4>2. QED
          BY <3>2, <4>1
      <3>3. QED
        BY <1>2, <3>1, <3>2 DEF Construct
    <2>2. current' \in 0..total' /\ lastReported' \in 0..current' /\ byStep' \in Nat /\ total' \in Nat
      BY <1>2, ProgressAssumption DEF Construct
    <2>3. QED
      BY <1>2, <2>1, <2>2 DEF Construct, TypeOK
  <1>3. CASE \E value \in Values : Update(value)
    BY <1>3, TypeUpdate DEF Values, TypeOK
  <1>4. CASE Complete \/ Fail \/ Destruct
    BY <1>4, TypeClose
  <1>5. CASE Tick
    BY <1>5 DEF Tick, TypeOK
  <1>6. CASE UNCHANGED vars
    BY <1>6 DEF vars, scope, TypeOK
  <1>7. QED
    BY <1>1, <1>2, <1>3, <1>4, <1>5, <1>6 DEF Next

\* The unsigned difference in Update never wraps, and events keep their shape.
THEOREM ProgressTypes == Spec => []TypeOK
  BY TypeInit, TypeNext, PTL DEF Spec

(***************************************************************************)
(* Reports never go back: no report in the log is ahead of current.        *)
(***************************************************************************)
LogInv ==
  /\ ReportsNeverGoBack
  /\ \A i \in 1..Len(log) : log[i].current <= current

LEMMA LogNats == TypeOK => \A i \in 1..Len(log) : log[i].current \in Nat
  <1> SUFFICES ASSUME TypeOK, NEW i \in 1..Len(log) PROVE log[i].current \in Nat
    OBVIOUS
  <1>1. log[i] \in Events
    BY DEF TypeOK
  <1>2. QED
    BY <1>1, EventType

LEMMA LogSame ==
  ASSUME TypeOK, LogInv, log' = log, current' \in Nat, current <= current'
  PROVE  LogInv'
  <1>1. current \in Nat /\ Len(log) \in Nat
    BY DEF TypeOK
  <1>2. \A i \in 1..Len(log) : log[i].current <= current'
    BY <1>1, LogNats DEF LogInv
  <1>3. QED
    BY <1>2 DEF LogInv, ReportsNeverGoBack

LEMMA LogReport ==
  ASSUME TypeOK, LogInv, NEW state \in States, Report(state, current'), current' \in Nat, current <= current'
  PROVE  LogInv'
  <1>1. CASE log' = log
    BY <1>1, LogSame
  <1>2. CASE log' = Append(log, [state |-> state, current |-> current'])
    <2> DEFINE e == [state |-> state, current |-> current']
    <2>a. e \in Events /\ e.current = current' /\ log \in Seq(Events)
      BY EventType DEF TypeOK
    <2>b. log' = Append(log, e)
      BY <1>2
    <2> HIDE DEF e
    <2>1. /\ Len(log') = Len(log) + 1 /\ Len(log) \in Nat
          /\ log'[Len(log')].current = current'
          /\ \A i \in 1..Len(log) : log'[i] = log[i] /\ log[i].current \in Nat
      BY <2>a, <2>b, EventType
    <2>2. current \in Nat
      BY DEF TypeOK
    <2>3. \A i \in 1..Len(log') : log'[i].current <= current'
      BY <2>1, <2>2 DEF LogInv
    <2>4. ASSUME NEW i \in 1..Len(log'), NEW j \in 1..Len(log'), i <= j
          PROVE  log'[i].current <= log'[j].current
      <3>1. CASE j \in 1..Len(log)
        BY <2>1, <2>4, <3>1 DEF LogInv, ReportsNeverGoBack
      <3>2. CASE j = Len(log')
        BY <2>1, <2>3, <3>2
      <3>3. QED
        BY <2>1, <3>1, <3>2
    <2>5. QED
      BY <2>3, <2>4 DEF LogInv, ReportsNeverGoBack
  <1>3. QED
    BY <1>1, <1>2 DEF Report

LEMMA LogNext == TypeOK /\ LogInv /\ [Next]_vars => LogInv'
  <1> SUFFICES ASSUME TypeOK, LogInv, [Next]_vars PROVE LogInv'
    OBVIOUS
  <1>1. CASE Construct
    BY <1>1 DEF Construct, LogInv, ReportsNeverGoBack
  <1>2. CASE log' = log /\ current' \in Nat /\ current <= current'
    BY <1>2, LogSame
  <1>3. CASE \E value \in Values : Update(value)
    <2>1. PICK value \in Nat : Update(value)
      BY <1>3 DEF Values, TypeOK
    <2>2. Progress(value) \in Nat /\ current <= Progress(value)
      BY <2>1, ProgressRange DEF TypeOK
    <2>3. CASE Report("Update", current') /\ current' = Progress(value)
      BY <2>2, <2>3, LogReport DEF States
    <2>4. \/ UNCHANGED <<log, current>>
          \/ current' = Progress(value) /\ (log' = log \/ Report("Update", current'))
      BY <2>1 DEF Update, vars, scope
    <2>5. current \in Nat
      BY DEF TypeOK
    <2>6. QED
      BY <1>2, <2>2, <2>3, <2>4, <2>5
  <1>4. CASE Complete \/ Fail \/ Destruct
    <2>1. /\ current' \in Nat /\ current <= current'
          /\ log' = log \/ Report("Complete", current') \/ Report("Failed", current')
      BY <1>4 DEF Complete, Fail, Destruct, TypeOK
    <2>2. QED
      BY <1>2, <2>1, LogReport DEF States
  <1>5. CASE SetDumpSdkProgressCallback \/ Tick \/ UNCHANGED vars
    BY <1>2, <1>5 DEF SetDumpSdkProgressCallback, Tick, vars, scope, TypeOK
  <1>6. QED
    BY <1>1, <1>3, <1>4, <1>5 DEF Next

\* The reports of one stage never go back, whatever the order of its updates
\* and however callbacks come and go.
THEOREM ReportsInOrder == Spec => []ReportsNeverGoBack
  <1>1. Init => LogInv
    BY DEF Init, LogInv, ReportsNeverGoBack
  <1>2. LogInv => ReportsNeverGoBack
    BY DEF LogInv
  <1>3. QED
    BY <1>1, <1>2, LogNext, ProgressTypes, PTL DEF Spec

(***************************************************************************)
(* The bound on reports: each update that the clock did not cause is a     *)
(* Step further than the last, except one that reaches the total.          *)
(***************************************************************************)
LEMMA StepFacts ==
  ASSUME TypeOK
  PROVE  Step \in Nat /\ (total # 0 => Step > 0) /\ total <= Parts * Step
  <1>1. total \in Nat /\ Parts \in Nat \ {0}
    BY ProgressAssumption DEF TypeOK
  <1>2. total \div Parts \in Nat /\ total % Parts \in 0..(Parts - 1)
        /\ total = Parts * (total \div Parts) + (total % Parts)
    BY <1>1, SMTT(30)
  <1>3. CASE total % Parts = 0
    BY <1>1, <1>2, <1>3, SMTT(30) DEF Step
  <1>4. CASE total % Parts # 0
    <2>1. Step = total \div Parts + 1
      BY <1>4 DEF Step
    <2>2. Parts * (total \div Parts + 1) = Parts * (total \div Parts) + Parts
      BY <1>1, <1>2, SMTT(30)
    <2>3. QED
      BY <1>1, <1>2, <2>1, <2>2
  <1>5. QED
    BY <1>3, <1>4

LEMMA DivNat == \A t \in Nat : t \div Parts \in Nat
  <1>1. Parts \in Nat \ {0}
    BY ProgressAssumption
  <1>2. QED
    BY <1>1, SMTT(30)

Paid ==
  /\ byStep # 0 => (byStep - 1) * Step < total
  /\ active /\ current # total => byStep * Step <= lastReported

LEMMA PaidUpdate == ASSUME TypeOK, Paid, NEW value \in Nat, Update(value) PROVE Paid'
  <1>1. CASE UNCHANGED vars
    BY <1>1 DEF vars, scope, Paid, Step
  <1>2. CASE ~ UNCHANGED vars
    <2> DEFINE to == Progress(value)
    <2>0. active /\ to # current /\ current' = to /\ total' = total /\ active' = active
      BY <1>2 DEF Update
    <2>a. to \in current..total /\ current \in Nat /\ total \in Nat
      BY ProgressRange DEF TypeOK
    <2> HIDE DEF to
    <2>1. to \in Nat /\ current < to /\ to <= total /\ active
      BY <2>0, <2>a
    <2>2. Step \in Nat /\ Step' = Step /\ total' = total /\ current' = to
      BY <2>0, StepFacts DEF Step
    <2>3. byStep * Step <= lastReported
      BY <2>1 DEF Paid, TypeOK
    <2>4. byStep \in Nat /\ lastReported \in Nat /\ lastReported <= current /\ byStep * Step \in Nat
          /\ (byStep + 1) * Step = byStep * Step + Step
      BY <2>2 DEF TypeOK
    <2>5. CASE byStep' = byStep
      <3>0. lastReported' \in {lastReported, to}
        BY <1>2 DEF Update, to
      <3>1. lastReported <= lastReported'
        BY <2>1, <2>4, <3>0 DEF TypeOK
      <3>2. lastReported' \in Nat
        BY <2>1, <2>4, <3>0
      <3>3. byStep' # 0 => (byStep' - 1) * Step' < total'
        BY <2>2, <2>5 DEF Paid
      <3>4. byStep' * Step' <= lastReported'
        BY <2>2, <2>3, <2>4, <2>5, <3>1, <3>2
      <3>5. QED
        BY <3>3, <3>4 DEF Paid
    <2>6. CASE byStep' = byStep + 1 /\ lastReported' = to /\ (ReachedStep(to) \/ to = total)
      <3>1. (byStep' - 1) * Step' < total'
        <4>1. byStep' - 1 = byStep
          BY <2>4, <2>6
        <4>2. total \in Nat /\ current \in Nat
          BY DEF TypeOK
        <4>3. QED
          BY <2>1, <2>2, <2>3, <2>4, <4>1, <4>2
      <3>2. ASSUME current' # total'
            PROVE  byStep' * Step' <= lastReported'
        <4>1. to - lastReported >= Step
          BY <2>2, <2>6, <3>2 DEF ReachedStep
        <4>2. byStep' * Step' = byStep * Step + Step
          BY <2>2, <2>4, <2>6
        <4>3. QED
          BY <2>1, <2>2, <2>3, <2>4, <2>6, <4>1, <4>2
      <3>3. QED
        BY <3>1, <3>2 DEF Paid
    <2>7. QED
      BY <1>2, <2>5, <2>6 DEF Update, to
  <1>3. QED
    BY <1>1, <1>2

LEMMA PaidNext == TypeOK /\ Paid /\ [Next]_vars => Paid'
  <1> SUFFICES ASSUME TypeOK, Paid, [Next]_vars PROVE Paid'
    OBVIOUS
  <1>1. CASE Construct
    <2>1. byStep' = 0 /\ lastReported' = 0 /\ total' \in Nat
      BY <1>1, ProgressAssumption DEF Construct
    <2>2. Parts \in Nat \ {0}
      BY ProgressAssumption
    <2>3. total' \div Parts \in Nat
      BY <2>1, DivNat
    <2>4. Step' \in Nat
      BY <2>3 DEF Step
    <2>5. \A n \in Nat : 0 * n = 0
      OBVIOUS
    <2>6. byStep' * Step' = 0
      BY <2>1, <2>4, <2>5
    <2>7. QED
      BY <2>1, <2>6 DEF Paid
  <1>2. CASE \E value \in Values : Update(value)
    BY <1>2, PaidUpdate DEF Values, TypeOK
  <1>3. CASE Complete \/ Fail \/ Destruct \/ Tick \/ SetDumpSdkProgressCallback \/ UNCHANGED vars
    <2>1. /\ UNCHANGED <<total, byStep, lastReported>> /\ Step' = Step
          /\ active' => active /\ current' = current
      BY <1>3 DEF Complete, Fail, Destruct, Tick, SetDumpSdkProgressCallback, vars, scope, Step, TypeOK
    <2>2. QED
      BY <2>1 DEF Paid
  <1>4. QED
    BY <1>1, <1>2, <1>3 DEF Next

\* However many updates a stage makes, at most Parts of its reports are not
\* due to the clock.
THEOREM ReportsAreThrottled == Spec => []Throttled
  <1>1. Init => Paid
    BY DEF Init, Paid
  <1>2. TypeOK /\ Paid => Throttled
    <2> SUFFICES ASSUME TypeOK, Paid PROVE byStep <= Parts
      BY DEF Throttled
    <2>1. byStep \in Nat /\ total \in Nat /\ Parts \in Nat \ {0} /\ Step \in Nat /\ total <= Parts * Step
      BY StepFacts, ProgressAssumption DEF TypeOK
    <2>2. CASE byStep = 0
      BY <2>1, <2>2
    <2>3. CASE byStep # 0
      <3>1. (byStep - 1) * Step < Parts * Step
        BY <2>1, <2>3, SMTT(30) DEF Paid
      <3>2. byStep - 1 < Parts
        BY <2>1, <2>3, <3>1, SMTT(30)
      <3>3. QED
        BY <2>1, <3>2
    <2>4. QED
      BY <2>2, <2>3
  <1>3. QED
    BY <1>1, <1>2, PaidNext, ProgressTypes, PTL DEF Spec

(***************************************************************************)
(* Framing.  A callback that has been there for the whole stage has the    *)
(* whole log, and the log has no end as long as the stage is active.       *)
(***************************************************************************)
FrameInv ==
  /\ active => alive
  /\ heard =>
       /\ callback # NoListener
       /\ log # <<>>
       /\ \A i \in 1..Len(log) : log[i].state = "Begin" <=> i = 1
       /\ \A i \in 1..Len(log) : Terminal(log[i]) => ~ active /\ i = Len(log)
       /\ ~ active => Terminal(log[Len(log)])

LEMMA FrameInit == Init => FrameInv
  BY DEF Init, FrameInv

\* What a report to a callback does to the log.
LEMMA ReportAppends ==
  ASSUME TypeOK, callback # NoListener, NEW state \in States, NEW at \in Nat, Report(state, at)
  PROVE  /\ Len(log) \in Nat /\ Len(log') = Len(log) + 1
         /\ log'[Len(log')].state = state
         /\ \A i \in 1..Len(log) : log'[i] = log[i]
  <1> DEFINE e == [state |-> state, current |-> at]
  <1>1. log \in Seq(Events) /\ e \in Events
    BY EventType DEF TypeOK
  <1>2. log' = Append(log, e) /\ e.state = state
    BY DEF Report
  <1> HIDE DEF e
  <1>3. QED
    BY <1>1, <1>2

\* A report keeps the frame if it is no beginning, and no end unless the stage
\* ends with it.
LEMMA FrameReport ==
  ASSUME TypeOK, FrameInv, active, NEW state \in States \ {"Begin"}, NEW at \in Nat, Report(state, at),
         UNCHANGED <<callback, heard>>, active' => alive',
         active' <=> state \notin {"Complete", "Failed"}
  PROVE  FrameInv'
  <1>1. CASE ~ heard
    BY <1>1 DEF FrameInv
  <1>2. CASE heard
    <2>1. /\ callback # NoListener /\ log # <<>>
          /\ \A i \in 1..Len(log) : log[i].state = "Begin" <=> i = 1
          /\ \A i \in 1..Len(log) : ~ Terminal(log[i])
      BY <1>2 DEF FrameInv
    <2>2. /\ Len(log) \in Nat /\ Len(log') = Len(log) + 1
          /\ log'[Len(log')].state = state
          /\ \A i \in 1..Len(log) : log'[i] = log[i]
      BY <2>1, ReportAppends
    <2>3. Len(log) # 0
      BY <2>1 DEF TypeOK
    <2>4. log' # <<>>
      BY <2>2
    <2>5. \A i \in 1..Len(log') : log'[i].state = "Begin" <=> i = 1
      <3>1. ASSUME NEW i \in 1..Len(log') PROVE log'[i].state = "Begin" <=> i = 1
        <4>1. CASE i = Len(log')
          BY <2>2, <2>3, <4>1
        <4>2. CASE i \in 1..Len(log)
          BY <2>1, <2>2, <4>2
        <4>3. QED
          BY <2>2, <4>1, <4>2
      <3>2. QED
        BY <3>1
    <2>6. \A i \in 1..Len(log') : Terminal(log'[i]) => ~ active' /\ i = Len(log')
      <3>1. ASSUME NEW i \in 1..Len(log'), Terminal(log'[i]) PROVE ~ active' /\ i = Len(log')
        <4>1. CASE i = Len(log')
          BY <2>2, <3>1, <4>1 DEF Terminal
        <4>2. CASE i \in 1..Len(log)
          BY <2>1, <2>2, <3>1, <4>2
        <4>3. QED
          BY <2>2, <4>1, <4>2
      <3>2. QED
        BY <3>1
    <2>7. ~ active' => Terminal(log'[Len(log')])
      BY <2>2 DEF Terminal
    <2>8. QED
      BY <2>1, <2>4, <2>5, <2>6, <2>7 DEF FrameInv
  <1>3. QED
    BY <1>1, <1>2

LEMMA FrameConstruct == Construct => FrameInv'
  <1> SUFFICES ASSUME Construct PROVE FrameInv'
    OBVIOUS
  <1>1. CASE callback = NoListener
    BY <1>1 DEF Construct, FrameInv
  <1>2. CASE callback # NoListener
    <2>1. log' = <<[state |-> "Begin", current |-> 0]>> /\ callback' = callback /\ active' /\ alive'
      BY <1>2 DEF Construct
    <2>2. Len(log') = 1 /\ log'[1].state = "Begin" /\ log' # <<>>
      BY <2>1
    <2>3. \A i \in 1..Len(log') : i = 1
      BY <2>2
    <2>4. QED
      BY <1>2, <2>1, <2>2, <2>3 DEF FrameInv, Terminal
  <1>3. QED
    BY <1>1, <1>2

LEMMA FrameNext == TypeOK /\ FrameInv /\ [Next]_vars => FrameInv'
  <1> SUFFICES ASSUME TypeOK, FrameInv, [Next]_vars PROVE FrameInv'
    OBVIOUS
  <1>1. CASE UNCHANGED <<callback, alive, active, log, heard>>
    BY <1>1 DEF FrameInv
  <1>2. CASE SetDumpSdkProgressCallback
    BY <1>2 DEF SetDumpSdkProgressCallback, scope, FrameInv
  <1>3. CASE Construct
    BY <1>3, FrameConstruct
  <1>4. ASSUME NEW value \in Values, Update(value) PROVE FrameInv'
    <2>1. Progress(value) \in Nat
      <3>1. value \in Nat /\ current \in Nat /\ total \in Nat
        BY DEF Values, TypeOK
      <3>2. Progress(value) \in current..total
        BY <3>1, ProgressRange
      <3>3. QED
        BY <3>1, <3>2
    <2>2. CASE UNCHANGED <<callback, alive, active, log, heard>>
      BY <1>1, <2>2
    <2>3. CASE /\ active /\ Report("Update", Progress(value))
               /\ UNCHANGED <<callback, alive, active, heard>>
      BY <2>1, <2>3, FrameReport DEF FrameInv, States
    <2>4. QED
      BY <1>4, <2>2, <2>3 DEF Update, vars, scope
  <1>5. CASE Complete \/ Fail \/ Destruct
    <2>1. CASE ~ active
      <3>1. UNCHANGED <<callback, log, heard>> /\ ~ active'
        BY <1>5, <2>1 DEF Complete, Fail, Destruct
      <3>2. QED
        BY <2>1, <3>1 DEF FrameInv
    <2>2. CASE active
      <3>1. PICK state \in {"Complete", "Failed"}, at \in {total, current} :
              Report(state, at) /\ ~ active' /\ UNCHANGED <<callback, heard>>
        BY <1>5, <2>2 DEF Complete, Fail, Destruct
      <3>2. at \in Nat /\ state \in States \ {"Begin"}
        BY DEF TypeOK, States
      <3>3. QED
        BY <2>2, <3>1, <3>2, FrameReport
    <2>3. QED
      BY <2>1, <2>2
  <1>6. CASE Tick
    BY <1>1, <1>6 DEF Tick
  <1>7. CASE UNCHANGED vars
    BY <1>1, <1>7 DEF vars, scope
  <1>8. QED
    BY <1>2, <1>3, <1>4, <1>5, <1>6, <1>7 DEF Next

(***************************************************************************)
(* A callback that is there for a whole stage is told first that it begins *)
(* and last how it ends, each once, however the stage is left: by          *)
(* Complete, by Fail, or by its destructor.                                *)
(***************************************************************************)
THEOREM StagesAreFramed == Spec => []StageIsFramed
  <1>1. FrameInv => StageIsFramed
    BY DEF FrameInv, StageIsFramed
  <1>2. QED
    BY <1>1, FrameInit, FrameNext, ProgressTypes, PTL DEF Spec

(***************************************************************************)
(* In every world of MCDump the stages behave by Spec, so that what is     *)
(* said of Spec above holds there as well.                                 *)
(***************************************************************************)
LEMMA ProgressInWorlds == AllSpec => Spec
  <1>1. AllInit => Init
    BY DEF AllInit, ProgressInit, PipelineInit, HintInit, HostInit, MethodInit
  <1>2. [AllNext]_allVars => [Next]_vars
    BY DEF AllNext, ProgressNext, PipelineNext, HintNext, HostNext, MethodNext, allVars
  <1>3. QED
    BY <1>1, <1>2, PTL DEF AllSpec, Spec

(***************************************************************************)
(* HostMemory.  While a call runs, what cannot be accessed now has been    *)
(* lost, and the pages before the cursor are dealt with: copied, or, in a  *)
(* snapshot, missing for a page lost at most a chunk before them.          *)
(***************************************************************************)
HostTypes ==
  /\ pc \in {"idle", "check", "copy", "region", "chunk"}
  /\ op \in {"read", "write", "snapshot"}
  /\ first \in Host!Page /\ size \in Nat /\ first + size <= Pages + 1
  /\ prot \in [Host!Page -> Host!Protections]
  /\ cursor \in Int /\ regionEnd \in Int /\ copyEnd \in Int
  /\ buffer \in [Host!Page -> Int]

HostCall ==
  pc # "idle" =>
    /\ size > 0
    /\ Host!Inaccessible(op, prot) \subseteq lost
    /\ first <= cursor /\ cursor <= Host!Last + 1
    /\ pc = "check" => op # "snapshot" /\ cursor <= Host!Last
    /\ pc \in {"region", "chunk"} => op = "snapshot"

HostCopies ==
  pc = "copy" /\ op # "snapshot" =>
    copyEnd = Host!Last + 1 /\ \A p \in first..(cursor - 1) : buffer[p] = p

Excused(p) == buffer[p] = 0 => \E q \in lost \cap Host!Range : q <= p /\ p - q < CopyChunk

HostSnapshot ==
  pc # "idle" /\ op = "snapshot" =>
    /\ \A p \in first..(cursor - 1) : Excused(p)
    /\ pc \in {"chunk", "copy"} => cursor <= regionEnd /\ regionEnd <= Host!Last + 1
    /\ pc = "copy" => cursor <= copyEnd /\ copyEnd <= regionEnd /\ copyEnd - cursor <= CopyChunk

HostAnswered == Host!AccessExact /\ Host!SnapshotComplete

HostInv == HostTypes /\ HostCall /\ HostCopies /\ HostSnapshot /\ HostAnswered

\* Where a region ends: behind the page asked for, and not before a page of
\* another protection.
LEMMA RegionEnds ==
  ASSUME prot \in [Host!Page -> Host!Protections], NEW p \in Host!Page
  PROVE  /\ Host!EndOfRegion(p) \in (p + 1)..(Pages + 1)
         /\ \A q \in p..(Host!EndOfRegion(p) - 1) : prot[q] = prot[p]
  <1> DEFINE T == {e \in (p + 1)..(Pages + 1) : e <= Pages => prot[e] # prot[p]}
             End(e) == /\ \A q \in p..(e - 1) : prot[q] = prot[p]
                       /\ e <= Pages => prot[e] # prot[p]
  <1>1. p \in Nat /\ p >= 1 /\ p <= Pages /\ Pages \in Nat
    BY HostAssumption DEF Host!Page
  <1>2. T \subseteq Nat /\ Pages + 1 \in T
    BY <1>1
  <1>3. PICK e \in T : \A f \in T : ~ (<<f, e>> \in OpToRel(<, Nat))
    BY <1>2, NatLessThanWellFounded, WFMin
  <1>4. \A f \in T : ~ (f < e)
    BY <1>2, <1>3 DEF OpToRel
  <1>5. \A q \in p..(e - 1) : prot[q] = prot[p]
    <2>1. ASSUME NEW q \in p..(e - 1), q # p PROVE prot[q] = prot[p]
      <3>1. q \in (p + 1)..(Pages + 1) /\ q <= Pages /\ q < e
        BY <1>1, <2>1
      <3>2. q \notin T
        BY <1>4, <3>1
      <3>3. QED
        BY <3>1, <3>2
    <2>2. QED
      BY <2>1
  <1>6. e \in (p + 1)..(Pages + 1) /\ End(e)
    BY <1>5
  <1>7. \E f \in (p + 1)..(Pages + 1) : End(f)
    BY <1>6
  <1>8. Host!EndOfRegion(p) = CHOOSE f \in (p + 1)..(Pages + 1) : End(f)
    BY DEF Host!EndOfRegion
  <1>9. QED
    BY <1>7, <1>8

LEMMA HostStart == Host!Init => HostInv
  BY HostAssumption DEF Host!Init, HostInv, HostTypes, HostCall, HostCopies, HostSnapshot, HostAnswered,
    Host!AccessExact, Host!SnapshotComplete, Host!Page, Host!Range, Host!Last

\* What is known of a range of pages.
LEMMA RangeFits ==
  ASSUME NEW f \in 1..Pages, NEW n \in 0..(Pages + 1 - f)
  PROVE  /\ f \in Nat /\ f >= 1 /\ f <= Pages /\ Pages \in Nat /\ n \in Nat
         /\ f + n <= Pages + 1
  BY HostAssumption

\* A cursor at the beginning of a range that is not empty.
LEMMA AtStart ==
  ASSUME NEW f \in Nat, NEW n \in Nat
  PROVE  /\ \A p \in f..(f - 1) : FALSE
         /\ n # 0 => n > 0 /\ f <= f + n - 1 /\ f <= f + n - 1 + 1
  OBVIOUS

LEMMA HostCalled == ASSUME HostInv, Host!Call PROVE HostInv'
  <1>1. /\ op' \in {"read", "write", "snapshot"} 
        /\ buffer' = [p \in Host!Page |-> 0] /\ prot' = prot /\ cursor' = first' /\ regionEnd' = first'
        /\ copyEnd' = first' /\ lost' = Host!Inaccessible(op', prot) /\ result' = FALSE
        /\ pc' = IF size' = 0 THEN "idle" ELSE IF op' = "snapshot" THEN "region" ELSE "check"
    BY DEF Host!Call
  <1>2. first' \in Nat /\ first' >= 1 /\ first' <= Pages /\ Pages \in Nat /\ size' \in Nat
        /\ first' + size' <= Pages + 1
    <2>1. first' \in 1..Pages /\ size' \in 0..(Pages + 1 - first')
      BY DEF Host!Call, Host!Page
    <2>2. QED
      BY <2>1, RangeFits
  <1>3. HostTypes'
    <2>1. prot' \in [Host!Page -> Host!Protections] /\ buffer' \in [Host!Page -> Int]
      BY <1>1 DEF HostInv, HostTypes
    <2>2. cursor' \in Int /\ regionEnd' \in Int /\ copyEnd' \in Int
      BY <1>1, <1>2
    <2>3. first' \in Host!Page
      BY DEF Host!Call
    <2>4. QED
      BY <1>1, <1>2, <2>1, <2>2, <2>3 DEF HostTypes
  <1>4. HostCall'
    <2>1. SUFFICES ASSUME pc' # "idle" PROVE HostCall'
      BY DEF HostCall
    <2>2. size' # 0 /\ pc' = IF op' = "snapshot" THEN "region" ELSE "check"
      BY <1>1, <2>1
    <2>3. size' > 0 /\ first' <= cursor'
      <3>1. size' # 0 /\ cursor' = first'
        BY <1>1, <2>2
      <3>2. size' > 0
        BY <1>2, <3>1, AtStart
      <3>3. first' <= cursor'
        BY <1>2, <3>1
      <3>4. QED
        BY <3>2, <3>3
    <2>4. Host!Inaccessible(op, prot)' = lost'
      BY <1>1 DEF Host!Inaccessible, Host!Accessible
    <2>5. cursor' <= Host!Last' /\ cursor' <= Host!Last' + 1
      <3>1. size' # 0 /\ cursor' = first'
        BY <1>1, <2>2
      <3>2. QED
        BY <1>2, <3>1, AtStart DEF Host!Last
    <2>6. Host!Inaccessible(op, prot)' \subseteq lost'
      BY <2>4
    <2>7. pc' = "check" => op' # "snapshot"
      BY <2>2
    <2>8. pc' \in {"region", "chunk"} => op' = "snapshot"
      BY <2>2
    <2>9. QED
      BY <2>3, <2>5, <2>6, <2>7, <2>8 DEF HostCall
  <1>5. HostCopies' /\ HostSnapshot'
    <2>1. pc' \notin {"copy", "chunk"}
      BY <1>1
    <2>2. \A p \in first'..(cursor' - 1) : FALSE
      <3>1. cursor' = first'
        BY <1>1
      <3>2. QED
        BY <1>2, <3>1, AtStart
    <2>3. QED
      BY <2>1, <2>2 DEF HostCopies, HostSnapshot
  <1>6. HostAnswered'
    BY <1>1, <1>2 DEF HostAnswered, Host!AccessExact, Host!SnapshotComplete
  <1>7. QED
    BY <1>3, <1>4, <1>5, <1>6 DEF HostInv

\* What has been lost stays so: a page is excused as long as it is missing.
LEMMA StillExcused ==
  ASSUME UNCHANGED <<first, size, buffer>>, lost \subseteq lost'
  PROVE  \A p : Excused(p) => Excused(p)'
  BY DEF Excused, Host!Range, Host!Last

LEMMA HostProtected == ASSUME HostInv, Host!Protect PROVE HostInv'
  <1>1. /\ UNCHANGED <<pc, op, first, size, cursor, regionEnd, copyEnd, buffer, result>> /\ pc # "idle"
        /\ lost' = lost \cup Host!Inaccessible(op, prot')
    BY DEF Host!Protect
  <1>2. prot' \in [Host!Page -> Host!Protections]
    BY DEF Host!Protect, HostInv, HostTypes
  <1>3. HostTypes'
    BY <1>1, <1>2 DEF HostInv, HostTypes
  <1>4. HostCall' /\ HostCopies'
    BY <1>1 DEF HostInv, HostCall, HostCopies, Host!Last, Host!Inaccessible
  <1>5. HostSnapshot'
    BY <1>1, StillExcused DEF HostInv, HostSnapshot, Host!Last
  <1>6. HostAnswered'
    BY <1>1 DEF HostAnswered, Host!AccessExact, Host!SnapshotComplete
  <1>7. QED
    BY <1>3, <1>4, <1>5, <1>6 DEF HostInv

LEMMA HostChecked == ASSUME HostInv, Host!CheckRegion PROVE HostInv'
  <1>1. /\ UNCHANGED <<op, first, size, prot, regionEnd, buffer, lost>> /\ pc = "check" /\ op # "snapshot"
        /\ size > 0 /\ first <= cursor /\ cursor <= Host!Last /\ Host!Inaccessible(op, prot) \subseteq lost
    BY DEF Host!CheckRegion, Host!call, HostInv, HostCall
  <1>2. /\ first \in 1..Pages /\ size \in Nat /\ first + size <= Pages + 1 /\ cursor \in Int
        /\ prot \in [Host!Page -> Host!Protections] /\ Pages \in Nat
    BY HostAssumption DEF HostInv, HostTypes, Host!Page
  <1>3. cursor \in Host!Page /\ cursor \in Host!Range
    BY <1>1, <1>2 DEF Host!Last, Host!Page, Host!Range
  <1>4. CASE ~ Host!RegionAllows(op, prot[cursor])
    <2>1. pc' = "idle" /\ result' = FALSE /\ UNCHANGED <<cursor, copyEnd>>
      BY <1>4 DEF Host!CheckRegion, Host!Return
    <2>2. cursor \in lost
      BY <1>1, <1>3, <1>4 DEF Host!Inaccessible, Host!RegionAllows, Host!Accessible
    <2>3. HostTypes'
      BY <1>1, <2>1 DEF HostInv, HostTypes
    <2>4. HostAnswered'
      BY <1>1, <1>3, <2>1, <2>2 DEF HostAnswered, Host!AccessExact, Host!SnapshotComplete, Host!Range,
        Host!Last
    <2>5. QED
      BY <2>1, <2>3, <2>4 DEF HostInv, HostCall, HostCopies, HostSnapshot
  <1>5. CASE Host!RegionAllows(op, prot[cursor]) /\ Host!EndOfRegion(cursor) > Host!Last
    <2>1. pc' = "copy" /\ cursor' = first /\ copyEnd' = Host!Last + 1
      BY <1>5 DEF Host!CheckRegion
    <2>2. HostTypes'
      BY <1>1, <1>2, <2>1 DEF HostInv, HostTypes, Host!Last
    <2>3. HostCall' /\ HostCopies' /\ HostSnapshot' /\ HostAnswered'
      BY <1>1, <1>2, <2>1 DEF HostCall, HostCopies, HostSnapshot, HostAnswered, Host!AccessExact,
        Host!SnapshotComplete, Host!Last, Host!Inaccessible
    <2>4. QED
      BY <2>2, <2>3 DEF HostInv
  <1>6. CASE Host!RegionAllows(op, prot[cursor]) /\ ~ (Host!EndOfRegion(cursor) > Host!Last)
    <2>1. pc' = "check" /\ cursor' = Host!EndOfRegion(cursor) /\ copyEnd' = copyEnd
      BY <1>1, <1>6 DEF Host!CheckRegion
    <2>2. Host!EndOfRegion(cursor) \in Int /\ Host!EndOfRegion(cursor) >= cursor + 1
      BY <1>2, <1>3, RegionEnds
    <2>3. HostTypes'
      BY <1>1, <2>1, <2>2 DEF HostInv, HostTypes
    <2>4. HostCall'
      BY <1>1, <1>2, <1>6, <2>1, <2>2 DEF HostCall, Host!Last, Host!Inaccessible
    <2>5. HostCopies' /\ HostSnapshot' /\ HostAnswered'
      BY <1>1, <2>1 DEF HostCopies, HostSnapshot, HostAnswered, Host!AccessExact, Host!SnapshotComplete
    <2>6. QED
      BY <2>3, <2>4, <2>5 DEF HostInv
  <1>7. QED
    BY <1>4, <1>5, <1>6

LEMMA HostCopied == ASSUME HostInv, Host!CopyPage PROVE HostInv'
  <1>1. /\ UNCHANGED <<op, first, size, pc, prot, regionEnd, copyEnd, result, lost>> /\ pc = "copy"
        /\ cursor < copyEnd /\ buffer' = [buffer EXCEPT ![cursor] = cursor] /\ cursor' = cursor + 1
    BY DEF Host!CopyPage, Host!call
  <1>2. /\ first \in 1..Pages /\ size \in Nat /\ first + size <= Pages + 1 /\ cursor \in Int /\ copyEnd \in Int
        /\ buffer \in [Host!Page -> Int] /\ Pages \in Nat /\ regionEnd \in Int
    BY HostAssumption DEF HostInv, HostTypes, Host!Page
  <1>3. first <= cursor /\ copyEnd <= Host!Last + 1
    BY <1>1, <1>2 DEF HostInv, HostCall, HostCopies, HostSnapshot, Host!Last
  <1>4. cursor \in Host!Page /\ buffer' \in [Host!Page -> Int] /\ buffer'[cursor] = cursor
        /\ \A p \in first..(cursor - 1) : p \in Host!Page /\ buffer'[p] = buffer[p]
    BY <1>1, <1>2, <1>3 DEF Host!Last, Host!Page
  <1>5. HostTypes'
    BY <1>1, <1>2, <1>4 DEF HostInv, HostTypes
  <1>6. HostCall'
    BY <1>1, <1>2, <1>3 DEF HostInv, HostCall, Host!Last, Host!Inaccessible
  <1>7. HostCopies'
    BY <1>1, <1>2, <1>3, <1>4 DEF HostInv, HostCopies, Host!Last
  <1>8. HostSnapshot'
    <2>1. SUFFICES ASSUME op = "snapshot" PROVE HostSnapshot'
      BY <1>1 DEF HostSnapshot
    <2>2. \A p \in first..(cursor - 1) : Excused(p)'
      BY <1>1, <1>4, <2>1 DEF HostInv, HostSnapshot, Excused, Host!Range, Host!Last
    <2>3. \A p \in first..cursor : p = cursor => Excused(p)'
      BY <1>1, <1>2, <1>3, <1>4 DEF Excused
    <2>4. cursor <= regionEnd /\ regionEnd <= Host!Last + 1 /\ copyEnd <= regionEnd /\ copyEnd - cursor <= CopyChunk
      BY <1>1, <2>1 DEF HostInv, HostSnapshot
    <2>5. CopyChunk \in Int
      BY HostAssumption
    <2>6. \A p \in first..cursor : Excused(p)'
      <3>1. \A p \in first..cursor : p = cursor \/ p \in first..(cursor - 1)
        BY <1>2
      <3>2. QED
        BY <2>2, <2>3, <3>1
    <2>7. cursor' <= copyEnd /\ copyEnd - cursor' <= CopyChunk /\ cursor' <= regionEnd /\ cursor' - 1 = cursor
      BY <1>1, <1>2, <2>4, <2>5
    <2>8. QED
      BY <1>1, <2>4, <2>6, <2>7 DEF HostSnapshot, Host!Last
  <1>9. HostAnswered'
    BY <1>1 DEF HostAnswered, Host!AccessExact, Host!SnapshotComplete
  <1>10. QED
    BY <1>5, <1>6, <1>7, <1>8, <1>9 DEF HostInv

LEMMA HostFaulted == ASSUME HostInv, Host!Fault PROVE HostInv'
  <1>1. /\ UNCHANGED <<op, first, size, regionEnd, copyEnd, buffer, lost>> /\ pc = "copy"
        /\ cursor < copyEnd /\ ~ Host!Accessible(op, prot[cursor])
        /\ Host!Inaccessible(op, prot) \subseteq lost
    BY DEF Host!Fault, Host!call, HostInv, HostCall
  <1>2. /\ first \in 1..Pages /\ size \in Nat /\ first + size <= Pages + 1 /\ cursor \in Int /\ copyEnd \in Int
        /\ prot \in [Host!Page -> Host!Protections] /\ Pages \in Nat /\ regionEnd \in Int
    BY HostAssumption DEF HostInv, HostTypes, Host!Page
  <1>3. first <= cursor /\ copyEnd <= Host!Last + 1
    BY <1>1, <1>2 DEF HostInv, HostCall, HostCopies, HostSnapshot, Host!Last
  <1>4. cursor \in Host!Page /\ cursor \in Host!Range /\ cursor \in lost
    <2>1. cursor \in Host!Page /\ cursor \in Host!Range
      BY <1>1, <1>2, <1>3 DEF Host!Last, Host!Page, Host!Range
    <2>2. QED
      BY <1>1, <2>1 DEF Host!Inaccessible
  <1>5. /\ prot' \in [Host!Page -> Host!Protections]
        /\ Host!Inaccessible(op, prot') \subseteq Host!Inaccessible(op, prot)
    BY <1>2, <1>4 DEF Host!Fault, Host!Protections, Host!Inaccessible, Host!Accessible
  <1>6. CASE op # "snapshot"
    <2>1. pc' = "idle" /\ result' = FALSE /\ cursor' = cursor
      BY <1>6 DEF Host!Fault, Host!Return
    <2>2. HostTypes'
      BY <1>1, <1>5, <2>1 DEF HostInv, HostTypes
    <2>3. HostAnswered'
      BY <1>1, <1>4, <1>6, <2>1 DEF HostAnswered, Host!AccessExact, Host!SnapshotComplete, Host!Range,
        Host!Last
    <2>4. QED
      BY <2>1, <2>2, <2>3 DEF HostInv, HostCall, HostCopies, HostSnapshot
  <1>7. CASE op = "snapshot"
    <2>1. pc' = pc /\ result' = result /\ cursor' = copyEnd
      BY <1>7 DEF Host!Fault, Host!SkipChunk
    <2>2. HostTypes'
      BY <1>1, <1>2, <1>5, <2>1 DEF HostInv, HostTypes
    <2>3. HostCall'
      <3>1. Host!Inaccessible(op, prot)' \subseteq lost'
        BY <1>1, <1>5 DEF Host!Inaccessible
      <3>2. size > 0
        BY <1>1 DEF HostInv, HostCall
      <3>3. first' <= cursor' /\ cursor' <= Host!Last' + 1
        BY <1>1, <1>2, <1>3, <2>1 DEF Host!Last
      <3>4. QED
        BY <1>1, <1>7, <2>1, <3>1, <3>2, <3>3 DEF HostCall
    <2>4. cursor <= regionEnd /\ regionEnd <= Host!Last + 1 /\ copyEnd <= regionEnd
          /\ copyEnd - cursor <= CopyChunk /\ CopyChunk \in Nat /\ CopyChunk > 0
      BY <1>1, <1>7, HostAssumption DEF HostInv, HostSnapshot
    <2>5. \A p \in first..(cursor - 1) : Excused(p)
      BY <1>1, <1>7 DEF HostInv, HostSnapshot
    <2>6. \A p \in first..(copyEnd - 1) : Excused(p)
      <3>1. ASSUME NEW p \in first..(copyEnd - 1) PROVE Excused(p)
        <4>1. CASE p < cursor
          BY <1>2, <2>5, <4>1
        <4>2. CASE ~ (p < cursor)
          <5>1. cursor <= p /\ p - cursor < CopyChunk
            BY <1>2, <2>4, <4>2
          <5>2. QED
            BY <1>4, <5>1 DEF Excused
        <4>3. QED
          BY <4>1, <4>2
      <3>2. QED
        BY <3>1
    <2>7. \A p \in first..(copyEnd - 1) : Excused(p)'
      BY <1>1, <2>6, StillExcused
    <2>8. HostSnapshot'
      BY <1>1, <1>2, <2>1, <2>4, <2>7 DEF HostSnapshot, Host!Last
    <2>9. QED
      BY <1>1, <1>7, <2>1, <2>2, <2>3, <2>8 DEF HostInv, HostCopies, HostAnswered, Host!AccessExact,
        Host!SnapshotComplete
  <1>8. QED
    BY <1>6, <1>7

LEMMA HostCopiedAll == ASSUME HostInv, Host!Copied PROVE HostInv'
  <1>1. /\ UNCHANGED <<op, first, size, prot, cursor, regionEnd, copyEnd, buffer, lost>> /\ pc = "copy"
        /\ cursor >= copyEnd
    BY DEF Host!Copied, Host!call
  <1>2. /\ first \in 1..Pages /\ size \in Nat /\ cursor \in Int /\ copyEnd \in Int
    BY DEF HostInv, HostTypes, Host!Page
  <1>3. CASE op # "snapshot"
    <2>1. pc' = "idle" /\ result' = TRUE
      BY <1>3 DEF Host!Copied, Host!Return
    <2>2. HostTypes'
      BY <1>1, <2>1 DEF HostInv, HostTypes
    <2>3. \A p \in Host!Range : buffer[p] = p
      BY <1>1, <1>2, <1>3 DEF HostInv, HostCopies, Host!Range, Host!Last
    <2>4. HostAnswered'
      BY <1>1, <1>3, <2>1, <2>3 DEF HostAnswered, Host!AccessExact, Host!SnapshotComplete, Host!Range,
        Host!Last
    <2>5. QED
      BY <2>1, <2>2, <2>4 DEF HostInv, HostCall, HostCopies, HostSnapshot
  <1>4. CASE op = "snapshot"
    <2>1. pc' = "chunk" /\ result' = result
      BY <1>4 DEF Host!Copied
    <2>2. HostTypes' /\ HostCall'
      BY <1>1, <1>4, <2>1 DEF HostInv, HostTypes, HostCall, Host!Last, Host!Inaccessible
    <2>3. HostSnapshot'
      BY <1>1, <1>4, <2>1, StillExcused DEF HostInv, HostSnapshot, Host!Last
    <2>4. QED
      BY <1>1, <2>1, <2>2, <2>3 DEF HostInv, HostCopies, HostAnswered, Host!AccessExact,
        Host!SnapshotComplete
  <1>5. QED
    BY <1>3, <1>4

LEMMA HostChunked == ASSUME HostInv, Host!SnapshotChunk PROVE HostInv'
  <1>1. /\ UNCHANGED <<op, first, size, prot, cursor, regionEnd, buffer, result, lost>> /\ pc = "chunk"
        /\ op = "snapshot" /\ cursor <= regionEnd /\ regionEnd <= Host!Last + 1
    BY DEF Host!SnapshotChunk, Host!call, HostInv, HostCall, HostSnapshot
  <1>2. /\ cursor \in Int /\ regionEnd \in Int /\ copyEnd \in Int /\ CopyChunk \in Nat /\ CopyChunk > 0
    BY HostAssumption DEF HostInv, HostTypes
  <1>3. \/ pc' = "region" /\ copyEnd' = copyEnd
        \/ pc' = "copy" /\ copyEnd' = Host!Lower(cursor + CopyChunk, regionEnd)
    BY DEF Host!SnapshotChunk
  <1>4. HostTypes'
    BY <1>1, <1>2, <1>3 DEF HostInv, HostTypes, Host!Lower
  <1>5. HostCall'
    BY <1>1, <1>3 DEF HostInv, HostCall, Host!Last, Host!Inaccessible
  <1>6. HostSnapshot'
    <2>1. \A p \in first..(cursor - 1) : Excused(p)'
      BY <1>1, StillExcused DEF HostInv, HostSnapshot
    <2>2. pc' = "copy" => cursor <= copyEnd' /\ copyEnd' <= regionEnd /\ copyEnd' - cursor <= CopyChunk
      BY <1>1, <1>2, <1>3 DEF Host!Lower
    <2>3. QED
      BY <1>1, <1>3, <2>1, <2>2 DEF HostSnapshot, Host!Last
  <1>7. QED
    BY <1>1, <1>3, <1>4, <1>5, <1>6 DEF HostInv, HostCopies, HostAnswered, Host!AccessExact,
      Host!SnapshotComplete

LEMMA HostRegion == ASSUME HostInv, Host!SnapshotRegion PROVE HostInv'
  <1>1. /\ UNCHANGED <<op, first, size, prot, copyEnd, buffer, lost>> /\ pc = "region" /\ op = "snapshot"
        /\ size > 0 /\ first <= cursor /\ cursor <= Host!Last + 1 /\ Host!Inaccessible(op, prot) \subseteq lost
        /\ \A p \in first..(cursor - 1) : Excused(p)
    BY DEF Host!SnapshotRegion, Host!call, HostInv, HostCall, HostSnapshot
  <1>2. /\ first \in 1..Pages /\ size \in Nat /\ first + size <= Pages + 1 /\ cursor \in Int
        /\ prot \in [Host!Page -> Host!Protections] /\ Pages \in Nat /\ CopyChunk \in Nat /\ CopyChunk > 0
    BY HostAssumption DEF HostInv, HostTypes, Host!Page
  <1>3. CASE cursor > Host!Last
    <2>1. pc' = "idle" /\ result' = TRUE /\ UNCHANGED <<cursor, regionEnd>>
      BY <1>3 DEF Host!SnapshotRegion, Host!Return
    <2>2. HostTypes'
      BY <1>1, <2>1 DEF HostInv, HostTypes
    <2>3. \A p \in Host!Range : Excused(p)
      BY <1>1, <1>2, <1>3 DEF Host!Range, Host!Last
    <2>4. HostAnswered'
      BY <1>1, <2>1, <2>3 DEF HostAnswered, Host!AccessExact, Host!SnapshotComplete, Excused, Host!Range,
        Host!Last
    <2>5. QED
      BY <2>1, <2>2, <2>4 DEF HostInv, HostCall, HostCopies, HostSnapshot
  <1>4. CASE ~ (cursor > Host!Last)
    <2>1. cursor \in Host!Page /\ Host!Last \in Int
      BY <1>1, <1>2, <1>4 DEF Host!Last, Host!Page
    <2>2. PICK e : e = Host!EndOfRegion(cursor)
      OBVIOUS
    <2>3. e \in (cursor + 1)..(Pages + 1) /\ \A q \in cursor..(e - 1) : prot[q] = prot[cursor]
      BY <1>2, <2>1, <2>2, RegionEnds
    <2>4. PICK f : f = Host!Lower(e, Host!Last + 1)
      OBVIOUS
    <2>5. f \in Int /\ cursor < f /\ f <= e /\ f <= Host!Last + 1
      BY <1>2, <1>4, <2>1, <2>3, <2>4 DEF Host!Lower
    <2>6. regionEnd' = f /\ result' = result
      BY <1>4, <2>2, <2>4 DEF Host!SnapshotRegion
    <2>7. CASE Host!RegionAllows("read", prot[cursor])
      <3>1. pc' = "chunk" /\ cursor' = cursor
        BY <1>4, <2>7 DEF Host!SnapshotRegion
      <3>2. HostTypes' /\ HostCall'
        BY <1>1, <2>5, <2>6, <3>1 DEF HostInv, HostTypes, HostCall, Host!Last, Host!Inaccessible
      <3>3. HostSnapshot'
        BY <1>1, <1>2, <2>5, <2>6, <3>1, StillExcused DEF HostSnapshot, Host!Last
      <3>4. QED
        BY <1>1, <3>1, <3>2, <3>3 DEF HostInv, HostCopies, HostAnswered, Host!AccessExact,
          Host!SnapshotComplete
    <2>8. CASE ~ Host!RegionAllows("read", prot[cursor])
      <3>1. pc' = pc /\ cursor' = f
        BY <1>4, <2>6, <2>8 DEF Host!SnapshotRegion
      <3>2. HostTypes'
        BY <1>1, <2>5, <2>6, <3>1 DEF HostInv, HostTypes
      <3>3. HostCall'
        BY <1>1, <1>2, <2>1, <2>5, <3>1 DEF HostCall, Host!Last, Host!Inaccessible
      <3>4. \A p \in first..(f - 1) : Excused(p)
        <4>1. ASSUME NEW p \in first..(f - 1), cursor <= p PROVE Excused(p)
          <5>1. p \in Host!Page /\ p \in Host!Range /\ p \in cursor..(e - 1)
            BY <1>1, <1>2, <2>1, <2>3, <2>5, <4>1 DEF Host!Page, Host!Range, Host!Last
          <5>2. prot[p] = prot[cursor]
            BY <2>3, <5>1
          <5>3. p \in lost
            BY <1>1, <2>8, <5>1, <5>2 DEF Host!Inaccessible, Host!RegionAllows, Host!Accessible
          <5>4. p <= p /\ p - p < CopyChunk
            BY <1>2, <4>1
          <5>5. QED
            BY <5>1, <5>3, <5>4 DEF Excused
        <4>2. \A p \in first..(f - 1) : cursor <= p \/ p \in first..(cursor - 1)
          BY <1>2
        <4>3. QED
          BY <1>1, <4>1, <4>2
      <3>5. HostSnapshot'
        BY <1>1, <3>1, <3>4, StillExcused DEF HostSnapshot
      <3>6. QED
        BY <1>1, <3>1, <3>2, <3>3, <3>5 DEF HostInv, HostCopies, HostAnswered, Host!AccessExact,
          Host!SnapshotComplete
    <2>9. QED
      BY <2>7, <2>8
  <1>5. QED
    BY <1>3, <1>4

LEMMA HostQueryFailed == ASSUME HostInv, Host!QueryFails PROVE HostInv'
  <1>1. /\ UNCHANGED <<op, first, size, prot, regionEnd, copyEnd, buffer>> /\ pc \in {"check", "region"}
        /\ lost' = lost \cup {cursor} /\ size > 0 /\ first <= cursor /\ cursor <= Host!Last
        /\ Host!Inaccessible(op, prot) \subseteq lost
    BY DEF Host!QueryFails, Host!call, HostInv, HostCall
  <1>2. /\ first \in 1..Pages /\ size \in Nat /\ first + size <= Pages + 1 /\ cursor \in Int
        /\ Pages \in Nat /\ CopyChunk \in Nat /\ CopyChunk > 0
    BY HostAssumption DEF HostInv, HostTypes, Host!Page
  <1>3. cursor \in Host!Range
    BY <1>1, <1>2 DEF Host!Last, Host!Range
  <1>4. CASE op # "snapshot"
    <2>1. pc' = "idle" /\ result' = FALSE /\ cursor' = cursor
      BY <1>4 DEF Host!QueryFails, Host!Return
    <2>2. HostTypes'
      BY <1>1, <2>1 DEF HostInv, HostTypes
    <2>3. HostAnswered'
      BY <1>1, <1>3, <1>4, <2>1 DEF HostAnswered, Host!AccessExact, Host!SnapshotComplete, Host!Range,
        Host!Last
    <2>4. QED
      BY <2>1, <2>2, <2>3 DEF HostInv, HostCall, HostCopies, HostSnapshot
  <1>5. CASE op = "snapshot"
    <2>1. pc' = pc /\ pc = "region" /\ result' = result /\ cursor' = cursor + 1
      BY <1>1, <1>5 DEF Host!QueryFails, HostInv, HostCall
    <2>2. HostTypes'
      BY <1>1, <1>2, <2>1 DEF HostInv, HostTypes
    <2>3. HostCall'
      BY <1>1, <1>2, <1>5, <2>1 DEF HostCall, Host!Last, Host!Inaccessible
    <2>4. \A p \in first..(cursor - 1) : Excused(p)'
      BY <1>1, <1>5, StillExcused DEF HostInv, HostSnapshot
    <2>5. ASSUME NEW p \in Int, p = cursor PROVE Excused(p)'
      <3>1. p \in lost' /\ p \in Host!Range' /\ p - p < CopyChunk
        BY <1>1, <1>2, <1>3, <2>5 DEF Host!Range, Host!Last
      <3>2. \E q \in (lost \cap Host!Range)' : q <= p /\ p - q < CopyChunk
        BY <1>2, <3>1
      <3>3. QED
        BY <3>2 DEF Excused
    <2>6. \A p \in first..cursor : p \in Int /\ (p = cursor \/ p \in first..(cursor - 1))
      BY <1>2
    <2>7. \A p \in first'..(cursor' - 1) : Excused(p)'
      BY <1>1, <1>2, <2>1, <2>4, <2>5, <2>6
    <2>8. HostSnapshot'
      BY <2>1, <2>7 DEF HostSnapshot
    <2>9. QED
      BY <1>5, <1>1, <2>1, <2>2, <2>3, <2>8 DEF HostInv, HostCopies, HostAnswered, Host!AccessExact,
        Host!SnapshotComplete
  <1>6. QED
    BY <1>4, <1>5

LEMMA HostIdles == ASSUME HostInv, UNCHANGED hostVars, pc' = pc PROVE HostInv'
  BY StillExcused DEF hostVars, HostInv, HostTypes, HostCall, HostCopies, HostSnapshot, HostAnswered,
    Host!AccessExact, Host!SnapshotComplete, Host!Range, Host!Last, Host!Inaccessible

LEMMA HostStep == ASSUME HostInv, Host!Next PROVE HostInv'
  BY HostCalled, HostProtected, HostChecked, HostCopied, HostFaulted, HostCopiedAll, HostRegion,
    HostChunked, HostQueryFailed DEF Host!Next

(***************************************************************************)
(* Read and Write of the own process are exact or fail, and fail only if a *)
(* page was not there at some time of the call; a snapshot is always       *)
(* taken, and a page is missing from it only if that page, or one at most  *)
(* a chunk before it, could not be read at some time or not be asked for:  *)
(* whatever other threads do to the protection of the pages between any    *)
(* two steps.                                                              *)
(***************************************************************************)
THEOREM CopiesAlwaysExact == AllSpec => []CopiesAreExact
  <1> DEFINE J == world = "host" => HostInv
  <1>1. AllInit => J
    BY HostStart DEF AllInit, ProgressInit, PipelineInit, HintInit, HostInit, MethodInit
  <1>2. J /\ [AllNext]_allVars => J'
    <2>1. SUFFICES ASSUME J, [AllNext]_allVars, world' = "host" PROVE HostInv'
      OBVIOUS
    <2>2. world' = world
      BY <2>1 DEF AllNext, ProgressNext, PipelineNext, HintNext, HostNext, MethodNext, allVars
    <2>3. HostInv
      BY <2>1, <2>2
    <2>4. HostNext \/ (UNCHANGED hostVars /\ pc' = pc)
      BY <2>1, <2>2 DEF AllNext, ProgressNext, PipelineNext, HintNext, MethodNext, allVars
    <2>5. QED
      BY <2>3, <2>4, HostStep, HostIdles DEF HostNext
  <1>3. J => CopiesAreExact
    BY DEF CopiesAreExact, HostInv, HostAnswered
  <1>4. QED
    BY <1>1, <1>2, <1>3, PTL DEF AllSpec

(***************************************************************************)
(* HintExport.  A field of the hint is true or zero, a document is made    *)
(* from the hint alone, and the file is opened only once there is one.     *)
(***************************************************************************)
Told == \A f \in Hint!Fields : document[f] = Hint!TrueValue(f) \/ document[f] = IF f \in Hint!Plain THEN 0 ELSE NoListener

HintInv ==
  /\ target \in HintTargets
  /\ hint \in [Hint!Fields -> Nat]
  /\ \A f \in Hint!Fields : hint[f] \in {0, Hint!TrueValue(f)}
  /\ document # NoListener => Told
  /\ pc \in {"open", "write"} => document # NoListener
  /\ file = "old" \/ document # NoListener

\* The steps that read: they fill in fields of the hint from the module.
HintFilled ==
  /\ UNCHANGED <<target, document, file>> /\ pc' \notin {"open", "write"}
  /\ hint' \in [Hint!Fields -> Nat]
  /\ \A f \in Hint!Fields : hint'[f] \in {0, hint[f], Hint!TrueValue(f)}

LEMMA HintStart == Hint!Init => HintInv
  <1> SUFFICES ASSUME Hint!Init PROVE HintInv
    OBVIOUS
  <1> QED
    BY DEF Hint!Init, HintInv, Hint!NoHint

LEMMA FilledKeeps == ASSUME HintInv, HintFilled PROVE HintInv'
  <1>1. \A f \in Hint!Fields : Hint!TrueValue(f)' = Hint!TrueValue(f)
    BY DEF HintFilled, Hint!TrueValue
  <1>2. Told => Told'
    BY <1>1 DEF HintFilled, Told
  <1>3. QED
    BY <1>1, <1>2 DEF HintInv, HintFilled

\* What a field is set to, and that the others keep their values.
LEMMA SetOne ==
  ASSUME HintInv, NEW f \in Hint!Fields, NEW v \in Nat, Hint!Set(Hint!Is(f, v)), v \in {0, Hint!TrueValue(f)}
  PROVE  /\ hint' \in [Hint!Fields -> Nat]
         /\ \A g \in Hint!Fields : hint'[g] \in {0, hint[g], Hint!TrueValue(g)}
  BY DEF HintInv, Hint!Set, Hint!Is

LEMMA SetNone ==
  ASSUME HintInv, Hint!Set(<<>>)
  PROVE  hint' = hint
  <1>1. DOMAIN <<>> = {}
    BY Z3
  <1>2. hint' = [f \in Hint!Fields |-> hint[f]]
    BY <1>1 DEF Hint!Set
  <1>3. QED
    BY <1>2 DEF HintInv

\* The plain fields of a module.
LEMMA PlainValues ==
  ASSUME HintInv
  PROVE  \A f \in {"modulePath", "moduleSize", "peImageBase", "metaBase", "totalSize", "magic", "version",
                   "codeRegistration", "metadataRegistration", "codeGenModules"} :
           f \in Hint!Fields /\ target[f] \in Nat /\ Hint!TrueValue(f) = target[f]
  BY HintAssumption DEF HintInv, Hint!Fields, Hint!TrueValue

LEMMA WordsFilled == ASSUME HintInv, Hint!ReadHeaderWords PROVE HintFilled
  <1>1. /\ UNCHANGED <<target, document, file>> /\ pc' = "registrations"
    BY DEF Hint!ReadHeaderWords, Hint!kept
  <1>2. PICK read \in SUBSET {"magic", "version", "images", "assemblies"} :
          Hint!Set([magic |-> IF "magic" \in read THEN target.magic ELSE 0,
                    version |-> IF "version" \in read THEN target.version ELSE 0,
                    imagesCount |-> Hint!ImagesCount(read), assembliesCount |-> Hint!AssembliesCount(read)])
    BY DEF Hint!ReadHeaderWords
  <1>3. /\ Hint!ImagesCount(read) \in {0, Hint!TrueValue("imagesCount")} /\ Hint!ImagesCount(read) \in Nat
        /\ Hint!AssembliesCount(read) \in {0, Hint!TrueValue("assembliesCount")}
        /\ Hint!AssembliesCount(read) \in Nat
    <2>1. target.imagesSize \in Nat /\ target.assembliesSize \in Nat
      BY HintAssumption DEF HintInv
    <2>2. \A n \in Nat, r \in Nat \ {0} : n \div r \in Nat /\ 0 \div r = 0 /\ 0 % r = 0
      OBVIOUS
    <2>3. QED
      BY <2>1, <2>2, HintAssumption DEF Hint!ImagesCount, Hint!AssembliesCount, Hint!TrueValue, Hint!Count
  <1>4. PICK m \in Nat, v \in Nat, i \in Nat, a \in Nat :
          /\ m \in {0, Hint!TrueValue("magic")} /\ v \in {0, Hint!TrueValue("version")}
          /\ i \in {0, Hint!TrueValue("imagesCount")} /\ a \in {0, Hint!TrueValue("assembliesCount")}
          /\ Hint!Set([magic |-> m, version |-> v, imagesCount |-> i, assembliesCount |-> a])
    <2>1. target.magic \in Nat /\ target.version \in Nat
          /\ Hint!TrueValue("magic") = target.magic /\ Hint!TrueValue("version") = target.version
      BY PlainValues
    <2>2. (IF "magic" \in read THEN target.magic ELSE 0) \in Nat
          /\ (IF "version" \in read THEN target.version ELSE 0) \in Nat
      BY <2>1
    <2>3. QED
      BY <1>2, <1>3, <2>1, <2>2
  <1>5. hint' = [f \in Hint!Fields |-> CASE f = "magic" -> m [] f = "version" -> v [] f = "imagesCount" -> i
                                         [] f = "assembliesCount" -> a [] OTHER -> hint[f]]
    BY <1>4 DEF Hint!Set
  <1>6. QED
    BY <1>1, <1>4, <1>5 DEF HintInv, HintFilled

LEMMA RegistrationsFilled == ASSUME HintInv, Hint!FindIl2CppRegistrations PROVE HintFilled
  <1>1. /\ UNCHANGED <<target, document, file>> /\ pc' = "modules"
    BY DEF Hint!FindIl2CppRegistrations, Hint!kept
  <1> DEFINE Rva(va) == IF va # 0 /\ va >= target.base THEN va - target.base ELSE 0
  <1>2. PICK code \in {0, target.codeRegistration}, meta \in {0, target.metadataRegistration} :
          Hint!Set([codeRegistration |-> code, metadataRegistration |-> meta,
                    codeRegistrationRva |-> Rva(code), metadataRegistrationRva |-> Rva(meta)])
    BY DEF Hint!FindIl2CppRegistrations
  <1>3. /\ target.base \in Nat /\ target.codeRegistration \in Nat /\ target.metadataRegistration \in Nat
        /\ Hint!TrueValue("codeRegistration") = target.codeRegistration
        /\ Hint!TrueValue("metadataRegistration") = target.metadataRegistration
        /\ Hint!TrueValue("codeRegistrationRva") = target.codeRegistration - target.base
        /\ Hint!TrueValue("metadataRegistrationRva") = target.metadataRegistration - target.base
    BY HintAssumption, PlainValues DEF HintInv, Hint!TrueValue
  <1>4. /\ Rva(code) \in Nat /\ Rva(code) \in {0, Hint!TrueValue("codeRegistrationRva")}
        /\ Rva(meta) \in Nat /\ Rva(meta) \in {0, Hint!TrueValue("metadataRegistrationRva")}
    BY <1>3
  <1>5. PICK c \in Nat, r \in Nat : c = Rva(code) /\ r = Rva(meta)
    BY <1>4
  <1>6. hint' = [f \in Hint!Fields |-> CASE f = "codeRegistration" -> code [] f = "metadataRegistration" -> meta
                                         [] f = "codeRegistrationRva" -> c
                                         [] f = "metadataRegistrationRva" -> r [] OTHER -> hint[f]]
    BY <1>2, <1>5 DEF Hint!Set
  <1>7. code \in Nat /\ meta \in Nat
    BY <1>3
  <1>8. QED
    BY <1>1, <1>3, <1>4, <1>5, <1>6, <1>7 DEF HintInv, HintFilled

LEMMA ModuleFilled ==
  ASSUME HintInv,
         \/ Hint!TryQueryModulePath \/ Hint!ReadModuleSections \/ Hint!ReadModuleImageBase
         \/ Hint!FindMetadataPointerByScore \/ Hint!CalcTotalSizeFromHeader \/ Hint!CollectCodeGenModules
  PROVE  HintFilled
  <1>1. UNCHANGED <<target, document, file>> /\ pc' \notin {"open", "write"}
    BY DEF Hint!TryQueryModulePath, Hint!ReadModuleSections, Hint!ReadModuleImageBase,
      Hint!FindMetadataPointerByScore, Hint!CalcTotalSizeFromHeader, Hint!CollectCodeGenModules, Hint!kept,
      Hint!Return
  <1> DEFINE One == {"modulePath", "moduleSize", "peImageBase", "metaBase", "totalSize", "codeGenModules"}
  <1>2. \/ hint' = hint \/ Hint!Set(<<>>)
        \/ \E f \in One : Hint!Set(Hint!Is(f, target[f]))
    BY DEF Hint!TryQueryModulePath, Hint!ReadModuleSections, Hint!ReadModuleImageBase,
      Hint!FindMetadataPointerByScore, Hint!CalcTotalSizeFromHeader, Hint!CollectCodeGenModules
  <1>3. CASE hint' = hint \/ Hint!Set(<<>>)
    BY <1>1, <1>3, SetNone DEF HintInv, HintFilled
  <1>4. ASSUME NEW f \in One, Hint!Set(Hint!Is(f, target[f])) PROVE HintFilled
    BY <1>1, <1>4, PlainValues, SetOne DEF HintFilled
  <1>5. QED
    BY <1>2, <1>3, <1>4

LEMMA HintWritten == ASSUME HintInv, Hint!BuildMetadataHintJson PROVE HintInv'
  <1>1. UNCHANGED <<target, hint, file>> /\ pc' = "open"
    BY DEF Hint!BuildMetadataHintJson, Hint!kept
  <1>2. PICK converted \in BOOLEAN :
          document' = [f \in Hint!Fields |->
                        IF (f \notin Hint!Plain /\ hint[f] = 0) \/ (f = "modulePath" /\ ~ converted)
                          THEN NoListener ELSE hint[f]]
    BY DEF Hint!BuildMetadataHintJson
  <1>3. document' \in [Hint!Fields -> Nat \cup {NoListener}]
    BY <1>2 DEF HintInv
  <1>4. document' # NoListener
    BY <1>3, HintAssumption
  <1>5. "modulePath" \notin Hint!Plain
    BY DEF Hint!Plain
  <1>6. \A f \in Hint!Fields : document'[f] = Hint!TrueValue(f) \/ document'[f] = IF f \in Hint!Plain THEN 0 ELSE NoListener
    BY <1>2, <1>5 DEF HintInv
  <1>7. \A f \in Hint!Fields : Hint!TrueValue(f)' = Hint!TrueValue(f)
    BY <1>1 DEF Hint!TrueValue
  <1>8. QED
    BY <1>1, <1>4, <1>6, <1>7 DEF HintInv, Told

LEMMA HintStep == ASSUME HintInv, Hint!Next PROVE HintInv'
  <1>1. CASE Hint!Export
    <2>1. target' = target /\ hint' = [f \in Hint!Fields |-> 0] /\ document' = NoListener /\ file' = "old"
          /\ pc' \notin {"open", "write"}
      BY <1>1 DEF Hint!Export, Hint!kept, Hint!NoHint, Hint!Return
    <2>2. QED
      BY <2>1 DEF HintInv
  <1>2. CASE Hint!OpenFile \/ Hint!WriteFile
    <2>1. UNCHANGED <<target, hint, document>> /\ document # NoListener
      BY <1>2 DEF Hint!OpenFile, Hint!WriteFile, Hint!kept, HintInv
    <2>2. \A f \in Hint!Fields : Hint!TrueValue(f)' = Hint!TrueValue(f)
      BY <2>1 DEF Hint!TrueValue
    <2>3. QED
      BY <2>1, <2>2 DEF HintInv, Told
  <1>3. CASE ~ (Hint!Export \/ Hint!OpenFile \/ Hint!WriteFile \/ Hint!BuildMetadataHintJson)
    <2>1. HintFilled
      BY <1>3, ModuleFilled, WordsFilled, RegistrationsFilled DEF Hint!Next
    <2>2. QED
      BY <2>1, FilledKeeps
  <1>4. QED
    BY <1>1, <1>2, <1>3, HintWritten

LEMMA HintIdles == ASSUME HintInv, UNCHANGED <<target, hintVars, pc>> PROVE HintInv'
  <1>1. \A f \in Hint!Fields : Hint!TrueValue(f)' = Hint!TrueValue(f)
    BY DEF Hint!TrueValue
  <1>2. QED
    BY <1>1 DEF hintVars, HintInv, Told

(***************************************************************************)
(* A document that an export of a hint makes tells the truth about the     *)
(* module, whichever of its reads fail, and the file that was there is     *)
(* opened only once the document is ready: for any words of the module.    *)
(***************************************************************************)
THEOREM ExportTellsTruth == AllSpec => []HintExported
  <1> DEFINE J == world = "hint" => HintInv
  <1>1. AllInit => J
    BY HintStart DEF AllInit, ProgressInit, PipelineInit, HintInit, HostInit, MethodInit
  <1>2. J /\ [AllNext]_allVars => J'
    <2>1. SUFFICES ASSUME J, [AllNext]_allVars, world' = "hint" PROVE HintInv'
      OBVIOUS
    <2>2. world' = world
      BY <2>1 DEF AllNext, ProgressNext, PipelineNext, HintNext, HostNext, MethodNext, allVars
    <2>3. HintInv
      BY <2>1, <2>2
    <2>4. HintNext \/ UNCHANGED <<target, hintVars, pc>>
      BY <2>1, <2>2 DEF AllNext, ProgressNext, PipelineNext, HostNext, MethodNext, allVars
    <2>5. QED
      BY <2>3, <2>4, HintStep, HintIdles DEF HintNext
  <1>3. J => HintExported
    BY DEF HintExported, HintInv, Told, Hint!HintTellsTruth, Hint!OldUntilReady
  <1>4. QED
    BY <1>1, <1>2, <1>3, PTL DEF AllSpec

(***************************************************************************)
(* DumpPipeline.  By the stage a call has come to: whether it has read the *)
(* metadata, which of its files it has written, and whether the hint is    *)
(* its own.                                                                *)
(***************************************************************************)
MetadataFile == "global-metadata.dat"
HintFile == "il2cpp-offline.hint.json"

BeforeMetadata == {"snapshot", "extract", "open", "direct"}
Collection == {"snapshot", "extract", "directory", "legacy", "metadata", "parse", "registrations", "runtime",
               "types", "hint", "analyzed"}
MainWriters == {"sidecars", "dll_directory", "dlls", "optional"}
DirectWriters == {"direct_metadata", "direct_hint", "generic", "direct_dump_cs"}

Contents ==
  [state : Pipeline!Results \cup {"none"}, call : Nat, path : {"none", "main", "direct"},
   regs : SUBSET Pipeline!Registrations]

PipelineTypes ==
  /\ pc \in {"idle", "open", "direct"} \cup Collection \cup MainWriters \cup DirectWriters
  /\ entry \in {"none", "run", "collect", "dump"}
  /\ call \in Nat
  /\ files \in [Pipeline!Names -> Contents]
  /\ todo \in Seq(Pipeline!Names)
  /\ found \in SUBSET Pipeline!Registrations
  /\ allWritten \in BOOLEAN

Stage ==
  /\ pc # "idle" => outcome = "running" /\ paths = {}
  /\ pc \in {"open", "direct", "direct_dump_cs"} => entry = "dump"
  /\ pc \in Collection => entry \in {"run", "collect"}
  /\ pc \in MainWriters => entry = "run"
  /\ pc \in DirectWriters => entry \in {"run", "dump"}

OfMain(names) == \A f \in names : Pipeline!IsOf(f, call, "main")
Pending == Pipeline!SetOf(todo)

MainFiles ==
  /\ pc \in {"dll_directory", "dlls", "optional"} => OfMain(Pipeline!SetOf(Pipeline!Sidecars))
  /\ pc = "sidecars" =>
       /\ allWritten => OfMain(Pipeline!SetOf(Pipeline!Sidecars) \ Pending)
       /\ \A f \in Pipeline!SetOf(Pipeline!Sidecars) \ Pending : files[f].call = call \/ f \in refused
  /\ pc = "dlls" => OfMain(Pipeline!SetOf(Dlls) \ Pending)
  /\ pc = "optional" => OfMain(Pipeline!SetOf(Dlls))
  /\ pc \in DirectWriters /\ entry = "run" =>
       OfMain(Pipeline!SetOf(Pipeline!Sidecars)) /\ OfMain(Pipeline!SetOf(Dlls))

MetadataRead ==
  /\ files = before \/ extracted
  /\ pc \in BeforeMetadata => files = before
  /\ pc \notin BeforeMetadata \cup {"idle"} => extracted

HintOwn ==
  /\ pc \in {"analyzed"} \cup MainWriters => files[HintFile].call = call
  /\ pc \in DirectWriters /\ entry = "run" => files[HintFile].call = call
  /\ pc \in {"generic", "direct_dump_cs"} /\ entry = "dump" => files[HintFile].call = call \/ found = {}
  /\ pc = "direct_dump_cs" => Pipeline!IsOf("generic.json", call, "direct")

Answers ==
  /\ Pipeline!MainFilesStay /\ Pipeline!PathsAreWritten /\ Pipeline!EverySidecarTried
  /\ Pipeline!HintNotOlder

PipelineInv == PipelineTypes /\ Stage /\ MainFiles /\ MetadataRead /\ HintOwn /\ Answers

LEMMA SidecarNames ==
  Pipeline!SetOf(Pipeline!Sidecars) = {"dump.cs", "il2cpp.h", "script.json", "stringliteral.json"}
  <1>1. 1..4 = {1, 2, 3, 4}
    OBVIOUS
  <1>2. Len(Pipeline!Sidecars) = 4
    BY DEF Pipeline!Sidecars
  <1>3. QED
    BY <1>1, <1>2 DEF Pipeline!SetOf, Pipeline!Sidecars

LEMMA ListOfFour ==
  ASSUME NEW T, NEW a \in T, NEW b \in T, NEW c \in T, NEW d \in T
  PROVE  <<a, b>> \in Seq(T) /\ <<a, b, c, d>> \in Seq(T)
  OBVIOUS

LEMMA ListOf ==
  ASSUME NEW T, NEW U, NEW s \in Seq(T), \A i \in 1..Len(s) : s[i] \in U
  PROVE  s \in Seq(U)
  <1>1. s = [i \in 1..Len(s) |-> s[i]] /\ Len(s) \in Nat
    OBVIOUS
  <1>2. s \in [1..Len(s) -> U]
    BY <1>1
  <1>3. QED
    BY <1>1, <1>2

\* The names of the files a call writes.
LEMMA KnownNames ==
  /\ Pipeline!SetOf(Pipeline!Sidecars) \subseteq Pipeline!Names
  /\ Pipeline!SetOf(Pipeline!Legacy) \subseteq Pipeline!Names
  /\ Pipeline!SetOf(Dlls) \subseteq Pipeline!Names
  /\ {MetadataFile, HintFile, "generic.json", "dump.cs"} \subseteq Pipeline!Names
  /\ Pipeline!Sidecars \in Seq(Pipeline!Names) /\ Pipeline!Legacy \in Seq(Pipeline!Names)
  /\ Dlls \in Seq(Pipeline!Names)
  <1> DEFINE S == Pipeline!Sidecars
             L == Pipeline!Legacy
             All == S \o L \o Dlls
  <1> PICK T : T = {"dump.cs", "il2cpp.h", "script.json", "stringliteral.json",
                    "global-string-xrefs.json", "runtime-rdata-string-xrefs.json"}
    OBVIOUS
  <1>1. S \in Seq(T) /\ L \in Seq(T)
    BY ListOfFour DEF Pipeline!Sidecars, Pipeline!Legacy
  <1> PICK D \in SUBSET Pipeline!SetOf(Dlls) : D = Pipeline!SetOf(Dlls)
    OBVIOUS
  <1>2. Dlls \in Seq(D)
    BY PipelineAssumption
  <1> HIDE DEF S, L
  <1>3. S \in Seq(T \cup D) /\ L \in Seq(T \cup D) /\ Dlls \in Seq(T \cup D)
    BY <1>1, <1>2
  <1>4. /\ All \in Seq(T \cup D) /\ Len(All) = Len(S) + Len(L) + Len(Dlls)
        /\ \A i \in 1..Len(S) : All[i] = S[i]
        /\ \A i \in 1..Len(L) : All[Len(S) + i] = L[i]
        /\ \A i \in 1..Len(Dlls) : All[Len(S) + Len(L) + i] = Dlls[i]
    BY <1>3
  <1>5. Pipeline!Names = Pipeline!SetOf(All) \cup {MetadataFile, HintFile, "generic.json"}
    BY DEF Pipeline!Names, MetadataFile, HintFile, S, L
  <1>6. Len(S) \in Nat /\ Len(L) \in Nat /\ Len(Dlls) \in Nat
    BY <1>1, <1>2
  <1>7. /\ \A i \in 1..Len(S) : S[i] \in Pipeline!Names
        /\ \A i \in 1..Len(L) : L[i] \in Pipeline!Names
        /\ \A i \in 1..Len(Dlls) : Dlls[i] \in Pipeline!Names
    <2>1. \A i \in 1..Len(All) : All[i] \in Pipeline!Names
      BY <1>5 DEF Pipeline!SetOf
    <2>2. \A i \in 1..Len(S) : i \in 1..Len(All)
      BY <1>4, <1>6
    <2>3. \A i \in 1..Len(L) : Len(S) + i \in 1..Len(All)
      BY <1>4, <1>6
    <2>4. \A i \in 1..Len(Dlls) : Len(S) + Len(L) + i \in 1..Len(All)
      BY <1>4, <1>6
    <2>5. QED
      BY <1>4, <2>1, <2>2, <2>3, <2>4
  <1>8. /\ Pipeline!SetOf(S) \subseteq Pipeline!Names /\ Pipeline!SetOf(L) \subseteq Pipeline!Names
        /\ Pipeline!SetOf(Dlls) \subseteq Pipeline!Names
    BY <1>7 DEF Pipeline!SetOf
  <1>9. "dump.cs" \in Pipeline!Names
    BY <1>8, SidecarNames DEF S
  <1>10. S \in Seq(Pipeline!Names) /\ L \in Seq(Pipeline!Names) /\ Dlls \in Seq(Pipeline!Names)
    BY <1>3, <1>7, ListOf
  <1>11. QED
    BY <1>5, <1>8, <1>9, <1>10 DEF S, L

\* Of a list that is not empty: its first name, and the rest.
LEMMA PendingTail ==
  ASSUME NEW s \in Seq(Pipeline!Names), s # <<>>
  PROVE  /\ Head(s) \in Pipeline!Names /\ Tail(s) \in Seq(Pipeline!Names)
         /\ \A f \in Pipeline!SetOf(s) : f = Head(s) \/ f \in Pipeline!SetOf(Tail(s))
  <1>1. Len(s) \in Nat /\ Len(s) > 0 /\ Head(s) = s[1] /\ Tail(s) \in Seq(Pipeline!Names)
        /\ Len(Tail(s)) = Len(s) - 1
        /\ \A j \in 1..(Len(s) - 1) : Tail(s)[j] = s[j + 1]
        /\ \A i \in 1..Len(s) : s[i] \in Pipeline!Names
    OBVIOUS
  <1>2. ASSUME NEW i \in 1..Len(s), i # 1 PROVE s[i] \in Pipeline!SetOf(Tail(s))
    <2>1. i - 1 \in 1..Len(Tail(s)) /\ Tail(s)[i - 1] = s[i]
      BY <1>1, <1>2
    <2>2. QED
      BY <2>1 DEF Pipeline!SetOf
  <1>3. QED
    BY <1>1, <1>2 DEF Pipeline!SetOf

LEMMA NonePending == Pipeline!SetOf(<<>>) = {}
  BY DEF Pipeline!SetOf

\* One file is written: it has the content of this call, or it was refused and
\* nothing has changed; the other files are as they were.
LEMMA OneWritten ==
  ASSUME PipelineTypes, NEW f \in Pipeline!Names, NEW r \in Pipeline!Results, NEW p \in {"main", "direct"},
         NEW regs \in SUBSET Pipeline!Registrations, Pipeline!Write(f, r, p, regs)
  PROVE  /\ files' \in [Pipeline!Names -> Contents]
         /\ \A g \in Pipeline!Names : g # f => files'[g] = files[g]
         /\ files'[f].call = call \/ (f \in refused' /\ files' = files)
         /\ Pipeline!Good(r) => files'[f].state \in {"short", "whole"} /\ files'[f].call = call
                                  /\ files'[f].path = p
         /\ refused \subseteq refused'
  <1>1. CASE r = "refused"
    BY <1>1 DEF Pipeline!Write, Pipeline!Good, PipelineTypes
  <1>2. CASE r # "refused"
    <2>1. files' = [files EXCEPT ![f] = Pipeline!Content(r, call, p, regs)] /\ refused' = refused
      BY <1>2 DEF Pipeline!Write
    <2>2. Pipeline!Content(r, call, p, regs) \in Contents
      BY DEF Pipeline!Content, Contents, PipelineTypes
    <2>3. QED
      BY <1>2, <2>1, <2>2 DEF PipelineTypes, Pipeline!Content, Pipeline!Good
  <1>3. QED
    BY <1>1, <1>2

LEMMA PipelineStart == Pipeline!Init => PipelineInv
  <1> SUFFICES ASSUME Pipeline!Init PROVE PipelineInv
    OBVIOUS
  <1>1. files \in [Pipeline!Names -> Contents]
    <2>1. Pipeline!Content("whole", 0, "main", Pipeline!Registrations) \in Contents /\ Pipeline!Missing \in Contents
      BY DEF Pipeline!Content, Pipeline!Missing, Contents, Pipeline!Results
    <2>2. QED
      BY <2>1 DEF Pipeline!Init
  <1>2. PipelineTypes
    BY <1>1 DEF Pipeline!Init, PipelineTypes
  <1>3. pc = "idle" /\ outcome = "none" /\ paths = {} /\ files = before
    BY DEF Pipeline!Init
  <1>4. QED
    BY <1>2, <1>3 DEF PipelineInv, Stage, MainFiles, MetadataRead, HintOwn, Answers, Pipeline!MainFilesStay,
      Pipeline!PathsAreWritten, Pipeline!EverySidecarTried, Pipeline!HintNotOlder, Collection,
      MainWriters, DirectWriters

\* A step to a stage that is not the last one leaves nothing to be answered.
LEMMA GoesOn ==
  ASSUME PipelineTypes', Stage', MainFiles', MetadataRead', HintOwn', pc' # "idle"
  PROVE  PipelineInv'
  BY DEF PipelineInv, Answers, Stage, Pipeline!MainFilesStay, Pipeline!PathsAreWritten,
    Pipeline!EverySidecarTried, Pipeline!HintNotOlder

\* An error, that of the sidecar files aside, promises nothing but that the
\* files are as before or the metadata has been read.
LEMMA GivesUp ==
  ASSUME PipelineTypes', pc' = "idle", outcome' \notin {"ok", "Sidecar WriteAll failed"}, paths' = {},
         files' = before' \/ extracted'
  PROVE  PipelineInv'
  BY DEF PipelineInv, Answers, Stage, MainFiles, MetadataRead, HintOwn, Collection, MainWriters,
    DirectWriters, BeforeMetadata, Pipeline!MainFilesStay, Pipeline!PathsAreWritten, Pipeline!EverySidecarTried,
    Pipeline!HintNotOlder

\* A stage of the collection before the hint is written.
LEMMA Collects ==
  ASSUME PipelineInv, PipelineTypes', pc \in Collection, pc' \in Collection \ {"analyzed"},
         UNCHANGED <<entry, outcome, paths>>,
         files' = before' \/ extracted', pc' \in BeforeMetadata => files' = before',
         pc' \notin BeforeMetadata => extracted'
  PROVE  PipelineInv'
  <1>1. pc' # "idle" /\ pc' \notin {"open", "direct"} \cup MainWriters \cup DirectWriters \cup {"analyzed"}
    BY DEF Collection, MainWriters, DirectWriters
  <1>2. outcome' = "running" /\ paths' = {} /\ entry' \in {"run", "collect"}
    BY DEF PipelineInv, Stage, Collection
  <1>3. Stage' /\ MetadataRead'
    BY <1>1, <1>2 DEF Stage, MetadataRead, DirectWriters
  <1>4. MainFiles' /\ HintOwn'
    BY <1>1 DEF MainFiles, HintOwn, MainWriters, DirectWriters
  <1>5. QED
    BY <1>1, <1>3, <1>4, GoesOn

LEMMA ExtractStep == ASSUME PipelineInv, Pipeline!TryExtractMetadataFromModule PROVE PipelineInv'
  <1>1. /\ UNCHANGED <<entry, call, before, files, refused, allWritten, paths, todo, found>> /\ pc = "extract"
    BY DEF Pipeline!TryExtractMetadataFromModule, Pipeline!rest, Pipeline!KeepFiles
  <1>2. PICK good \in BOOLEAN : Pipeline!Step(good, "directory", "Metadata scan failed") /\ extracted' = good
    BY DEF Pipeline!TryExtractMetadataFromModule
  <1>3. files = before /\ outcome = "running" /\ paths = {}
    BY <1>1 DEF PipelineInv, MetadataRead, BeforeMetadata, Stage
  <1>4. CASE good
    <2>1. pc' = "directory" /\ outcome' = outcome /\ extracted'
      BY <1>2, <1>4 DEF Pipeline!Step, Pipeline!Goto
    <2>2. PipelineTypes'
      BY <1>1, <2>1 DEF PipelineInv, PipelineTypes, Collection
    <2>3. QED
      BY <1>1, <1>3, <2>1, <2>2, Collects DEF Collection, BeforeMetadata
  <1>5. CASE ~ good
    <2>1. pc' = "idle" /\ outcome' = "Metadata scan failed"
      BY <1>2, <1>5 DEF Pipeline!Step, Pipeline!Return
    <2>2. PipelineTypes'
      BY <1>1, <2>1 DEF PipelineInv, PipelineTypes
    <2>3. QED
      BY <1>1, <1>3, <2>1, <2>2, GivesUp
  <1>6. QED
    BY <1>4, <1>5

LEMMA CollectionStep ==
  ASSUME PipelineInv,
         \/ Pipeline!Snapshot \/ Pipeline!CreateDirectories \/ Pipeline!ParseMetadata
         \/ Pipeline!LocateRegistrations \/ Pipeline!InitializeRuntime \/ Pipeline!CollectTypes
         \/ Pipeline!CollectThrows
  PROVE  PipelineInv'
  <1>1. /\ UNCHANGED <<entry, call, before, files, refused, allWritten, paths, extracted>>
        /\ pc \in Collection
    BY DEF Pipeline!Snapshot, Pipeline!CreateDirectories, Pipeline!ParseMetadata,
      Pipeline!LocateRegistrations, Pipeline!InitializeRuntime, Pipeline!CollectTypes,
      Pipeline!CollectThrows, Pipeline!rest, Pipeline!KeepFiles, Collection
  <1>2. todo' \in Seq(Pipeline!Names) /\ found' \in SUBSET Pipeline!Registrations
    BY KnownNames DEF Pipeline!Snapshot, Pipeline!CreateDirectories, Pipeline!ParseMetadata,
      Pipeline!LocateRegistrations, Pipeline!InitializeRuntime, Pipeline!CollectTypes,
      Pipeline!CollectThrows, PipelineInv, PipelineTypes
  <1>3. \/ /\ pc' = "idle" /\ outcome' \notin {"ok", "Sidecar WriteAll failed"}
        \/ /\ pc' \in Collection \ {"analyzed"} /\ outcome' = outcome
           /\ pc' \in BeforeMetadata <=> pc = "snapshot"
           /\ pc # "extract"
    BY DEF Pipeline!Snapshot, Pipeline!CreateDirectories, Pipeline!ParseMetadata,
      Pipeline!LocateRegistrations, Pipeline!InitializeRuntime, Pipeline!CollectTypes,
      Pipeline!CollectThrows, Pipeline!Step, Pipeline!Goto, Pipeline!Return, Collection, BeforeMetadata
  <1>4. PipelineTypes'
    BY <1>1, <1>2, <1>3 DEF PipelineInv, PipelineTypes
  <1>5. paths = {}
    BY <1>1 DEF PipelineInv, Stage, Collection
  <1>6. /\ files' = before' \/ extracted'
        /\ pc = "snapshot" => files' = before'
        /\ pc \notin {"snapshot", "extract"} => extracted'
    BY <1>1 DEF PipelineInv, MetadataRead, BeforeMetadata, Collection
  <1>7. QED
    BY <1>1, <1>3, <1>4, <1>5, <1>6, GivesUp, Collects

LEMMA ReportStep == ASSUME PipelineInv, Pipeline!RemoveReport PROVE PipelineInv'
  <1>1. /\ UNCHANGED <<entry, call, before, refused, allWritten, found, paths, extracted>>
        /\ pc = "legacy" /\ todo # <<>> /\ todo' = Tail(todo)
    BY DEF Pipeline!RemoveReport, Pipeline!rest
  <1>2. extracted /\ paths = {} /\ todo \in Seq(Pipeline!Names) /\ files \in [Pipeline!Names -> Contents]
    BY <1>1 DEF PipelineInv, MetadataRead, BeforeMetadata, Stage, PipelineTypes
  <1>3. Head(todo) \in Pipeline!Names /\ todo' \in Seq(Pipeline!Names)
    BY <1>1, <1>2, PendingTail
  <1>4. Pipeline!Missing \in Contents
    BY DEF Pipeline!Missing, Pipeline!Content, Contents
  <1>5. files' \in [Pipeline!Names -> Contents]
    BY <1>2, <1>3, <1>4 DEF Pipeline!RemoveReport
  <1>6. \/ pc' = "idle" /\ outcome' = "failed to remove legacy XRef report"
        \/ pc' \in {"metadata", "legacy"} /\ outcome' = outcome
    BY DEF Pipeline!RemoveReport, Pipeline!Step, Pipeline!Goto, Pipeline!Return
  <1>7. PipelineTypes'
    BY <1>1, <1>3, <1>5, <1>6 DEF PipelineInv, PipelineTypes, Collection
  <1>8. QED
    BY <1>1, <1>2, <1>6, <1>7, GivesUp, Collects DEF Collection, BeforeMetadata

LEMMA MetadataFileStep == ASSUME PipelineInv, Pipeline!WriteMetadata PROVE PipelineInv'
  <1>1. /\ UNCHANGED <<entry, call, before, todo, allWritten, found, paths, extracted>> /\ pc = "metadata"
    BY DEF Pipeline!WriteMetadata, Pipeline!rest
  <1>2. extracted /\ paths = {} /\ PipelineTypes
    BY <1>1 DEF PipelineInv, MetadataRead, BeforeMetadata, Stage
  <1>3. PICK r \in Pipeline!Results :
          /\ Pipeline!Write(MetadataFile, r, "main", {})
          /\ Pipeline!Step(Pipeline!Good(r), "parse", "failed to write global-metadata.dat")
    BY DEF Pipeline!WriteMetadata, MetadataFile
  <1>4. files' \in [Pipeline!Names -> Contents]
    <2>1. MetadataFile \in Pipeline!Names /\ {} \in SUBSET Pipeline!Registrations
      BY KnownNames
    <2>2. QED
      BY <1>2, <1>3, <2>1, OneWritten
  <1>5. \/ pc' = "idle" /\ outcome' = "failed to write global-metadata.dat"
        \/ pc' = "parse" /\ outcome' = outcome
    BY <1>3 DEF Pipeline!Step, Pipeline!Goto, Pipeline!Return
  <1>6. PipelineTypes'
    BY <1>1, <1>4, <1>5 DEF PipelineInv, PipelineTypes, Collection
  <1>7. QED
    BY <1>1, <1>2, <1>5, <1>6, GivesUp, Collects DEF Collection, BeforeMetadata

LEMMA HintFileStep == ASSUME PipelineInv, Pipeline!WriteHint PROVE PipelineInv'
  <1>1. /\ UNCHANGED <<entry, call, before, todo, allWritten, found, paths, extracted>> /\ pc = "hint"
    BY DEF Pipeline!WriteHint, Pipeline!rest
  <1>2. extracted /\ paths = {} /\ PipelineTypes /\ outcome = "running" /\ entry \in {"run", "collect"}
    BY <1>1 DEF PipelineInv, MetadataRead, BeforeMetadata, Stage, Collection
  <1>3. PICK r \in Pipeline!Results :
          /\ Pipeline!Write(HintFile, r, "main", found)
          /\ Pipeline!Step(Pipeline!Good(r), "analyzed", "failed to write il2cpp-offline.hint.json")
    BY DEF Pipeline!WriteHint, HintFile
  <1>4. HintFile \in Pipeline!Names /\ found \in SUBSET Pipeline!Registrations
    BY <1>2, KnownNames DEF PipelineTypes
  <1>5. files' \in [Pipeline!Names -> Contents] /\ (Pipeline!Good(r) => files'[HintFile].call = call)
    BY <1>2, <1>3, <1>4, OneWritten
  <1>6. \/ pc' = "idle" /\ outcome' = "failed to write il2cpp-offline.hint.json"
        \/ pc' = "analyzed" /\ outcome' = outcome /\ Pipeline!Good(r)
    BY <1>3 DEF Pipeline!Step, Pipeline!Goto, Pipeline!Return
  <1>7. PipelineTypes'
    BY <1>1, <1>5, <1>6 DEF PipelineInv, PipelineTypes, Collection
  <1>8. CASE pc' = "analyzed"
    <2>1. files'[HintFile].call = call' /\ outcome' = "running" /\ paths' = {} /\ extracted'
          /\ entry' \in {"run", "collect"}
      BY <1>1, <1>2, <1>5, <1>6, <1>8
    <2>2. Stage' /\ MainFiles' /\ MetadataRead' /\ HintOwn'
      BY <1>8, <2>1 DEF Stage, MainFiles, MetadataRead, HintOwn, BeforeMetadata, Collection, MainWriters,
        DirectWriters
    <2>3. QED
      BY <1>7, <1>8, <2>2, GoesOn
  <1>9. QED
    BY <1>1, <1>2, <1>6, <1>7, <1>8, GivesUp

LEMMA CollectedStep == ASSUME PipelineInv, Pipeline!Collected PROVE PipelineInv'
  <1>1. /\ UNCHANGED <<entry, call, before, files, refused, allWritten, found, paths, extracted>>
        /\ pc = "analyzed"
    BY DEF Pipeline!Collected, Pipeline!rest, Pipeline!KeepFiles
  <1>2. /\ extracted /\ paths = {} /\ PipelineTypes /\ outcome = "running" /\ entry \in {"run", "collect"}
        /\ files[HintFile].call = call
    BY <1>1 DEF PipelineInv, MetadataRead, BeforeMetadata, Stage, Collection, HintOwn
  <1>3. \/ pc' = "idle" /\ outcome' = "ok" /\ entry = "collect" /\ todo' = todo
        \/ pc' = "idle" /\ outcome' = "no types collected" /\ todo' = Pipeline!Sidecars
        \/ pc' = "sidecars" /\ outcome' = outcome /\ entry # "collect" /\ todo' = Pipeline!Sidecars
    BY DEF Pipeline!Collected, Pipeline!Step, Pipeline!Goto, Pipeline!Return
  <1>4. PipelineTypes'
    BY <1>1, <1>2, <1>3, KnownNames DEF PipelineTypes, MainWriters
  <1>5. CASE pc' = "idle" /\ outcome' = "ok"
    <2>1. entry' = "collect" /\ files'[HintFile].call = call' /\ paths' = {} /\ extracted'
      BY <1>1, <1>2, <1>3, <1>5
    <2>2. QED
      BY <1>4, <1>5, <2>1 DEF PipelineInv, Stage, MainFiles, MetadataRead, HintOwn, Answers, BeforeMetadata,
        Collection, MainWriters, DirectWriters, HintFile, Pipeline!MainFilesStay,
        Pipeline!PathsAreWritten, Pipeline!EverySidecarTried, Pipeline!HintNotOlder
  <1>6. CASE pc' = "sidecars"
    <2>1. /\ files'[HintFile].call = call' /\ outcome' = "running" /\ paths' = {} /\ extracted'
          /\ entry' = "run" /\ todo' = Pipeline!Sidecars
      BY <1>1, <1>2, <1>3, <1>6
    <2>2. Stage' /\ MetadataRead' /\ HintOwn'
      BY <1>6, <2>1 DEF Stage, MetadataRead, HintOwn, BeforeMetadata, Collection, MainWriters,
        DirectWriters
    <2>3. MainFiles'
      <3>1. Pipeline!SetOf(Pipeline!Sidecars) \ Pending' = {}
        BY <2>1 DEF Pending
      <3>2. QED
        BY <1>6, <3>1 DEF MainFiles, OfMain, DirectWriters
    <2>4. QED
      BY <1>4, <1>6, <2>2, <2>3, GoesOn
  <1>7. QED
    BY <1>1, <1>2, <1>3, <1>4, <1>5, <1>6, GivesUp

\* What a file of the main path keeps through a step that writes another, or
\* gets when it is written itself.
LEMMA MainKept ==
  ASSUME PipelineTypes, call' = call, NEW f \in Pipeline!Names, NEW r \in Pipeline!Results,
         Pipeline!Write(f, r, "main", {}), NEW names \in SUBSET Pipeline!Names,
         OfMain(names \ {f}), Pipeline!Good(r)
  PROVE  OfMain(names)'
  <1>1. {} \in SUBSET Pipeline!Registrations
    OBVIOUS
  <1>2. /\ \A g \in Pipeline!Names : g # f => files'[g] = files[g]
        /\ files'[f].state \in {"short", "whole"} /\ files'[f].call = call /\ files'[f].path = "main"
    BY <1>1, OneWritten
  <1>3. QED
    BY <1>2 DEF OfMain, Pipeline!IsOf

LEMMA SidecarStep == ASSUME PipelineInv, Pipeline!WriteSidecar PROVE PipelineInv'
  <1>1. /\ UNCHANGED <<entry, call, before, pc, outcome, found, paths, extracted>>
        /\ pc = "sidecars" /\ todo # <<>> /\ todo' = Tail(todo)
    BY DEF Pipeline!WriteSidecar, Pipeline!rest
  <1>2. /\ PipelineTypes /\ Stage /\ extracted /\ files[HintFile].call = call
        /\ todo \in Seq(Pipeline!Names) /\ allWritten \in BOOLEAN
        /\ allWritten => OfMain(Pipeline!SetOf(Pipeline!Sidecars) \ Pending)
        /\ \A f \in Pipeline!SetOf(Pipeline!Sidecars) \ Pending : files[f].call = call \/ f \in refused
    BY <1>1 DEF PipelineInv, MetadataRead, BeforeMetadata, HintOwn, MainWriters, MainFiles, PipelineTypes
  <1>3. PICK r \in Pipeline!Results :
          Pipeline!Write(Head(todo), r, "main", {}) /\ allWritten' = (allWritten /\ Pipeline!Good(r))
    BY DEF Pipeline!WriteSidecar
  <1>4. /\ Head(todo) \in Pipeline!Names /\ todo' \in Seq(Pipeline!Names)
        /\ \A f \in Pending : f = Head(todo) \/ f \in Pending'
    BY <1>1, <1>2, PendingTail DEF Pending
  <1>5. PICK S \in SUBSET Pipeline!Names : S = Pipeline!SetOf(Pipeline!Sidecars)
    BY KnownNames
  <1>6. /\ files' \in [Pipeline!Names -> Contents]
        /\ \A g \in Pipeline!Names : g # Head(todo) => files'[g] = files[g]
        /\ files'[Head(todo)].call = call \/ (Head(todo) \in refused' /\ files' = files)
        /\ refused \subseteq refused'
    <2>1. {} \in SUBSET Pipeline!Registrations
      OBVIOUS
    <2>2. QED
      BY <1>2, <1>3, <1>4, <2>1, OneWritten
  <1>7. PipelineTypes'
    BY <1>1, <1>2, <1>3, <1>4, <1>6 DEF PipelineTypes
  <1>8. MainFiles'
    <2>1. ASSUME allWritten' PROVE OfMain(S \ Pending)'
      <3>1. allWritten /\ Pipeline!Good(r)
        BY <1>3, <2>1
      <3>2. OfMain((S \ Pending') \ {Head(todo)})
        BY <1>2, <1>4, <1>5, <3>1 DEF OfMain
      <3>3. PICK names \in SUBSET Pipeline!Names : names = S \ Pending'
        OBVIOUS
      <3>4. OfMain(names)'
        BY <1>1, <1>2, <1>3, <1>4, <3>1, <3>2, <3>3, MainKept
      <3>5. QED
        BY <3>3, <3>4 DEF OfMain, Pipeline!IsOf
    <2>2. \A f \in S \ Pending' : files'[f].call = call \/ f \in refused'
      BY <1>2, <1>4, <1>5, <1>6
    <2>3. QED
      BY <1>1, <1>5, <2>1, <2>2 DEF MainFiles, DirectWriters, OfMain
  <1>9. HintOwn'
    <2>1. files'[HintFile].call = call
      BY <1>2, <1>6, KnownNames
    <2>2. QED
      BY <1>1, <2>1 DEF HintOwn, DirectWriters
  <1>10. Stage' /\ MetadataRead'
    BY <1>1, <1>2 DEF Stage, MetadataRead, BeforeMetadata
  <1>11. QED
    BY <1>1, <1>7, <1>8, <1>9, <1>10, GoesOn

LEMMA SidecarsEnd == ASSUME PipelineInv, Pipeline!SidecarsDone PROVE PipelineInv'
  <1>1. /\ UNCHANGED <<entry, call, before, files, refused, found, paths, extracted, todo, allWritten>>
        /\ pc = "sidecars" /\ todo = <<>>
    BY DEF Pipeline!SidecarsDone, Pipeline!rest, Pipeline!KeepFiles
  <1>2. /\ PipelineTypes /\ extracted /\ files[HintFile].call = call /\ paths = {} /\ entry = "run"
        /\ outcome = "running"
    BY <1>1 DEF PipelineInv, MetadataRead, BeforeMetadata, HintOwn, MainWriters, Stage
  <1>3. Pending = {}
    BY <1>1, NonePending DEF Pending
  <1>4. /\ allWritten => OfMain(Pipeline!SetOf(Pipeline!Sidecars))
        /\ \A f \in Pipeline!SetOf(Pipeline!Sidecars) : files[f].call = call \/ f \in refused
    BY <1>1, <1>3 DEF PipelineInv, MainFiles
  <1>5. \/ pc' = "dll_directory" /\ outcome' = outcome /\ allWritten
        \/ pc' = "idle" /\ outcome' = "Sidecar WriteAll failed"
    BY DEF Pipeline!SidecarsDone, Pipeline!Step, Pipeline!Goto, Pipeline!Return
  <1>6. PipelineTypes'
    BY <1>1, <1>2, <1>5 DEF PipelineTypes, MainWriters
  <1>7. CASE pc' = "dll_directory"
    <2>1. outcome' = "running" /\ entry' = "run" /\ paths' = {} /\ extracted' /\ files'[HintFile].call = call'
      BY <1>1, <1>2, <1>5, <1>7
    <2>2. OfMain(Pipeline!SetOf(Pipeline!Sidecars))'
      BY <1>1, <1>4, <1>5, <1>7 DEF OfMain, Pipeline!IsOf
    <2>3. Stage' /\ MainFiles' /\ MetadataRead' /\ HintOwn'
      BY <1>7, <2>1, <2>2 DEF Stage, MainFiles, MetadataRead, HintOwn, BeforeMetadata, Collection,
        DirectWriters
    <2>4. QED
      BY <1>6, <1>7, <2>3, GoesOn
  <1>8. CASE pc' = "idle"
    <2>1. outcome' = "Sidecar WriteAll failed" /\ paths' = {} /\ extracted'
      BY <1>1, <1>2, <1>5, <1>8
    <2>2. Pipeline!EverySidecarTried'
      BY <1>1, <1>4 DEF Pipeline!EverySidecarTried
    <2>3. QED
      BY <1>6, <1>8, <2>1, <2>2 DEF PipelineInv, Stage, MainFiles, MetadataRead, HintOwn, Answers,
        BeforeMetadata, Collection, MainWriters, DirectWriters, Pipeline!MainFilesStay,
        Pipeline!PathsAreWritten, Pipeline!HintNotOlder
  <1>9. QED
    BY <1>5, <1>7, <1>8

LEMMA DllStep ==
  ASSUME PipelineInv, Pipeline!GenerateDlls \/ Pipeline!WriteAssembly \/ Pipeline!DllsDone
  PROVE  PipelineInv'
  <1>1. /\ UNCHANGED <<entry, call, before, allWritten, found, paths, extracted>>
        /\ pc \in {"dll_directory", "dlls"}
    BY DEF Pipeline!GenerateDlls, Pipeline!WriteAssembly, Pipeline!DllsDone, Pipeline!rest
  <1>2. /\ PipelineTypes /\ extracted /\ files[HintFile].call = call /\ paths = {} /\ entry = "run"
        /\ outcome = "running" /\ OfMain(Pipeline!SetOf(Pipeline!Sidecars))
        /\ pc = "dlls" => OfMain(Pipeline!SetOf(Dlls) \ Pending)
    BY <1>1 DEF PipelineInv, MetadataRead, BeforeMetadata, HintOwn, MainWriters, Stage, MainFiles
  <1>3. CASE pc' = "idle" /\ outcome' = "DummyDll Generate failed" /\ PipelineTypes'
    BY <1>1, <1>2, <1>3, GivesUp
  <1>4. ASSUME pc' \in {"dlls", "optional"}, outcome' = outcome, PipelineTypes', files'[HintFile].call = call,
               OfMain(Pipeline!SetOf(Pipeline!Sidecars))', pc' = "dlls" => OfMain(Pipeline!SetOf(Dlls) \ Pending)',
               pc' = "optional" => OfMain(Pipeline!SetOf(Dlls))'
        PROVE  PipelineInv'
    <2>1. outcome' = "running" /\ entry' = "run" /\ paths' = {} /\ extracted' /\ files'[HintFile].call = call'
      BY <1>1, <1>2, <1>4
    <2>2. Stage' /\ MainFiles' /\ MetadataRead' /\ HintOwn'
      BY <1>4, <2>1 DEF Stage, MainFiles, MetadataRead, HintOwn, BeforeMetadata, Collection, DirectWriters
    <2>3. QED
      BY <1>4, <2>2, GoesOn
  <1>5. CASE Pipeline!GenerateDlls
    <2>1. UNCHANGED <<files, refused>> /\ todo' = Dlls
      BY <1>5 DEF Pipeline!GenerateDlls, Pipeline!KeepFiles
    <2>2. \/ pc' = "dlls" /\ outcome' = outcome
          \/ pc' = "idle" /\ outcome' = "DummyDll Generate failed"
      BY <1>5 DEF Pipeline!GenerateDlls, Pipeline!Step, Pipeline!Goto, Pipeline!Return
    <2>3. PipelineTypes'
      BY <1>1, <1>2, <2>1, <2>2, KnownNames DEF PipelineTypes, MainWriters
    <2>4. OfMain(Pipeline!SetOf(Pipeline!Sidecars))' /\ OfMain(Pipeline!SetOf(Dlls) \ Pending)'
      <3>1. Pipeline!SetOf(Dlls) \ Pending' = {}
        BY <2>1 DEF Pending
      <3>2. QED
        BY <1>1, <1>2, <2>1, <3>1 DEF OfMain, Pipeline!IsOf
    <2>5. QED
      BY <1>2, <1>3, <1>4, <2>1, <2>2, <2>3, <2>4
  <1>6. CASE Pipeline!DllsDone
    <2>1. UNCHANGED <<files, refused, todo>> /\ pc = "dlls" /\ todo = <<>> /\ pc' = "optional"
          /\ outcome' = outcome
      BY <1>6 DEF Pipeline!DllsDone, Pipeline!KeepFiles, Pipeline!Goto
    <2>2. PipelineTypes'
      BY <1>1, <1>2, <2>1 DEF PipelineTypes, MainWriters
    <2>3. Pending = {}
      BY <2>1, NonePending DEF Pending
    <2>4. OfMain(Pipeline!SetOf(Pipeline!Sidecars))' /\ OfMain(Pipeline!SetOf(Dlls))'
      BY <1>1, <1>2, <2>1, <2>3 DEF OfMain, Pipeline!IsOf
    <2>5. QED
      BY <1>2, <1>4, <2>1, <2>2, <2>4
  <1>7. CASE Pipeline!WriteAssembly
    <2>1. pc = "dlls" /\ todo # <<>> /\ todo' = Tail(todo) /\ todo \in Seq(Pipeline!Names)
      BY <1>2, <1>7 DEF Pipeline!WriteAssembly, PipelineTypes
    <2>2. PICK r \in Pipeline!Results :
            /\ Pipeline!Write(Head(todo), r, "main", {})
            /\ Pipeline!Step(Pipeline!Good(r), "dlls", "DummyDll Generate failed")
      BY <1>7 DEF Pipeline!WriteAssembly
    <2>3. \/ pc' = "dlls" /\ outcome' = outcome /\ Pipeline!Good(r)
          \/ pc' = "idle" /\ outcome' = "DummyDll Generate failed"
      BY <2>2 DEF Pipeline!Step, Pipeline!Goto, Pipeline!Return
    <2>4. /\ Head(todo) \in Pipeline!Names /\ todo' \in Seq(Pipeline!Names)
          /\ \A f \in Pending : f = Head(todo) \/ f \in Pending'
      BY <2>1, PendingTail DEF Pending
    <2>5. /\ files' \in [Pipeline!Names -> Contents]
          /\ \A g \in Pipeline!Names : g # Head(todo) => files'[g] = files[g]
          /\ files'[Head(todo)].call = call \/ files' = files
      <3>1. {} \in SUBSET Pipeline!Registrations
        OBVIOUS
      <3>2. QED
        BY <1>2, <2>2, <2>4, <3>1, OneWritten
    <2>6. PipelineTypes'
      BY <1>1, <1>2, <2>3, <2>4, <2>5 DEF PipelineTypes, MainWriters
    <2>7. files'[HintFile].call = call
      BY <1>2, <2>5, KnownNames
    <2>8. ASSUME Pipeline!Good(r) PROVE OfMain(Pipeline!SetOf(Pipeline!Sidecars))' /\ OfMain(Pipeline!SetOf(Dlls) \ Pending)'
      <3>1. PICK S \in SUBSET Pipeline!Names : S = Pipeline!SetOf(Pipeline!Sidecars)
        BY KnownNames
      <3>2. PICK D \in SUBSET Pipeline!Names : D = Pipeline!SetOf(Dlls) \ Pending'
        BY KnownNames
      <3>3. OfMain(S \ {Head(todo)}) /\ OfMain(D \ {Head(todo)})
        BY <1>2, <2>1, <2>4, <3>1, <3>2 DEF OfMain
      <3>4. OfMain(S)' /\ OfMain(D)'
        BY <1>1, <1>2, <2>2, <2>4, <2>8, <3>3, MainKept
      <3>5. QED
        BY <3>1, <3>2, <3>4 DEF OfMain, Pipeline!IsOf
    <2>9. QED
      BY <1>3, <1>4, <2>3, <2>6, <2>7, <2>8
  <1>8. QED
    BY <1>5, <1>6, <1>7

MainKeeps == OfMain(Pipeline!SetOf(Pipeline!Sidecars)) /\ OfMain(Pipeline!SetOf(Dlls))

\* The names of two lists one after the other.
LEMMA OfBoth ==
  ASSUME NEW s \in Seq(Pipeline!Names), NEW t \in Seq(Pipeline!Names)
  PROVE  Pipeline!SetOf(s \o t) \subseteq Pipeline!SetOf(s) \cup Pipeline!SetOf(t)
  <1>1. Len(s \o t) = Len(s) + Len(t) /\ Len(s) \in Nat /\ Len(t) \in Nat
    OBVIOUS
  <1>2. ASSUME NEW i \in 1..(Len(s) + Len(t))
        PROVE  (s \o t)[i] \in Pipeline!SetOf(s) \cup Pipeline!SetOf(t)
    <2>1. CASE i <= Len(s)
      <3>1. i \in 1..Len(s) /\ (s \o t)[i] = s[i]
        BY <1>1, <2>1
      <3>2. QED
        BY <3>1 DEF Pipeline!SetOf
    <2>2. CASE ~ (i <= Len(s))
      <3>1. i - Len(s) \in 1..Len(t) /\ (s \o t)[i] = t[i - Len(s)]
        BY <1>1, <2>2
      <3>2. QED
        BY <3>1 DEF Pipeline!SetOf
    <2>3. QED
      BY <2>1, <2>2
  <1>3. QED
    BY <1>1, <1>2 DEF Pipeline!SetOf

\* The call returns: what its answers need.
LEMMA Returns ==
  ASSUME PipelineTypes', pc' = "idle", extracted', outcome' # "Sidecar WriteAll failed",
         outcome' = "ok" /\ entry' = "run" => MainKeeps',
         outcome' = "ok" /\ entry' = "run" => files'[HintFile].call = call',
         outcome' = "ok" => entry' \in {"run", "dump"},
         outcome' = "ok" /\ entry' = "dump" => files'[HintFile].call = call' \/ found' = {},
         Pipeline!PathsAreWritten'
  PROVE  PipelineInv'
  <1>1. Pipeline!SetOf(Pipeline!Sidecars \o Dlls) \subseteq
          Pipeline!SetOf(Pipeline!Sidecars) \cup Pipeline!SetOf(Dlls)
    BY KnownNames, OfBoth
  <1>2. Pipeline!MainFilesStay'
    BY <1>1 DEF Pipeline!MainFilesStay, MainKeeps, OfMain
  <1>3. Pipeline!HintNotOlder'
    BY DEF Pipeline!HintNotOlder, HintFile
  <1>4. QED
    BY <1>2, <1>3 DEF PipelineInv, Answers, Stage, MainFiles, MetadataRead, HintOwn, BeforeMetadata,
      Collection, MainWriters, DirectWriters, Pipeline!EverySidecarTried

\* What the dump writes directly is none of the main path's files.
LEMMA DirectWrite ==
  ASSUME PipelineTypes, call' = call, NEW f \in {MetadataFile, HintFile, "generic.json"}, NEW r \in Pipeline!Results,
         NEW regs \in SUBSET Pipeline!Registrations, Pipeline!Write(f, r, "direct", regs)
  PROVE  /\ files' \in [Pipeline!Names -> Contents]
         /\ MainKeeps => MainKeeps'
         /\ files[HintFile].call = call => files'[HintFile].call = call
         /\ f = HintFile /\ Pipeline!Good(r) => files'[HintFile].call = call
         /\ f # HintFile => files'[HintFile] = files[HintFile]
         /\ Pipeline!Good(r) => Pipeline!IsOf(f, call, "direct")'
  <1>1. f \in Pipeline!Names /\ HintFile \in Pipeline!Names
    BY KnownNames
  <1>2. /\ files' \in [Pipeline!Names -> Contents]
        /\ \A g \in Pipeline!Names : g # f => files'[g] = files[g]
        /\ files'[f].call = call \/ files' = files
        /\ Pipeline!Good(r) => files'[f].state \in {"short", "whole"} /\ files'[f].call = call
                                 /\ files'[f].path = "direct"
    BY <1>1, OneWritten
  <1>3. f \notin Pipeline!SetOf(Pipeline!Sidecars) /\ f \notin Pipeline!SetOf(Dlls)
    BY SidecarNames, PipelineAssumption DEF MetadataFile, HintFile
  <1>4. MainKeeps => MainKeeps'
    BY <1>2, <1>3, KnownNames DEF MainKeeps, OfMain, Pipeline!IsOf
  <1>5. Pipeline!Good(r) => Pipeline!IsOf(f, call, "direct")'
    BY <1>2 DEF Pipeline!IsOf
  <1>6. QED
    BY <1>1, <1>2, <1>4, <1>5

LEMMA OpenStep == ASSUME PipelineInv, Pipeline!OpenTarget PROVE PipelineInv'
  <1>1. /\ UNCHANGED <<entry, call, before, files, refused, todo, allWritten, found, paths, extracted>>
        /\ pc = "open"
    BY DEF Pipeline!OpenTarget, Pipeline!rest, Pipeline!KeepFiles
  <1>2. PipelineTypes /\ files = before /\ paths = {} /\ outcome = "running" /\ entry = "dump"
    BY <1>1 DEF PipelineInv, MetadataRead, BeforeMetadata, Stage
  <1>3. \/ pc' = "direct" /\ outcome' = outcome
        \/ pc' = "idle" /\ outcome' = "no process or no GameAssembly.dll"
    BY DEF Pipeline!OpenTarget, Pipeline!Step, Pipeline!Goto, Pipeline!Return
  <1>4. PipelineTypes'
    BY <1>1, <1>2, <1>3 DEF PipelineTypes
  <1>5. CASE pc' = "direct"
    <2>1. files' = before' /\ outcome' = "running" /\ paths' = {} /\ entry' = "dump"
      BY <1>1, <1>2, <1>3, <1>5
    <2>2. Stage' /\ MainFiles' /\ MetadataRead' /\ HintOwn'
      BY <1>5, <2>1 DEF Stage, MainFiles, MetadataRead, HintOwn, BeforeMetadata, Collection, MainWriters,
        DirectWriters
    <2>3. QED
      BY <1>4, <1>5, <2>2, GoesOn
  <1>6. QED
    BY <1>1, <1>2, <1>3, <1>4, <1>5, GivesUp

LEMMA ReadStep == ASSUME PipelineInv, Pipeline!ReadAll PROVE PipelineInv'
  <1>1. /\ UNCHANGED <<entry, call, before, files, refused, todo, allWritten, paths>>
        /\ pc \in {"optional", "direct"}
    BY DEF Pipeline!ReadAll, Pipeline!rest, Pipeline!KeepFiles
  <1>2. /\ PipelineTypes /\ paths = {} /\ outcome = "running"
        /\ pc = "direct" => files = before /\ entry = "dump"
        /\ pc = "optional" => extracted /\ entry = "run" /\ MainKeeps /\ files[HintFile].call = call
    BY <1>1 DEF PipelineInv, MetadataRead, BeforeMetadata, Stage, MainFiles, HintOwn, MainWriters, MainKeeps
  <1>3. PICK good \in BOOLEAN, regs \in SUBSET Pipeline!Registrations :
          /\ Pipeline!DirectStep(good, "direct_metadata", "metadata not read")
          /\ found' = regs /\ extracted' = (extracted \/ good)
    BY DEF Pipeline!ReadAll
  <1>4. \/ pc' = "direct_metadata" /\ outcome' = outcome /\ good
        \/ pc' = "idle" /\ outcome' = IF entry = "run" THEN "ok" ELSE "metadata not read"
    BY <1>3 DEF Pipeline!DirectStep, Pipeline!DirectReturn, Pipeline!Goto, Pipeline!Return
  <1>5. PipelineTypes'
    BY <1>1, <1>2, <1>3, <1>4 DEF PipelineTypes, DirectWriters
  <1>6. (extracted \/ good) => extracted'
    BY <1>3
  <1>7. CASE pc' = "direct_metadata"
    <2>1. extracted' /\ outcome' = "running" /\ paths' = {} /\ entry' \in {"run", "dump"}
      BY <1>1, <1>2, <1>4, <1>6, <1>7
    <2>2. entry' = "run" => MainKeeps' /\ files'[HintFile].call = call'
      BY <1>1, <1>2 DEF MainKeeps, OfMain, Pipeline!IsOf
    <2>3. Stage' /\ MainFiles' /\ MetadataRead' /\ HintOwn'
      BY <1>7, <2>1, <2>2 DEF Stage, MainFiles, MetadataRead, HintOwn, BeforeMetadata, Collection, MainWriters,
        MainKeeps
    <2>4. QED
      BY <1>5, <1>7, <2>3, GoesOn
  <1>8. CASE pc' = "idle" /\ pc = "direct"
    BY <1>1, <1>2, <1>4, <1>5, <1>8, GivesUp
  <1>9. CASE pc' = "idle" /\ pc = "optional"
    <2>1. extracted' /\ outcome' = "ok" /\ entry' = "run" /\ paths' = {} /\ files'[HintFile].call = call'
      BY <1>1, <1>2, <1>4, <1>6, <1>9
    <2>2. MainKeeps'
      BY <1>1, <1>2, <1>9 DEF MainKeeps, OfMain, Pipeline!IsOf
    <2>3. Pipeline!PathsAreWritten'
      BY <2>1 DEF Pipeline!PathsAreWritten
    <2>4. QED
      BY <1>5, <1>9, <2>1, <2>2, <2>3, Returns
  <1>10. QED
    BY <1>1, <1>4, <1>7, <1>8, <1>9

LEMMA DirectStart ==
  ASSUME PipelineInv, pc \in DirectWriters
  PROVE  /\ PipelineTypes /\ extracted /\ paths = {} /\ outcome = "running" /\ entry \in {"run", "dump"}
         /\ pc = "direct_dump_cs" => entry = "dump"
         /\ entry = "run" => MainKeeps /\ files[HintFile].call = call
         /\ pc \in {"generic", "direct_dump_cs"} /\ entry = "dump" => files[HintFile].call = call \/ found = {}
         /\ pc = "direct_dump_cs" => Pipeline!IsOf("generic.json", call, "direct")
  BY DEF PipelineInv, MetadataRead, BeforeMetadata, Stage, MainFiles, HintOwn, MainKeeps, DirectWriters

\* The next of the files that the dump writes directly.
LEMMA DirectNext ==
  ASSUME PipelineInv, PipelineTypes', pc \in DirectWriters, pc' \in DirectWriters,
         UNCHANGED <<entry, outcome, paths, extracted>>,
         entry = "run" => MainKeeps' /\ files'[HintFile].call = call',
         pc' \in {"generic", "direct_dump_cs"} /\ entry = "dump" => files'[HintFile].call = call' \/ found' = {},
         pc' = "direct_dump_cs" => entry = "dump" /\ Pipeline!IsOf("generic.json", call, "direct")'
  PROVE  PipelineInv'
  <1>1. extracted' /\ outcome' = "running" /\ paths' = {} /\ entry' \in {"run", "dump"}
        /\ pc' \in {"direct_metadata", "direct_hint", "generic", "direct_dump_cs"}
    BY DirectStart DEF DirectWriters
  <1>2. Stage' /\ MainFiles' /\ MetadataRead' /\ HintOwn'
    BY <1>1 DEF Stage, MainFiles, MetadataRead, HintOwn, BeforeMetadata, Collection, MainWriters, MainKeeps
  <1>3. QED
    BY <1>1, <1>2, GoesOn

LEMMA DirectFileStep ==
  ASSUME PipelineInv, Pipeline!WriteMetadataFile \/ Pipeline!WriteHintJson
  PROVE  PipelineInv'
  <1>1. /\ UNCHANGED <<entry, call, before, todo, allWritten, found, paths, extracted>>
        /\ pc \in {"direct_metadata", "direct_hint"}
    BY DEF Pipeline!WriteMetadataFile, Pipeline!WriteHintJson, Pipeline!rest
  <1>2. /\ PipelineTypes /\ extracted /\ paths = {} /\ outcome = "running" /\ entry \in {"run", "dump"}
        /\ entry = "run" => MainKeeps /\ files[HintFile].call = call
        /\ pc \in DirectWriters
    BY <1>1, DirectStart DEF DirectWriters
  <1>3. CASE pc = "direct_metadata"
    <2>1. PICK r \in Pipeline!Results :
            /\ Pipeline!Write(MetadataFile, r, "direct", {})
            /\ Pipeline!DirectStep(Pipeline!Good(r), "direct_hint", "failed to write global-metadata.dat")
      BY <1>3 DEF Pipeline!WriteMetadataFile, Pipeline!WriteHintJson, MetadataFile
    <2>2. /\ files' \in [Pipeline!Names -> Contents]
          /\ MainKeeps => MainKeeps'
          /\ files[HintFile].call = call => files'[HintFile].call = call
      <3>1. {} \in SUBSET Pipeline!Registrations
        OBVIOUS
      <3>2. QED
        BY <1>1, <1>2, <2>1, <3>1, DirectWrite
    <2>3. \/ pc' = "direct_hint" /\ outcome' = outcome
          \/ pc' = "idle" /\ outcome' = IF entry = "run" THEN "ok" ELSE "failed to write global-metadata.dat"
      BY <2>1 DEF Pipeline!DirectStep, Pipeline!DirectReturn, Pipeline!Goto, Pipeline!Return
    <2>4. PipelineTypes'
      BY <1>1, <1>2, <2>2, <2>3 DEF PipelineTypes, DirectWriters
    <2>5. CASE pc' = "direct_hint"
      BY <1>1, <1>2, <2>2, <2>3, <2>4, <2>5, DirectNext DEF DirectWriters
    <2>6. CASE pc' = "idle"
      <3>1. /\ outcome' # "Sidecar WriteAll failed" /\ extracted' /\ (outcome' = "ok" => entry' = "run")
            /\ (entry' = "run" => files'[HintFile].call = call' /\ MainKeeps')
        BY <1>1, <1>2, <2>2, <2>3, <2>6
      <3>2. Pipeline!PathsAreWritten'
        BY <1>1, <1>2 DEF Pipeline!PathsAreWritten
      <3>3. QED
        BY <2>4, <2>6, <3>1, <3>2, Returns
    <2>7. QED
      BY <2>3, <2>5, <2>6
  <1>4. CASE pc = "direct_hint" /\ found = {}
    <2>1. UNCHANGED <<files, refused>> /\ pc' = "generic" /\ outcome' = outcome
      BY <1>4 DEF Pipeline!WriteMetadataFile, Pipeline!WriteHintJson, Pipeline!NoRegistration, Pipeline!KeepFiles,
        Pipeline!Goto
    <2>2. PipelineTypes'
      BY <1>1, <1>2, <2>1 DEF PipelineTypes, DirectWriters
    <2>3. MainKeeps => MainKeeps'
      BY <1>1, <2>1 DEF MainKeeps, OfMain, Pipeline!IsOf
    <2>4. QED
      BY <1>1, <1>2, <1>4, <2>1, <2>2, <2>3, DirectNext DEF DirectWriters
  <1>5. CASE pc = "direct_hint" /\ found # {}
    <2>1. PICK r \in Pipeline!Results :
            /\ Pipeline!Write(HintFile, r, "direct", found)
            /\ Pipeline!DirectStep(Pipeline!Good(r), "generic", "failed to write il2cpp-offline.hint.json")
      BY <1>5 DEF Pipeline!WriteMetadataFile, Pipeline!WriteHintJson, Pipeline!NoRegistration, HintFile
    <2>2. found \in SUBSET Pipeline!Registrations
      BY <1>2 DEF PipelineTypes
    <2>3. /\ files' \in [Pipeline!Names -> Contents]
          /\ MainKeeps => MainKeeps'
          /\ files[HintFile].call = call => files'[HintFile].call = call
          /\ Pipeline!Good(r) => files'[HintFile].call = call
      BY <1>1, <1>2, <2>1, <2>2, DirectWrite
    <2>4. \/ pc' = "generic" /\ outcome' = outcome /\ Pipeline!Good(r)
          \/ pc' = "idle" /\ outcome' = IF entry = "run" THEN "ok" ELSE "failed to write il2cpp-offline.hint.json"
      BY <2>1 DEF Pipeline!DirectStep, Pipeline!DirectReturn, Pipeline!Goto, Pipeline!Return
    <2>5. PipelineTypes'
      BY <1>1, <1>2, <2>3, <2>4 DEF PipelineTypes, DirectWriters
    <2>6. CASE pc' = "generic"
      BY <1>1, <1>2, <2>3, <2>4, <2>5, <2>6, DirectNext DEF DirectWriters
    <2>7. CASE pc' = "idle"
      <3>1. /\ outcome' # "Sidecar WriteAll failed" /\ extracted' /\ (outcome' = "ok" => entry' = "run")
            /\ (entry' = "run" => files'[HintFile].call = call' /\ MainKeeps')
        BY <1>1, <1>2, <2>3, <2>4, <2>7
      <3>2. Pipeline!PathsAreWritten'
        BY <1>1, <1>2 DEF Pipeline!PathsAreWritten
      <3>3. QED
        BY <2>5, <2>7, <3>1, <3>2, Returns
    <2>8. QED
      BY <2>4, <2>6, <2>7
  <1>6. QED
    BY <1>1, <1>3, <1>4, <1>5

LEMMA GenericStep == ASSUME PipelineInv, Pipeline!WriteGenericJson PROVE PipelineInv'
  <1>1. /\ UNCHANGED <<entry, call, before, todo, allWritten, found, extracted>> /\ pc = "generic"
    BY DEF Pipeline!WriteGenericJson, Pipeline!rest
  <1>2. /\ PipelineTypes /\ extracted /\ paths = {} /\ outcome = "running" /\ entry \in {"run", "dump"}
        /\ entry = "run" => MainKeeps /\ files[HintFile].call = call
        /\ entry = "dump" => files[HintFile].call = call \/ found = {}
        /\ pc \in DirectWriters
    BY <1>1, DirectStart DEF DirectWriters
  <1>3. PICK r \in Pipeline!Results :
          /\ Pipeline!Write("generic.json", r, "direct", {})
          /\ IF Pipeline!Good(r) /\ ~ Pipeline!WriteDumpCs
               THEN Pipeline!Succeeded
               ELSE Pipeline!DirectStep(Pipeline!Good(r), "direct_dump_cs",
                                        "DumpSdk6WriteGenericJsonFile failed") /\ UNCHANGED paths
    BY DEF Pipeline!WriteGenericJson
  <1>4. /\ files' \in [Pipeline!Names -> Contents]
        /\ MainKeeps => MainKeeps'
        /\ files'[HintFile] = files[HintFile]
        /\ Pipeline!Good(r) => Pipeline!IsOf("generic.json", call, "direct")'
    <2>1. {} \in SUBSET Pipeline!Registrations /\ "generic.json" # HintFile
      BY DEF HintFile
    <2>2. QED
      BY <1>1, <1>2, <1>3, <2>1, DirectWrite
  <1>5. \/ /\ pc' = "idle" /\ outcome' = "ok" /\ entry = "run"
           /\ paths' = {"generic.json"} /\ Pipeline!Good(r)
        \/ /\ pc' = "idle" /\ paths' = {}
           /\ outcome' = IF entry = "run" THEN "ok" ELSE "DumpSdk6WriteGenericJsonFile failed"
        \/ /\ pc' = "direct_dump_cs" /\ outcome' = outcome /\ entry = "dump" /\ paths' = paths
           /\ Pipeline!Good(r)
    BY <1>2, <1>3 DEF Pipeline!WriteDumpCs, Pipeline!Succeeded, Pipeline!DumpCsPath, Pipeline!DirectStep,
      Pipeline!DirectReturn, Pipeline!Goto, Pipeline!Return
  <1>6. PipelineTypes'
    BY <1>1, <1>2, <1>4, <1>5 DEF PipelineTypes, DirectWriters
  <1>7. CASE pc' = "direct_dump_cs"
    BY <1>1, <1>2, <1>4, <1>5, <1>6, <1>7, DirectNext DEF DirectWriters
  <1>8. CASE pc' = "idle"
    <2>1. /\ outcome' # "Sidecar WriteAll failed" /\ extracted' /\ (outcome' = "ok" => entry' = "run")
          /\ (entry' = "run" => files'[HintFile].call = call' /\ MainKeeps')
      BY <1>1, <1>2, <1>4, <1>5, <1>8
    <2>2. Pipeline!PathsAreWritten'
      BY <1>1, <1>4, <1>5, <1>8 DEF Pipeline!PathsAreWritten, Pipeline!IsOf
    <2>3. QED
      BY <1>6, <1>8, <2>1, <2>2, Returns
  <1>9. QED
    BY <1>5, <1>7, <1>8

LEMMA DumpCsStep == ASSUME PipelineInv, Pipeline!WriteDumpCsFile PROVE PipelineInv'
  <1>1. /\ UNCHANGED <<entry, call, before, todo, allWritten, found, extracted>> /\ pc = "direct_dump_cs"
    BY DEF Pipeline!WriteDumpCsFile, Pipeline!rest
  <1>2. /\ PipelineTypes /\ extracted /\ paths = {} /\ outcome = "running" /\ entry = "dump"
        /\ files[HintFile].call = call \/ found = {}
        /\ Pipeline!IsOf("generic.json", call, "direct")
    BY <1>1, DirectStart DEF DirectWriters
  <1>3. PICK r \in Pipeline!Results :
          /\ Pipeline!Write("dump.cs", r, "direct", {})
          /\ IF Pipeline!Good(r) THEN Pipeline!Succeeded
             ELSE Pipeline!DirectReturn("DumpSdk6WriteDumpCsFile failed") /\ UNCHANGED paths
    BY DEF Pipeline!WriteDumpCsFile
  <1>4. /\ "dump.cs" \in Pipeline!Names /\ "generic.json" \in Pipeline!Names /\ HintFile \in Pipeline!Names
        /\ {} \in SUBSET Pipeline!Registrations /\ "dump.cs" \notin {"generic.json", HintFile}
    BY KnownNames DEF HintFile
  <1>5. /\ files' \in [Pipeline!Names -> Contents]
        /\ files'[HintFile] = files[HintFile] /\ files'["generic.json"] = files["generic.json"]
        /\ Pipeline!Good(r) => files'["dump.cs"].state \in {"short", "whole"} /\ files'["dump.cs"].call = call
                                 /\ files'["dump.cs"].path = "direct"
    <2>1. PICK f \in Pipeline!Names : f = "dump.cs"
      BY <1>4
    <2>2. Pipeline!Write(f, r, "direct", {})
      BY <1>3, <2>1
    <2>3. /\ files' \in [Pipeline!Names -> Contents]
          /\ \A g \in Pipeline!Names : g # f => files'[g] = files[g]
          /\ Pipeline!Good(r) => files'[f].state \in {"short", "whole"} /\ files'[f].call = call
                                   /\ files'[f].path = "direct"
      BY <1>2, <1>4, <2>2, OneWritten
    <2>4. QED
      BY <1>4, <2>1, <2>3
  <1>6. /\ pc' = "idle"
        /\ \/ outcome' = "ok" /\ paths' = {"generic.json", "dump.cs"} /\ Pipeline!Good(r)
           \/ outcome' = "DumpSdk6WriteDumpCsFile failed" /\ paths' = {}
    BY <1>2, <1>3 DEF Pipeline!WriteDumpCs, Pipeline!Succeeded, Pipeline!DumpCsPath, Pipeline!DirectReturn,
      Pipeline!Return
  <1>7. PipelineTypes'
    BY <1>1, <1>2, <1>5, <1>6 DEF PipelineTypes
  <1>8. Pipeline!PathsAreWritten'
    BY <1>1, <1>2, <1>5, <1>6 DEF Pipeline!PathsAreWritten, Pipeline!IsOf
  <1>9. outcome' # "Sidecar WriteAll failed" /\ extracted' /\ entry' = "dump"
        /\ (files'[HintFile].call = call' \/ found' = {})
    BY <1>1, <1>2, <1>5, <1>6
  <1>10. QED
    BY <1>6, <1>7, <1>8, <1>9, Returns

LEMMA CallStep == ASSUME PipelineInv, Pipeline!Call PROVE PipelineInv'
  <1>1. /\ call' = call + 1 /\ outcome' = "running" /\ found' = {} /\ paths' = {} /\ todo' = <<>>
        /\ allWritten' = TRUE /\ before' = files /\ files' = files /\ extracted' = FALSE
        /\ \/ entry' \in {"run", "collect"} /\ pc' = "snapshot"
           \/ entry' = "dump" /\ pc' = "open"
    BY DEF Pipeline!Call
  <1>2. PipelineTypes'
    BY <1>1 DEF PipelineInv, PipelineTypes, Collection
  <1>3. Stage' /\ MainFiles' /\ MetadataRead' /\ HintOwn'
    BY <1>1 DEF Stage, MainFiles, MetadataRead, HintOwn, BeforeMetadata, Collection, MainWriters, DirectWriters
  <1>4. QED
    BY <1>1, <1>2, <1>3, GoesOn

LEMMA PipelineStep == ASSUME PipelineInv, Pipeline!Next PROVE PipelineInv'
  BY CallStep, ExtractStep, CollectionStep, ReportStep, MetadataFileStep, HintFileStep, CollectedStep,
    SidecarStep, SidecarsEnd, DllStep, OpenStep, ReadStep, DirectFileStep, GenericStep, DumpCsStep
    DEF Pipeline!Next

LEMMA PipelineIdles == ASSUME PipelineInv, UNCHANGED <<pipelineVars, pc>> PROVE PipelineInv'
  <1>1. /\ pc' = pc /\ entry' = entry /\ call' = call /\ files' = files /\ todo' = todo /\ found' = found
        /\ outcome' = outcome /\ paths' = paths /\ before' = before /\ refused' = refused
        /\ UNCHANGED <<allWritten, extracted>>
    BY DEF pipelineVars
  <1>2. PipelineTypes' /\ Stage'
    BY <1>1 DEF PipelineInv, PipelineTypes, Stage
  <1>3. MainFiles'
    BY <1>1 DEF PipelineInv, MainFiles, OfMain, Pending, Pipeline!IsOf
  <1>4. MetadataRead' /\ HintOwn'
    BY <1>1 DEF PipelineInv, MetadataRead, HintOwn, Pipeline!IsOf
  <1>5. Answers'
    BY <1>1 DEF PipelineInv, Answers, Pipeline!IsOf, Pipeline!MainFilesStay, Pipeline!PathsAreWritten,
      Pipeline!EverySidecarTried, Pipeline!HintNotOlder
  <1>6. QED
    BY <1>2, <1>3, <1>4, <1>5 DEF PipelineInv

\* In its own world the invariant of the pipeline holds in every state.
LEMMA PipelineAlways == AllSpec => [](world = "pipeline" => PipelineInv)
  <1> DEFINE J == world = "pipeline" => PipelineInv
  <1>1. AllInit => J
    BY PipelineStart DEF AllInit, ProgressInit, PipelineInit, HintInit, HostInit, MethodInit
  <1>2. J /\ [AllNext]_allVars => J'
    <2>1. SUFFICES ASSUME J, [AllNext]_allVars, world' = "pipeline" PROVE PipelineInv'
      OBVIOUS
    <2>2. world' = world
      BY <2>1 DEF AllNext, ProgressNext, PipelineNext, HintNext, HostNext, MethodNext, allVars
    <2>3. PipelineInv
      BY <2>1, <2>2
    <2>4. PipelineNext \/ UNCHANGED <<pipelineVars, pc>>
      BY <2>1, <2>2 DEF AllNext, ProgressNext, HintNext, HostNext, MethodNext, allVars
    <2>5. QED
      BY <2>3, <2>4, PipelineStep, PipelineIdles DEF PipelineNext
  <1>3. QED
    BY <1>1, <1>2, PTL DEF AllSpec

(***************************************************************************)
(* What a call tells of its files is so, in any sequence of calls into one *)
(* directory, whichever stages fail and whatever becomes of each file that *)
(* is written.                                                             *)
(***************************************************************************)
THEOREM ReportsAreTrue == AllSpec => []ReportedIsWritten
  <1>1. (world = "pipeline" => PipelineInv) => ReportedIsWritten
    BY DEF PipelineInv, Answers, ReportedIsWritten
  <1>2. QED
    BY <1>1, PipelineAlways, PTL

(***************************************************************************)
(* A call that does not get hold of the metadata leaves the files of the   *)
(* calls before it alone, and one that returns true has not left its       *)
(* metadata beside a hint of another call, unless it was a dump that found *)
(* no registration: for any number of calls.                               *)
(***************************************************************************)
THEOREM FilesStayTogether == AllSpec => []FilesBelongTogether
  <1>1. (world = "pipeline" => PipelineInv) => FilesBelongTogether
    BY DEF PipelineInv, Answers, MetadataRead, FilesBelongTogether, Pipeline!NothingLostEarly
  <1>2. QED
    BY <1>1, PipelineAlways, PTL

(***************************************************************************)
(* MethodAddress: what has been read is so (MethodTrue); while nothing was *)
(* unreadable it is everything (MethodAll); and the records of dump.cs are *)
(* those of their types (MethodLines).                                     *)
(***************************************************************************)
AnswerTrue(a) ==
  a.va # 0 =>
    /\ <<a.type, a.row, a.va>> \in Method!Code
    /\ a.rva # 0 => a.va = target.base + a.rva
    /\ a.fileOffset # 0 /\ a.rva < Width => a.fileOffset \in Method!InFile(a.rva)

ImagesTrue ==
  /\ DOMAIN images \subseteq DOMAIN target.images
  /\ \A k \in DOMAIN images :
       Method!Usable(target.images[k]) /\ images[k] \in {target.images[k], [target.images[k] EXCEPT !.name = ""]}
SectionsTrue ==
  /\ DOMAIN diskSecs \subseteq DOMAIN target.sections
  /\ \A k \in DOMAIN diskSecs : diskSecs[k] = target.sections[k]
PointersTrue ==
  \A key \in DOMAIN pointers :
    \E m \in DOMAIN target.modules : Key[target.modules[m].name] = key /\ pointers[key] = target.modules[m].pointers
AnswersTrue ==
  /\ pc \in {"resolved", "type", "written"} => \A a \in answers : AnswerTrue(a)
  /\ pc \in {"idle", "header", "image", "pointer", "module", "failed"} => answers = {}

MethodTrue ==
  target \in MethodTargets /\ turn \in Nat /\ ImagesTrue /\ SectionsTrue /\ PointersTrue /\ AnswersTrue

\* The usable ones of the images before number n.
ImagesUpTo(n) ==
  /\ DOMAIN images = {k \in DOMAIN target.images : k < n /\ Method!Usable(target.images[k])}
  /\ \A k \in DOMAIN images : images[k] = target.images[k]

PointersUpTo(n) ==
  \A m \in DOMAIN target.modules :
    m < n /\ Key[target.modules[m].name] # "" /\ Len(target.modules[m].pointers) > 0 =>
      Key[target.modules[m].name] \in DOMAIN pointers

AllImages == ImagesUpTo(Len(target.images) + 1)
AllPointers == PointersUpTo(Len(target.modules) + 1)

MethodMissed ==
  Method!Disjoint /\ ~ unread /\ target.hint /\ "row" \in DOMAIN asked =>
    ~ \E c \in Method!Code : c[1] = asked.type /\ c[2] = asked.row

MethodAll ==
  /\ pc = "idle" => images = <<>> /\ pointers = <<>> /\ turn = 1 /\ ~ unread /\ DOMAIN asked = {"nothing"}
  /\ pc = "header" => images = <<>> /\ turn = 1 /\ target.hint
  /\ pc \in {"header", "image", "pointer"} =>
       target.hint /\ DOMAIN asked = {"type", "row"} /\ asked.type \in Nat /\ asked.row \in Nat
  /\ pc = "image" => turn >= 1 /\ (~ unread => ImagesUpTo(turn))
  /\ pc = "pointer" =>
       /\ turn = Method!FindCodeGenModuleForImage(Method!ImageNameOf(asked.type)) /\ turn # 0
       /\ asked.row \in 1..Len(target.modules[turn].pointers)
       /\ ~ unread => AllImages
  /\ pc \in {"module", "type", "written"} => AllImages
  /\ pc = "module" => turn >= 1 /\ DOMAIN asked = {"nothing"} /\ (~ unread => PointersUpTo(turn))
  /\ pc \in {"type", "written"} /\ ~ unread => AllPointers
  /\ pc = "failed" => MethodMissed

MethodLines ==
  /\ pc \in {"type", "written"} =>
       /\ Method!Possible(target, DumpSearch) # {}
       /\ \A a \in answers : \E t \in 0..(Len(target.types) - 1) : \E m \in Method!MethodsOf(t) : a = Method!Line(t, m)
  /\ pc = "type" =>
       /\ turn >= 1
       /\ \A t \in 0..(Len(target.types) - 1) :
            t + 1 < turn => \A m \in Method!MethodsOf(t) : Method!Line(t, m) \in answers
  /\ pc = "written" =>
       \A t \in 0..(Len(target.types) - 1) : \A m \in Method!MethodsOf(t) : Method!Line(t, m) \in answers
  /\ pc = "viewed" =>
       /\ Method!Possible(target, ViewSearch) # {}
       /\ answers = {[type |-> Method!TypeOf(target, Method!Detected(target, ViewSearch), asked.method),
                      row |-> Method!RowOf(target, Method!Detected(target, ViewSearch), asked.method)]}

MethodInv == MethodTrue /\ MethodAll /\ MethodLines

\* Numbers are well-founded: a set of them has a least member.
LEMMA LeastNumber ==
  ASSUME NEW T \in SUBSET Nat, T # {}
  PROVE  \E x \in T : \A y \in T : x <= y
  <1> DEFINE less == {s \in Nat \X Nat : s[1] < s[2]}
  <1>1. less = OpToRel(<, Nat)
    BY DEF OpToRel
  <1> HIDE DEF less
  <1>2. PICK x \in T : \A y \in T : ~ (<<y, x>> \in less)
    BY <1>1, NatLessThanWellFounded, WFMin
  <1>3. ASSUME NEW y \in T PROVE x <= y
    <2>1. x \in Nat /\ y \in Nat
      OBVIOUS
    <2>2. ASSUME y < x PROVE <<y, x>> \in less
      BY <2>1, <2>2 DEF less
    <2>3. QED
      BY <1>2, <2>1, <2>2
  <1>4. QED
    BY <1>3

LEMMA ItemsOf ==
  ASSUME NEW S, NEW s \in Seq(S)
  PROVE  Len(s) \in Nat /\ DOMAIN s = 1..Len(s) /\ \A k \in DOMAIN s : s[k] \in S
  OBVIOUS

\* Of indices there is a least and a greatest one.
LEMMA Extremes ==
  ASSUME NEW n \in Nat, NEW S \in SUBSET (1..n), S # {}
  PROVE  /\ Method!Min(S) \in S /\ \A y \in S : Method!Min(S) <= y
         /\ Method!Max(S) \in S /\ \A y \in S : y <= Method!Max(S)
  <1> DEFINE T == {n - y : y \in S}
  <1>1. S \in SUBSET Nat /\ T \in SUBSET Nat /\ T # {}
    <2>1. \A y \in S : y \in Nat /\ n - y \in Nat
      OBVIOUS
    <2>2. PICK y \in S : TRUE
      OBVIOUS
    <2>3. n - y \in T
      BY <2>2
    <2>4. QED
      BY <2>1, <2>3
  <1>2. PICK x \in S : \A y \in S : x <= y
    BY <1>1, LeastNumber
  <1>3. PICK t \in T : \A y \in T : t <= y
    BY <1>1, LeastNumber
  <1>5. PICK z \in S : t = n - z
    BY <1>3
  <1>6. \A y \in S : z >= y
    <2>1. ASSUME NEW y \in S PROVE z >= y
      <3>1. n - y \in T /\ n - y \in Nat /\ t \in Nat
        BY <1>1
      <3>2. t <= n - y
        BY <1>3, <3>1
      <3>3. y \in Nat /\ z \in Nat
        BY <1>1
      <3>4. QED
        BY <1>5, <3>2, <3>3
    <2>2. QED
      BY <2>1
  <1>7. \A y \in S : y \in Nat
    BY <1>1
  <1>8. Method!Min(S) \in S /\ \A y \in S : Method!Min(S) <= y
    BY <1>2 DEF Method!Min
  <1>9. Method!Max(S) \in S /\ \A y \in S : Method!Max(S) >= y
    BY <1>6 DEF Method!Max
  <1>10. QED
    BY <1>7, <1>8, <1>9

\* What the assumption says of a target.
LEMMA MethodTargetFacts ==
  ASSUME NEW t \in MethodTargets
  PROVE  /\ Len(t.images) \in Nat /\ DOMAIN t.images = 1..Len(t.images)
         /\ \A k \in DOMAIN t.images :
              /\ t.images[k].name \in DOMAIN Key /\ t.images[k].start \in Int /\ t.images[k].count \in Int
              /\ DOMAIN t.images[k] = {"name", "start", "count"}
         /\ Len(t.types) \in Nat /\ DOMAIN t.types = 1..Len(t.types)
         /\ \A k \in DOMAIN t.types : t.types[k].first \in Nat /\ t.types[k].count \in Nat
         /\ Len(t.words) \in Nat /\ DOMAIN t.words = 1..Len(t.words)
         /\ \A k \in DOMAIN t.words : t.words[k] \in Int
         /\ Len(t.modules) \in Nat /\ DOMAIN t.modules = 1..Len(t.modules)
         /\ \A k \in DOMAIN t.modules :
              /\ t.modules[k].name \in DOMAIN Key /\ t.modules[k].pointers \in Seq(Nat)
              /\ Len(t.modules[k].pointers) \in Nat
              /\ DOMAIN t.modules[k].pointers = 1..Len(t.modules[k].pointers)
         /\ Len(t.sections) \in Nat /\ DOMAIN t.sections = 1..Len(t.sections)
         /\ \A k \in DOMAIN t.sections :
              t.sections[k].rva \in Nat /\ t.sections[k].size \in Nat /\ t.sections[k].raw \in Nat
         /\ t.base \in Nat /\ t.size \in Nat
  <1>1. /\ t.images \in Seq([name : STRING, start : Int, count : Int])
        /\ t.types \in Seq([first : Nat, count : Nat]) /\ t.words \in Seq(Int)
        /\ t.modules \in Seq([name : STRING, pointers : Seq(Nat)])
        /\ t.sections \in Seq([rva : Nat, size : Nat, raw : Nat])
        /\ t.base \in Nat /\ t.size \in Nat
    BY MethodAssumption DEF Method!TargetType
  <1>2. /\ Len(t.images) \in Nat /\ DOMAIN t.images = 1..Len(t.images)
        /\ \A k \in DOMAIN t.images : t.images[k] \in [name : STRING, start : Int, count : Int]
    BY <1>1, ItemsOf, Zenon
  <1>3. /\ Len(t.types) \in Nat /\ DOMAIN t.types = 1..Len(t.types)
        /\ \A k \in DOMAIN t.types : t.types[k] \in [first : Nat, count : Nat]
    BY <1>1, ItemsOf, Zenon
  <1>4. /\ Len(t.words) \in Nat /\ DOMAIN t.words = 1..Len(t.words) /\ \A k \in DOMAIN t.words : t.words[k] \in Int
    BY <1>1
  <1>5. /\ Len(t.modules) \in Nat /\ DOMAIN t.modules = 1..Len(t.modules)
        /\ \A k \in DOMAIN t.modules : t.modules[k] \in [name : STRING, pointers : Seq(Nat)]
    BY <1>1, ItemsOf, Zenon
  <1>6. /\ Len(t.sections) \in Nat /\ DOMAIN t.sections = 1..Len(t.sections)
        /\ \A k \in DOMAIN t.sections : t.sections[k] \in [rva : Nat, size : Nat, raw : Nat]
    BY <1>1, ItemsOf, Zenon
  <1>7. \A k \in DOMAIN t.images : t.images[k].name \in DOMAIN Key
    BY MethodAssumption
  <1>8. \A k \in DOMAIN t.modules : t.modules[k].name \in DOMAIN Key
    BY MethodAssumption
  <1>9. ASSUME NEW k \in DOMAIN t.images
        PROVE  /\ t.images[k].start \in Int /\ t.images[k].count \in Int
               /\ DOMAIN t.images[k] = {"name", "start", "count"}
    BY <1>2
  <1>10. ASSUME NEW k \in DOMAIN t.modules
         PROVE  /\ t.modules[k].pointers \in Seq(Nat) /\ Len(t.modules[k].pointers) \in Nat
                /\ DOMAIN t.modules[k].pointers = 1..Len(t.modules[k].pointers)
    <2>1. t.modules[k].pointers \in Seq(Nat)
      BY <1>5
    <2>2. QED
      BY <2>1
  <1>11. \A k \in DOMAIN t.types : t.types[k].first \in Nat /\ t.types[k].count \in Nat
    BY <1>3
  <1>12. \A k \in DOMAIN t.sections :
           t.sections[k].rva \in Nat /\ t.sections[k].size \in Nat /\ t.sections[k].raw \in Nat
    BY <1>6
  <1>13. QED
    BY <1>1, <1>2, <1>3, <1>4, <1>5, <1>6, <1>7, <1>8, <1>9, <1>10, <1>11, <1>12

\* Type, row and address of a method of an image that has a module are in Code,
\* and nothing else is.
LEMMA CodeIs ==
  ASSUME target \in MethodTargets
  PROVE  /\ \A k \in DOMAIN target.images, m \in DOMAIN target.modules : \A t, row :
              /\ Method!Usable(target.images[k]) /\ target.images[k].name # ""
              /\ t \in Method!Covered(target.images[k])
              /\ Key[target.images[k].name] = Key[target.modules[m].name]
              /\ row \in DOMAIN target.modules[m].pointers /\ target.modules[m].pointers[row] # 0
              => <<t, row, target.modules[m].pointers[row]>> \in Method!Code
         /\ \A c \in Method!Code :
              /\ c[3] # 0
              /\ \E k \in DOMAIN target.images, m \in DOMAIN target.modules :
                   /\ Method!Usable(target.images[k]) /\ target.images[k].name # ""
                   /\ c[1] \in Method!Covered(target.images[k])
                   /\ Key[target.images[k].name] = Key[target.modules[m].name]
                   /\ c[2] \in DOMAIN target.modules[m].pointers /\ c[3] = target.modules[m].pointers[c[2]]
  <1> DEFINE named == {image \in Method!Range(target.images) : Method!Usable(image) /\ image.name # ""}
             pairs == {x \in named \X Method!Range(target.modules) : Key[x[1].name] = Key[x[2].name]}
             of(image, m) == {<<t, row, m.pointers[row]>> : t \in Method!TypesOf(image), row \in DOMAIN m.pointers}
             all == UNION {of(x[1], x[2]) : x \in pairs}
  <1>1. Method!Code = {c \in all : c[3] # 0}
    BY DEF Method!Code
  <1>2. \A k \in DOMAIN target.images : Method!TypesOf(target.images[k]) = Method!Covered(target.images[k])
    BY MethodTargetFacts DEF Method!TypesOf, Method!Covered, Method!End
  <1>3. ASSUME NEW k \in DOMAIN target.images, NEW m \in DOMAIN target.modules, NEW t, NEW row,
               Method!Usable(target.images[k]), target.images[k].name # "", t \in Method!Covered(target.images[k]),
               Key[target.images[k].name] = Key[target.modules[m].name],
               row \in DOMAIN target.modules[m].pointers, target.modules[m].pointers[row] # 0
        PROVE  <<t, row, target.modules[m].pointers[row]>> \in Method!Code
    <2>1. target.images[k] \in named /\ target.modules[m] \in Method!Range(target.modules)
      BY <1>3 DEF Method!Range
    <2> HIDE DEF named
    <2>2. PICK x : x = <<target.images[k], target.modules[m]>>
      OBVIOUS
    <2>3. x \in pairs /\ x[1] = target.images[k] /\ x[2] = target.modules[m]
      BY <1>3, <2>1, <2>2
    <2>4. <<t, row, target.modules[m].pointers[row]>> \in of(target.images[k], target.modules[m])
      <3>1. t \in Method!TypesOf(target.images[k])
        BY <1>2, <1>3
      <3>2. PICK s : s = target.modules[m].pointers /\ row \in DOMAIN s
        BY <1>3
      <3>3. <<t, row, s[row]>> \in {<<a, b, s[b]>> : a \in Method!TypesOf(target.images[k]), b \in DOMAIN s}
        BY <3>1, <3>2
      <3>4. QED
        BY <3>2, <3>3
    <2> HIDE DEF of, pairs
    <2>5. <<t, row, target.modules[m].pointers[row]>> \in of(x[1], x[2])
      BY <2>3, <2>4
    <2>6. <<t, row, target.modules[m].pointers[row]>> \in all
      BY <2>3, <2>5
    <2> HIDE DEF all
    <2>7. QED
      BY <1>1, <1>3, <2>6
  <1>4. ASSUME NEW c \in Method!Code
        PROVE  /\ c[3] # 0
               /\ \E k \in DOMAIN target.images, m \in DOMAIN target.modules :
                    /\ Method!Usable(target.images[k]) /\ target.images[k].name # ""
                    /\ c[1] \in Method!Covered(target.images[k])
                    /\ Key[target.images[k].name] = Key[target.modules[m].name]
                    /\ c[2] \in DOMAIN target.modules[m].pointers /\ c[3] = target.modules[m].pointers[c[2]]
    <2> HIDE DEF of, pairs
    <2>1. c[3] # 0 /\ c \in all
      <3> HIDE DEF all
      <3>1. QED
        BY <1>1
    <2>2. PICK x \in pairs : c \in of(x[1], x[2])
      BY <2>1
    <2> HIDE DEF named
    <2>3. x[1] \in named /\ x[2] \in Method!Range(target.modules) /\ Key[x[1].name] = Key[x[2].name]
      BY DEF pairs
    <2> USE DEF named, of
    <2>4. PICK k \in DOMAIN target.images : x[1] = target.images[k]
      BY <2>3 DEF Method!Range
    <2>5. PICK m \in DOMAIN target.modules : x[2] = target.modules[m]
      BY <2>3 DEF Method!Range
    <2>6. PICK t \in Method!TypesOf(x[1]), row \in DOMAIN x[2].pointers : c = <<t, row, x[2].pointers[row]>>
      BY <2>2
    <2>7. Method!Usable(target.images[k]) /\ target.images[k].name # ""
      BY <2>3, <2>4
    <2>8. c[1] = t /\ c[2] = row /\ c[3] = x[2].pointers[row]
      BY <2>6
    <2>9. t \in Method!Covered(target.images[k])
      BY <1>2, <2>4
    <2> HIDE DEF named, of
    <2>10. QED
      BY <2>1, <2>3, <2>4, <2>5, <2>7, <2>8, <2>9
  <1>5. QED
    BY <1>3, <1>4

(***************************************************************************)
(* The helpers: the image of a type, the module of a name, an answer, and  *)
(* the layout that is detected.                                            *)
(***************************************************************************)
LEMMA NameIs ==
  ASSUME target \in MethodTargets, DOMAIN images \subseteq DOMAIN target.images, NEW t
  PROVE  /\ (\A k \in DOMAIN images : t \notin Method!Covered(images[k])) => Method!ImageNameOf(t) = ""
         /\ (\E k \in DOMAIN images : t \in Method!Covered(images[k])) =>
              \E k \in DOMAIN images : t \in Method!Covered(images[k]) /\ Method!ImageNameOf(t) = images[k].name
  <1> DEFINE covering == {k \in DOMAIN images : t \in Method!Covered(images[k])}
  <1>1. Method!ImageNameOf(t) = IF covering = {} THEN "" ELSE images[Method!Max(covering)].name
    BY DEF Method!ImageNameOf
  <1>2. covering \in SUBSET (1..Len(target.images)) /\ Len(target.images) \in Nat
    BY MethodTargetFacts
  <1>3. ASSUME covering # {} PROVE Method!Max(covering) \in covering
    <2> HIDE DEF covering
    <2>1. QED
      BY <1>2, <1>3, Extremes
  <1>4. QED
    BY <1>1, <1>3

LEMMA SameTypes ==
  ASSUME target \in MethodTargets
  PROVE  \A k \in DOMAIN target.images :
           /\ Method!TypesOf(target.images[k]) = Method!Covered(target.images[k])
           /\ Method!Covered([target.images[k] EXCEPT !.name = ""]) = Method!Covered(target.images[k])
  <1>1. ASSUME NEW k \in DOMAIN target.images
        PROVE  Method!TypesOf(target.images[k]) = Method!Covered(target.images[k])
    BY MethodTargetFacts DEF Method!TypesOf, Method!Covered, Method!End
  <1>2. ASSUME NEW k \in DOMAIN target.images
        PROVE  Method!Covered([target.images[k] EXCEPT !.name = ""]) = Method!Covered(target.images[k])
    <2>1. PICK i, j : i = target.images[k] /\ j = [i EXCEPT !.name = ""]
      OBVIOUS
    <2>2. DOMAIN i = {"name", "start", "count"}
      BY <2>1, MethodTargetFacts
    <2>3. j.start = i.start /\ j.count = i.count
      BY <2>1, <2>2
    <2>4. QED
      BY <2>1, <2>3 DEF Method!Covered, Method!End
  <1>3. QED
    BY <1>1, <1>2

\* A name a type is given is that of a usable image that has the type.
LEMMA NameIsTrue ==
  ASSUME MethodTrue, NEW t, Method!ImageNameOf(t) # ""
  PROVE  \E k \in DOMAIN target.images :
           /\ Method!Usable(target.images[k]) /\ target.images[k].name = Method!ImageNameOf(t)
           /\ t \in Method!Covered(target.images[k])
  <1>1. target \in MethodTargets /\ DOMAIN images \subseteq DOMAIN target.images
    BY DEF MethodTrue, ImagesTrue
  <1>2. PICK k \in DOMAIN images : t \in Method!Covered(images[k]) /\ Method!ImageNameOf(t) = images[k].name
    BY <1>1, NameIs
  <1>3. /\ k \in DOMAIN target.images /\ Method!Usable(target.images[k])
        /\ images[k] \in {target.images[k], [target.images[k] EXCEPT !.name = ""]}
    BY DEF MethodTrue, ImagesTrue
  <1>4. ASSUME images[k] = [target.images[k] EXCEPT !.name = ""] PROVE images[k].name = ""
    <2>1. PICK i : i = target.images[k]
      OBVIOUS
    <2>2. DOMAIN i = {"name", "start", "count"}
      BY <1>1, <1>3, <2>1, MethodTargetFacts
    <2>3. QED
      BY <1>4, <2>1, <2>2
  <1>5. QED
    BY <1>2, <1>3, <1>4

\* Where all images have been read, a type has the name of its image.
LEMMA NameOfImage ==
  ASSUME MethodTrue, AllImages, Method!Disjoint, NEW k \in DOMAIN target.images,
         Method!Usable(target.images[k]), NEW t \in Method!Covered(target.images[k])
  PROVE  Method!ImageNameOf(t) = target.images[k].name
  <1>1. target \in MethodTargets /\ DOMAIN images \subseteq DOMAIN target.images
    BY DEF MethodTrue, ImagesTrue
  <1>2. k \in DOMAIN images /\ \A l \in DOMAIN images : images[l] = target.images[l]
    BY <1>1, MethodTargetFacts DEF AllImages, ImagesUpTo
  <1>3. PICK l \in DOMAIN images : t \in Method!Covered(images[l]) /\ Method!ImageNameOf(t) = images[l].name
    BY <1>1, <1>2, NameIs
  <1>4. t \in Method!TypesOf(target.images[l]) /\ t \in Method!TypesOf(target.images[k])
    BY <1>1, <1>2, <1>3, SameTypes
  <1>5. l = k
    BY <1>1, <1>4 DEF Method!Disjoint
  <1>6. QED
    BY <1>2, <1>3, <1>5

LEMMA ModuleIs ==
  ASSUME target \in MethodTargets, NEW name
  PROVE  LET m == Method!FindCodeGenModuleForImage(name)
         IN  /\ m # 0 => m \in DOMAIN target.modules /\ Key[target.modules[m].name] = Key[name] /\ Key[name] # ""
             /\ Key[name] # "" /\ (\E n \in DOMAIN target.modules : Key[target.modules[n].name] = Key[name]) => m # 0
  <1> DEFINE named == {m \in DOMAIN target.modules : Key[target.modules[m].name] = Key[name]}
             m == Method!FindCodeGenModuleForImage(name)
  <1>1. m = IF Key[name] = "" \/ named = {} THEN 0 ELSE Method!Min(named)
    BY DEF Method!FindCodeGenModuleForImage
  <1>2. named \in SUBSET (1..Len(target.modules)) /\ Len(target.modules) \in Nat
    BY MethodTargetFacts
  <1>3. ASSUME named # {} PROVE Method!Min(named) \in named /\ Method!Min(named) # 0
    <2>1. Method!Min(named) \in named
      <3> HIDE DEF named
      <3>1. QED
        BY <1>2, <1>3, Extremes
    <2>2. PICK i : i = Method!Min(named)
      OBVIOUS
    <2>3. i \in 1..Len(target.modules)
      BY <1>2, <2>1, <2>2
    <2>4. i # 0
      BY <1>2, <2>3
    <2>5. QED
      BY <2>1, <2>2, <2>4
  <1> HIDE DEF m
  <1>4. QED
    BY <1>1, <1>3 DEF m

\* Answers: the address that can be told from the base is that address, and the
\* offset is where the file has it.
LEMMA AnswerIsTrue ==
  ASSUME target \in MethodTargets, NEW t, NEW row, NEW va \in Nat, NEW secs,
         DOMAIN secs \subseteq DOMAIN target.sections, \A k \in DOMAIN secs : secs[k] = target.sections[k],
         va # 0 => <<t, row, va>> \in Method!Code
  PROVE  AnswerTrue(Method!Answer(t, row, va, secs))
  <1> DEFINE a == Method!Answer(t, row, va, secs)
             rva == Method!Rva(va)
             at == rva % Width
             holding == {k \in DOMAIN secs :
                           secs[k].size # 0 /\ at \in secs[k].rva..(secs[k].rva + secs[k].size - 1)}
  <1>1. /\ a.type = t /\ a.row = row /\ a.va = va /\ a.rva = rva
        /\ a.fileOffset = Method!FileOffset(secs, at)
    BY DEF Method!Answer
  <1>2. target.base \in Nat /\ Width \in Nat \ {0}
    BY MethodTargetFacts, MethodAssumption
  <1>3. rva \in Nat /\ (rva # 0 => va = target.base + rva)
    BY <1>2 DEF Method!Rva
  <1> HIDE DEF rva
  <1>4. rva < Width => at = rva
    BY <1>2, <1>3
  <1> HIDE DEF a, at
  <1>5. ASSUME Method!FileOffset(secs, at) # 0, rva < Width PROVE Method!FileOffset(secs, at) \in Method!InFile(rva)
    <2>1. at # 0 /\ holding # {}
      BY <1>5 DEF Method!FileOffset
    <2>2. PICK j : j = Method!Min(holding)
      OBVIOUS
    <2>3. holding \in SUBSET (1..Len(target.sections)) /\ Len(target.sections) \in Nat
      BY MethodTargetFacts
    <2>4. j \in holding
      <3> HIDE DEF holding
      <3>1. QED
        BY <2>1, <2>2, <2>3, Extremes
    <2>5. /\ j \in DOMAIN target.sections /\ secs[j] = target.sections[j]
          /\ at \in secs[j].rva..(secs[j].rva + secs[j].size - 1)
      BY <2>4
    <2>6. Method!FileOffset(secs, at) = IF secs[j].raw = 0 THEN 0 ELSE secs[j].raw + at - secs[j].rva
      BY <2>1, <2>2 DEF Method!FileOffset
    <2>7. secs[j].raw # 0
      BY <1>5, <2>6
    <2>8. \E s \in Method!Range(target.sections) :
            s.raw # 0 /\ rva \in s.rva..(s.rva + s.size - 1) /\ Method!FileOffset(secs, at) = s.raw + rva - s.rva
      BY <1>4, <1>5, <2>5, <2>6, <2>7 DEF Method!Range
    <2> HIDE DEF holding
    <2>9. QED
      BY <2>8 DEF Method!InFile
  <1>6. QED
    BY <1>1, <1>3, <1>5 DEF AnswerTrue, a

LEMMA HitsAreNumbers ==
  ASSUME NEW t \in MethodTargets, NEW s \in {ViewSearch, DumpSearch}, NEW l \in DOMAIN s.layouts
  PROVE  Method!Hits(t, s, l) \in Nat /\ Method!Hits(t, s, l) <= s.sample
  <1> DEFINE layout == s.layouts[l]
             count == t.size \div layout.stride
             low == Method!Min({count, s.sample})
  <1>1. s \in SearchType
    BY MethodAssumption
  <1>2. s.layouts \in Seq(LayoutType) /\ s.sample \in Nat
    BY <1>1 DEF SearchType
  <1>3. layout \in LayoutType
    BY <1>2, ItemsOf
  <1>4. layout.stride \in Nat \ {0} /\ t.size \in Nat
    BY <1>3, MethodTargetFacts DEF LayoutType
  <1> HIDE DEF layout
  <1>5. count \in Nat
    BY <1>4
  <1> HIDE DEF count
  <1>6. low \in Nat /\ low <= s.sample
    <2>1. \A x, y \in Nat : Method!Min({x, y}) \in Nat /\ Method!Min({x, y}) <= y
      <3>1. ASSUME NEW x \in Nat, NEW y \in Nat PROVE \E z \in {x, y} : \A w \in {x, y} : z <= w
        OBVIOUS
      <3>2. ASSUME NEW x \in Nat, NEW y \in Nat
            PROVE  Method!Min({x, y}) \in {x, y} /\ \A w \in {x, y} : Method!Min({x, y}) <= w
        BY <3>1 DEF Method!Min
      <3>3. QED
        BY <3>2
    <2>2. QED
      BY <1>2, <1>5, <2>1
  <1> HIDE DEF low
  <1>7. Method!Tokens(t, s, layout) \in SUBSET (0..(low - 1))
    BY DEF Method!Tokens, low, count
  <1>8. PICK n \in Int : n = low - 1
    BY <1>6
  <1>9. Cardinality(Method!Tokens(t, s, layout)) \in Nat /\ Cardinality(Method!Tokens(t, s, layout)) <= s.sample
    <2>1. IsFiniteSet(0..n) /\ Cardinality(0..n) = low
      BY <1>6, <1>8, FS_Interval
    <2>2. /\ IsFiniteSet(Method!Tokens(t, s, layout))
          /\ Cardinality(Method!Tokens(t, s, layout)) <= Cardinality(0..n)
      BY <1>7, <1>8, <2>1, FS_Subset
    <2>3. Cardinality(Method!Tokens(t, s, layout)) \in Nat
      BY <2>2, FS_CardinalityType
    <2>4. QED
      BY <1>2, <1>6, <2>1, <2>2, <2>3
  <1>10. \A S : Method!Cardinality(S) = Cardinality(S)
    BY Zenon DEF Method!Cardinality, Cardinality
  <1>11. QED
    BY <1>9, <1>10 DEF Method!Hits, layout

\* The layout that is detected is the one the table has, if it is told by its
\* records.
LEMMA DetectedIsTrue ==
  ASSUME LayoutsTold, NEW t \in MethodTargets, NEW s \in {ViewSearch, DumpSearch},
         Method!Possible(t, s) # {}, \E l \in DOMAIN s.layouts : s.layouts[l] = t.layout
  PROVE  Method!Detected(t, s) = t.layout
  <1> DEFINE P == Method!Possible(t, s)
             H(k) == Method!Hits(t, s, k)
             best == {l \in P : \A k \in P : H(k) <= H(l)}
  <1>1. PICK l \in P : /\ s.layouts[l] = t.layout
                       /\ \A k \in P \ {l} : H(k) < H(l) \/ (H(k) = H(l) /\ l < k)
    BY DEF LayoutsTold
  <1>2. s.layouts \in Seq(LayoutType)
    BY MethodAssumption DEF SearchType
  <1>3. P \subseteq DOMAIN s.layouts /\ DOMAIN s.layouts = 1..Len(s.layouts) /\ Len(s.layouts) \in Nat
    BY <1>2, ItemsOf DEF Method!Possible
  <1>4. \A k \in P : H(k) \in Nat
    BY <1>3, HitsAreNumbers
  <1> HIDE DEF P, H
  <1>5. l \in best
    BY <1>1, <1>4
  <1>6. best \in SUBSET (1..Len(s.layouts))
    BY <1>3
  <1>7. \A k \in best : k = l \/ l < k
    BY <1>1, <1>4
  <1>8. Method!BestPossible(t, s) = Method!Min(best)
    BY DEF Method!BestPossible, P, H
  <1> HIDE DEF best
  <1>9. Method!Min(best) \in best /\ Method!Min(best) <= l
    BY <1>3, <1>5, <1>6, Extremes
  <1>10. Method!Min(best) \in Nat /\ l \in Nat
    BY <1>5, <1>6, <1>9
  <1>11. Method!Min(best) = l
    BY <1>7, <1>9, <1>10
  <1>12. QED
    BY <1>1, <1>8, <1>11 DEF Method!Detected

\* What is detected is one of the layouts, in any case.
LEMMA DetectedIsLayout ==
  ASSUME NEW t \in MethodTargets, NEW s \in {ViewSearch, DumpSearch}, Method!Possible(t, s) # {}
  PROVE  Method!Detected(t, s) \in LayoutType
  <1> DEFINE P == Method!Possible(t, s)
             H(k) == Method!Hits(t, s, k)
             best == {l \in P : \A k \in P : H(k) <= H(l)}
             short == {s.sample - H(k) : k \in P}
  <1>1. s.layouts \in Seq(LayoutType) /\ s.sample \in Nat
    BY MethodAssumption DEF SearchType
  <1>2. P \subseteq DOMAIN s.layouts /\ DOMAIN s.layouts = 1..Len(s.layouts) /\ Len(s.layouts) \in Nat
    BY <1>1, ItemsOf DEF Method!Possible
  <1>3. \A k \in P : H(k) \in Nat /\ H(k) <= s.sample
    BY <1>2, HitsAreNumbers
  <1>4. Method!BestPossible(t, s) = Method!Min(best)
    BY DEF Method!BestPossible
  <1>5. P # {}
    OBVIOUS
  <1> HIDE DEF P, H
  <1>6. short \in SUBSET Nat /\ short # {}
    BY <1>1, <1>3, <1>5
  <1>7. PICK x \in short : \A y \in short : x <= y
    BY <1>6, LeastNumber
  <1>8. PICK l \in P : x = s.sample - H(l)
    BY <1>7
  <1>9. \A k \in P : H(k) <= H(l)
    <2>1. ASSUME NEW k \in P PROVE H(k) <= H(l)
      <3>1. s.sample - H(l) <= s.sample - H(k)
        BY <1>7, <1>8
      <3>2. QED
        BY <1>1, <1>3, <3>1
    <2>2. QED
      BY <2>1
  <1>10. l \in best
    BY <1>9
  <1>11. best \in SUBSET (1..Len(s.layouts))
    BY <1>2
  <1> HIDE DEF best
  <1>12. Method!Min(best) \in best
    BY <1>2, <1>10, <1>11, Extremes
  <1>13. Method!Min(best) \in DOMAIN s.layouts
    BY <1>2, <1>11, <1>12
  <1>14. s.layouts[Method!Min(best)] \in LayoutType
    BY <1>1, <1>13, ItemsOf
  <1>15. QED
    BY <1>4, <1>14 DEF Method!Detected

(***************************************************************************)
(* What is read leads to methods that have code, and to all of them.       *)
(***************************************************************************)
LEMMA KeysAre == \A n : n \in DOMAIN Key => (Key[n] = "" <=> n = "")
  BY MethodAssumption

\* The name of an image that has the type, and a module of that key: what it
\* has for a row is the method's code.
LEMMA FoundIsCode ==
  ASSUME MethodTrue, NEW t, NEW m \in DOMAIN target.modules, Key[Method!ImageNameOf(t)] # "",
         Key[target.modules[m].name] = Key[Method!ImageNameOf(t)],
         NEW row \in DOMAIN target.modules[m].pointers, target.modules[m].pointers[row] # 0
  PROVE  <<t, row, target.modules[m].pointers[row]>> \in Method!Code
  <1>1. target \in MethodTargets
    BY DEF MethodTrue
  <1>2. Method!ImageNameOf(t) # ""
    BY MethodAssumption
  <1>3. PICK k \in DOMAIN target.images :
          /\ Method!Usable(target.images[k]) /\ target.images[k].name = Method!ImageNameOf(t)
          /\ t \in Method!Covered(target.images[k])
    BY <1>2, NameIsTrue
  <1>4. QED
    BY <1>1, <1>2, <1>3, CodeIs

LEMMA PointerIsCode ==
  ASSUME MethodTrue, NEW t, NEW row \in Nat
  PROVE  /\ Method!PointerOf(t, row) \in Nat
         /\ Method!PointerOf(t, row) # 0 => <<t, row, Method!PointerOf(t, row)>> \in Method!Code
  <1> DEFINE key == Key[Method!ImageNameOf(t)]
             va == Method!PointerOf(t, row)
  <1>1. va = IF row # 0 /\ key # "" /\ key \in DOMAIN pointers
               THEN IF row <= Len(pointers[key]) THEN pointers[key][row] ELSE 0 ELSE 0
    BY DEF Method!PointerOf
  <1>2. CASE row # 0 /\ key # "" /\ key \in DOMAIN pointers /\ row <= Len(pointers[key])
    <2>1. PICK m \in DOMAIN target.modules :
            Key[target.modules[m].name] = key /\ pointers[key] = target.modules[m].pointers
      BY <1>2 DEF MethodTrue, PointersTrue
    <2>2. PICK s : s = target.modules[m].pointers
      OBVIOUS
    <2>3. s \in Seq(Nat) /\ Len(s) \in Nat /\ DOMAIN s = 1..Len(s)
      BY <2>1, <2>2, MethodTargetFacts DEF MethodTrue
    <2>4. row \in DOMAIN s /\ s[row] \in Nat
      <3>1. row # 0 /\ row <= Len(s)
        BY <1>2, <2>1, <2>2
      <3>2. row \in 1..Len(s)
        BY <2>3, <3>1
      <3>3. QED
        BY <2>3, <3>2
    <2>5. va = s[row]
      BY <1>1, <1>2, <2>1, <2>2
    <2> HIDE DEF va
    <2>6. ASSUME va # 0 PROVE <<t, row, va>> \in Method!Code
      BY <1>2, <2>1, <2>2, <2>4, <2>5, <2>6, FoundIsCode
    <2>7. QED
      BY <2>4, <2>5, <2>6 DEF va
  <1>3. CASE ~ (row # 0 /\ key # "" /\ key \in DOMAIN pointers /\ row <= Len(pointers[key]))
    <2>1. va = 0
      BY <1>1, <1>3
    <2>2. QED
      BY <2>1
  <1>4. QED
    BY <1>2, <1>3

\* A method with code has an image of a name, and the module of it.
LEMMA CodeIsFound ==
  ASSUME MethodTrue, AllImages, Method!Disjoint, NEW c \in Method!Code
  PROVE  /\ c[3] # 0
         /\ \E k \in DOMAIN target.images, m \in DOMAIN target.modules :
              /\ Method!Usable(target.images[k]) /\ c[1] \in Method!Covered(target.images[k])
              /\ Method!ImageNameOf(c[1]) = target.images[k].name
              /\ Key[target.images[k].name] # "" /\ Key[target.modules[m].name] = Key[target.images[k].name]
              /\ \A n \in DOMAIN target.modules : Key[target.modules[n].name] = Key[target.modules[m].name] => n = m
              /\ Method!FindCodeGenModuleForImage(Method!ImageNameOf(c[1])) = m
              /\ c[2] \in DOMAIN target.modules[m].pointers /\ c[3] = target.modules[m].pointers[c[2]]
  <1>1. target \in MethodTargets
    BY DEF MethodTrue
  <1>2. c[3] # 0
    BY <1>1, CodeIs
  <1>3. PICK k \in DOMAIN target.images, m \in DOMAIN target.modules :
          /\ Method!Usable(target.images[k]) /\ target.images[k].name # ""
          /\ c[1] \in Method!Covered(target.images[k])
          /\ Key[target.images[k].name] = Key[target.modules[m].name]
          /\ c[2] \in DOMAIN target.modules[m].pointers /\ c[3] = target.modules[m].pointers[c[2]]
    BY <1>1, CodeIs
  <1>4. Method!ImageNameOf(c[1]) = target.images[k].name
    BY <1>3, NameOfImage
  <1>5. Key[target.images[k].name] # ""
    BY <1>1, <1>3, KeysAre, MethodTargetFacts
  <1>6. \A n \in DOMAIN target.modules : Key[target.modules[n].name] = Key[target.modules[m].name] => n = m
    BY DEF Method!Disjoint
  <1>7. Method!FindCodeGenModuleForImage(Method!ImageNameOf(c[1])) = m
    <2> DEFINE f == Method!FindCodeGenModuleForImage(Method!ImageNameOf(c[1]))
    <2>1. f # 0
      BY <1>1, <1>3, <1>4, <1>5, ModuleIs
    <2>2. f \in DOMAIN target.modules /\ Key[target.modules[f].name] = Key[Method!ImageNameOf(c[1])]
      BY <1>1, <2>1, ModuleIs
    <2> HIDE DEF f
    <2>3. f = m
      BY <1>3, <1>4, <1>6, <2>2
    <2>4. QED
      BY <2>3 DEF f
  <1>8. QED
    BY <1>2, <1>3, <1>4, <1>5, <1>6, <1>7

\* Records that hold a method have a row.
LEMMA MethodIs ==
  ASSUME target \in MethodTargets, Method!Possible(target, DumpSearch) # {},
         NEW t \in 0..(Len(target.types) - 1), NEW m \in Method!MethodsOf(t)
  PROVE  /\ m \in Nat /\ m \in target.types[t + 1].first..(target.types[t + 1].first + target.types[t + 1].count - 1)
         /\ Method!Holds(target, Method!Detected(target, DumpSearch), m)
         /\ Method!RowOf(target, Method!Detected(target, DumpSearch), m) \in Nat
  <1>1. PICK layout : layout = Method!Detected(target, DumpSearch)
    OBVIOUS
  <1>2. layout.stride \in Nat \ {0} /\ layout.token \in Nat /\ layout.token < layout.stride
    BY <1>1, DetectedIsLayout DEF LayoutType
  <1>3. PICK start, count : start = target.types[t + 1].first /\ count = target.types[t + 1].count
    OBVIOUS
  <1>4. start \in Nat /\ count \in Nat
    BY <1>3, MethodTargetFacts
  <1>5. m \in start..(start + count - 1) /\ \A k \in start..m : Method!Holds(target, layout, k)
    BY <1>1, <1>3 DEF Method!MethodsOf
  <1>6. m \in Nat /\ Method!Holds(target, layout, m)
    BY <1>4, <1>5
  <1>7. PICK p \in Nat : p = m * layout.stride
    BY <1>2, <1>6
  <1>8. (m + 1) * layout.stride = p + layout.stride
    <2>1. \A x, y \in Int : (x + 1) * y = x * y + y
      OBVIOUS
    <2>2. PICK y \in Int : y = layout.stride
      BY <1>2
    <2>3. (m + 1) * y = m * y + y
      BY <1>6, <2>1
    <2>4. QED
      BY <1>7, <2>2, <2>3
  <1>9. p + layout.stride <= Len(target.words) /\ Len(target.words) \in Nat
    BY <1>6, <1>8, MethodTargetFacts DEF Method!Holds
  <1>10. Method!TokenAt(layout, m) = p + layout.token + 1
    BY <1>7 DEF Method!TokenAt
  <1>11. p + layout.token + 1 \in 1..Len(target.words)
    BY <1>2, <1>7, <1>9
  <1>12. target.words[p + layout.token + 1] \in Int
    BY <1>11, MethodTargetFacts
  <1>13. PICK w \in Int : w = target.words[Method!TokenAt(layout, m)]
    BY <1>10, <1>12
  <1>14. Method!RowOf(target, layout, m) = IF w > 0 THEN w ELSE -w
    BY <1>13 DEF Method!RowOf, Method!TokenRowId
  <1>15. Method!RowOf(target, layout, m) \in Nat
    BY <1>14
  <1>16. QED
    BY <1>1, <1>3, <1>5, <1>6, <1>15

LEMMA LineIsTrue ==
  ASSUME MethodTrue, Method!Possible(target, DumpSearch) # {},
         NEW t \in 0..(Len(target.types) - 1), NEW m \in Method!MethodsOf(t)
  PROVE  AnswerTrue(Method!Line(t, m))
  <1>1. PICK row : row = Method!RowOf(target, Method!Detected(target, DumpSearch), m)
    OBVIOUS
  <1>2. row \in Nat
    BY <1>1, MethodIs DEF MethodTrue
  <1>3. PICK va : va = Method!PointerOf(t, row)
    OBVIOUS
  <1>4. va \in Nat /\ (va # 0 => <<t, row, va>> \in Method!Code)
    BY <1>2, <1>3, PointerIsCode
  <1>5. Method!Line(t, m) = Method!Answer(t, row, va, diskSecs)
    BY <1>1, <1>3 DEF Method!Line
  <1>6. /\ target \in MethodTargets /\ DOMAIN diskSecs \subseteq DOMAIN target.sections
        /\ \A k \in DOMAIN diskSecs : diskSecs[k] = target.sections[k]
    BY DEF MethodTrue, SectionsTrue
  <1>7. QED
    BY <1>4, <1>5, <1>6, AnswerIsTrue

(***************************************************************************)
(* The steps.                                                              *)
(***************************************************************************)
LEMMA SameTarget ==
  ASSUME target' = target
  PROVE  /\ Method!Code' = Method!Code /\ Method!Disjoint' = Method!Disjoint
         /\ \A a : AnswerTrue(a)' <=> AnswerTrue(a)
         /\ \A t : Method!MethodsOf(t)' = Method!MethodsOf(t)
  <1>1. Method!Code' = Method!Code
    BY DEF Method!Code
  <1>2. Method!Disjoint' = Method!Disjoint
    BY DEF Method!Disjoint
  <1>3. \A t : Method!MethodsOf(t)' = Method!MethodsOf(t)
    BY DEF Method!MethodsOf
  <1>4. \A rva : Method!InFile(rva)' = Method!InFile(rva)
    BY DEF Method!InFile
  <1>5. \A a : AnswerTrue(a)' <=> AnswerTrue(a)
    BY <1>1, <1>4 DEF AnswerTrue
  <1>6. QED
    BY <1>1, <1>2, <1>3, <1>5

LEMMA SameLines ==
  ASSUME UNCHANGED <<target, images, pointers, diskSecs>>
  PROVE  /\ \A t : Method!ImageNameOf(t)' = Method!ImageNameOf(t)
         /\ \A t, m : Method!Line(t, m)' = Method!Line(t, m)
         /\ \A n : (ImagesUpTo(n)' <=> ImagesUpTo(n)) /\ (PointersUpTo(n)' <=> PointersUpTo(n))
  <1>1. \A t : Method!ImageNameOf(t)' = Method!ImageNameOf(t)
    BY DEF Method!ImageNameOf
  <1>2. \A t, row : Method!PointerOf(t, row)' = Method!PointerOf(t, row)
    BY <1>1 DEF Method!PointerOf
  <1>3. \A t, row, va, secs : Method!Answer(t, row, va, secs)' = Method!Answer(t, row, va, secs)
    BY DEF Method!Answer, Method!Rva
  <1>4. \A t, m : Method!Line(t, m)' = Method!Line(t, m)
    BY <1>2, <1>3 DEF Method!Line
  <1>5. \A n : ImagesUpTo(n)' <=> ImagesUpTo(n)
    BY DEF ImagesUpTo
  <1>6. \A n : PointersUpTo(n)' <=> PointersUpTo(n)
    BY DEF PointersUpTo
  <1>7. QED
    BY <1>1, <1>4, <1>5, <1>6

\* A step that reads nothing keeps what is true.
LEMMA TrueKept ==
  ASSUME MethodTrue, UNCHANGED <<target, images, pointers, diskSecs>>, turn' \in Nat,
         pc' \in {"resolved", "type", "written"} => \A a \in answers' : AnswerTrue(a),
         pc' \in {"idle", "header", "image", "pointer", "module", "failed"} => answers' = {}
  PROVE  MethodTrue'
  <1>1. ImagesTrue'
    BY DEF MethodTrue, ImagesTrue
  <1>2. SectionsTrue'
    BY DEF MethodTrue, SectionsTrue
  <1>3. PointersTrue'
    BY DEF MethodTrue, PointersTrue
  <1>4. AnswersTrue'
    BY SameTarget DEF AnswersTrue
  <1>5. QED
    BY <1>1, <1>2, <1>3, <1>4 DEF MethodTrue

LEMMA MethodStart == Method!Init => MethodInv
  <1> SUFFICES ASSUME Method!Init PROVE MethodInv
    OBVIOUS
  <1>1. /\ target \in MethodTargets /\ pc = "idle" /\ asked = [nothing |-> TRUE] /\ turn = 1 /\ images = <<>>
        /\ pointers = <<>> /\ diskSecs = <<>> /\ answers = {} /\ unread = FALSE
    BY DEF Method!Init, Method!Nothing
  <1>2. DOMAIN images = {} /\ DOMAIN pointers = {} /\ DOMAIN diskSecs = {} /\ DOMAIN asked = {"nothing"}
    BY <1>1
  <1>3. QED
    BY <1>1, <1>2 DEF MethodInv, MethodTrue, MethodAll, MethodLines, ImagesTrue, SectionsTrue, PointersTrue,
                      AnswersTrue

LEMMA ResolveStep ==
  ASSUME MethodInv, NEW t \in 0..Len(target.types), NEW row \in Rows, Method!Resolve(t, row) PROVE MethodInv'
  <1>1. /\ pc = "idle" /\ asked' = [type |-> t, row |-> row]
        /\ pc' = IF target.hint THEN "header" ELSE "failed"
        /\ UNCHANGED <<target, turn, images, pointers, diskSecs, answers, unread>>
    BY DEF Method!Resolve
  <1>2. images = <<>> /\ pointers = <<>> /\ turn = 1 /\ answers = {} /\ target \in MethodTargets
    BY <1>1 DEF MethodInv, MethodTrue, MethodAll, AnswersTrue
  <1>3. MethodTrue'
    BY <1>1, <1>2, TrueKept DEF MethodInv
  <1>4. DOMAIN asked' = {"type", "row"} /\ asked'.type \in Nat /\ asked'.row \in Nat
    <2>1. t \in Nat
      BY <1>2, MethodTargetFacts
    <2>2. row \in Nat
      BY MethodAssumption
    <2>3. QED
      BY <1>1, <2>1, <2>2
  <1>5. MethodAll'
    <2>1. CASE target.hint
      BY <1>1, <1>2, <1>4, <2>1 DEF MethodAll
    <2>2. CASE ~ target.hint
      BY <1>1, <2>2 DEF MethodAll, MethodMissed
    <2>3. QED
      BY <2>1, <2>2
  <1>6. MethodLines'
    BY <1>1 DEF MethodLines
  <1>7. QED
    BY <1>3, <1>5, <1>6 DEF MethodInv

\* No images are all there are if their number is refused.
LEMMA FewImages ==
  ASSUME NEW t \in MethodTargets, Len(t.images) \notin 1..MaxImages
  PROVE  Len(t.images) = 0
  <1>1. Len(t.images) \in Nat /\ Len(t.images) <= MaxImages /\ MaxImages \in Nat
    BY MethodTargetFacts, MethodAssumption
  <1>2. QED
    BY <1>1

LEMMA HeaderStep == ASSUME MethodInv, Method!ReadHeader PROVE MethodInv'
  <1>1. /\ pc = "header" /\ UNCHANGED <<target, asked, turn, images, pointers, diskSecs, answers>>
        /\ \/ pc' = (IF Len(target.images) \in 1..MaxImages THEN "image" ELSE "failed") /\ unread' = unread
           \/ pc' = "failed" /\ unread' = TRUE
    BY DEF Method!ReadHeader
  <1>2. /\ images = <<>> /\ turn = 1 /\ answers = {} /\ target \in MethodTargets /\ target.hint
        /\ DOMAIN asked = {"type", "row"} /\ asked.type \in Nat /\ asked.row \in Nat
    BY <1>1 DEF MethodInv, MethodTrue, MethodAll, AnswersTrue
  <1>3. MethodTrue'
    BY <1>1, <1>2, TrueKept DEF MethodInv
  <1>4. MethodAll'
    <2>1. CASE pc' = "image" /\ unread' = unread
      <3>1. DOMAIN images = {}
        BY <1>2
      <3>2. \A k \in DOMAIN target.images : ~ (k < 1)
        BY <1>2, MethodTargetFacts
      <3>3. ImagesUpTo(1)
        BY <3>1, <3>2 DEF ImagesUpTo
      <3>4. ImagesUpTo(turn)'
        BY <1>1, <1>2, <3>3, SameLines
      <3>5. QED
        BY <1>1, <1>2, <2>1, <3>4 DEF MethodAll
    <2>2. CASE pc' = "failed" /\ Len(target.images) \notin 1..MaxImages
      <3>1. DOMAIN target.images = {}
        BY <1>2, <2>2, FewImages, MethodTargetFacts
      <3>2. Method!Code = {}
        BY <1>2, <3>1, CodeIs
      <3>3. MethodMissed'
        BY <1>1, <3>2, SameTarget DEF MethodMissed
      <3>4. QED
        BY <2>2, <3>3 DEF MethodAll
    <2>3. CASE pc' = "failed" /\ unread' = TRUE
      BY <2>3 DEF MethodAll, MethodMissed
    <2>4. QED
      BY <1>1, <2>1, <2>2, <2>3
  <1>5. MethodLines'
    BY <1>1 DEF MethodLines
  <1>6. QED
    BY <1>3, <1>4, <1>5 DEF MethodInv

LEMMA ImageStep == ASSUME MethodInv, Method!ReadImage PROVE MethodInv'
  <1> DEFINE image == target.images[turn]
             unnamed == [image EXCEPT !.name = ""]
  <1>1. /\ pc = "image" /\ turn <= Len(target.images) /\ turn' = turn + 1
        /\ UNCHANGED <<target, pc, asked, pointers, diskSecs, answers>>
    BY DEF Method!ReadImage
  <1>2. \/ images' = (IF Method!Usable(image) THEN Method!With(images, turn, image) ELSE images) /\ unread' = unread
        \/ /\ \/ images' = images
              \/ images' = (IF Method!Usable(image) THEN Method!With(images, turn, unnamed) ELSE images)
           /\ unread' = TRUE
    BY DEF Method!ReadImage
  <1> HIDE DEF image, unnamed
  <1>3. /\ target \in MethodTargets /\ turn \in Nat /\ turn >= 1 /\ target.hint
        /\ DOMAIN asked = {"type", "row"} /\ asked.type \in Nat /\ asked.row \in Nat
        /\ answers = {} /\ (~ unread => ImagesUpTo(turn))
    BY <1>1 DEF MethodInv, MethodTrue, MethodAll, AnswersTrue
  <1>4. turn \in DOMAIN target.images /\ DOMAIN target.images \in SUBSET Nat
    BY <1>1, <1>3, MethodTargetFacts
  <1>5. images' = images \/ (Method!Usable(image) /\ \E i \in {image, unnamed} : images' = Method!With(images, turn, i))
    BY <1>2
  <1>6. /\ DOMAIN images' \subseteq DOMAIN target.images
        /\ \A k \in DOMAIN images' :
             /\ Method!Usable(target.images[k])
             /\ images'[k] \in {target.images[k], [target.images[k] EXCEPT !.name = ""]}
    <2>1. /\ DOMAIN images \subseteq DOMAIN target.images
          /\ \A k \in DOMAIN images :
               /\ Method!Usable(target.images[k])
               /\ images[k] \in {target.images[k], [target.images[k] EXCEPT !.name = ""]}
      BY DEF MethodInv, MethodTrue, ImagesTrue
    <2>2. CASE images' = images
      BY <2>1, <2>2
    <2>3. ASSUME Method!Usable(image), NEW i \in {image, unnamed}, images' = Method!With(images, turn, i)
          PROVE  /\ DOMAIN images' \subseteq DOMAIN target.images
                 /\ \A k \in DOMAIN images' :
                      /\ Method!Usable(target.images[k])
                      /\ images'[k] \in {target.images[k], [target.images[k] EXCEPT !.name = ""]}
      <3>1. images' = [x \in DOMAIN images \cup {turn} |-> IF x = turn THEN i ELSE images[x]]
        BY <2>3 DEF Method!With
      <3>2. DOMAIN images' = DOMAIN images \cup {turn}
        BY <3>1
      <3>3. ASSUME NEW k \in DOMAIN images'
            PROVE  /\ Method!Usable(target.images[k])
                   /\ images'[k] \in {target.images[k], [target.images[k] EXCEPT !.name = ""]}
        <4>1. images'[k] = IF k = turn THEN i ELSE images[k]
          BY <3>1, <3>2
        <4>2. CASE k = turn
          BY <2>3, <4>1, <4>2 DEF image, unnamed
        <4>3. CASE k # turn
          BY <2>1, <3>2, <4>1, <4>3
        <4>4. QED
          BY <4>2, <4>3
      <3>4. QED
        BY <1>4, <2>1, <3>2, <3>3
    <2>4. QED
      BY <1>5, <2>2, <2>3
  <1>7. MethodTrue'
    <2>1. ImagesTrue'
      BY <1>1, <1>6 DEF ImagesTrue
    <2>2. SectionsTrue' /\ PointersTrue'
      BY <1>1 DEF MethodInv, MethodTrue, SectionsTrue, PointersTrue
    <2>3. AnswersTrue'
      BY <1>1, <1>3 DEF AnswersTrue
    <2>4. turn' \in Nat
      BY <1>1, <1>3
    <2>5. QED
      BY <1>1, <1>3, <2>1, <2>2, <2>3, <2>4 DEF MethodTrue
  <1>8. ASSUME ~ unread' PROVE ImagesUpTo(turn)'
    <2>1. /\ ~ unread
          /\ images' = IF Method!Usable(image) THEN Method!With(images, turn, image) ELSE images
      BY <1>2, <1>8
    <2>2. /\ DOMAIN images = {k \in DOMAIN target.images : k < turn /\ Method!Usable(target.images[k])}
          /\ \A k \in DOMAIN images : images[k] = target.images[k]
      BY <1>3, <2>1 DEF ImagesUpTo
    <2>3. \A k \in DOMAIN target.images : k < turn + 1 <=> k < turn \/ k = turn
      BY <1>3, <1>4
    <2>4. /\ DOMAIN images' = {k \in DOMAIN target.images : k < turn + 1 /\ Method!Usable(target.images[k])}
          /\ \A k \in DOMAIN images' : images'[k] = target.images[k]
      <3>1. CASE Method!Usable(image)
        <4>1. images' = [x \in DOMAIN images \cup {turn} |-> IF x = turn THEN image ELSE images[x]]
          BY <2>1, <3>1 DEF Method!With
        <4>2. DOMAIN images' = DOMAIN images \cup {turn}
          BY <4>1
        <4>3. \A k \in DOMAIN images' : images'[k] = target.images[k]
          BY <2>2, <4>1, <4>2 DEF image
        <4>4. QED
          BY <1>4, <2>2, <2>3, <3>1, <4>2, <4>3 DEF image
      <3>2. CASE ~ Method!Usable(image)
        BY <2>1, <2>2, <2>3, <3>2 DEF image
      <3>3. QED
        BY <3>1, <3>2
    <2>5. QED
      BY <1>1, <2>4 DEF ImagesUpTo
  <1>9. MethodAll'
    <2>1. turn' >= 1
      BY <1>1, <1>3
    <2>2. QED
      BY <1>1, <1>3, <1>8, <2>1 DEF MethodAll
  <1>10. MethodLines'
    BY <1>1 DEF MethodLines
  <1>11. QED
    BY <1>7, <1>9, <1>10 DEF MethodInv

LEMMA FindStep == ASSUME MethodInv, Method!FindPointer PROVE MethodInv'
  <1>1. PICK m : m = Method!FindCodeGenModuleForImage(Method!ImageNameOf(asked.type))
    OBVIOUS
  <1>2. /\ pc = "image" /\ turn > Len(target.images) /\ turn' = m
        /\ pc' = IF m # 0 /\ asked.row \in 1..Len(target.modules[m].pointers) THEN "pointer" ELSE "failed"
        /\ UNCHANGED <<target, asked, images, pointers, diskSecs, answers, unread>>
    BY <1>1 DEF Method!FindPointer
  <1>3. /\ MethodTrue /\ target \in MethodTargets /\ turn \in Nat /\ target.hint
        /\ DOMAIN asked = {"type", "row"} /\ asked.type \in Nat /\ asked.row \in Nat
        /\ answers = {} /\ (~ unread => ImagesUpTo(turn))
    BY <1>2 DEF MethodInv, MethodTrue, MethodAll, AnswersTrue
  <1>4. m \in Nat
    <2>1. m # 0 => m \in DOMAIN target.modules
      BY <1>1, <1>3, ModuleIs
    <2>2. QED
      BY <1>3, <2>1, MethodTargetFacts
  <1>5. MethodTrue'
    BY <1>2, <1>3, <1>4, TrueKept
  <1>6. ASSUME ~ unread PROVE AllImages
    <2>1. \A k \in DOMAIN target.images : k < turn /\ k < Len(target.images) + 1
      BY <1>2, <1>3, MethodTargetFacts
    <2>2. QED
      BY <1>3, <1>6, <2>1 DEF AllImages, ImagesUpTo
  <1>7. MethodAll'
    <2>1. CASE pc' = "pointer"
      <3>1. m # 0 /\ asked.row \in 1..Len(target.modules[m].pointers)
        BY <1>2, <2>1
      <3>2. turn' = (Method!FindCodeGenModuleForImage(Method!ImageNameOf(asked.type)))'
        <4>1. \A t : Method!ImageNameOf(t)' = Method!ImageNameOf(t)
          BY <1>2 DEF Method!ImageNameOf
        <4>2. \A n : Method!FindCodeGenModuleForImage(n)' = Method!FindCodeGenModuleForImage(n)
          BY <1>2 DEF Method!FindCodeGenModuleForImage
        <4>3. QED
          BY <1>1, <1>2, <4>1, <4>2
      <3>3. ~ unread => AllImages'
        BY <1>2, <1>6 DEF AllImages, ImagesUpTo
      <3>4. QED
        BY <1>2, <1>3, <2>1, <3>1, <3>2, <3>3 DEF MethodAll
    <2>2. CASE pc' = "failed"
      <3>1. SUFFICES ASSUME Method!Disjoint, ~ unread,
                            NEW c \in Method!Code, c[1] = asked.type, c[2] = asked.row
                     PROVE  FALSE
        <4>1. MethodMissed
          BY <3>1 DEF MethodMissed
        <4>2. MethodMissed'
          BY <1>2, <4>1, SameTarget DEF MethodMissed
        <4>3. QED
          BY <2>2, <4>2 DEF MethodAll
      <3>2. PICK n \in DOMAIN target.modules :
              /\ Method!FindCodeGenModuleForImage(Method!ImageNameOf(c[1])) = n
              /\ c[2] \in DOMAIN target.modules[n].pointers
        BY <1>3, <1>6, <3>1, CodeIsFound
      <3>3. n = m
        BY <1>1, <3>1, <3>2
      <3>4. m # 0 /\ asked.row \in 1..Len(target.modules[m].pointers)
        BY <1>3, <3>1, <3>2, <3>3, MethodTargetFacts
      <3>5. QED
        BY <1>2, <2>2, <3>4
    <2>3. QED
      BY <1>2, <2>1, <2>2
  <1>8. MethodLines'
    BY <1>2 DEF MethodLines
  <1>9. QED
    BY <1>5, <1>7, <1>8 DEF MethodInv

\* Sections of a file are its first ones.
LEMMA SectionsAre ==
  ASSUME target \in MethodTargets, NEW secs \in Method!Sections
  PROVE  DOMAIN secs \subseteq DOMAIN target.sections /\ \A k \in DOMAIN secs : secs[k] = target.sections[k]
  <1>1. PICK n \in 0..Len(target.sections) : secs = SubSeq(target.sections, 1, n)
    BY DEF Method!Sections
  <1>2. target.sections \in Seq([rva : Nat, size : Nat, raw : Nat])
    BY MethodAssumption DEF Method!TargetType
  <1>3. PICK s \in Seq([rva : Nat, size : Nat, raw : Nat]) : s = target.sections
    BY <1>2
  <1>4. DOMAIN secs = 1..n /\ \A k \in 1..n : secs[k] = s[k]
    BY <1>1, <1>3
  <1>5. 1..n \subseteq DOMAIN s
    BY <1>1, <1>3
  <1>6. QED
    BY <1>3, <1>4, <1>5

LEMMA PointerStep == ASSUME MethodInv, Method!ReadPointer PROVE MethodInv'
  <1>1. PICK va : va = target.modules[turn].pointers[asked.row]
    OBVIOUS
  <1>2. /\ pc = "pointer" /\ UNCHANGED <<target, asked, turn, images, pointers>>
        /\ \/ pc' = "failed" /\ unread' = (unread \/ va # 0) /\ UNCHANGED <<answers, diskSecs>>
           \/ /\ va # 0 /\ pc' = "resolved" /\ diskSecs' \in Method!Sections
              /\ answers' = {Method!Answer(asked.type, asked.row, va, diskSecs')} /\ unread' = unread
    BY <1>1 DEF Method!ReadPointer, Method!PointerAt
  <1>3. /\ MethodTrue /\ target \in MethodTargets /\ target.hint /\ answers = {}
        /\ asked.type \in Nat /\ asked.row \in Nat
        /\ turn = Method!FindCodeGenModuleForImage(Method!ImageNameOf(asked.type)) /\ turn # 0
        /\ asked.row \in 1..Len(target.modules[turn].pointers)
        /\ ~ unread => AllImages
    BY <1>2 DEF MethodInv, MethodTrue, MethodAll, AnswersTrue
  <1>4. /\ turn \in DOMAIN target.modules /\ Key[target.modules[turn].name] = Key[Method!ImageNameOf(asked.type)]
        /\ Key[Method!ImageNameOf(asked.type)] # ""
    BY <1>3, ModuleIs
  <1>5. asked.row \in DOMAIN target.modules[turn].pointers /\ va \in Nat
    <2>1. PICK s : s = target.modules[turn].pointers
      OBVIOUS
    <2>2. s \in Seq(Nat) /\ DOMAIN s = 1..Len(s)
      BY <1>3, <1>4, <2>1, MethodTargetFacts
    <2>3. asked.row \in DOMAIN s /\ va = s[asked.row]
      BY <1>1, <1>3, <2>1, <2>2
    <2>4. QED
      BY <2>1, <2>2, <2>3
  <1>6. CASE pc' = "failed" /\ unread' = (unread \/ va # 0) /\ UNCHANGED <<answers, diskSecs>>
    <2>1. MethodTrue'
      BY <1>2, <1>3, <1>6, TrueKept DEF MethodTrue
    <2>2. MethodAll'
      <3>1. SUFFICES ASSUME Method!Disjoint, ~ unread, va = 0,
                            NEW c \in Method!Code, c[1] = asked.type, c[2] = asked.row
                     PROVE  FALSE
        <4>1. Method!Disjoint /\ ~ unread' => ~ \E c \in Method!Code : c[1] = asked.type /\ c[2] = asked.row
          BY <1>6, <3>1
        <4>2. MethodMissed'
          BY <1>2, <4>1, SameTarget DEF MethodMissed
        <4>3. QED
          BY <1>6, <4>2 DEF MethodAll
      <3>2. PICK n \in DOMAIN target.modules :
              /\ Method!FindCodeGenModuleForImage(Method!ImageNameOf(c[1])) = n
              /\ c[3] # 0 /\ c[3] = target.modules[n].pointers[c[2]]
        BY <1>3, <3>1, CodeIsFound
      <3>3. n = turn
        BY <1>3, <3>1, <3>2
      <3>4. QED
        BY <1>1, <3>1, <3>2, <3>3
    <2>3. MethodLines'
      BY <1>6 DEF MethodLines
    <2>4. QED
      BY <2>1, <2>2, <2>3 DEF MethodInv
  <1>7. CASE /\ va # 0 /\ pc' = "resolved" /\ diskSecs' \in Method!Sections
             /\ answers' = {Method!Answer(asked.type, asked.row, va, diskSecs')} /\ unread' = unread
    <2>1. /\ DOMAIN diskSecs' \subseteq DOMAIN target.sections
          /\ \A k \in DOMAIN diskSecs' : diskSecs'[k] = target.sections[k]
      BY <1>3, <1>7, SectionsAre
    <2>2. <<asked.type, asked.row, va>> \in Method!Code
      BY <1>1, <1>3, <1>4, <1>5, <1>7, FoundIsCode
    <2>3. AnswerTrue(Method!Answer(asked.type, asked.row, va, diskSecs'))
      <3>1. PICK t, row, secs : t = asked.type /\ row = asked.row /\ secs = diskSecs'
        OBVIOUS
      <3>2. AnswerTrue(Method!Answer(t, row, va, secs))
        BY <1>3, <1>5, <2>1, <2>2, <3>1, AnswerIsTrue
      <3>3. QED
        BY <3>1, <3>2
    <2>4. MethodTrue'
      <3>1. ImagesTrue' /\ PointersTrue'
        BY <1>2, <1>3 DEF MethodTrue, ImagesTrue, PointersTrue
      <3>2. SectionsTrue'
        BY <1>2, <2>1 DEF SectionsTrue
      <3>3. \A a \in answers' : AnswerTrue(a)'
        BY <1>2, <1>7, <2>3, SameTarget
      <3>4. AnswersTrue'
        BY <1>7, <3>3 DEF AnswersTrue
      <3>5. QED
        BY <1>2, <1>3, <3>1, <3>2, <3>4 DEF MethodTrue
    <2>5. MethodAll' /\ MethodLines'
      BY <1>7 DEF MethodAll, MethodLines
    <2>6. QED
      BY <2>4, <2>5 DEF MethodInv
  <1>8. QED
    BY <1>2, <1>6, <1>7

LEMMA DumpStep == ASSUME MethodInv, Method!Dump PROVE MethodInv'
  <1>1. /\ pc = "idle" /\ target.hint /\ pc' = "module" /\ diskSecs' \in Method!Sections
        /\ images' = IF Len(target.images) \in 1..MaxImages
                       THEN [k \in {i \in DOMAIN target.images : Method!Usable(target.images[i])} |->
                               target.images[k]]
                       ELSE <<>>
        /\ UNCHANGED <<target, asked, turn, pointers, answers, unread>>
    BY DEF Method!Dump
  <1>2. target \in MethodTargets /\ turn = 1 /\ answers = {} /\ pointers = <<>> /\ DOMAIN asked = {"nothing"}
    BY <1>1 DEF MethodInv, MethodTrue, MethodAll, AnswersTrue
  <1>3. /\ DOMAIN images' = {i \in DOMAIN target.images : Method!Usable(target.images[i])}
        /\ \A k \in DOMAIN images' : images'[k] = target.images[k]
    <2>1. CASE Len(target.images) \in 1..MaxImages
      BY <1>1, <2>1
    <2>2. CASE Len(target.images) \notin 1..MaxImages
      <3>1. DOMAIN target.images = {}
        BY <1>2, <2>2, FewImages, MethodTargetFacts
      <3>2. DOMAIN images' = {}
        BY <1>1, <2>2
      <3>3. QED
        BY <3>1, <3>2
    <2>3. QED
      BY <2>1, <2>2
  <1>4. MethodTrue'
    <2>1. ImagesTrue'
      BY <1>1, <1>3 DEF ImagesTrue
    <2>2. SectionsTrue'
      <3>1. /\ DOMAIN diskSecs' \subseteq DOMAIN target.sections
            /\ \A k \in DOMAIN diskSecs' : diskSecs'[k] = target.sections[k]
        BY <1>1, <1>2, SectionsAre
      <3>2. QED
        BY <1>1, <3>1 DEF SectionsTrue
    <2>3. PointersTrue'
      BY <1>1 DEF MethodInv, MethodTrue, PointersTrue
    <2>4. AnswersTrue'
      BY <1>1, <1>2 DEF AnswersTrue
    <2>5. QED
      BY <1>1, <1>2, <2>1, <2>2, <2>3, <2>4 DEF MethodTrue
  <1>5. MethodAll'
    <2>1. AllImages'
      <3>1. \A k \in DOMAIN target.images : k < Len(target.images) + 1
        BY <1>2, MethodTargetFacts
      <3>2. QED
        BY <1>1, <1>3, <3>1 DEF AllImages, ImagesUpTo
    <2>2. PointersUpTo(turn)'
      <3>1. \A m \in DOMAIN target.modules : ~ (m < 1)
        BY <1>2, MethodTargetFacts
      <3>2. QED
        BY <1>1, <1>2, <3>1 DEF PointersUpTo
    <2>3. QED
      BY <1>1, <1>2, <2>1, <2>2 DEF MethodAll
  <1>6. MethodLines'
    BY <1>1 DEF MethodLines
  <1>7. QED
    BY <1>4, <1>5, <1>6 DEF MethodInv

LEMMA ModuleStep == ASSUME MethodInv, Method!ReadModule PROVE MethodInv'
  <1>1. PICK m, key : m = target.modules[turn] /\ key = Key[m.name]
    OBVIOUS
  <1> DEFINE wanted == key # "" /\ Len(m.pointers) \in 1..MaxPointers
  <1>2. /\ pc = "module" /\ turn <= Len(target.modules) /\ turn' = turn + 1
        /\ UNCHANGED <<target, pc, asked, images, diskSecs, answers>>
        /\ \/ pointers' = (IF wanted THEN Method!With(pointers, key, m.pointers) ELSE pointers) /\ unread' = unread
           \/ unread' = TRUE /\ pointers' = pointers
    BY <1>1 DEF Method!ReadModule
  <1>3. /\ target \in MethodTargets /\ turn \in Nat /\ turn >= 1 /\ answers = {} /\ AllImages
        /\ DOMAIN asked = {"nothing"} /\ (~ unread => PointersUpTo(turn))
    BY <1>2 DEF MethodInv, MethodTrue, MethodAll, AnswersTrue
  <1>4. turn \in DOMAIN target.modules /\ \A n \in DOMAIN target.modules : n \in Nat
    <2>1. PICK l \in Nat : l = Len(target.modules) /\ DOMAIN target.modules = 1..l
      BY <1>3, MethodTargetFacts
    <2>2. turn \in 1..l
      <3>1. turn <= l
        BY <1>2, <2>1
      <3>2. QED
        BY <1>3, <3>1
    <2>3. QED
      BY <2>1, <2>2
  <1>5. wanted \/ key = "" \/ ~ (Len(m.pointers) > 0)
    <2>1. Len(m.pointers) \in Nat
      BY <1>1, <1>3, <1>4, MethodTargetFacts
    <2>2. Len(m.pointers) <= MaxPointers /\ MaxPointers \in Nat
      BY <1>1, <1>3, <1>4, MethodAssumption
    <2>3. Len(m.pointers) > 0 => Len(m.pointers) \in 1..MaxPointers
      BY <2>1, <2>2
    <2>4. QED
      BY <2>3
  <1> HIDE DEF wanted
  <1>6. ASSUME pointers' = Method!With(pointers, key, m.pointers), unread' = unread
        PROVE  PointersTrue' /\ (~ unread' => PointersUpTo(turn)')
    <2>1. /\ DOMAIN pointers' = DOMAIN pointers \cup {key}
          /\ \A k \in DOMAIN pointers' : pointers'[k] = IF k = key THEN m.pointers ELSE pointers[k]
      BY <1>6 DEF Method!With
    <2>2. PointersTrue'
      <3>1. ASSUME NEW k \in DOMAIN pointers'
            PROVE  \E n \in DOMAIN target.modules :
                     Key[target.modules[n].name] = k /\ pointers'[k] = target.modules[n].pointers
        <4>1. CASE k = key
          BY <1>1, <1>4, <2>1, <4>1
        <4>2. CASE k # key
          BY <2>1, <4>2 DEF MethodInv, MethodTrue, PointersTrue
        <4>3. QED
          BY <4>1, <4>2
      <3>2. QED
        BY <1>2, <3>1 DEF PointersTrue
    <2>3. ASSUME ~ unread' PROVE PointersUpTo(turn)'
      <3>1. PointersUpTo(turn)
        BY <1>3, <1>6, <2>3
      <3>2. ASSUME NEW n \in DOMAIN target.modules, n < turn + 1, Key[target.modules[n].name] # "",
                   Len(target.modules[n].pointers) > 0
            PROVE  Key[target.modules[n].name] \in DOMAIN pointers'
        <4>1. n < turn \/ n = turn
          <5>1. n \in Nat /\ turn \in Nat /\ n < turn + 1
            BY <1>3, <1>4, <3>2
          <5>2. QED
            BY <5>1
        <4>2. CASE n < turn
          BY <2>1, <3>1, <3>2, <4>2 DEF PointersUpTo
        <4>3. CASE n = turn
          BY <1>1, <2>1, <4>3
        <4>4. QED
          BY <4>1, <4>2, <4>3
      <3>3. QED
        BY <1>2, <3>2 DEF PointersUpTo
    <2>4. QED
      BY <2>2, <2>3
  <1>7. ASSUME pointers' = pointers, unread' = TRUE \/ (~ wanted /\ unread' = unread)
        PROVE  PointersTrue' /\ (~ unread' => PointersUpTo(turn)')
    <2>1. PointersTrue'
      BY <1>2, <1>7 DEF MethodInv, MethodTrue, PointersTrue
    <2>2. ASSUME ~ unread' PROVE PointersUpTo(turn)'
      <3>1. PointersUpTo(turn) /\ ~ wanted
        BY <1>3, <1>7, <2>2
      <3>2. ASSUME NEW n \in DOMAIN target.modules, n < turn + 1, Key[target.modules[n].name] # "",
                   Len(target.modules[n].pointers) > 0
            PROVE  Key[target.modules[n].name] \in DOMAIN pointers
        <4>1. n < turn \/ n = turn
          <5>1. n \in Nat /\ turn \in Nat /\ n < turn + 1
            BY <1>3, <1>4, <3>2
          <5>2. QED
            BY <5>1
        <4>2. n # turn
          BY <1>1, <1>5, <3>1, <3>2
        <4>3. QED
          BY <3>1, <3>2, <4>1, <4>2 DEF PointersUpTo
      <3>3. QED
        BY <1>2, <1>7, <3>2 DEF PointersUpTo
    <2>3. QED
      BY <2>1, <2>2
  <1>8. PointersTrue' /\ (~ unread' => PointersUpTo(turn)')
    BY <1>2, <1>6, <1>7
  <1>9. MethodTrue'
    <2>1. ImagesTrue' /\ SectionsTrue'
      BY <1>2 DEF MethodInv, MethodTrue, ImagesTrue, SectionsTrue
    <2>2. AnswersTrue'
      BY <1>2, <1>3 DEF AnswersTrue
    <2>3. QED
      BY <1>2, <1>3, <1>8, <2>1, <2>2 DEF MethodTrue
  <1>10. MethodAll'
    <2>1. AllImages'
      BY <1>2, <1>3 DEF AllImages, ImagesUpTo
    <2>2. turn' >= 1
      BY <1>2, <1>3
    <2>3. QED
      BY <1>2, <1>3, <1>8, <2>1, <2>2 DEF MethodAll
  <1>11. MethodLines'
    BY <1>2 DEF MethodLines
  <1>12. QED
    BY <1>9, <1>10, <1>11 DEF MethodInv

LEMMA LayoutStep == ASSUME MethodInv, Method!DetectLayout PROVE MethodInv'
  <1>1. /\ pc = "module" /\ turn > Len(target.modules) /\ turn' = 1
        /\ pc' = IF Method!Possible(target, DumpSearch) = {} THEN "failed" ELSE "type"
        /\ UNCHANGED <<target, asked, images, pointers, diskSecs, answers, unread>>
    BY DEF Method!DetectLayout
  <1>2. /\ MethodTrue /\ target \in MethodTargets /\ turn \in Nat /\ answers = {} /\ AllImages
        /\ DOMAIN asked = {"nothing"} /\ (~ unread => PointersUpTo(turn))
    BY <1>1 DEF MethodInv, MethodTrue, MethodAll, AnswersTrue
  <1>3. MethodTrue'
    BY <1>1, <1>2, TrueKept
  <1>4. MethodAll'
    <2>1. MethodMissed'
      BY <1>1, <1>2 DEF MethodMissed
    <2>2. AllImages'
      BY <1>1, <1>2 DEF AllImages, ImagesUpTo
    <2>3. ~ unread' => AllPointers'
      <3>1. \A m \in DOMAIN target.modules : m < turn
        BY <1>1, <1>2, MethodTargetFacts
      <3>2. QED
        BY <1>1, <1>2, <3>1 DEF AllPointers, PointersUpTo
    <2>4. QED
      BY <1>1, <2>1, <2>2, <2>3 DEF MethodAll
  <1>5. MethodLines'
    <2>1. CASE pc' = "type"
      <3>1. (Method!Possible(target, DumpSearch) # {})'
        BY <1>1, <2>1 DEF Method!Possible
      <3>2. \A t \in 0..(Len(target.types) - 1) : ~ (t + 1 < 1)
        BY <1>2, MethodTargetFacts
      <3>3. QED
        BY <1>1, <1>2, <2>1, <3>1, <3>2 DEF MethodLines
    <2>2. CASE pc' = "failed"
      BY <2>2 DEF MethodLines
    <2>3. QED
      BY <1>1, <2>1, <2>2
  <1>6. QED
    BY <1>3, <1>4, <1>5 DEF MethodInv

LEMMA TypeStep == ASSUME MethodInv, Method!WriteMethods PROVE MethodInv'
  <1>1. /\ pc = "type" /\ turn <= Len(target.types) /\ turn' = turn + 1
        /\ answers' = answers \cup {Method!Line(turn - 1, m) : m \in Method!MethodsOf(turn - 1)}
        /\ UNCHANGED <<target, pc, asked, images, pointers, diskSecs, unread>>
    BY DEF Method!WriteMethods
  <1>2. /\ MethodTrue /\ target \in MethodTargets /\ turn \in Nat /\ turn >= 1 /\ AllImages
        /\ (~ unread => AllPointers) /\ Method!Possible(target, DumpSearch) # {}
        /\ \A a \in answers : AnswerTrue(a)
    BY <1>1 DEF MethodInv, MethodTrue, MethodAll, MethodLines, AnswersTrue
  <1>3. turn - 1 \in 0..(Len(target.types) - 1)
    BY <1>1, <1>2, MethodTargetFacts
  <1>4. MethodTrue'
    <2>1. \A m \in Method!MethodsOf(turn - 1) : AnswerTrue(Method!Line(turn - 1, m))
      BY <1>2, <1>3, LineIsTrue
    <2>2. \A a \in answers' : AnswerTrue(a)
      BY <1>1, <1>2, <2>1
    <2>3. QED
      BY <1>1, <1>2, <2>2, TrueKept
  <1>5. MethodAll'
    <2>1. AllImages' /\ (~ unread' => AllPointers')
      BY <1>1, <1>2 DEF AllImages, AllPointers, ImagesUpTo, PointersUpTo
    <2>2. QED
      BY <1>1, <2>1 DEF MethodAll
  <1>6. MethodLines'
    <2>1. \A t : Method!MethodsOf(t)' = Method!MethodsOf(t)
      BY <1>1, SameTarget
    <2>2. \A t, m : Method!Line(t, m)' = Method!Line(t, m)
      BY <1>1, SameLines
    <2>3. (Method!Possible(target, DumpSearch) # {})'
      BY <1>1, <1>2 DEF Method!Possible
    <2>4. \A a \in answers' : \E t \in 0..(Len(target.types) - 1) : \E m \in Method!MethodsOf(t) : a = Method!Line(t, m)
      BY <1>1, <1>3 DEF MethodInv, MethodLines
    <2>5. ASSUME NEW t \in 0..(Len(target.types) - 1), t + 1 < turn + 1, NEW m \in Method!MethodsOf(t)
          PROVE  Method!Line(t, m) \in answers'
      <3>1. t + 1 < turn \/ t = turn - 1
        BY <1>2, <2>5, MethodTargetFacts
      <3>2. CASE t + 1 < turn
        BY <1>1, <3>2 DEF MethodInv, MethodLines
      <3>3. CASE t = turn - 1
        BY <1>1, <3>3
      <3>4. QED
        BY <3>1, <3>2, <3>3
    <2>6. turn' >= 1
      BY <1>1, <1>2
    <2>7. QED
      BY <1>1, <2>1, <2>2, <2>3, <2>4, <2>5, <2>6 DEF MethodLines
  <1>7. QED
    BY <1>4, <1>5, <1>6 DEF MethodInv

LEMMA WrittenStep == ASSUME MethodInv, Method!Written PROVE MethodInv'
  <1>1. /\ pc = "type" /\ turn > Len(target.types) /\ pc' = "written"
        /\ UNCHANGED <<target, asked, turn, images, pointers, diskSecs, answers, unread>>
    BY DEF Method!Written
  <1>2. /\ MethodTrue /\ target \in MethodTargets /\ turn \in Nat /\ AllImages
        /\ (~ unread => AllPointers) /\ Method!Possible(target, DumpSearch) # {}
        /\ \A a \in answers : AnswerTrue(a)
    BY <1>1 DEF MethodInv, MethodTrue, MethodAll, MethodLines, AnswersTrue
  <1>3. MethodTrue'
    BY <1>1, <1>2, TrueKept
  <1>4. MethodAll'
    <2>1. AllImages' /\ (~ unread' => AllPointers')
      BY <1>1, <1>2 DEF AllImages, AllPointers, ImagesUpTo, PointersUpTo
    <2>2. QED
      BY <1>1, <2>1 DEF MethodAll
  <1>5. MethodLines'
    <2>1. \A t : Method!MethodsOf(t)' = Method!MethodsOf(t)
      BY <1>1, SameTarget
    <2>2. \A t, m : Method!Line(t, m)' = Method!Line(t, m)
      BY <1>1, SameLines
    <2>3. (Method!Possible(target, DumpSearch) # {})'
      BY <1>1, <1>2 DEF Method!Possible
    <2>4. \A a \in answers : \E t \in 0..(Len(target.types) - 1) : \E m \in Method!MethodsOf(t) : a = Method!Line(t, m)
      BY <1>1 DEF MethodInv, MethodLines
    <2>5. \A t \in 0..(Len(target.types) - 1) : t + 1 < turn
      BY <1>1, <1>2, MethodTargetFacts
    <2>6. \A t \in 0..(Len(target.types) - 1) : \A m \in Method!MethodsOf(t) : Method!Line(t, m) \in answers
      BY <1>1, <2>5 DEF MethodInv, MethodLines
    <2>7. QED
      BY <1>1, <2>1, <2>2, <2>3, <2>4, <2>6 DEF MethodLines
  <1>6. QED
    BY <1>3, <1>4, <1>5 DEF MethodInv

LEMMA ViewStep == ASSUME MethodInv, NEW m \in Indices, Method!View(m) PROVE MethodInv'
  <1> DEFINE layout == Method!Detected(target, ViewSearch)
             view == [type |-> Method!TypeOf(target, layout, m), row |-> Method!RowOf(target, layout, m)]
  <1>1. /\ pc = "idle" /\ asked' = [method |-> m]
        /\ UNCHANGED <<target, turn, images, pointers, diskSecs, unread>>
        /\ \/ pc' = "viewed" /\ answers' = {view} /\ Method!Possible(target, ViewSearch) # {}
           \/ pc' = "failed" /\ UNCHANGED answers
    BY DEF Method!View
  <1>2. asked'.method = m /\ "row" \notin DOMAIN asked'
    BY <1>1
  <1>3. MethodTrue /\ answers = {}
    BY <1>1 DEF MethodInv, MethodTrue, AnswersTrue
  <1>4. MethodTrue'
    BY <1>1, <1>3, TrueKept DEF MethodTrue
  <1>5. MethodAll'
    <2>1. MethodMissed'
      BY <1>2 DEF MethodMissed
    <2>2. QED
      BY <1>1, <2>1 DEF MethodAll
  <1>6. MethodLines'
    <2>1. CASE pc' = "viewed" /\ answers' = {view} /\ Method!Possible(target, ViewSearch) # {}
      <3>1. \A l, k : Method!TypeOf(target, l, k)' = Method!TypeOf(target, l, k)
                      /\ Method!RowOf(target, l, k)' = Method!RowOf(target, l, k)
        BY <1>1 DEF Method!TypeOf, Method!RowOf
      <3>2. Method!Detected(target, ViewSearch)' = Method!Detected(target, ViewSearch)
        BY <1>1 DEF Method!Detected, Method!BestPossible, Method!Possible
      <3>3. (Method!Possible(target, ViewSearch) # {})'
        BY <1>1, <2>1 DEF Method!Possible
      <3>4. QED
        BY <1>1, <1>2, <2>1, <3>2, <3>3 DEF MethodLines
    <2>2. CASE pc' = "failed"
      BY <2>2 DEF MethodLines
    <2>3. QED
      BY <1>1, <2>1, <2>2
  <1>7. QED
    BY <1>4, <1>5, <1>6 DEF MethodInv

LEMMA MethodStep == ASSUME MethodInv, Method!Next PROVE MethodInv'
  <1>1. ASSUME NEW t \in 0..Len(target.types), NEW row \in Rows, Method!Resolve(t, row) PROVE MethodInv'
    BY <1>1, ResolveStep
  <1>2. ASSUME NEW m \in Indices, Method!View(m) PROVE MethodInv'
    BY <1>2, ViewStep
  <1>3. QED
    BY <1>1, <1>2, HeaderStep, ImageStep, FindStep, PointerStep, DumpStep, ModuleStep, LayoutStep, TypeStep,
       WrittenStep DEF Method!Next

LEMMA MethodIdles == ASSUME MethodInv, UNCHANGED <<target, methodVars, pc>> PROVE MethodInv'
  <1>1. UNCHANGED <<target, asked, turn, images, pointers, diskSecs, answers, unread, pc>>
    BY DEF methodVars
  <1>2. MethodTrue'
    BY <1>1, TrueKept DEF MethodInv, MethodTrue, AnswersTrue
  <1>3. MethodMissed' <=> MethodMissed
    BY <1>1, SameTarget DEF MethodMissed
  <1>4. MethodAll'
    <2>1. \A n : (ImagesUpTo(n)' <=> ImagesUpTo(n)) /\ (PointersUpTo(n)' <=> PointersUpTo(n))
      BY <1>1, SameLines
    <2>2. (Method!FindCodeGenModuleForImage(Method!ImageNameOf(asked.type)))'
            = Method!FindCodeGenModuleForImage(Method!ImageNameOf(asked.type))
      BY <1>1 DEF Method!FindCodeGenModuleForImage, Method!ImageNameOf
    <2>3. ImagesUpTo(turn)' <=> ImagesUpTo(turn)
      BY <1>1 DEF ImagesUpTo
    <2>4. PointersUpTo(turn)' <=> PointersUpTo(turn)
      BY <1>1 DEF PointersUpTo
    <2>5. (AllImages' <=> AllImages) /\ (AllPointers' <=> AllPointers)
      BY <1>1 DEF AllImages, AllPointers, ImagesUpTo, PointersUpTo
    <2>6. QED
      BY <1>1, <1>3, <2>2, <2>3, <2>4, <2>5 DEF MethodInv, MethodAll
  <1>5. MethodLines'
    <2>1. \A t : Method!MethodsOf(t)' = Method!MethodsOf(t)
      BY <1>1, SameTarget
    <2>2. \A t, m : Method!Line(t, m)' = Method!Line(t, m)
      BY <1>1, SameLines
    <2>3. \A s : Method!Possible(target, s)' = Method!Possible(target, s)
                 /\ Method!Detected(target, s)' = Method!Detected(target, s)
      BY <1>1 DEF Method!Possible, Method!Detected
    <2>4. \A l, k : Method!TypeOf(target, l, k)' = Method!TypeOf(target, l, k)
                    /\ Method!RowOf(target, l, k)' = Method!RowOf(target, l, k)
      BY <1>1 DEF Method!TypeOf, Method!RowOf
    <2>5. QED
      BY <1>1, <2>1, <2>2, <2>3, <2>4 DEF MethodInv, MethodLines
  <1>6. QED
    BY <1>2, <1>4, <1>5 DEF MethodInv

(***************************************************************************)
(* What follows from the invariant.                                        *)
(***************************************************************************)
LEMMA CodeIsTriple == \A c \in Method!Code : c = <<c[1], c[2], c[3]>>
  <1> DEFINE named == {image \in Method!Range(target.images) : Method!Usable(image) /\ image.name # ""}
             pairs == {x \in named \X Method!Range(target.modules) : Key[x[1].name] = Key[x[2].name]}
             of(image, m) == {<<t, row, m.pointers[row]>> : t \in Method!TypesOf(image), row \in DOMAIN m.pointers}
  <1>1. Method!Code = {c \in UNION {of(x[1], x[2]) : x \in pairs} : c[3] # 0}
    BY DEF Method!Code
  <1>2. \A i, m : \A c \in of(i, m) : c = <<c[1], c[2], c[3]>>
    OBVIOUS
  <1> HIDE DEF of, pairs
  <1>3. QED
    BY <1>1, <1>2

\* A record behind which the metadata goes on is there with those before it.
LEMMA RecordsBefore ==
  ASSUME target \in MethodTargets, NEW layout \in LayoutType, NEW m \in Nat, Method!Holds(target, layout, m),
         NEW k \in Nat, k <= m
  PROVE  Method!Holds(target, layout, k)
  <1>1. PICK s \in Nat : s = layout.stride
    BY DEF LayoutType
  <1>2. (m + 1) * s <= Len(target.words) /\ Len(target.words) \in Nat
    BY <1>1, MethodTargetFacts DEF Method!Holds
  <1>3. \A x, y, z \in Nat : x <= y => x * z <= y * z
    OBVIOUS
  <1>4. k + 1 \in Nat /\ m + 1 \in Nat /\ k + 1 <= m + 1
    OBVIOUS
  <1>5. (k + 1) * s <= (m + 1) * s
    BY <1>3, <1>4
  <1>6. (k + 1) * s \in Nat /\ (m + 1) * s \in Nat
    OBVIOUS
  <1>7. (k + 1) * s <= Len(target.words)
    BY <1>2, <1>5, <1>6
  <1>8. QED
    BY <1>1, <1>7 DEF Method!Holds

\* In dump.cs a method that has code has its address.
LEMMA CodeIsWritten ==
  ASSUME LayoutsTold, MethodInv, Method!Disjoint, ~ unread, pc = "written",
         target.layout \in Method!Range(DumpSearch.layouts),
         NEW c \in Method!Code, c[2] \in Method!RowsOf(c[1])
  PROVE  \E a \in answers : <<a.type, a.row, a.va>> = c
  <1>1. /\ MethodTrue /\ target \in MethodTargets /\ AllImages /\ AllPointers /\ PointersTrue
        /\ Method!Possible(target, DumpSearch) # {}
    BY DEF MethodInv, MethodTrue, MethodAll, MethodLines
  <1>2. PICK layout : layout = target.layout /\ layout = Method!Detected(target, DumpSearch) /\ layout \in LayoutType
    BY <1>1, DetectedIsTrue, DetectedIsLayout DEF Method!Range
  <1>3. PICK k \in DOMAIN target.images, n \in DOMAIN target.modules :
          /\ Method!Usable(target.images[k]) /\ c[1] \in Method!Covered(target.images[k])
          /\ Method!ImageNameOf(c[1]) = target.images[k].name
          /\ Key[target.images[k].name] # "" /\ Key[target.modules[n].name] = Key[target.images[k].name]
          /\ \A l \in DOMAIN target.modules : Key[target.modules[l].name] = Key[target.modules[n].name] => l = n
          /\ c[2] \in DOMAIN target.modules[n].pointers /\ c[3] = target.modules[n].pointers[c[2]]
    BY <1>1, CodeIsFound
  <1>4. c[1] \in 0..(Len(target.types) - 1)
    <2>1. /\ target.images[k].start \in Int /\ target.images[k].count \in Int /\ Len(target.types) \in Nat
      BY <1>1, MethodTargetFacts
    <2>2. Method!End(target.images[k]) <= Len(target.types)
      BY <1>1, <1>3, MethodAssumption
    <2>3. PICK i, j \in Int : i = target.images[k].start /\ j = target.images[k].count
      BY <2>1
    <2>4. Method!End(target.images[k]) = i + j /\ i >= 0
      BY <1>3, <2>3 DEF Method!End, Method!Usable
    <2>5. c[1] \in i..(i + j - 1)
      <3>1. Method!Covered(target.images[k]) = i..(i + j - 1)
        BY <2>3, <2>4 DEF Method!Covered
      <3>2. QED
        BY <1>3, <3>1, Zenon
    <2>6. PICK t \in Nat : t = Len(target.types) /\ i + j <= t
      BY <2>1, <2>2, <2>4
    <2>7. c[1] \in 0..(t - 1)
      BY <2>4, <2>5, <2>6
    <2>8. QED
      BY <2>6, <2>7
  <1>5. Method!PointerOf(c[1], c[2]) = c[3]
    <2>1. PICK key : key = Key[Method!ImageNameOf(c[1])]
      OBVIOUS
    <2>2. PICK s : s = target.modules[n].pointers
      OBVIOUS
    <2>3. Len(s) \in Nat /\ DOMAIN s = 1..Len(s) /\ DOMAIN target.modules = 1..Len(target.modules)
          /\ Len(target.modules) \in Nat
      BY <1>1, <2>2, MethodTargetFacts
    <2>4. c[2] \in 1..Len(s) /\ c[3] = s[c[2]] /\ Len(s) > 0
      <3>1. PICK row : row = c[2]
        OBVIOUS
      <3>2. row \in 1..Len(s) /\ c[3] = s[row]
        BY <1>3, <2>2, <2>3, <3>1
      <3>3. Len(s) > 0
        BY <2>3, <3>2
      <3>4. QED
        BY <3>1, <3>2, <3>3
    <2>5. key \in DOMAIN pointers
      <3>1. n < Len(target.modules) + 1
        BY <2>3
      <3>2. QED
        BY <1>1, <1>3, <2>1, <2>2, <2>4, <3>1 DEF AllPointers, PointersUpTo
    <2>6. pointers[key] = s
      <3>1. PICK l \in DOMAIN target.modules :
              Key[target.modules[l].name] = key /\ pointers[key] = target.modules[l].pointers
        BY <1>1, <2>5 DEF PointersTrue
      <3>2. l = n
        BY <1>3, <2>1, <3>1
      <3>3. QED
        BY <2>2, <3>1, <3>2
    <2>7. c[2] # 0 /\ c[2] <= Len(s)
      BY <2>3, <2>4
    <2>8. QED
      BY <1>3, <2>1, <2>4, <2>5, <2>6, <2>7 DEF Method!PointerOf
  <1>6. PICK start, count : start = target.types[c[1] + 1].first /\ count = target.types[c[1] + 1].count
    OBVIOUS
  <1>7. start \in Nat /\ count \in Nat
    <2>1. c[1] + 1 \in DOMAIN target.types
      BY <1>1, <1>4, MethodTargetFacts
    <2>2. QED
      BY <1>1, <1>6, <2>1, MethodTargetFacts
  <1>8. PICK m \in start..(start + count - 1) :
          Method!Holds(target, layout, m) /\ c[2] = Method!RowOf(target, layout, m)
    BY <1>2, <1>6 DEF Method!RowsOf
  <1>9. m \in Method!MethodsOf(c[1])
    <2>1. \A l \in start..m : Method!Holds(target, layout, l)
      <3>1. ASSUME NEW l \in start..m PROVE Method!Holds(target, layout, l)
        <4>1. m \in Nat /\ l \in Nat /\ l <= m
          BY <1>7
        <4>2. QED
          BY <1>1, <1>2, <1>8, <4>1, RecordsBefore
      <3>2. QED
        BY <3>1
    <2>2. QED
      BY <1>2, <1>6, <2>1 DEF Method!MethodsOf
  <1>10. PICK a : a = Method!Line(c[1], m)
    OBVIOUS
  <1>11. a \in answers
    BY <1>4, <1>9, <1>10 DEF MethodInv, MethodLines
  <1>12. a = Method!Answer(c[1], c[2], c[3], diskSecs)
    BY <1>2, <1>5, <1>8, <1>10 DEF Method!Line
  <1>13. a.type = c[1] /\ a.row = c[2] /\ a.va = c[3]
    BY <1>12 DEF Method!Answer
  <1>14. QED
    BY <1>11, <1>13, CodeIsTriple

LEMMA AddressIsTrue == MethodInv => Method!AddressIsOfMethod
  <1>1. MethodInv => (pc \in {"resolved", "written"} => \A a \in answers : AnswerTrue(a))
    BY DEF MethodInv, MethodTrue, AnswersTrue
  <1>2. QED
    BY <1>1 DEF Method!AddressIsOfMethod, AnswerTrue

LEMMA AddressesFollow ==
  ASSUME LayoutsTold, MethodInv
  PROVE  Method!AddressIsOfMethod /\ Method!AddressesAreAll /\ Method!MethodIsOfType
  <1>1. MethodTrue /\ target \in MethodTargets
    BY DEF MethodInv, MethodTrue
  <1>2. Method!AddressIsOfMethod
    BY AddressIsTrue
  <1>3. Method!AddressesAreAll
    <2>1. pc = "failed" => MethodMissed
      BY DEF MethodInv, MethodAll
    <2>2. QED
      BY <2>1, CodeIsWritten DEF Method!AddressesAreAll, MethodMissed
  <1>4. ASSUME pc = "written", target.layout \in Method!Range(DumpSearch.layouts), NEW a \in answers
        PROVE  a.row \in Method!RowsOf(a.type)
    <2>1. Method!Possible(target, DumpSearch) # {}
      BY <1>4 DEF MethodInv, MethodLines
    <2>2. PICK t \in 0..(Len(target.types) - 1) : \E m \in Method!MethodsOf(t) : a = Method!Line(t, m)
      BY <1>4 DEF MethodInv, MethodLines
    <2>3. PICK m \in Method!MethodsOf(t) : a = Method!Line(t, m)
      BY <2>2
    <2>4. Method!Detected(target, DumpSearch) = target.layout
      BY <1>1, <1>4, <2>1, DetectedIsTrue DEF Method!Range
    <2>5. a.type = t /\ a.row = Method!RowOf(target, target.layout, m)
      BY <2>3, <2>4 DEF Method!Line, Method!Answer
    <2>6. /\ m \in target.types[t + 1].first..(target.types[t + 1].first + target.types[t + 1].count - 1)
          /\ Method!Holds(target, target.layout, m)
      BY <1>1, <2>1, <2>4, MethodIs
    <2>7. QED
      BY <2>5, <2>6 DEF Method!RowsOf
  <1>5. ASSUME pc = "viewed", target.layout \in Method!Range(ViewSearch.layouts)
        PROVE  answers = {[type |-> Method!TypeOf(target, target.layout, asked.method),
                           row |-> Method!RowOf(target, target.layout, asked.method)]}
    <2>1. /\ Method!Possible(target, ViewSearch) # {}
          /\ answers = {[type |-> Method!TypeOf(target, Method!Detected(target, ViewSearch), asked.method),
                         row |-> Method!RowOf(target, Method!Detected(target, ViewSearch), asked.method)]}
      BY <1>5 DEF MethodInv, MethodLines
    <2>2. Method!Detected(target, ViewSearch) = target.layout
      BY <1>1, <1>5, <2>1, DetectedIsTrue DEF Method!Range
    <2>3. QED
      BY <2>1, <2>2
  <1>6. QED
    BY <1>2, <1>3, <1>4, <1>5 DEF Method!MethodIsOfType

LEMMA MethodAlways == AllSpec => [](world = "method" => MethodInv)
  <1> DEFINE J == world = "method" => MethodInv
  <1>1. AllInit => J
    BY MethodStart DEF AllInit, ProgressInit, PipelineInit, HintInit, HostInit, MethodInit
  <1>2. J /\ [AllNext]_allVars => J'
    <2>1. SUFFICES ASSUME J, [AllNext]_allVars, world' = "method" PROVE MethodInv'
      OBVIOUS
    <2>2. world' = world
      BY <2>1 DEF AllNext, ProgressNext, PipelineNext, HintNext, HostNext, MethodNext, allVars
    <2>3. MethodInv
      BY <2>1, <2>2
    <2>4. MethodNext \/ UNCHANGED <<target, methodVars, pc>>
      BY <2>1, <2>2 DEF AllNext, ProgressNext, PipelineNext, HintNext, HostNext, allVars
    <2>5. QED
      BY <2>3, <2>4, MethodStep, MethodIdles DEF MethodNext
  <1>3. QED
    BY <1>1, <1>2, PTL DEF AllSpec

(***************************************************************************)
(* For any images, types, modules, pointers, sections and tables of        *)
(* methods, whichever reads fail and whatever layout is taken: an address  *)
(* that is returned, or written in dump.cs, is that of a method of that    *)
(* type and row, and its offset is where the file has it.                  *)
(***************************************************************************)
THEOREM AddressIsOwn == AllSpec => [](world = "method" => Method!AddressIsOfMethod)
  <1>1. (world = "method" => MethodInv) => (world = "method" => Method!AddressIsOfMethod)
    BY AddressIsTrue
  <1>2. QED
    BY <1>1, MethodAlways, PTL

(***************************************************************************)
(* And if a table looks like its own layout more than like another: its    *)
(* records are taken for what they are, and where no read failed every     *)
(* method that has code gets its address.                                  *)
(***************************************************************************)
THEOREM AddressesAreTold == LayoutsTold => (AllSpec => []AddressesAreRight)
  <1> SUFFICES ASSUME LayoutsTold PROVE AllSpec => []AddressesAreRight
    OBVIOUS
  <1>1. (world = "method" => MethodInv) => AddressesAreRight
    BY AddressesFollow DEF AddressesAreRight
  <1>2. QED
    BY <1>1, MethodAlways, PTL
=============================================================================
