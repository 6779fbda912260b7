---------------------------- MODULE Context_proofs ----------------------------
(***************************************************************************)
(* Theorems about Context for any process ids, any process instances and   *)
(* any module addresses, and about FieldOffsets, in its world of           *)
(* MCContext, for any metadata.                                            *)
(***************************************************************************)
EXTENDS MCContext, FiniteSetTheorems, SequenceTheorems, TLAPS

LEMMA ConstantTypes ==
  /\ Cleared \in Contexts
  /\ NotLoaded \in Caches
  /\ NoReturn \in Returns
  /\ 0 \notin Pids
  BY ProcessAssumption DEF Cleared, Contexts, NotLoaded, Caches, NoReturn, Returns, Sources

LEMMA AnswerType ==
  ASSUME NEW call \in {"InitSettings", "AutoInit", "InitBase", "ResetContext",
                       "SetContextBackend", "TypeInfo", "FieldOffsets"},
         NEW value \in BOOLEAN, Answers(call, value)
  PROVE  ret' \in Returns /\ pc' \in Steps /\ pids' \in SUBSET Pids /\ ga' \in Sources
  BY DEF Answers, Returns, Steps, Sources

LEMMA ContinueType ==
  ASSUME TypeOK, NEW next \in Steps, Continues(next)
  PROVE  ret' \in Returns /\ pc' \in Steps
  BY DEF TypeOK, Continues

LEMMA NextPidType ==
  ASSUME TypeOK, NEW p, NextPid(p)
  PROVE  ret' \in Returns /\ pc' \in Steps /\ pids' \in SUBSET Pids /\ ga' \in Sources
  BY DEF TypeOK, NextPid, Continues, Steps, Sources

LEMMA HostType ==
  ASSUME TypeOK, NEW p \in Pids
  PROVE  Opened(p) \subseteq Sources /\ \A m : Snapshot(p, m) \subseteq Sources
  BY DEF TypeOK, OsTypeOK, Opened, Snapshot, Sources

LEMMA AttachType ==
  ASSUME TypeOK, NEW p \in Pids, NEW runtime \in {"Mono", "Il2Cpp"}, NEW h \in Sources,
         Attach(p, runtime, h)
  PROVE  ctx' \in Contexts /\ handle' \in Sources
  BY ConstantTypes DEF Attach, Cleared, Contexts, Sources

LEMMA ResetType == ASSUME ResetContext PROVE ctx' \in Contexts /\ handle' \in Sources
  BY ConstantTypes DEF ResetContext, Sources

\* The pid the context holds is one when it is asked about.
PidHeld == pc \in {"settings", "player", "names", "table", "build"} => handle # None /\ ctx.pid # 0

Typed == TypeOK /\ PidHeld

LEMMA TypeInit == Init => Typed
  <1> SUFFICES ASSUME Init PROVE Typed
    OBVIOUS
  <1>1. OsTypeOK
    BY DEF Init, OsInit, OsTypeOK
  <1>2. QED
    BY <1>1, ConstantTypes DEF Init, Typed, TypeOK, PidHeld, Steps, Sources

LEMMA TypeInitStep == ASSUME Typed, InitStep PROVE Typed'
  <1> USE DEF Typed
  <1>1. CASE InitSettings
    <2>1. PICK p \in Pids, runtime \in {"Mono", "Il2Cpp"}, h \in Sources :
            /\ Attach(p, runtime, h)
            /\ \/ h = None /\ Answers("InitSettings", FALSE)
               \/ h # None /\ Continues("settings") /\ UNCHANGED <<pids, ga>>
      BY <1>1 DEF InitSettings
    <2>2. ctx' \in Contexts /\ handle' \in Sources
      BY <2>1, AttachType
    <2>3. /\ ret' \in Returns /\ pc' \in Steps
          /\ pids' \in SUBSET Pids /\ ga' \in Sources
      <3>1. CASE Answers("InitSettings", FALSE)
        BY <3>1, AnswerType
      <3>2. CASE Continues("settings") /\ UNCHANGED <<pids, ga>>
        BY <3>2, ContinueType DEF TypeOK, Steps
      <3>3. QED
        BY <2>1, <3>1, <3>2
    <2>4. PidHeld'
      <3>1. CASE h = None
        BY <2>1, <3>1 DEF PidHeld, Answers
      <3>2. CASE h # None
        BY <2>1, <3>2, ConstantTypes DEF PidHeld, Attach, Cleared
      <3>3. QED
        BY <3>1, <3>2
    <2>5. QED
      BY <1>1, <2>2, <2>3, <2>4 DEF InitSettings, Idle, TypeOK, OsTypeOK, osVars
  <1>2. CASE SettingsUnityPlayer
    <2>1. ctx.pid \in Pids
      BY <1>2 DEF SettingsUnityPlayer, TypeOK, PidHeld, Contexts
    <2>2. PICK m \in Sources :
            \/ ResetContext /\ Answers("InitSettings", FALSE)
            \/ /\ ctx' = [ctx EXCEPT !.unityPlayer = m]
               /\ UNCHANGED handle
               /\ Answers("InitSettings", TRUE)
      BY <1>2, <2>1, HostType DEF SettingsUnityPlayer
    <2>3. ctx' \in Contexts /\ handle' \in Sources
      BY <2>2, ResetType DEF TypeOK, Contexts
    <2>4. \E value \in BOOLEAN : Answers("InitSettings", value)
      BY <2>2
    <2>5. /\ ret' \in Returns /\ pc' \in Steps
          /\ pids' \in SUBSET Pids /\ ga' \in Sources
      BY <2>4, AnswerType
    <2>6. PidHeld'
      BY <2>4 DEF PidHeld, Answers
    <2>7. QED
      BY <1>2, <2>3, <2>5, <2>6 DEF SettingsUnityPlayer, TypeOK, OsTypeOK, osVars
  <1>3. CASE InitBase
    <2>1. ctx' \in Contexts
      BY <1>3 DEF InitBase, TypeOK, Contexts
    <2>2. \E value \in BOOLEAN : Answers("InitBase", value)
      BY <1>3 DEF InitBase
    <2>3. /\ ret' \in Returns /\ pc' \in Steps
          /\ pids' \in SUBSET Pids /\ ga' \in Sources
      BY <2>2, AnswerType
    <2>4. PidHeld'
      BY <2>2 DEF PidHeld, Answers
    <2>5. QED
      BY <1>3, <2>1, <2>3, <2>4 DEF InitBase, Idle, TypeOK, OsTypeOK, osVars
  <1>4. CASE Reset
    <2>1. /\ ret' \in Returns /\ pc' \in Steps
          /\ pids' \in SUBSET Pids /\ ga' \in Sources
      BY <1>4, AnswerType DEF Reset
    <2>2. QED
      BY <1>4, <2>1, ResetType DEF Reset, Idle, Answers, PidHeld, TypeOK, OsTypeOK, osVars
  <1>5. CASE SetContextBackend
    <2>1. ctx' \in Contexts /\ handle' \in Sources
      BY <1>5, ConstantTypes DEF SetContextBackend, Cleared, Contexts, Sources
    <2>2. /\ ret' \in Returns /\ pc' \in Steps
          /\ pids' \in SUBSET Pids /\ ga' \in Sources
      BY <1>5, AnswerType DEF SetContextBackend
    <2>3. QED
      BY <1>5, <2>1, <2>2
         DEF SetContextBackend, Idle, Answers, PidHeld, TypeOK, OsTypeOK, osVars
  <1>6. QED
    BY <1>1, <1>2, <1>3, <1>4, <1>5 DEF InitStep

LEMMA TypeAutoStep == ASSUME Typed, AutoStep PROVE Typed'
  <1> USE DEF Typed
  <1>1. CASE AutoInit
    <2>1. PICK found \in SUBSET Pids :
            \/ Answers("AutoInit", FALSE)
            \/ pids' = found /\ Continues("pid") /\ UNCHANGED ga
      BY <1>1 DEF AutoInit
    <2>2. /\ ret' \in Returns /\ pc' \in Steps
          /\ pids' \in SUBSET Pids /\ ga' \in Sources
      BY <2>1, AnswerType, ContinueType DEF TypeOK, Steps
    <2>3. PidHeld'
      BY <2>1 DEF PidHeld, Answers, Continues
    <2>4. QED
      BY <1>1, <2>2, <2>3 DEF AutoInit, Idle, TypeOK, OsTypeOK, osVars
  <1>2. CASE AskUnityPlayer
    <2>1. PICK p \in Pids :
            \/ NextPid(p)
            \/ Continues("assembly") /\ UNCHANGED <<pids, ga>>
      BY <1>2 DEF AskUnityPlayer
    <2>2. /\ ret' \in Returns /\ pc' \in Steps
          /\ pids' \in SUBSET Pids /\ ga' \in Sources
      BY <2>1, NextPidType, ContinueType DEF TypeOK, Steps
    <2>3. PidHeld'
      BY <2>1 DEF PidHeld, NextPid, Continues
    <2>4. QED
      BY <1>2, <2>2, <2>3 DEF AskUnityPlayer, TypeOK, OsTypeOK, osVars
  <1>3. CASE AskGameAssembly
    <2>1. ga' \in Sources
      BY <1>3, HostType DEF AskGameAssembly
    <2>2. QED
      BY <1>3, <2>1, ContinueType
         DEF AskGameAssembly, Continues, PidHeld, Steps, TypeOK, OsTypeOK, osVars
  <1>4. CASE AutoAttach
    <2>1. PICK p \in Pids, runtime \in {"Mono", "Il2Cpp"}, h \in Sources :
            /\ Attach(p, runtime, h)
            /\ \/ h = None /\ NextPid(p)
               \/ h # None /\ Continues("player") /\ UNCHANGED <<pids, ga>>
      BY <1>4, HostType DEF AutoAttach
    <2>2. ctx' \in Contexts /\ handle' \in Sources
      BY <2>1, AttachType
    <2>3. /\ ret' \in Returns /\ pc' \in Steps
          /\ pids' \in SUBSET Pids /\ ga' \in Sources
      BY <2>1, NextPidType, ContinueType DEF TypeOK, Steps
    <2>4. PidHeld'
      <3>1. CASE h = None
        BY <2>1, <3>1 DEF PidHeld, NextPid, Continues
      <3>2. CASE h # None
        BY <2>1, <3>2, ConstantTypes DEF PidHeld, Attach, Cleared
      <3>3. QED
        BY <3>1, <3>2
    <2>5. QED
      BY <1>4, <2>2, <2>3, <2>4 DEF AutoAttach, TypeOK, OsTypeOK, osVars
  <1>5. CASE AutoUnityPlayer
    <2>1. ctx.pid \in Pids
      BY <1>5 DEF AutoUnityPlayer, TypeOK, PidHeld, Contexts
    <2>2. PICK m \in Sources :
            \/ ResetContext /\ \E p \in Pids : NextPid(p)
            \/ /\ ctx' = [ctx EXCEPT !.unityPlayer = m, !.gameAssembly = ga]
               /\ Continues("gom")
               /\ UNCHANGED <<handle, pids, ga>>
      BY <1>5, <2>1, HostType DEF AutoUnityPlayer
    <2>3. ctx' \in Contexts /\ handle' \in Sources
      BY <2>2, ResetType DEF TypeOK, Contexts
    <2>4. /\ ret' \in Returns /\ pc' \in Steps
          /\ pids' \in SUBSET Pids /\ ga' \in Sources
      BY <2>2, NextPidType, ContinueType DEF TypeOK, Steps
    <2>5. PidHeld'
      BY <2>2 DEF PidHeld, NextPid, Continues
    <2>6. QED
      BY <1>5, <2>3, <2>4, <2>5 DEF AutoUnityPlayer, TypeOK, OsTypeOK, osVars
  <1>6. CASE ScanGom
    <2>1. \/ /\ ctx' = [ctx EXCEPT !.gomSlot = ctx.unityPlayer]
             /\ Continues("msid")
             /\ UNCHANGED <<handle, pids, ga>>
          \/ ResetContext /\ \E p \in Pids : NextPid(p)
      BY <1>6 DEF ScanGom
    <2>2. ctx' \in Contexts /\ handle' \in Sources
      BY <2>1, ResetType DEF TypeOK, Contexts
    <2>3. /\ ret' \in Returns /\ pc' \in Steps
          /\ pids' \in SUBSET Pids /\ ga' \in Sources
      BY <2>1, NextPidType, ContinueType DEF TypeOK, Steps
    <2>4. PidHeld'
      BY <2>1 DEF PidHeld, NextPid, Continues
    <2>5. QED
      BY <1>6, <2>2, <2>3, <2>4 DEF ScanGom, TypeOK, OsTypeOK, osVars
  <1>7. CASE ScanMsId
    <2>1. ctx' \in Contexts
      BY <1>7 DEF ScanMsId, TypeOK, Contexts
    <2>2. /\ ret' \in Returns /\ pc' \in Steps
          /\ pids' \in SUBSET Pids /\ ga' \in Sources
      BY <1>7, AnswerType DEF ScanMsId
    <2>3. QED
      BY <1>7, <2>1, <2>2 DEF ScanMsId, Answers, PidHeld, TypeOK, OsTypeOK, osVars
  <1>8. CASE NoCandidateLeft
    <2>1. /\ ret' \in Returns /\ pc' \in Steps
          /\ pids' \in SUBSET Pids /\ ga' \in Sources
      BY <1>8, AnswerType DEF NoCandidateLeft
    <2>2. QED
      BY <1>8, <2>1, ResetType
         DEF NoCandidateLeft, Answers, PidHeld, TypeOK, OsTypeOK, osVars
  <1>9. QED
    BY <1>1, <1>2, <1>3, <1>4, <1>5, <1>6, <1>7, <1>8 DEF AutoStep

LEMMA ReadyPid == ASSUME TypeOK, Il2CppReady PROVE ctx.pid \in Pids /\ handle # None
  BY DEF TypeOK, Il2CppReady, IsInited, Contexts

LEMMA TypeCacheStep == ASSUME Typed, CacheStep PROVE Typed'
  <1> USE DEF Typed
  <1>1. CASE EnsureTypeInfo
    <2>1. PICK m \in Sources :
            \/ UNCHANGED ctx /\ \E value \in BOOLEAN : Answers("TypeInfo", value)
            \/ /\ Il2CppReady
               /\ ctx' = [ctx EXCEPT !.gameAssembly = m]
               /\ Continues("names") /\ UNCHANGED <<pids, ga>>
      <3>1. CASE Il2CppReady
        <4>1. ctx.pid \in Pids /\ ctx.gameAssembly \in Sources
          BY <3>1, ReadyPid DEF TypeOK, Contexts
        <4>2. Snapshot(ctx.pid, "GameAssembly") \subseteq Sources
          BY <4>1, HostType
        <4>3. QED
          BY <1>1, <3>1, <4>1, <4>2 DEF EnsureTypeInfo, Sources
      <3>2. CASE ~ Il2CppReady
        BY <1>1, <3>2 DEF EnsureTypeInfo, Sources
      <3>3. QED
        BY <3>1, <3>2
    <2>2. ctx' \in Contexts
      BY <2>1 DEF TypeOK, Contexts
    <2>3. /\ ret' \in Returns /\ pc' \in Steps
          /\ pids' \in SUBSET Pids /\ ga' \in Sources
      BY <2>1, AnswerType, ContinueType DEF TypeOK, Steps
    <2>4. PidHeld'
      <3>1. CASE \E value \in BOOLEAN : Answers("TypeInfo", value)
        BY <3>1 DEF PidHeld, Answers
      <3>2. CASE Il2CppReady /\ ctx' = [ctx EXCEPT !.gameAssembly = m]
        BY <1>1, <3>2 DEF EnsureTypeInfo, Il2CppReady, IsInited, PidHeld, TypeOK, Contexts
      <3>3. QED
        BY <2>1, <3>1, <3>2
    <2>5. QED
      BY <1>1, <2>2, <2>3, <2>4 DEF EnsureTypeInfo, Idle, TypeOK, OsTypeOK, osVars
  <1>2. CASE ReadTypeNames
    <2>1. \/ /\ ctx' = [ctx EXCEPT !.names = handle]
             /\ Continues("table") /\ UNCHANGED <<pids, ga>>
          \/ UNCHANGED ctx /\ Answers("TypeInfo", FALSE)
      BY <1>2 DEF ReadTypeNames
    <2>2. ctx' \in Contexts
      BY <2>1 DEF TypeOK, Contexts
    <2>3. /\ ret' \in Returns /\ pc' \in Steps
          /\ pids' \in SUBSET Pids /\ ga' \in Sources
      BY <2>1, AnswerType, ContinueType DEF TypeOK, Steps
    <2>4. PidHeld'
      BY <1>2, <2>1 DEF ReadTypeNames, PidHeld, Answers, TypeOK, Contexts
    <2>5. QED
      BY <1>2, <2>2, <2>3, <2>4 DEF ReadTypeNames, TypeOK, OsTypeOK, osVars
  <1>3. CASE FindTypeTable
    <2>1. \E value \in BOOLEAN : Answers("TypeInfo", value)
      BY <1>3 DEF FindTypeTable
    <2>2. ctx' \in Contexts
      BY <1>3 DEF FindTypeTable, TypeOK, Contexts
    <2>3. /\ ret' \in Returns /\ pc' \in Steps
          /\ pids' \in SUBSET Pids /\ ga' \in Sources
      BY <2>1, AnswerType
    <2>4. PidHeld'
      BY <2>1 DEF PidHeld, Answers
    <2>5. QED
      BY <1>3, <2>2, <2>3, <2>4 DEF FindTypeTable, TypeOK, OsTypeOK, osVars
  <1>4. CASE EnsureFieldOffsets
    <2>1. \/ cache' = NotLoaded /\ Answers("FieldOffsets", FALSE)
          \/ UNCHANGED cache /\ Answers("FieldOffsets", TRUE)
          \/ /\ Il2CppReady /\ UNCHANGED cache
             /\ Continues("build") /\ UNCHANGED <<pids, ga>>
      BY <1>4 DEF EnsureFieldOffsets
    <2>2. cache' \in Caches
      BY <2>1, ConstantTypes DEF TypeOK
    <2>3. /\ ret' \in Returns /\ pc' \in Steps
          /\ pids' \in SUBSET Pids /\ ga' \in Sources
      BY <2>1, AnswerType, ContinueType DEF TypeOK, Steps
    <2>4. PidHeld'
      BY <1>4, <2>1 DEF EnsureFieldOffsets, Il2CppReady, IsInited, PidHeld, Answers
    <2>5. QED
      BY <1>4, <2>2, <2>3, <2>4 DEF EnsureFieldOffsets, Idle, TypeOK, OsTypeOK, osVars
  <1>5. CASE BuildFieldOffsets
    <2>1. ctx.pid \in Pids /\ handle \in Sources
      BY <1>5 DEF BuildFieldOffsets, PidHeld, TypeOK, Contexts
    <2>2. PICK m \in Sources :
            \/ /\ m # None
               /\ cache' = [loaded |-> TRUE, pid |-> ctx.pid, base |-> GaBase[m],
                            from |-> handle]
               /\ Answers("FieldOffsets", TRUE)
            \/ cache' = NotLoaded /\ Answers("FieldOffsets", FALSE)
      BY <1>5, <2>1, HostType DEF BuildFieldOffsets
    <2>3. m # None => GaBase[m] \in Nat
      BY ContextAssumption DEF Sources
    <2>4. cache' \in Caches
      <3>1. CASE cache' = NotLoaded
        BY <3>1, ConstantTypes
      <3>2. CASE cache' # NotLoaded
        <4>1. m # None /\ cache' = [loaded |-> TRUE, pid |-> ctx.pid, base |-> GaBase[m],
                                    from |-> handle]
          BY <2>2, <3>2
        <4>2. GaBase[m] \in Nat
          BY <2>3, <4>1
        <4>3. QED
          BY <2>1, <4>1, <4>2 DEF Caches
      <3>3. QED
        BY <3>1, <3>2
    <2>5. \E value \in BOOLEAN : Answers("FieldOffsets", value)
      BY <2>2
    <2>6. /\ ret' \in Returns /\ pc' \in Steps
          /\ pids' \in SUBSET Pids /\ ga' \in Sources
      BY <2>5, AnswerType
    <2>7. PidHeld'
      BY <2>5 DEF PidHeld, Answers
    <2>8. QED
      BY <1>5, <2>4, <2>6, <2>7 DEF BuildFieldOffsets, TypeOK, OsTypeOK, osVars
  <1>6. QED
    BY <1>1, <1>2, <1>3, <1>4, <1>5 DEF CacheStep

LEMMA TypeOs == ASSUME Typed, Os PROVE Typed'
  <1>1. OsTypeOK'
    <2>1. OsTypeOK
      BY DEF Typed, TypeOK
    <2>2. CASE \E i \in Instances, p \in Pids : Start(i, p, handle)
      BY <2>1, <2>2 DEF Start, OsTypeOK
    <2>3. CASE \E i \in Instances, m \in Modules : Load(i, m)
      BY <2>1, <2>3 DEF Load, OsTypeOK
    <2>4. CASE \E i \in Instances : Exit(i)
      BY <2>1, <2>4 DEF Exit, OsTypeOK
    <2>5. QED
      BY <2>2, <2>3, <2>4 DEF Os
  <1>2. QED
    BY <1>1 DEF Os, callVars, Typed, TypeOK, PidHeld

LEMMA TypeStep == Typed /\ [Next]_vars => Typed'
  <1>1. ASSUME Typed, UNCHANGED vars PROVE Typed'
    BY <1>1 DEF vars, osVars, callVars, Typed, TypeOK, OsTypeOK, PidHeld
  <1>2. QED
    BY <1>1, TypeInitStep, TypeAutoStep, TypeCacheStep, TypeOs DEF Next

\* Every variable keeps its type, whatever the processes do.
THEOREM ContextTypes == Spec => []TypeOK
  <1>1. Spec => []Typed
    BY TypeInit, TypeStep, PTL DEF Spec
  <1>2. Typed => TypeOK
    BY DEF Typed
  <1>3. QED
    BY <1>1, <1>2, PTL

(***************************************************************************)
(* One target.  The handle keeps its process id from being given to        *)
(* another process (Pinned): what is asked by that id afterwards concerns  *)
(* the handle's process.                                                   *)
(***************************************************************************)
Hosted == \A p \in Pids : host[p] # None => pidOf[host[p]] = p

Pinned == handle # None => pidOf[handle] \in Pids /\ host[pidOf[handle]] \in {None, handle}

Attached ==
  /\ ctx.process = handle
  /\ handle # None /\ ctx.pid # 0 => pidOf[handle] = ctx.pid
  /\ ctx.unityPlayer \in {None, handle}

TargetInv == Hosted /\ Pinned /\ Attached /\ NothingStale

LEMMA AskedIsHandle ==
  ASSUME Typed, TargetInv, handle # None, ctx.pid # 0
  PROVE  \A x : Snapshot(ctx.pid, x) \subseteq {None, handle}
  <1>1. pidOf[handle] = ctx.pid /\ host[ctx.pid] \in {None, handle}
    BY DEF TargetInv, Attached, Pinned
  <1>2. QED
    BY <1>1 DEF Snapshot

LEMMA TargetAttach ==
  ASSUME Typed, TargetInv, NEW p \in Pids, NEW runtime, NEW h \in Opened(p),
         Attach(p, runtime, h), UNCHANGED osVars
  PROVE  TargetInv'
  <1>1. CASE h = None
    BY <1>1 DEF Attach, Cleared, osVars, TargetInv, Hosted, Pinned, Attached, NothingStale
  <1>2. CASE h # None
    <2>1. h = host[p] /\ pidOf[h] = p
      BY <1>2 DEF Opened, TargetInv, Hosted
    <2>2. Pinned' /\ Hosted'
      BY <1>2, <2>1 DEF Attach, osVars, TargetInv, Hosted, Pinned
    <2>3. ctx' = [Cleared EXCEPT !.pid = p, !.runtime = runtime, !.process = h] /\ handle' = h
      BY <1>2 DEF Attach
    <2>4. Attached' /\ NothingStale'
      BY <2>1, <2>3 DEF Cleared, osVars, Attached, NothingStale
    <2>5. QED
      BY <2>2, <2>4 DEF TargetInv
  <1>3. QED
    BY <1>1, <1>2

LEMMA TargetReset ==
  ASSUME TargetInv, ResetContext, UNCHANGED osVars
  PROVE  TargetInv'
  BY DEF ResetContext, Cleared, osVars, TargetInv, Hosted, Pinned, Attached, NothingStale

\* A step that only fills in what the context holds, from the handle's process.
Filled ==
  /\ ctx'.process = ctx.process /\ ctx'.pid = ctx.pid
  /\ ctx'.unityPlayer \in {None, handle}
  /\ \A a \in {ctx'.gomSlot, ctx'.msIdSlot, ctx'.names, ctx'.table} : a \in {None, handle}

LEMMA TargetFill ==
  ASSUME TargetInv, UNCHANGED <<osVars, handle>>, Filled
  PROVE  TargetInv'
  BY DEF Filled, TargetInv, Hosted, Pinned, Attached, NothingStale, osVars

LEMMA ContextParts ==
  ASSUME Typed, TargetInv
  PROVE  /\ ctx.unityPlayer \in {None, handle}
         /\ ctx.gomSlot \in {None, handle} /\ ctx.msIdSlot \in {None, handle}
         /\ ctx.names \in {None, handle} /\ ctx.table \in {None, handle}
  BY DEF TargetInv, Attached, NothingStale

LEMMA TargetSame ==
  ASSUME TargetInv, UNCHANGED <<osVars, ctx, handle>>
  PROVE  TargetInv'
  BY DEF TargetInv, Hosted, Pinned, Attached, NothingStale, osVars

LEMMA TargetInit == Init => TargetInv
  BY DEF Init, OsInit, Cleared, TargetInv, Hosted, Pinned, Attached, NothingStale

LEMMA TargetInitStep == ASSUME Typed, TargetInv, InitStep PROVE TargetInv'
  <1>1. CASE InitSettings
    BY <1>1, TargetAttach DEF InitSettings
  <1>2. CASE SettingsUnityPlayer
    <2>1. handle # None /\ ctx.pid # 0
      BY <1>2 DEF SettingsUnityPlayer, Typed, PidHeld
    <2>2. PICK m \in {None, handle} :
            \/ ResetContext
            \/ ctx' = [ctx EXCEPT !.unityPlayer = m] /\ UNCHANGED handle
      <3>1. Snapshot(ctx.pid, "UnityPlayer") \subseteq {None, handle}
        BY <2>1, AskedIsHandle
      <3>2. PICK m \in Snapshot(ctx.pid, "UnityPlayer") :
              \/ ResetContext
              \/ ctx' = [ctx EXCEPT !.unityPlayer = m] /\ UNCHANGED handle
        BY <1>2 DEF SettingsUnityPlayer
      <3>3. QED
        BY <3>1, <3>2
    <2>3. CASE ResetContext
      BY <1>2, <2>3, TargetReset DEF SettingsUnityPlayer
    <2>4. CASE ctx' = [ctx EXCEPT !.unityPlayer = m] /\ UNCHANGED handle
      <3>1. Filled
        BY <2>4, ContextParts DEF Filled, Typed, TypeOK, Contexts
      <3>2. QED
        BY <1>2, <2>4, <3>1, TargetFill DEF SettingsUnityPlayer
    <2>5. QED
      BY <2>2, <2>3, <2>4
  <1>3. CASE InitBase
    <2>1. CASE UNCHANGED ctx
      BY <1>3, <2>1, TargetSame DEF InitBase
    <2>2. CASE ctx' = [ctx EXCEPT !.gomSlot = ctx.unityPlayer, !.msIdSlot = ctx.unityPlayer]
      <3>1. Filled
        BY <2>2, ContextParts DEF Filled, Typed, TypeOK, Contexts
      <3>2. QED
        BY <1>3, <3>1, TargetFill DEF InitBase
    <2>3. QED
      BY <1>3, <2>1, <2>2 DEF InitBase
  <1>4. CASE Reset
    BY <1>4, TargetReset DEF Reset
  <1>5. CASE SetContextBackend
    <2>1. PICK h : /\ h = None \/ (h \in Instances /\ Alive(h))
                   /\ handle' = h /\ ctx' = [Cleared EXCEPT !.process = h]
      BY <1>5 DEF SetContextBackend
    <2>2. h # None => pidOf[h] \in Pids /\ host[pidOf[h]] = h
      BY <2>1 DEF Alive, Typed, TypeOK, OsTypeOK
    <2>3. Pinned' /\ Hosted'
      BY <1>5, <2>1, <2>2 DEF SetContextBackend, osVars, TargetInv, Hosted, Pinned
    <2>4. Attached' /\ NothingStale'
      BY <2>1 DEF Cleared, Attached, NothingStale
    <2>5. QED
      BY <2>3, <2>4 DEF TargetInv
  <1>6. QED
    BY <1>1, <1>2, <1>3, <1>4, <1>5 DEF InitStep

LEMMA TargetAutoStep == ASSUME Typed, TargetInv, AutoStep PROVE TargetInv'
  <1>1. CASE AutoInit \/ AskUnityPlayer \/ AskGameAssembly
    BY <1>1, TargetSame DEF AutoInit, AskUnityPlayer, AskGameAssembly
  <1>2. CASE AutoAttach
    BY <1>2, TargetAttach DEF AutoAttach
  <1>3. CASE AutoUnityPlayer
    <2>1. handle # None /\ ctx.pid # 0
      BY <1>3 DEF AutoUnityPlayer, Typed, PidHeld
    <2>2. Snapshot(ctx.pid, "UnityPlayer") \subseteq {None, handle}
      BY <2>1, AskedIsHandle
    <2>3. PICK m \in Snapshot(ctx.pid, "UnityPlayer") :
            \/ ResetContext
            \/ /\ ctx' = [ctx EXCEPT !.unityPlayer = m, !.gameAssembly = ga]
               /\ UNCHANGED handle
      BY <1>3 DEF AutoUnityPlayer
    <2>4. CASE ResetContext
      BY <1>3, <2>4, TargetReset DEF AutoUnityPlayer
    <2>5. CASE ctx' = [ctx EXCEPT !.unityPlayer = m, !.gameAssembly = ga] /\ UNCHANGED handle
      <3>1. Filled
        BY <2>2, <2>5, ContextParts DEF Filled, Typed, TypeOK, Contexts
      <3>2. QED
        BY <1>3, <2>5, <3>1, TargetFill DEF AutoUnityPlayer
    <2>6. QED
      BY <2>3, <2>4, <2>5
  <1>4. CASE ScanGom
    <2>1. CASE ResetContext
      BY <1>4, <2>1, TargetReset DEF ScanGom
    <2>2. CASE ctx' = [ctx EXCEPT !.gomSlot = ctx.unityPlayer] /\ UNCHANGED handle
      <3>1. Filled
        BY <2>2, ContextParts DEF Filled, Typed, TypeOK, Contexts
      <3>2. QED
        BY <1>4, <2>2, <3>1, TargetFill DEF ScanGom
    <2>3. QED
      BY <1>4, <2>1, <2>2 DEF ScanGom
  <1>5. CASE ScanMsId
    <2>1. CASE UNCHANGED ctx
      BY <1>5, <2>1, TargetSame DEF ScanMsId
    <2>2. CASE ctx' = [ctx EXCEPT !.msIdSlot = ctx.unityPlayer]
      <3>1. Filled
        BY <2>2, ContextParts DEF Filled, Typed, TypeOK, Contexts
      <3>2. QED
        BY <1>5, <3>1, TargetFill DEF ScanMsId
    <2>3. QED
      BY <1>5, <2>1, <2>2 DEF ScanMsId
  <1>6. CASE NoCandidateLeft
    BY <1>6, TargetReset DEF NoCandidateLeft
  <1>7. QED
    BY <1>1, <1>2, <1>3, <1>4, <1>5, <1>6 DEF AutoStep

LEMMA TargetCacheStep == ASSUME Typed, TargetInv, CacheStep PROVE TargetInv'
  <1>1. CASE EnsureTypeInfo
    <2>1. CASE UNCHANGED ctx
      BY <1>1, <2>1, TargetSame DEF EnsureTypeInfo
    <2>2. CASE \E m : ctx' = [ctx EXCEPT !.gameAssembly = m]
      <3>1. Filled
        BY <2>2, ContextParts DEF Filled, Typed, TypeOK, Contexts
      <3>2. QED
        BY <1>1, <3>1, TargetFill DEF EnsureTypeInfo
    <2>3. QED
      BY <1>1, <2>1, <2>2 DEF EnsureTypeInfo
  <1>2. CASE ReadTypeNames \/ FindTypeTable
    <2>1. CASE UNCHANGED ctx
      BY <1>2, <2>1, TargetSame DEF ReadTypeNames, FindTypeTable
    <2>2. CASE ctx' = [ctx EXCEPT !.names = handle] \/ ctx' = [ctx EXCEPT !.table = handle]
      <3>1. Filled
        BY <2>2, ContextParts DEF Filled, Typed, TypeOK, Contexts
      <3>2. QED
        BY <1>2, <3>1, TargetFill DEF ReadTypeNames, FindTypeTable
    <2>3. QED
      BY <1>2, <2>1, <2>2 DEF ReadTypeNames, FindTypeTable
  <1>3. CASE EnsureFieldOffsets \/ BuildFieldOffsets
    BY <1>3, TargetSame DEF EnsureFieldOffsets, BuildFieldOffsets
  <1>4. QED
    BY <1>1, <1>2, <1>3 DEF CacheStep

LEMMA TargetOs == ASSUME Typed, TargetInv, Os PROVE TargetInv'
  <1>1. UNCHANGED <<ctx, handle>>
    BY DEF Os
  <1>2. Attached' /\ NothingStale'
    <2>1. handle # None /\ ctx.pid # 0 => pidOf'[handle] = ctx.pid
      <3>1. ASSUME handle # None, ctx.pid # 0 PROVE pidOf'[handle] = pidOf[handle]
        <4>1. pidOf[handle] # 0
          BY <3>1, ConstantTypes DEF TargetInv, Pinned
        <4>2. QED
          <5>1. ASSUME NEW i \in Instances, NEW p \in Pids, Start(i, p, handle)
                PROVE  pidOf'[handle] = pidOf[handle]
            BY <4>1, <5>1 DEF Start, Typed, TypeOK, OsTypeOK
          <5>2. ASSUME UNCHANGED pidOf PROVE pidOf'[handle] = pidOf[handle]
            BY <5>2
          <5>3. QED
            BY <5>1, <5>2 DEF Os, Load, Exit
      <3>2. QED
        BY <3>1 DEF TargetInv, Attached
    <2>2. QED
      BY <1>1, <2>1 DEF TargetInv, Attached, NothingStale
  <1>3. CASE \E i \in Instances, p \in Pids : Start(i, p, handle)
    <2>1. PICK i \in Instances, p \in Pids : Start(i, p, handle)
      BY <1>3
    <2>2. /\ host' = [host EXCEPT ![p] = i] /\ pidOf' = [pidOf EXCEPT ![i] = p]
          /\ pidOf[i] = 0 /\ (handle # None => pidOf[handle] # p)
      BY <2>1 DEF Start
    <2>3. Hosted'
      <3>1. ASSUME NEW q \in Pids, host'[q] # None PROVE pidOf'[host'[q]] = q
        <4>1. CASE q = p
          BY <2>2, <4>1 DEF Typed, TypeOK, OsTypeOK
        <4>2. CASE q # p
          <5>1. host'[q] = host[q] /\ pidOf[host[q]] = q
            BY <2>2, <3>1, <4>2 DEF Typed, TypeOK, OsTypeOK, TargetInv, Hosted
          <5>2. host[q] # i
            BY <2>2, <5>1, ConstantTypes
          <5>3. QED
            BY <2>2, <3>1, <5>1, <5>2 DEF Typed, TypeOK, OsTypeOK
        <4>3. QED
          BY <4>1, <4>2
      <3>2. QED
        BY <3>1 DEF Hosted
    <2>4. Pinned'
      <3>1. ASSUME handle # None
            PROVE  pidOf'[handle] \in Pids /\ host'[pidOf'[handle]] \in {None, handle}
        <4>1. pidOf[handle] \in Pids /\ host[pidOf[handle]] \in {None, handle}
          BY <3>1 DEF TargetInv, Pinned
        <4>2. pidOf'[handle] = pidOf[handle]
          BY <2>2, <4>1, ConstantTypes DEF Typed, TypeOK, OsTypeOK
        <4>3. host'[pidOf[handle]] = host[pidOf[handle]]
          BY <2>2, <3>1, <4>1 DEF Typed, TypeOK, OsTypeOK
        <4>4. QED
          BY <4>1, <4>2, <4>3
      <3>2. QED
        BY <1>1, <3>1 DEF Pinned
    <2>5. QED
      BY <1>2, <2>3, <2>4 DEF TargetInv
  <1>4. CASE \E i \in Instances, m \in Modules : Load(i, m)
    BY <1>1, <1>2, <1>4 DEF Load, TargetInv, Hosted, Pinned
  <1>5. CASE \E i \in Instances : Exit(i)
    <2>1. PICK i \in Instances : Exit(i)
      BY <1>5
    <2>2. host' = [host EXCEPT ![pidOf[i]] = None] /\ pidOf' = pidOf
      BY <2>1 DEF Exit
    <2>3. Hosted' /\ Pinned'
      BY <1>1, <2>2 DEF Typed, TypeOK, OsTypeOK, TargetInv, Hosted, Pinned
    <2>4. QED
      BY <1>2, <2>3 DEF TargetInv
  <1>6. QED
    BY <1>3, <1>4, <1>5 DEF Os

LEMMA TargetStep == Typed /\ TargetInv /\ [Next]_vars => TargetInv'
  <1>1. ASSUME TargetInv, UNCHANGED vars PROVE TargetInv'
    BY <1>1, TargetSame DEF vars
  <1>2. QED
    BY <1>1, TargetInitStep, TargetAutoStep, TargetCacheStep, TargetOs DEF Next

LEMMA TargetIsOne == ASSUME TargetInv PROVE OneTarget /\ NothingStale
  BY DEF TargetInv, Attached, OneTarget, IsInited

\* Handle, pid and UnityPlayer.dll of an initialised context are of one process.
THEOREM TargetIsOneProcess == Spec => []OneTarget
  <1>1. Spec => [](Typed /\ TargetInv)
    BY TypeInit, TypeStep, TargetInit, TargetStep, PTL DEF Spec
  <1>2. Typed /\ TargetInv => OneTarget
    BY TargetIsOne
  <1>3. QED
    BY <1>1, <1>2, PTL

\* No slot and no table of the context outlives the process it was read from.
THEOREM NothingOutlivesTarget == Spec => []NothingStale
  <1>1. Spec => [](Typed /\ TargetInv)
    BY TypeInit, TypeStep, TargetInit, TargetStep, PTL DEF Spec
  <1>2. Typed /\ TargetInv => NothingStale
    BY TargetIsOne
  <1>3. QED
    BY <1>1, <1>2, PTL

(***************************************************************************)
(* A failure to initialise detaches.                                       *)
(***************************************************************************)
LEMMA FailureInit == Init => FailureDetaches
  BY DEF Init, NoReturn, FailureDetaches

LEMMA FailureStep == FailureDetaches /\ [Next]_vars => FailureDetaches'
  <1> SUFFICES ASSUME FailureDetaches, [Next]_vars PROVE FailureDetaches'
    OBVIOUS
  <1>1. CASE UNCHANGED <<ctx, handle, callVars>>
    BY <1>1 DEF callVars, FailureDetaches
  <1>2. CASE InitStep
    BY <1>2 DEF InitStep, InitSettings, SettingsUnityPlayer, InitBase, Reset,
                SetContextBackend, Attach, ResetContext, Answers, Continues, FailureDetaches
  <1>3. CASE AutoStep
    <2>1. CASE AutoInit
      BY <2>1 DEF AutoInit, Idle, Answers, Continues, FailureDetaches
    <2>2. CASE NoCandidateLeft
      BY <2>2 DEF NoCandidateLeft, ResetContext, FailureDetaches
    <2>3. CASE ScanMsId
      BY <2>3 DEF ScanMsId, Answers, FailureDetaches
    <2>4. CASE AskUnityPlayer \/ AskGameAssembly \/ AutoAttach \/ AutoUnityPlayer \/ ScanGom
      <3>1. pc' # "idle"
        BY <2>4 DEF AskUnityPlayer, AskGameAssembly, AutoAttach, AutoUnityPlayer, ScanGom,
                    NextPid, Continues
      <3>2. QED
        BY <3>1 DEF FailureDetaches
    <2>5. QED
      BY <1>3, <2>1, <2>2, <2>3, <2>4 DEF AutoStep
  <1>4. CASE CacheStep
    <2>1. pc' # "idle" \/ ret'.call \in {"TypeInfo", "FieldOffsets"}
      BY <1>4 DEF CacheStep, EnsureTypeInfo, ReadTypeNames, FindTypeTable,
                  EnsureFieldOffsets, BuildFieldOffsets, Answers, Continues
    <2>2. QED
      BY <2>1 DEF FailureDetaches
  <1>5. QED
    BY <1>1, <1>2, <1>3, <1>4 DEF Next, Os, vars

\* InitSettings and AutoInit that return false leave the context detached, or,
\* where AutoInit saw no candidate, as it was.
THEOREM FailureLeavesNothing == Spec => []FailureDetaches
  BY FailureInit, FailureStep, PTL DEF Spec

(***************************************************************************)
(* Field offsets.  g_fieldOffsetState remembers pid and base of the        *)
(* process it was read from, and that process had them.                    *)
(***************************************************************************)
CacheInv ==
  cache.loaded =>
    /\ cache.from \in Instances /\ pidOf[cache.from] # 0
    /\ pidOf[cache.from] = cache.pid
    /\ GaBase[cache.from] = cache.base

VouchedInv ==
  OffsetsVouched =>
    /\ cache.loaded
    /\ handle \in Instances
    /\ pidOf[handle] = cache.pid
    /\ GaBase[handle] = cache.base

LEMMA OffsetsInit == Init => CacheInv /\ VouchedInv
  BY DEF Init, NotLoaded, NoReturn, CacheInv, VouchedInv, OffsetsVouched

LEMMA OffsetsKept ==
  ASSUME CacheInv, UNCHANGED <<cache, pidOf>>, pc' # "idle" \/ ret'.call # "FieldOffsets"
  PROVE  CacheInv' /\ VouchedInv'
  BY DEF CacheInv, VouchedInv, OffsetsVouched

LEMMA OffsetsOs ==
  ASSUME Typed, CacheInv, VouchedInv, Os
  PROVE  CacheInv' /\ VouchedInv'
  <1>1. \A i \in Instances : pidOf[i] # 0 => pidOf'[i] = pidOf[i]
    <2>1. ASSUME NEW i \in Instances, NEW p \in Pids, Start(i, p, handle)
          PROVE  \A j \in Instances : pidOf[j] # 0 => pidOf'[j] = pidOf[j]
      BY <2>1 DEF Start, Typed, TypeOK, OsTypeOK
    <2>2. QED
      BY <2>1 DEF Os, Load, Exit
  <1>2. UNCHANGED <<cache, handle, pc, ret>>
    BY DEF Os, callVars
  <1>3. CacheInv'
    BY <1>1, <1>2 DEF CacheInv
  <1>4. VouchedInv'
    BY <1>1, <1>2 DEF CacheInv, VouchedInv, OffsetsVouched, Typed, TypeOK, OsTypeOK
  <1>5. QED
    BY <1>3, <1>4

LEMMA OffsetsStep ==
  Typed /\ TargetInv /\ CacheInv /\ VouchedInv /\ [Next]_vars => CacheInv' /\ VouchedInv'
  <1> SUFFICES ASSUME Typed, TargetInv, CacheInv, VouchedInv, [Next]_vars
               PROVE  CacheInv' /\ VouchedInv'
    OBVIOUS
  <1>1. CASE InitStep
    <2>1. UNCHANGED <<cache, pidOf>> /\ (pc' # "idle" \/ ret'.call # "FieldOffsets")
      BY <1>1 DEF InitStep, InitSettings, SettingsUnityPlayer, InitBase, Reset,
                  SetContextBackend, Answers, Continues, osVars
    <2>2. QED
      BY <2>1, OffsetsKept
  <1>2. CASE AutoStep
    <2>1. UNCHANGED <<cache, pidOf>>
      BY <1>2 DEF AutoStep, AutoInit, AskUnityPlayer, AskGameAssembly, AutoAttach,
                  AutoUnityPlayer, ScanGom, ScanMsId, NoCandidateLeft, osVars
    <2>2. CASE AutoInit \/ ScanMsId \/ NoCandidateLeft
      <3>1. pc' # "idle" \/ ret'.call # "FieldOffsets"
        BY <2>2 DEF AutoInit, ScanMsId, NoCandidateLeft, Answers, Continues
      <3>2. QED
        BY <2>1, <3>1, OffsetsKept
    <2>3. CASE AskUnityPlayer \/ AskGameAssembly \/ AutoAttach \/ AutoUnityPlayer \/ ScanGom
      <3>1. pc' # "idle"
        BY <2>3 DEF AskUnityPlayer, AskGameAssembly, AutoAttach, AutoUnityPlayer, ScanGom,
                    NextPid, Continues
      <3>2. QED
        BY <2>1, <3>1, OffsetsKept
    <2>4. QED
      BY <1>2, <2>2, <2>3 DEF AutoStep
  <1>3. CASE EnsureTypeInfo \/ ReadTypeNames \/ FindTypeTable
    <2>1. UNCHANGED <<cache, pidOf>> /\ (pc' # "idle" \/ ret'.call # "FieldOffsets")
      BY <1>3 DEF EnsureTypeInfo, ReadTypeNames, FindTypeTable, Answers, Continues, osVars
    <2>2. QED
      BY <2>1, OffsetsKept
  <1>4. CASE EnsureFieldOffsets
    <2>1. UNCHANGED <<osVars, ctx, handle>>
      BY <1>4 DEF EnsureFieldOffsets
    <2>2. CASE cache' = NotLoaded /\ Answers("FieldOffsets", FALSE)
      BY <2>2 DEF NotLoaded, Answers, CacheInv, VouchedInv, OffsetsVouched
    <2>3. CASE UNCHANGED cache /\ Continues("build")
      BY <2>1, <2>3, OffsetsKept DEF Continues, osVars
    <2>4. CASE /\ Il2CppReady /\ UNCHANGED cache
               /\ \E m \in Snapshot(ctx.pid, "GameAssembly") : m # None /\ CacheHit(m)
      <3>1. handle # None /\ ctx.pid # 0 /\ handle \in Instances
        BY <2>4 DEF Il2CppReady, IsInited, Typed, TypeOK, Sources
      <3>2. Snapshot(ctx.pid, "GameAssembly") \subseteq {None, handle}
        BY <3>1, AskedIsHandle
      <3>3. CacheHit(handle)
        BY <2>4, <3>2
      <3>4. pidOf[handle] = ctx.pid
        BY <3>1 DEF TargetInv, Attached
      <3>5. cache.loaded /\ pidOf[handle] = cache.pid /\ GaBase[handle] = cache.base
        BY <3>3, <3>4 DEF CacheHit
      <3>6. QED
        BY <2>1, <2>4, <3>1, <3>5 DEF CacheInv, VouchedInv, osVars
    <2>5. QED
      BY <1>4, <2>2, <2>3, <2>4 DEF EnsureFieldOffsets
  <1>5. CASE BuildFieldOffsets
    <2>1. UNCHANGED <<osVars, ctx, handle>>
      BY <1>5 DEF BuildFieldOffsets
    <2>2. CASE cache' = NotLoaded /\ Answers("FieldOffsets", FALSE)
      BY <2>2 DEF NotLoaded, Answers, CacheInv, VouchedInv, OffsetsVouched
    <2>3. CASE \E m : /\ ReadsAs(m)
                      /\ cache' = [loaded |-> TRUE, pid |-> ctx.pid, base |-> GaBase[m],
                                   from |-> handle]
      <3>1. PICK m : /\ ReadsAs(m)
                     /\ cache' = [loaded |-> TRUE, pid |-> ctx.pid, base |-> GaBase[m],
                                  from |-> handle]
        BY <2>3
      <3>2. handle # None /\ ctx.pid # 0 /\ handle \in Instances
        BY <1>5 DEF BuildFieldOffsets, PidHeld, Typed, TypeOK, Sources
      <3>3. pidOf[handle] = ctx.pid /\ GaBase[m] = GaBase[handle]
        BY <3>1, <3>2 DEF ReadsAs, TargetInv, Attached
      <3>4. QED
        BY <2>1, <3>1, <3>2, <3>3 DEF CacheInv, VouchedInv, osVars
    <2>4. QED
      BY <1>5, <2>2, <2>3 DEF BuildFieldOffsets
  <1>6. CASE Os
    BY <1>6, OffsetsOs
  <1>7. CASE UNCHANGED vars
    BY <1>7 DEF vars, osVars, callVars, CacheInv, VouchedInv, OffsetsVouched
  <1>8. QED
    BY <1>1, <1>2, <1>3, <1>4, <1>5, <1>6, <1>7 DEF Next, CacheStep

\* Vouched field offsets are those of the attached process, as long as no two
\* processes have had the same id and the same module address.
THEOREM FieldOffsetsAreFresh == Spec => []FieldOffsetsFresh
  <1>1. Spec => [](Typed /\ TargetInv /\ CacheInv /\ VouchedInv)
    BY TypeInit, TypeStep, TargetInit, TargetStep, OffsetsInit, OffsetsStep, PTL DEF Spec
  <1>2. CacheInv /\ VouchedInv => FieldOffsetsFresh
    BY DEF CacheInv, VouchedInv, FieldOffsetsFresh, Distinguishable
  <1>3. QED
    BY <1>1, <1>2, PTL

(***************************************************************************)
(* FieldOffsets, in its world of MCContext, for any metadata of a compiled *)
(* program, and whichever reads fail.                                      *)
(*                                                                         *)
(* The chain of a type is what is reached from it through parents.         *)
(***************************************************************************)
ChainClosed(S) == \A k \in S : Fields!Parents(k) \subseteq S

LEMMA MetadataFacts ==
  ASSUME types \in Metadata
  PROVE  /\ types \in Seq([ns : STRING, name : STRING, byval : Int, parent : Int, interface : BOOLEAN,
                           fields : Seq([name : STRING, raw : Int])])
         /\ \A i, j \in DOMAIN types : types[i].byval = types[j].byval /\ types[i].byval >= 0 => i = j
         /\ \A i \in DOMAIN types :
              /\ types[i].name # "" /\ (types[i].interface => types[i].parent < 0)
              /\ \A s \in DOMAIN types[i].fields : types[i].fields[s].name # ""
              /\ \A s, t \in DOMAIN types[i].fields :
                   types[i].fields[s].name = types[i].fields[t].name => s = t
         /\ \E d \in [DOMAIN types -> 0..Len(types)] : Depths(types, d)
         /\ HeaderSize \in Nat
  BY MetadataAssumption DEF Fields!TypeDefs

LEMMA TypeIs ==
  ASSUME types \in Metadata, NEW i \in DOMAIN types
  PROVE  /\ types[i].byval \in Int /\ types[i].parent \in Int /\ types[i].interface \in BOOLEAN
         /\ types[i].fields \in Seq([name : STRING, raw : Int])
         /\ i \in Nat \ {0} /\ DOMAIN types = 1..Len(types) /\ Len(types) \in Nat
  <1> DEFINE Defs == [ns : STRING, name : STRING, byval : Int, parent : Int, interface : BOOLEAN,
                      fields : Seq([name : STRING, raw : Int])]
  <1>1. types \in Seq(Defs)
    BY MetadataFacts
  <1> HIDE DEF Defs
  <1>2. DOMAIN types = 1..Len(types) /\ Len(types) \in Nat /\ types[i] \in Defs
    BY <1>1
  <1>3. QED
    BY <1>2 DEF Defs

LEMMA TypesLength ==
  ASSUME types \in Metadata
  PROVE  DOMAIN types = 1..Len(types) /\ Len(types) \in Nat
  <1> DEFINE Defs == [ns : STRING, name : STRING, byval : Int, parent : Int, interface : BOOLEAN,
                      fields : Seq([name : STRING, raw : Int])]
  <1>1. types \in Seq(Defs)
    BY MetadataFacts
  <1> HIDE DEF Defs
  <1>2. QED
    BY <1>1

LEMMA ChainFacts ==
  ASSUME NEW i \in DOMAIN types
  PROVE  /\ i \in Fields!Chain(i) /\ Fields!Chain(i) \subseteq DOMAIN types
         /\ ChainClosed(Fields!Chain(i))
         /\ \A S \in SUBSET DOMAIN types : i \in S /\ ChainClosed(S) => Fields!Chain(i) \subseteq S
  <1>1. /\ i \in Fields!Chain(i) /\ Fields!Chain(i) \subseteq DOMAIN types
        /\ \A S \in SUBSET DOMAIN types : i \in S /\ ChainClosed(S) => Fields!Chain(i) \subseteq S
    BY DEF Fields!Chain, ChainClosed
  <1>2. ASSUME NEW k \in Fields!Chain(i), NEW j \in Fields!Parents(k)
        PROVE  j \in Fields!Chain(i)
    <2>1. j \in DOMAIN types
      BY <1>2 DEF Fields!Parents
    <2>2. SUFFICES ASSUME NEW S \in SUBSET DOMAIN types, i \in S, ChainClosed(S)
                   PROVE  j \in S
      BY <2>1 DEF Fields!Chain, ChainClosed
    <2>3. k \in S
      BY <1>1, <1>2, <2>2
    <2>4. QED
      BY <1>2, <2>2, <2>3 DEF ChainClosed
  <1>3. QED
    BY <1>1, <1>2 DEF ChainClosed

LEMMA ChainOfChain ==
  ASSUME NEW i \in DOMAIN types, NEW j \in Fields!Chain(i)
  PROVE  Fields!Chain(j) \subseteq Fields!Chain(i)
  BY ChainFacts

LEMMA ParentOne ==
  ASSUME types \in Metadata, NEW j \in DOMAIN types, NEW p \in Fields!Parents(j)
  PROVE  p \in DOMAIN types /\ Fields!Parents(j) = {p}
  <1>1. ASSUME NEW k \in Fields!Parents(j)
        PROVE  k \in DOMAIN types /\ types[j].parent >= 0 /\ types[k].byval = types[j].parent
    BY DEF Fields!Parents
  <1>2. ASSUME NEW k \in Fields!Parents(j)
        PROVE  k = p
    <2>1. types[k].byval = types[p].byval /\ types[k].byval >= 0
      BY <1>1, <1>2
    <2>2. QED
      BY <1>1, <1>2, <2>1, MetadataFacts
  <1>3. QED
    BY <1>1, <1>2

LEMMA ChainStep ==
  ASSUME types \in Metadata, NEW j \in DOMAIN types, NEW p \in Fields!Parents(j)
  PROVE  Fields!Chain(j) = {j} \cup Fields!Chain(p)
  <1>1. p \in DOMAIN types /\ Fields!Parents(j) = {p}
    BY ParentOne
  <1>2. ChainClosed({j} \cup Fields!Chain(p))
    BY <1>1, ChainFacts DEF ChainClosed
  <1>3. Fields!Chain(j) \subseteq {j} \cup Fields!Chain(p)
    BY <1>1, <1>2, ChainFacts
  <1>4. p \in Fields!Chain(j)
    BY ChainFacts DEF ChainClosed
  <1>5. QED
    BY <1>3, <1>4, ChainFacts, ChainOfChain

LEMMA ChainEnd ==
  ASSUME NEW j \in DOMAIN types, Fields!Parents(j) = {}
  PROVE  Fields!Chain(j) = {j}
  <1>1. ChainClosed({j})
    BY DEF ChainClosed
  <1>2. QED
    BY <1>1, ChainFacts

\* No two types are in each other's chain.
LEMMA ChainAcyclic ==
  ASSUME types \in Metadata, NEW j \in DOMAIN types, NEW k \in Fields!Chain(j), j \in Fields!Chain(k)
  PROVE  j = k
  <1>1. PICK d \in [DOMAIN types -> 0..Len(types)] : Depths(types, d)
    BY MetadataFacts
  <1>2. Len(types) \in Nat /\ \A i \in DOMAIN types : d[i] \in Nat
    BY <1>1, TypeIs
  <1>3. ASSUME NEW x \in DOMAIN types, NEW y \in Fields!Chain(x)
        PROVE  y = x \/ d[y] < d[x]
    <2> DEFINE S == {z \in DOMAIN types : z = x \/ d[z] < d[x]}
    <2>1. ASSUME NEW z \in S, NEW p \in Fields!Parents(z)
          PROVE  p \in S
      <3>1. p \in DOMAIN types /\ d[z] = d[p] + 1
        BY <1>1, <2>1 DEF Fields!Parents, Depths
      <3>2. QED
        BY <1>2, <3>1
    <2>2. ChainClosed(S)
      BY <2>1 DEF ChainClosed
    <2>3. x \in S /\ S \in SUBSET DOMAIN types
      OBVIOUS
    <2>4. QED
      BY <2>2, <2>3, ChainFacts
  <1>4. k \in DOMAIN types
    BY ChainFacts
  <1>5. QED
    BY <1>2, <1>3, <1>4

\* A name is that of a type, and ByvalToFullName that of the parent.
LEMMA NamesOfTypes ==
  ASSUME types \in Metadata, NEW j \in DOMAIN types
  PROVE  /\ Fields!FullName(types[j]) # Fields!Unnamed /\ Fields!ShortName(types[j]) # Fields!Unnamed
         /\ \A p \in Fields!Parents(j) : Fields!ByvalToFullName(types[j].parent) = Fields!FullName(types[p])
         /\ Fields!Parents(j) = {} => Fields!ByvalToFullName(types[j].parent) = Fields!Unnamed
  <1>1. types[j].name # "" /\ types[j].parent \in Int
    BY MetadataFacts, TypeIs
  <1>2. Fields!FullName(types[j]) # Fields!Unnamed /\ Fields!ShortName(types[j]) # Fields!Unnamed
    BY <1>1 DEF Fields!FullName, Fields!ShortName, Fields!Unnamed
  <1>9. \/ types[j].parent < 0 /\ ~ (types[j].parent >= 0)
        \/ types[j].parent >= 0 /\ ~ (types[j].parent < 0)
    <2> DEFINE b == types[j].parent
    <2>1. b \in Int
      BY <1>1
    <2> HIDE DEF b
    <2>2. (b < 0 /\ ~ (b >= 0)) \/ (b >= 0 /\ ~ (b < 0))
      BY <2>1
    <2>3. QED
      BY <2>2 DEF b
  <1> DEFINE with == {i \in DOMAIN types : types[i].byval = types[j].parent}
  <1>0. Fields!ByvalToFullName(types[j].parent) =
          IF types[j].parent < 0 \/ with = {} THEN Fields!Unnamed ELSE Fields!FullName(types[Fields!Max(with)])
    BY DEF Fields!ByvalToFullName
  <1>3. ASSUME NEW p \in Fields!Parents(j)
        PROVE  Fields!ByvalToFullName(types[j].parent) = Fields!FullName(types[p])
    <2>1. p \in DOMAIN types /\ types[j].parent >= 0 /\ Fields!Parents(j) = {p}
      BY <1>3, ParentOne DEF Fields!Parents
    <2>5. with = {p}
      BY <2>1 DEF Fields!Parents
    <2>2. p \in Int
      BY <2>1, TypeIs
    <2>3. Fields!Max({p}) = p
      BY <2>2 DEF Fields!Max
    <2>6. ~ (types[j].parent < 0) /\ ~ (with = {})
      BY <1>9, <2>1, <2>5
    <2> HIDE DEF with
    <2>4. QED
      BY <1>0, <2>3, <2>5, <2>6
  <1>4. ASSUME Fields!Parents(j) = {}
        PROVE  Fields!ByvalToFullName(types[j].parent) = Fields!Unnamed
    <2>1. ASSUME NEW k \in with, ~ (types[j].parent < 0)
          PROVE  FALSE
      <3>1. k \in DOMAIN types /\ types[j].parent >= 0 /\ types[k].byval = types[j].parent
        BY <1>9, <2>1
      <3>2. QED
        BY <1>4, <3>1 DEF Fields!Parents
    <2>2. types[j].parent < 0 \/ with = {}
      BY <2>1
    <2> HIDE DEF with
    <2>3. QED
      BY <1>0, <2>2
  <1>5. QED
    BY <1>2, <1>3, <1>4

(***************************************************************************)
(* The table while it is built.  These speak of metadata m, of unread      *)
(* fields u and of parts of the table, so that they say the same of the    *)
(* next state.                                                             *)
(***************************************************************************)
ParentsOf(m, k) == {j \in DOMAIN m : m[k].parent >= 0 /\ m[j].byval = m[k].parent}

Up(m, k) ==
  IF ParentsOf(m, k) = {} THEN Fields!Unnamed ELSE Fields!FullName(m[CHOOSE p \in ParentsOf(m, k) : TRUE])

\* What a slot of a type counts for.
Served(m, k, s) ==
  LET raw == m[k].fields[s].raw
  IN  IF Up(m, k) \in {<<"System", "Enum">>, <<"System", "ValueType">>} /\ raw >= HeaderSize
        THEN raw - HeaderSize ELSE raw

GoodSlot(m, u, k, s) == s \in DOMAIN m[k].fields /\ m[k].fields[s].raw >= 0 /\ <<k, s>> \notin u

\* g has the fields of k that could be read, of the slots before n.
ReadInto(m, u, g, k, n) ==
  /\ \A x \in DOMAIN g : \E s \in DOMAIN m[k].fields : s < n /\ GoodSlot(m, u, k, s) /\ m[k].fields[s].name = x
  /\ \A s \in DOMAIN m[k].fields : s < n /\ GoodSlot(m, u, k, s) =>
       m[k].fields[s].name \in DOMAIN g /\ g[m[k].fields[s].name] = Served(m, k, s)

Distinct(m) == \A i, j \in DOMAIN m : Fields!FullName(m[i]) = Fields!FullName(m[j]) => i = j

\* The names with a namespace of the first e types that a short one may stand for.
Others(m, e, a) == {Fields!FullName(m[k]) : k \in {j \in 1..e : Fields!ShortName(m[j]) = a}} \ {a}

NamesOK(m, e, t) ==
  /\ t.known = {Fields!FullName(m[k]) : k \in 1..e}
  /\ \A a : a \in t.ambiguous <=> \E x, y \in Others(m, e, a) : x # y
  /\ \A a : a \in DOMAIN t.alias <=> (a \notin t.ambiguous /\ Others(m, e, a) # {})
  /\ \A a \in DOMAIN t.alias : t.alias[a] \in Others(m, e, a)

FieldsOK(m, u, n, f) ==
  /\ DOMAIN f \subseteq {Fields!FullName(m[k]) : k \in 1..n}
  /\ \A k \in 1..n :
       IF Fields!FullName(m[k]) \in DOMAIN f
         THEN ReadInto(m, u, f[Fields!FullName(m[k])], k, Len(m[k].fields) + 1)
         ELSE \A s : ~ GoodSlot(m, u, k, s)

ParentsOK(m, e, p) ==
  /\ DOMAIN p \subseteq {Fields!FullName(m[k]) : k \in 1..e}
  /\ \A k \in 1..e :
       IF Up(m, k) = Fields!Unnamed THEN Fields!FullName(m[k]) \notin DOMAIN p
       ELSE Fields!FullName(m[k]) \in DOMAIN p /\ p[Fields!FullName(m[k])] = Up(m, k)

\* How many types have been entered, of which all but the one at hand are left.
Entered == IF step = "field" THEN at ELSE at - 1

Building == step \in {"type", "field"}

TableShape ==
  table = [fields |-> table.fields, alias |-> table.alias, parent |-> table.parent,
           known |-> table.known, ambiguous |-> table.ambiguous]

BuildInv ==
  /\ types \in Metadata
  /\ step \in {"idle", "type", "field", "resolve", "walk"}
  /\ at \in 1..(Len(types) + 1)
  /\ TableShape
  /\ step \in {"resolve", "walk"} => table.fields # <<>>
  /\ ~ Building /\ table.fields # <<>> => at = Len(types) + 1
  /\ step = "field" =>
       /\ at \in DOMAIN types /\ slot \in Nat \ {0}
       /\ ReadInto(types, unread, classFields, at, slot)
  /\ Building =>
       \A k \in DOMAIN types : \A s \in Nat :
         <<k, s>> \in unread => k < at \/ (step = "field" /\ k = at /\ s < slot)
  /\ Building \/ table.fields # <<>> =>
       /\ NamesOK(types, Entered, table)
       /\ Distinct(types) =>
            FieldsOK(types, unread, at - 1, table.fields) /\ ParentsOK(types, Entered, table.parent)

LEMMA UpIs ==
  ASSUME types \in Metadata, NEW k \in DOMAIN types
  PROVE  /\ Fields!Parents(k) = ParentsOf(types, k)
         /\ Fields!ByvalToFullName(types[k].parent) = Up(types, k)
         /\ \A p \in Fields!Parents(k) : Up(types, k) = Fields!FullName(types[p])
  <1>1. Fields!Parents(k) = ParentsOf(types, k)
    BY DEF Fields!Parents, ParentsOf
  <1>2. CASE ParentsOf(types, k) = {}
    BY <1>1, <1>2, NamesOfTypes DEF Up
  <1>3. CASE ParentsOf(types, k) # {}
    <2> DEFINE c == CHOOSE p \in ParentsOf(types, k) : TRUE
    <2>1. c \in Fields!Parents(k)
      BY <1>1, <1>3
    <2>2. Up(types, k) = Fields!FullName(types[c])
      BY <1>3 DEF Up
    <2> HIDE DEF c
    <2>3. Fields!Parents(k) = {c}
      BY <2>1, ParentOne
    <2>4. QED
      BY <1>1, <2>1, <2>2, <2>3, NamesOfTypes
  <1>4. QED
    BY <1>2, <1>3

LEMMA SlotIs ==
  ASSUME types \in Metadata, NEW k \in DOMAIN types, NEW s \in DOMAIN types[k].fields
  PROVE  /\ types[k].fields[s].raw \in Int /\ types[k].fields[s].name # "" /\ s \in Nat \ {0}
         /\ types[k].fields[s].raw >= 0 <=> ~ (types[k].fields[s].raw < 0)
         /\ DOMAIN types[k].fields = 1..Len(types[k].fields) /\ Len(types[k].fields) \in Nat
         /\ Fields!Adjusted(types[k], types[k].fields[s].raw) = Served(types, k, s)
  <1> DEFINE fs == types[k].fields
             Slots == [name : STRING, raw : Int]
  <1>1. fs \in Seq(Slots)
    BY TypeIs
  <1> HIDE DEF fs, Slots
  <1>2. DOMAIN fs = 1..Len(fs) /\ Len(fs) \in Nat
    BY <1>1
  <1>3. fs[s] \in Slots
    BY <1>1, <1>2 DEF fs
  <1>4. fs[s].raw \in Int
    BY <1>3 DEF Slots
  <1>5. Fields!IsValueType(types[k]) <=> Up(types, k) \in {<<"System", "Enum">>, <<"System", "ValueType">>}
    <2>1. Fields!ByvalToFullName(types[k].parent) = Up(types, k)
      BY UpIs
    <2>2. types[k].interface => Up(types, k) = Fields!Unnamed
      <3>1. ASSUME types[k].interface
            PROVE  Up(types, k) = Fields!Unnamed
        <4>1. types[k].parent < 0 /\ types[k].parent \in Int
          BY <3>1, MetadataFacts, TypeIs
        <4>2. Fields!Parents(k) = {}
          BY <4>1 DEF Fields!Parents
        <4>3. QED
          BY <2>1, <4>2, NamesOfTypes
      <3>2. QED
        BY <3>1
    <2>3. Fields!Unnamed \notin {<<"System", "Enum">>, <<"System", "ValueType">>}
      BY DEF Fields!Unnamed
    <2>4. types[k].interface \in BOOLEAN
      BY TypeIs
    <2>5. QED
      BY <2>1, <2>2, <2>3, <2>4 DEF Fields!IsValueType
  <1>6. fs[s].raw >= 0 <=> ~ (fs[s].raw < 0)
    <2> DEFINE b == fs[s].raw
    <2>1. b \in Int
      BY <1>4
    <2> HIDE DEF b
    <2>2. b >= 0 <=> ~ (b < 0)
      BY <2>1
    <2>3. QED
      BY <2>2 DEF b
  <1>7. s \in Nat \ {0}
    BY <1>2 DEF fs
  <1>8. fs[s].name # ""
    BY MetadataFacts DEF fs
  <1>9. QED
    BY <1>2, <1>4, <1>5, <1>6, <1>7, <1>8, MetadataFacts DEF Fields!Adjusted, Served, fs

LEMMA BuildAtFirst == Fields!Init => BuildInv
  <1> SUFFICES ASSUME Fields!Init
               PROVE  BuildInv
    OBVIOUS
  <1>1. types \in Metadata /\ step = "idle" /\ at = 1 /\ table = Fields!EmptyTable
    BY DEF Fields!Init
  <1>2. TableShape /\ table.fields = <<>>
    BY <1>1 DEF TableShape, Fields!EmptyTable
  <1>3. Len(types) \in Nat
    BY <1>1, TypesLength
  <1>4. QED
    BY <1>1, <1>2, <1>3 DEF BuildInv, Building

\* The names behind a short one, with one type more.
LEMMA OthersMore ==
  ASSUME NEW m, NEW e \in Nat, NEW a
  PROVE  Others(m, e + 1, a) =
           Others(m, e, a) \cup (IF Fields!ShortName(m[e + 1]) = a THEN {Fields!FullName(m[e + 1])} \ {a} ELSE {})
  <1>1. \A j : j \in 1..(e + 1) <=> j \in 1..e \/ j = e + 1
    OBVIOUS
  <1>2. QED
    BY <1>1 DEF Others

LEMMA AliasAdded ==
  ASSUME types \in Metadata, at \in DOMAIN types, TableShape, NamesOK(types, at - 1, table)
  PROVE  LET full == Fields!FullName(types[at])
             w == Fields!WithAlias(Fields!ShortName(types[at]), full)
         IN  /\ w = [fields |-> table.fields, alias |-> w.alias, parent |-> table.parent,
                     known |-> table.known, ambiguous |-> w.ambiguous]
             /\ NamesOK(types, at, [w EXCEPT !.known = @ \cup {full}])
  <1> DEFINE full == Fields!FullName(types[at])
             alias == Fields!ShortName(types[at])
             w == Fields!WithAlias(alias, full)
             O(a) == Others(types, at - 1, a)
             P(a) == Others(types, at, a)
  <1>1. at \in Nat \ {0} /\ at - 1 \in Nat /\ at = (at - 1) + 1
    BY TypeIs
  <1>2. \A a : P(a) = O(a) \cup (IF alias = a THEN {full} \ {a} ELSE {})
    BY <1>1, OthersMore
  <1>3. /\ table.known = {Fields!FullName(types[k]) : k \in 1..(at - 1)}
        /\ \A a : a \in table.ambiguous <=> \E x, y \in O(a) : x # y
        /\ \A a : a \in DOMAIN table.alias <=> (a \notin table.ambiguous /\ O(a) # {})
        /\ \A a \in DOMAIN table.alias : table.alias[a] \in O(a)
    BY DEF NamesOK
  <1>4. alias # Fields!Unnamed
    BY NamesOfTypes
  <1>5. table.known \cup {full} = {Fields!FullName(types[k]) : k \in 1..at}
    <2>1. \A j : j \in 1..at <=> j \in 1..(at - 1) \/ j = at
      BY <1>1
    <2>2. QED
      BY <1>3, <2>1
  <1>6. w = IF alias = full \/ alias = Fields!Unnamed \/ alias \in table.ambiguous THEN table
            ELSE IF ~ (alias \in DOMAIN table.alias) THEN [table EXCEPT !.alias = Fields!With(@, alias, full)]
            ELSE IF table.alias[alias] = full THEN table
            ELSE [table EXCEPT !.alias = Fields!Restrict(@, DOMAIN @ \ {alias}),
                               !.ambiguous = Fields!AmbiguousWith(alias)]
    BY DEF Fields!WithAlias
  <1> HIDE DEF full, alias, w, O, P
  <1>7. /\ w = [fields |-> table.fields, alias |-> w.alias, parent |-> table.parent,
                known |-> table.known, ambiguous |-> w.ambiguous]
        /\ \A a : a \in w.ambiguous <=> \E x, y \in P(a) : x # y
        /\ \A a : a \in DOMAIN w.alias <=> (a \notin w.ambiguous /\ P(a) # {})
        /\ \A a \in DOMAIN w.alias : w.alias[a] \in P(a)
    <2>1. CASE alias = full
      <3>1. w = table
        BY <1>6, <2>1
      <3>2. \A a : P(a) = O(a)
        BY <1>2, <2>1
      <3>3. QED
        BY <1>3, <3>1, <3>2 DEF TableShape
    <2>2. CASE alias # full /\ alias \in table.ambiguous
      <3>1. w = table
        BY <1>6, <2>2
      <3>2. \A a : a # alias => P(a) = O(a)
        BY <1>2
      <3>3. O(alias) \subseteq P(alias)
        BY <1>2
      <3>4. \A a : a \in table.ambiguous <=> \E x, y \in P(a) : x # y
        BY <1>3, <2>2, <3>2, <3>3
      <3>5. QED
        BY <1>3, <2>2, <3>1, <3>2, <3>4 DEF TableShape
    <2>3. CASE alias # full /\ alias \notin table.ambiguous /\ alias \notin DOMAIN table.alias
      <3>1. w = [table EXCEPT !.alias = Fields!With(@, alias, full)]
        BY <1>4, <1>6, <2>3
      <3> DEFINE g == Fields!With(table.alias, alias, full)
      <3>2. /\ w = [fields |-> table.fields, alias |-> w.alias, parent |-> table.parent,
                    known |-> table.known, ambiguous |-> w.ambiguous]
            /\ w.alias = g /\ w.ambiguous = table.ambiguous
        BY <3>1 DEF TableShape
      <3>3. DOMAIN g = DOMAIN table.alias \cup {alias} /\ g[alias] = full /\ \A a \in DOMAIN table.alias : g[a] = table.alias[a]
        BY <2>3 DEF Fields!With
      <3> HIDE DEF g
      <3>4. O(alias) = {} /\ P(alias) = {full} /\ \A a : a # alias => P(a) = O(a)
        BY <1>2, <1>3, <2>3
      <3>5. \A a : a \in table.ambiguous <=> \E x, y \in P(a) : x # y
        BY <1>3, <2>3, <3>4
      <3>6. \A a : a \in DOMAIN g <=> (a \notin table.ambiguous /\ P(a) # {})
        BY <1>3, <2>3, <3>3, <3>4
      <3>7. \A a \in DOMAIN g : g[a] \in P(a)
        BY <1>3, <2>3, <3>3, <3>4
      <3>8. QED
        BY <3>2, <3>5, <3>6, <3>7
    <2>4. CASE alias # full /\ alias \notin table.ambiguous /\ alias \in DOMAIN table.alias /\ table.alias[alias] = full
      <3>1. w = table
        BY <1>4, <1>6, <2>4
      <3>2. full \in O(alias)
        BY <1>3, <2>4
      <3>3. \A a : P(a) = O(a)
        BY <1>2, <3>2
      <3>4. QED
        BY <1>3, <3>1, <3>3 DEF TableShape
    <2>5. CASE alias # full /\ alias \notin table.ambiguous /\ alias \in DOMAIN table.alias /\ table.alias[alias] # full
      <3> DEFINE g == Fields!Restrict(table.alias, DOMAIN table.alias \ {alias})
      <3>1. w = [table EXCEPT !.alias = Fields!Restrict(@, DOMAIN @ \ {alias}), !.ambiguous = Fields!AmbiguousWith(alias)]
        BY <1>4, <1>6, <2>5
      <3>2. /\ w = [fields |-> table.fields, alias |-> w.alias, parent |-> table.parent,
                    known |-> table.known, ambiguous |-> w.ambiguous]
            /\ w.alias = g /\ w.ambiguous = table.ambiguous \cup {alias}
        BY <3>1 DEF TableShape, Fields!AmbiguousWith
      <3>3. DOMAIN g = DOMAIN table.alias \ {alias} /\ \A a \in DOMAIN g : g[a] = table.alias[a]
        BY DEF Fields!Restrict
      <3> HIDE DEF g
      <3>4. table.alias[alias] \in P(alias) /\ full \in P(alias) /\ \A a : a # alias => P(a) = O(a)
        BY <1>2, <1>3, <2>5
      <3>5. \A a : a \in w.ambiguous <=> \E x, y \in P(a) : x # y
        BY <1>3, <2>5, <3>2, <3>4
      <3>6. \A a : a \in DOMAIN g <=> (a \notin w.ambiguous /\ P(a) # {})
        BY <1>3, <2>5, <3>2, <3>3, <3>4
      <3>7. \A a \in DOMAIN g : g[a] \in P(a)
        BY <1>3, <3>3, <3>4
      <3>8. QED
        BY <3>2, <3>5, <3>6, <3>7
    <2>6. QED
      BY <2>1, <2>2, <2>3, <2>4, <2>5
  <1>8. NamesOK(types, at, [w EXCEPT !.known = @ \cup {full}])
    <2> DEFINE t == [w EXCEPT !.known = @ \cup {full}]
    <2>1. t.known = {Fields!FullName(types[k]) : k \in 1..at} /\ t.alias = w.alias /\ t.ambiguous = w.ambiguous
      BY <1>5, <1>7
    <2> HIDE DEF t
    <2>2. QED
      BY <1>7, <2>1 DEF NamesOK, P, t
  <1>9. QED
    BY <1>7, <1>8 DEF w, full, alias

LEMMA EnterTypeKeeps ==
  ASSUME BuildInv, Fields!EnterType
  PROVE  BuildInv'
  <1> DEFINE full == Fields!FullName(types[at])
             alias == Fields!ShortName(types[at])
             w == Fields!WithAlias(alias, full)
             up == Up(types, at)
             parents == IF up = Fields!Unnamed THEN w.parent ELSE Fields!Emplace(w.parent, full, up)
             u == unread
  <1>1. /\ step = "type" /\ at \in DOMAIN types /\ types' = types /\ types \in Metadata
        /\ TableShape /\ NamesOK(types, at - 1, table)
        /\ Distinct(types) => FieldsOK(types, unread, at - 1, table.fields) /\ ParentsOK(types, at - 1, table.parent)
        /\ \A k \in DOMAIN types : \A s \in Nat : <<k, s>> \in unread => k < at
    BY DEF Fields!EnterType, BuildInv, Building, Entered
  <1>2. /\ DOMAIN types = 1..Len(types) /\ Len(types) \in Nat /\ at \in Nat \ {0} /\ at <= Len(types)
        /\ full # Fields!Unnamed /\ Fields!ByvalToFullName(types[at].parent) = up
    BY <1>1, TypesLength, NamesOfTypes, UpIs
  <1>3. /\ table' = [w EXCEPT !.known = @ \cup {full},
                              !.parent = IF up = Fields!Unnamed THEN @ ELSE Fields!Emplace(@, full, up)]
        /\ slot' = 1 /\ classFields' = <<>>
        /\ \/ step' = "field" /\ UNCHANGED <<at, unread>>
           \/ at' = at + 1 /\ unread' = unread \cup ({at} \X DOMAIN types[at].fields) /\ UNCHANGED step
    BY <1>2 DEF Fields!EnterType
  <1>4. /\ w = [fields |-> table.fields, alias |-> w.alias, parent |-> table.parent,
                known |-> table.known, ambiguous |-> w.ambiguous]
        /\ NamesOK(types, at, [w EXCEPT !.known = @ \cup {full}])
    BY <1>1, AliasAdded
  <1> HIDE DEF w, up, full, alias
  <1>50. w.parent = table.parent /\ w.known = table.known /\ w.fields = table.fields
    BY <1>4
  <1>51. table' = [w EXCEPT !.known = @ \cup {full}, !.parent = parents]
    BY <1>3
  <1> HIDE DEF parents
  <1>5. /\ table' = [fields |-> table.fields, alias |-> w.alias, parent |-> parents,
                     known |-> table.known \cup {full}, ambiguous |-> w.ambiguous]
        /\ w.parent = table.parent /\ w.known = table.known /\ w.fields = table.fields
    BY <1>4, <1>50, <1>51
  <1>6. TableShape'
    BY <1>5 DEF TableShape
  <1>7. NamesOK(types, at, table')
    <2>1. [w EXCEPT !.known = @ \cup {full}] =
            [fields |-> table.fields, alias |-> w.alias, parent |-> table.parent,
             known |-> table.known \cup {full}, ambiguous |-> w.ambiguous]
      BY <1>4, <1>5
    <2>2. QED
      BY <1>4, <1>5, <2>1 DEF NamesOK
  <1>8. \A j : j \in 1..at <=> j \in 1..(at - 1) \/ j = at
    BY <1>2
  <1>9. ASSUME Distinct(types)
        PROVE  ParentsOK(types, at, parents)
    <2>1. ParentsOK(types, at - 1, table.parent)
      BY <1>1, <1>9
    <2>2. \A k \in 1..(at - 1) : k \in DOMAIN types /\ k # at /\ Fields!FullName(types[k]) # full
      BY <1>2, <1>9 DEF Distinct, full
    <2>3. full \notin DOMAIN table.parent
      BY <2>1, <2>2 DEF ParentsOK
    <2>4. CASE up = Fields!Unnamed
      BY <1>5, <1>8, <2>1, <2>3, <2>4 DEF ParentsOK, parents, up, full
    <2>5. CASE up # Fields!Unnamed
      <3>1. /\ DOMAIN parents = DOMAIN table.parent \cup {full} /\ parents[full] = up
            /\ \A x \in DOMAIN table.parent : parents[x] = table.parent[x]
        BY <1>5, <2>3, <2>5 DEF parents, Fields!Emplace, Fields!With
      <3>2. \A k \in 1..at : Fields!FullName(types[k]) = full => k = at
        BY <1>8, <2>2
      <3>3. DOMAIN parents \subseteq {Fields!FullName(types[k]) : k \in 1..at}
        BY <1>8, <2>1, <3>1 DEF ParentsOK, full
      <3>4. ASSUME NEW k \in 1..at
            PROVE  IF Up(types, k) = Fields!Unnamed THEN Fields!FullName(types[k]) \notin DOMAIN parents
                   ELSE Fields!FullName(types[k]) \in DOMAIN parents /\ parents[Fields!FullName(types[k])] = Up(types, k)
        <4>1. CASE k = at
          BY <2>5, <3>1, <4>1 DEF full, up
        <4>2. CASE k # at
          BY <1>8, <2>1, <2>2, <3>1, <4>2 DEF ParentsOK
        <4>3. QED
          BY <4>1, <4>2
      <3>5. QED
        BY <3>3, <3>4 DEF ParentsOK
    <2>6. QED
      BY <2>4, <2>5
  <1>10. CASE step' = "field" /\ UNCHANGED <<at, unread>>
    <2>1. ReadInto(types, unread, classFields', at, slot')
      <3>1. DOMAIN classFields' = {} /\ slot' = 1
        BY <1>3
      <3>2. \A s \in DOMAIN types[at].fields : ~ (s < 1)
        <4>1. TAKE s \in DOMAIN types[at].fields
        <4>2. s \in Nat \ {0}
          BY <1>1, SlotIs
        <4>3. QED
          BY <4>2
      <3>3. QED
        BY <3>1, <3>2 DEF ReadInto
    <2>2. Entered' = at
      BY <1>10 DEF Entered
    <2>3. Distinct(types) => FieldsOK(types, unread, at - 1, table'.fields) /\ ParentsOK(types, at, table'.parent)
      BY <1>1, <1>5, <1>9
    <2>4. QED
      BY <1>1, <1>2, <1>3, <1>5, <1>6, <1>7, <1>10, <2>1, <2>2, <2>3 DEF BuildInv, Building
  <1>11. CASE at' = at + 1 /\ unread' = unread \cup ({at} \X DOMAIN types[at].fields) /\ UNCHANGED step
    <2>1. Entered' = at /\ at' - 1 = at /\ at' \in 1..(Len(types) + 1)
      BY <1>1, <1>2, <1>11 DEF Entered
    <2>2. ASSUME Distinct(types)
          PROVE  FieldsOK(types, unread', at, table.fields)
      <3>1. FieldsOK(types, unread, at - 1, table.fields)
        BY <1>1, <2>2
      <3>2. \A k \in 1..(at - 1) : k \in DOMAIN types /\ k # at /\ Fields!FullName(types[k]) # full
        BY <1>2, <2>2 DEF Distinct, full
      <3>3. full \notin DOMAIN table.fields
        BY <3>1, <3>2 DEF FieldsOK
      <3>4. \A s : ~ GoodSlot(types, unread', at, s)
        BY <1>11 DEF GoodSlot
      <3>5. \A k, s : k # at => (GoodSlot(types, unread', k, s) <=> GoodSlot(types, unread, k, s))
        BY <1>11 DEF GoodSlot
      <3>6. \A f, k, n : k # at /\ ReadInto(types, unread, f, k, n) => ReadInto(types, unread', f, k, n)
        BY <3>5 DEF ReadInto
      <3>7. ASSUME NEW k \in 1..at
            PROVE  IF Fields!FullName(types[k]) \in DOMAIN table.fields
                     THEN ReadInto(types, unread', table.fields[Fields!FullName(types[k])], k, Len(types[k].fields) + 1)
                     ELSE \A s : ~ GoodSlot(types, unread', k, s)
        <4>1. CASE k = at
          BY <3>3, <3>4, <4>1 DEF full
        <4>2. CASE k # at
          BY <1>8, <3>1, <3>5, <3>6, <4>2 DEF FieldsOK
        <4>3. QED
          BY <4>1, <4>2
      <3>8. QED
        BY <1>8, <3>1, <3>7 DEF FieldsOK
    <2>3. Distinct(types) => FieldsOK(types, unread', at' - 1, table'.fields) /\ ParentsOK(types, at, table'.parent)
      BY <1>5, <1>9, <2>1, <2>2
    <2>4. \A k \in DOMAIN types : \A s \in Nat : <<k, s>> \in unread' => k < at'
      <3>1. SUFFICES ASSUME NEW k \in DOMAIN types, NEW s \in Nat, <<k, s>> \in unread'
                     PROVE  k < at'
        OBVIOUS
      <3>2. k < at \/ k = at
        BY <1>1, <1>11, <3>1
      <3>3. k \in Nat
        BY <1>2
      <3>4. QED
        BY <1>2, <1>11, <3>2, <3>3
    <2>5. QED
      BY <1>1, <1>6, <1>7, <1>11, <2>1, <2>3, <2>4 DEF BuildInv, Building
  <1>12. QED
    BY <1>3, <1>10, <1>11

LEMMA ReadFieldKeeps ==
  ASSUME BuildInv, Fields!ReadField
  PROVE  BuildInv'
  <1> DEFINE f == types[at].fields[slot]
  <1>1. /\ step = "field" /\ at \in DOMAIN types /\ types \in Metadata
        /\ slot \in DOMAIN types[at].fields /\ slot \in Nat \ {0} /\ slot' = slot + 1
        /\ ReadInto(types, unread, classFields, at, slot)
        /\ NamesOK(types, at, table)
        /\ Distinct(types) => FieldsOK(types, unread, at - 1, table.fields) /\ ParentsOK(types, at, table.parent)
        /\ \A k \in DOMAIN types : \A s \in Nat : <<k, s>> \in unread => k < at \/ (k = at /\ s < slot)
        /\ UNCHANGED <<types, step, at, table>>
    BY DEF Fields!ReadField, BuildInv, Building, Entered
  <1>2. /\ f.raw \in Int /\ f.name # "" /\ Fields!Adjusted(types[at], f.raw) = Served(types, at, slot)
        /\ f.raw >= 0 <=> ~ (f.raw < 0)
        /\ \A s \in DOMAIN types[at].fields : s \in Nat
        /\ \A s, t \in DOMAIN types[at].fields : types[at].fields[s].name = types[at].fields[t].name => s = t
    <2>1. /\ f.raw \in Int /\ f.name # "" /\ Fields!Adjusted(types[at], f.raw) = Served(types, at, slot)
          /\ f.raw >= 0 <=> ~ (f.raw < 0)
      BY <1>1, SlotIs
    <2>2. \A s \in DOMAIN types[at].fields : s \in Nat
      BY <1>1, SlotIs
    <2>3. \A s, t \in DOMAIN types[at].fields : types[at].fields[s].name = types[at].fields[t].name => s = t
      BY <1>1, MetadataFacts
    <2>4. QED
      BY <2>1, <2>2, <2>3
  <1>3. \/ unread' = unread \cup {<<at, slot>>} /\ UNCHANGED classFields
        \/ /\ classFields' = IF f.raw < 0 THEN classFields ELSE Fields!With(classFields, f.name, Served(types, at, slot))
           /\ UNCHANGED unread
    BY <1>2 DEF Fields!ReadField
  <1> HIDE DEF f
  <1>4. \A s \in DOMAIN types[at].fields : (s < slot + 1 <=> s < slot \/ s = slot) /\ (s < slot => s # slot)
    <2>1. TAKE s \in DOMAIN types[at].fields
    <2>2. s \in Nat /\ slot \in Nat
      BY <1>1, <1>2
    <2>3. QED
      BY <2>2
  <1>5. ReadInto(types, unread', classFields', at, slot + 1)
    <2>1. CASE unread' = unread \cup {<<at, slot>>} /\ UNCHANGED classFields
      <3>1. \A s : GoodSlot(types, unread', at, s) <=> GoodSlot(types, unread, at, s) /\ s # slot
        BY <2>1 DEF GoodSlot
      <3>2. QED
        BY <1>1, <1>4, <2>1, <3>1 DEF ReadInto
    <2>2. CASE f.raw < 0 /\ UNCHANGED <<classFields, unread>>
      <3>1. ~ GoodSlot(types, unread, at, slot)
        BY <1>2, <2>2 DEF GoodSlot, f
      <3>2. QED
        BY <1>1, <1>4, <2>2, <3>1 DEF ReadInto
    <2>3. CASE /\ ~ (f.raw < 0) /\ UNCHANGED unread
               /\ classFields' = Fields!With(classFields, f.name, Served(types, at, slot))
      <3>1. /\ DOMAIN classFields' = DOMAIN classFields \cup {f.name} /\ classFields'[f.name] = Served(types, at, slot)
            /\ \A x \in DOMAIN classFields : x # f.name => classFields'[x] = classFields[x]
        BY <2>3 DEF Fields!With
      <3>2. GoodSlot(types, unread, at, slot)
        <4>1. <<at, slot>> \notin unread
          <5>1. ~ (at < at) /\ ~ (slot < slot) /\ slot \in Nat
            BY <1>1, TypeIs
          <5>2. QED
            BY <1>1, <5>1
        <4>2. f.raw >= 0
          BY <1>2, <2>3
        <4>3. QED
          BY <1>1, <4>1, <4>2 DEF GoodSlot, f
      <3>3. ASSUME NEW x \in DOMAIN classFields'
            PROVE  \E s \in DOMAIN types[at].fields :
                     s < slot + 1 /\ GoodSlot(types, unread, at, s) /\ types[at].fields[s].name = x
        <4>1. CASE x = f.name
          BY <1>1, <1>4, <3>2, <4>1 DEF f
        <4>2. CASE x # f.name
          BY <1>1, <1>4, <3>1, <4>2 DEF ReadInto
        <4>3. QED
          BY <4>1, <4>2
      <3>4. ASSUME NEW s \in DOMAIN types[at].fields, s < slot + 1, GoodSlot(types, unread, at, s)
            PROVE  /\ types[at].fields[s].name \in DOMAIN classFields'
                   /\ classFields'[types[at].fields[s].name] = Served(types, at, s)
        <4>1. CASE s = slot
          BY <3>1, <4>1 DEF f
        <4>2. CASE s # slot
          <5>1. s < slot /\ types[at].fields[s].name # f.name
            BY <1>1, <1>2, <1>4, <3>4, <4>2 DEF f
          <5>2. QED
            BY <1>1, <3>1, <3>4, <5>1 DEF ReadInto
        <4>3. QED
          BY <4>1, <4>2
      <3>5. QED
        BY <2>3, <3>3, <3>4 DEF ReadInto
    <2>4. QED
      BY <1>3, <2>1, <2>2, <2>3
  <1>6. ASSUME Distinct(types)
        PROVE  FieldsOK(types, unread', at - 1, table.fields)
    <2>1. FieldsOK(types, unread, at - 1, table.fields) /\ at \in Nat \ {0}
      BY <1>1, <1>6, TypeIs
    <2>2. \A k \in 1..(at - 1) : \A s : GoodSlot(types, unread', k, s) <=> GoodSlot(types, unread, k, s)
      <3>1. \A k \in 1..(at - 1) : k # at
        BY <2>1
      <3>2. QED
        BY <1>3, <3>1 DEF GoodSlot
    <2>3. \A k \in 1..(at - 1) : \A g, n : ReadInto(types, unread, g, k, n) => ReadInto(types, unread', g, k, n)
      BY <2>2 DEF ReadInto
    <2>4. QED
      BY <2>1, <2>2, <2>3 DEF FieldsOK
  <1>7. \A k \in DOMAIN types : \A s \in Nat : <<k, s>> \in unread' => k < at \/ (k = at /\ s < slot + 1)
    <2>1. \A s \in Nat : s < slot => s < slot + 1
      BY <1>1
    <2>2. slot < slot + 1
      BY <1>1
    <2>3. QED
      BY <1>1, <1>3, <2>1, <2>2
  <1>8. TableShape' /\ Entered' = at /\ slot' \in Nat \ {0} /\ at \in 1..(Len(types) + 1)
    BY <1>1 DEF BuildInv, TableShape, Entered
  <1>9. QED
    BY <1>1, <1>5, <1>6, <1>7, <1>8 DEF BuildInv, Building

LEMMA LeaveTypeKeeps ==
  ASSUME BuildInv, Fields!LeaveType
  PROVE  BuildInv'
  <1> DEFINE full == Fields!FullName(types[at])
             g == IF classFields = <<>> THEN table.fields ELSE Fields!Emplace(table.fields, full, classFields)
  <1>1. /\ step = "field" /\ at \in DOMAIN types /\ types \in Metadata
        /\ slot \notin DOMAIN types[at].fields /\ slot \in Nat \ {0}
        /\ ReadInto(types, unread, classFields, at, slot) /\ TableShape
        /\ NamesOK(types, at, table)
        /\ Distinct(types) => FieldsOK(types, unread, at - 1, table.fields) /\ ParentsOK(types, at, table.parent)
        /\ \A k \in DOMAIN types : \A s \in Nat : <<k, s>> \in unread => k < at \/ k = at
        /\ table' = IF classFields = <<>> THEN table ELSE [table EXCEPT !.fields = Fields!Emplace(@, full, classFields)]
        /\ at' = at + 1 /\ step' = "type" /\ UNCHANGED <<types, slot, classFields, unread>>
    BY DEF Fields!LeaveType, BuildInv, Building, Entered
  <1>2. /\ DOMAIN types = 1..Len(types) /\ Len(types) \in Nat /\ at \in Nat \ {0} /\ at <= Len(types)
        /\ types[at].fields \in Seq([name : STRING, raw : Int])
    BY <1>1, TypesLength, TypeIs
  <1>3. /\ table' = [fields |-> g, alias |-> table.alias, parent |-> table.parent,
                     known |-> table.known, ambiguous |-> table.ambiguous]
    BY <1>1 DEF TableShape
  <1> HIDE DEF full, g
  <1>4. TableShape' /\ table'.fields = g /\ table'.parent = table.parent
    BY <1>3 DEF TableShape
  <1>5. NamesOK(types, at, table')
    BY <1>1, <1>3 DEF NamesOK
  <1>6. \A j : j \in 1..at <=> j \in 1..(at - 1) \/ j = at
    BY <1>2
  <1>7. Len(types[at].fields) + 1 \in Nat /\ \A s \in DOMAIN types[at].fields : s < slot /\ s < Len(types[at].fields) + 1
    <2> DEFINE fs == types[at].fields
               Slots == [name : STRING, raw : Int]
    <2>1. fs \in Seq(Slots) /\ slot \notin DOMAIN fs
      BY <1>1, <1>2
    <2> HIDE DEF fs, Slots
    <2>2. DOMAIN fs = 1..Len(fs) /\ Len(fs) \in Nat
      BY <2>1
    <2>3. slot > Len(fs)
      BY <1>1, <2>1, <2>2
    <2>4. Len(fs) + 1 \in Nat /\ \A s \in DOMAIN fs : s < slot /\ s < Len(fs) + 1
      BY <1>1, <2>2, <2>3
    <2>5. QED
      BY <2>4 DEF fs
  <1>8. ReadInto(types, unread, classFields, at, Len(types[at].fields) + 1)
    BY <1>1, <1>7 DEF ReadInto
  <1>9. ASSUME Distinct(types)
        PROVE  FieldsOK(types, unread, at, g)
    <2>1. FieldsOK(types, unread, at - 1, table.fields)
      BY <1>1, <1>9
    <2>2. \A k \in 1..(at - 1) : k \in DOMAIN types /\ k # at /\ Fields!FullName(types[k]) # full
      BY <1>2, <1>9 DEF Distinct, full
    <2>3. full \notin DOMAIN table.fields
      BY <2>1, <2>2 DEF FieldsOK
    <2>4. CASE classFields = <<>>
      <3>1. DOMAIN classFields = {} /\ g = table.fields
        BY <2>4 DEF g
      <3>2. \A s : ~ GoodSlot(types, unread, at, s)
        BY <1>7, <1>8, <3>1 DEF ReadInto, GoodSlot
      <3>3. QED
        BY <1>6, <2>1, <2>3, <3>1, <3>2 DEF FieldsOK, full
    <2>5. CASE classFields # <<>>
      <3>1. /\ DOMAIN g = DOMAIN table.fields \cup {full} /\ g[full] = classFields
            /\ \A x \in DOMAIN table.fields : g[x] = table.fields[x]
        BY <2>3, <2>5 DEF g, Fields!Emplace, Fields!With
      <3>2. DOMAIN g \subseteq {Fields!FullName(types[k]) : k \in 1..at}
        BY <1>6, <2>1, <3>1 DEF FieldsOK, full
      <3>3. ASSUME NEW k \in 1..at
            PROVE  IF Fields!FullName(types[k]) \in DOMAIN g
                     THEN ReadInto(types, unread, g[Fields!FullName(types[k])], k, Len(types[k].fields) + 1)
                     ELSE \A s : ~ GoodSlot(types, unread, k, s)
        <4>1. CASE k = at
          BY <1>8, <3>1, <4>1 DEF full
        <4>2. CASE k # at
          BY <1>6, <2>1, <2>2, <3>1, <4>2 DEF FieldsOK
        <4>3. QED
          BY <4>1, <4>2
      <3>4. QED
        BY <3>2, <3>3 DEF FieldsOK
    <2>6. QED
      BY <2>4, <2>5
  <1>10. \A k \in DOMAIN types : \A s \in Nat : <<k, s>> \in unread => k < at + 1
    <2>1. \A k \in DOMAIN types : k < at \/ k = at => k < at + 1
      BY <1>2
    <2>2. QED
      BY <1>1, <2>1
  <1>11. Entered' = at /\ at' - 1 = at /\ at' \in 1..(Len(types) + 1)
    BY <1>1, <1>2 DEF Entered
  <1>12. QED
    BY <1>1, <1>4, <1>5, <1>9, <1>10, <1>11 DEF BuildInv, Building

LEMMA EmptyTableOK ==
  ASSUME types \in Metadata
  PROVE  /\ NamesOK(types, 0, Fields!EmptyTable)
         /\ FieldsOK(types, {}, 0, Fields!EmptyTable.fields) /\ ParentsOK(types, 0, Fields!EmptyTable.parent)
  <1> DEFINE t == Fields!EmptyTable
  <1>1. /\ t.known = {} /\ t.ambiguous = {} /\ t.fields = <<>> /\ t.parent = <<>> /\ t.alias = <<>>
        /\ DOMAIN t.fields = {} /\ DOMAIN t.parent = {} /\ DOMAIN t.alias = {}
    BY DEF Fields!EmptyTable
  <1> HIDE DEF t
  <1>2. 1..0 = {} /\ \A a : Others(types, 0, a) = {}
    BY DEF Others
  <1>3. NamesOK(types, 0, t)
    BY <1>1, <1>2 DEF NamesOK
  <1>4. FieldsOK(types, {}, 0, t.fields) /\ ParentsOK(types, 0, t.parent)
    BY <1>1, <1>2 DEF FieldsOK, ParentsOK
  <1>5. QED
    BY <1>3, <1>4 DEF t

LEMMA BeginKeeps ==
  ASSUME BuildInv, Fields!TryGetFieldOffset
  PROVE  BuildInv'
  <1>1. step = "idle" /\ types' = types /\ types \in Metadata /\ TableShape
    BY DEF Fields!TryGetFieldOffset, BuildInv
  <1>2. CASE table.fields # <<>>
    <2>1. step' = "resolve" /\ UNCHANGED <<at, slot, classFields, table, unread>>
      BY <1>2 DEF Fields!TryGetFieldOffset, Fields!buildVars
    <2>2. Entered' = Entered /\ ~ Building /\ ~ Building'
      BY <1>1, <2>1 DEF Entered, Building
    <2>3. QED
      BY <1>1, <1>2, <2>1, <2>2 DEF BuildInv, TableShape
  <1>3. CASE table.fields = <<>>
    <2>1. step' = "type" /\ at' = 1 /\ table' = Fields!EmptyTable /\ unread' = {}
      BY <1>3 DEF Fields!TryGetFieldOffset
    <2>2. Entered' = 0 /\ at' - 1 = 0
      BY <2>1 DEF Entered
    <2>3. TableShape'
      BY <2>1 DEF TableShape, Fields!EmptyTable
    <2>4. at' \in 1..(Len(types') + 1)
      BY <1>1, <2>1, TypesLength
    <2>5. QED
      BY <1>1, <2>1, <2>2, <2>3, <2>4, EmptyTableOK DEF BuildInv, Building
  <1>4. QED
    BY <1>2, <1>3

LEMMA TableBuiltKeeps ==
  ASSUME BuildInv, Fields!TableBuilt
  PROVE  BuildInv'
  <1>1. /\ step = "type" /\ at \notin DOMAIN types /\ UNCHANGED <<types, at, slot, classFields, unread>>
        /\ types \in Metadata /\ TableShape /\ at \in 1..(Len(types) + 1)
    BY DEF Fields!TableBuilt, BuildInv
  <1>2. at = Len(types) + 1
    BY <1>1, TypesLength
  <1>3. CASE table.fields = <<>>
    <2>1. table' = Fields!EmptyTable /\ step' = "idle"
      BY <1>3 DEF Fields!TableBuilt
    <2>2. TableShape' /\ table'.fields = <<>>
      BY <2>1 DEF TableShape, Fields!EmptyTable
    <2>3. QED
      BY <1>1, <2>1, <2>2 DEF BuildInv, Building
  <1>4. CASE table.fields # <<>>
    <2>1. table' = table /\ step' = "resolve"
      BY <1>4 DEF Fields!TableBuilt
    <2>2. Entered' = Entered
      BY <1>1, <2>1 DEF Entered
    <2>3. QED
      BY <1>1, <1>2, <1>4, <2>1, <2>2 DEF BuildInv, Building, TableShape
  <1>5. QED
    BY <1>3, <1>4

LEMMA WalkKeepsTable ==
  ASSUME BuildInv, UNCHANGED <<types, at, slot, classFields, table, unread>>,
         step \in {"idle", "resolve", "walk"}, step' \in {"idle", "walk"}, step # "idle" \/ UNCHANGED step
  PROVE  BuildInv'
  <1>1. Entered' = Entered /\ ~ Building /\ ~ Building'
    BY DEF Entered, Building
  <1>2. QED
    BY <1>1 DEF BuildInv, TableShape

LEMMA BuildKept ==
  ASSUME BuildInv, Fields!Next
  PROVE  BuildInv'
  <1>1. CASE Fields!TryResolveFullTypeName \/ Fields!VisitType
    <2>1. /\ UNCHANGED <<types, at, slot, classFields, table, unread>>
          /\ step \in {"resolve", "walk"} /\ step' \in {"idle", "walk"}
      BY <1>1 DEF Fields!TryResolveFullTypeName, Fields!VisitType, Fields!buildVars
    <2>2. QED
      BY <2>1, WalkKeepsTable
  <1>2. QED
    BY <1>1, BeginKeeps, EnterTypeKeeps, ReadFieldKeeps, LeaveTypeKeeps, TableBuiltKeeps DEF Fields!Next

(***************************************************************************)
(* The search in the table.                                                *)
(***************************************************************************)
Resolvable == asked[1] \in table.known \/ asked[1] \in DOMAIN table.alias

Resolved == IF asked[1] \in table.known THEN asked[1] ELSE table.alias[asked[1]]

\* The walk has looked at no type twice, and first at the one the name stands for.
WalkInv ==
  /\ path \in Seq(visited)
  /\ \A j, k \in 1..Len(path) : path[j] = path[k] => j = k
  /\ visited # {} => path # <<>>
  /\ Building \/ step = "resolve" => path = <<>> /\ visited = {} /\ offset = Fields!NoOffset
  /\ step = "walk" =>
       /\ Resolvable /\ offset = Fields!NoOffset
       /\ IF path = <<>> THEN current = Resolved ELSE path[1] = Resolved
  /\ step = "idle" /\ asked # <<>> /\ table.fields # <<>> =>
       IF Resolvable THEN path # <<>> /\ path[1] = Resolved ELSE path = <<>>

LEMMA WalkAtFirst == Fields!Init => WalkInv
  BY DEF Fields!Init, WalkInv, Building

LEMMA VisitTypeKeeps ==
  ASSUME WalkInv, Fields!VisitType
  PROVE  WalkInv'
  <1>1. /\ step = "walk" /\ step' \in {"walk", "idle"} /\ UNCHANGED <<table, asked>>
        /\ Resolvable /\ offset = Fields!NoOffset
        /\ IF path = <<>> THEN current = Resolved ELSE path[1] = Resolved
        /\ path \in Seq(visited) /\ (visited # {} => path # <<>>) /\ Len(path) \in Nat
        /\ \A j, k \in 1..Len(path) : path[j] = path[k] => j = k
    BY DEF Fields!VisitType, Fields!buildVars, WalkInv
  <1>2. Resolvable' /\ Resolved' = Resolved /\ ~ Building'
    BY <1>1 DEF Resolvable, Resolved, Building
  <1>3. CASE current \in visited
    <2>1. step' = "idle" /\ UNCHANGED <<visited, path, offset, current>>
      BY <1>3 DEF Fields!VisitType, Fields!NotVisited
    <2>2. QED
      BY <1>1, <1>2, <1>3, <2>1 DEF WalkInv
  <1>4. CASE current \notin visited
    <2>1. visited' = visited \cup {current} /\ path' = Append(path, current)
      BY <1>4 DEF Fields!VisitType, Fields!NotVisited
    <2>2. path \in Seq(visited') /\ current \in visited' /\ \A j \in 1..Len(path) : path[j] \in visited
      BY <1>1, <2>1
    <2>3. /\ path' \in Seq(visited') /\ Len(path') = Len(path) + 1
          /\ path'[Len(path) + 1] = current /\ \A j \in 1..Len(path) : path'[j] = path[j]
      BY <1>1, <2>1, <2>2
    <2>4. \A j \in 1..Len(path') : j = Len(path) + 1 \/ j \in 1..Len(path)
      BY <1>1, <2>3
    <2>5. \A j, k \in 1..Len(path') : path'[j] = path'[k] => j = k
      BY <1>1, <1>4, <2>2, <2>3, <2>4
    <2>6. path' # <<>> /\ path'[1] = Resolved
      <3>1. CASE path = <<>>
        BY <1>1, <2>3, <3>1
      <3>2. CASE path # <<>>
        <4>1. 1 \in 1..Len(path)
          BY <1>1, <3>2, EmptySeq
        <4>2. QED
          BY <1>1, <2>3, <3>2, <4>1
      <3>3. QED
        BY <3>1, <3>2
    <2>7. step' = "walk" => offset' = offset
      BY <1>4 DEF Fields!VisitType, Fields!NotVisited
    <2>8. QED
      BY <1>1, <1>2, <2>3, <2>5, <2>6, <2>7 DEF WalkInv
  <1>5. QED
    BY <1>3, <1>4

LEMMA WalkKept ==
  ASSUME BuildInv, WalkInv, Fields!Next
  PROVE  WalkInv'
  <1>1. CASE Fields!TryGetFieldOffset
    <2>1. /\ offset' = Fields!NoOffset /\ visited' = {} /\ path' = <<>> /\ step' \in {"resolve", "type"}
      BY <1>1 DEF Fields!TryGetFieldOffset
    <2>2. path' \in Seq(visited') /\ Len(path') = 0
      BY <2>1
    <2>3. QED
      BY <2>1, <2>2 DEF WalkInv
  <1>2. CASE Fields!EnterType \/ Fields!ReadField \/ Fields!LeaveType
    <2>1. Building /\ Building' /\ step' \in {"type", "field"} /\ UNCHANGED <<asked, current, visited, offset, path>>
      BY <1>2 DEF Fields!EnterType, Fields!ReadField, Fields!LeaveType, Fields!walkVars, Building
    <2>2. QED
      BY <2>1 DEF WalkInv
  <1>3. CASE Fields!TableBuilt
    <2>1. /\ Building /\ UNCHANGED <<asked, current, visited, offset, path>>
          /\ step' \in {"idle", "resolve"} /\ (step' = "idle" => table' = Fields!EmptyTable)
      BY <1>3 DEF Fields!TableBuilt, Fields!walkVars, Building
    <2>2. Fields!EmptyTable.fields = <<>>
      BY DEF Fields!EmptyTable
    <2>3. QED
      BY <2>1, <2>2 DEF WalkInv
  <1>4. CASE Fields!TryResolveFullTypeName
    <2>1. /\ step = "resolve" /\ UNCHANGED <<table, asked, visited, offset, path>>
          /\ IF Resolvable THEN current' = Resolved /\ step' = "walk" ELSE step' = "idle"
      BY <1>4 DEF Fields!TryResolveFullTypeName, Fields!buildVars, Resolvable, Resolved
    <2>2. (Resolvable' <=> Resolvable) /\ Resolved' = Resolved
      BY <2>1 DEF Resolvable, Resolved
    <2>3. path = <<>> /\ visited = {} /\ offset = Fields!NoOffset
      BY <2>1 DEF WalkInv
    <2>4. QED
      BY <2>1, <2>2, <2>3 DEF WalkInv, Building
  <1>5. QED
    BY <1>1, <1>2, <1>3, <1>4, VisitTypeKeeps DEF Fields!Next

(***************************************************************************)
(* The nearest type that declares the field.                               *)
(***************************************************************************)
ChainOf(m, i) ==
  {j \in DOMAIN m : \A s \in SUBSET DOMAIN m : (i \in s /\ \A k \in s : ParentsOf(m, k) \subseteq s) => j \in s}

Declares(m, j, f) == \E s \in DOMAIN m[j].fields : m[j].fields[s].name = f /\ m[j].fields[s].raw >= 0

DeclaringOf(m, i, f) == {j \in ChainOf(m, i) : Declares(m, j, f)}

\* Every slot of that name in the chain of i has been read.
AllRead(m, u, i, f) == \A j \in ChainOf(m, i) : \A s \in DOMAIN m[j].fields : <<j, s>> \in u => m[j].fields[s].name # f

IsNearest(m, i, f, o) ==
  IF DeclaringOf(m, i, f) = {} THEN o = Fields!NoOffset
  ELSE \E j \in DeclaringOf(m, i, f) :
         /\ DeclaringOf(m, i, f) \subseteq ChainOf(m, j)
         /\ \E s \in DOMAIN m[j].fields :
              m[j].fields[s].name = f /\ m[j].fields[s].raw >= 0 /\ o = Served(m, j, s)

\* The walk from i has come to j: it has visited those in between, of which none
\* declares the field.
CameTo(m, i, f, j, c, v) ==
  /\ c = Fields!FullName(m[j])
  /\ v = {Fields!FullName(m[k]) : k \in ChainOf(m, i) \ ChainOf(m, j)}
  /\ DeclaringOf(m, i, f) \subseteq ChainOf(m, j)

Concerned(m, u, q, i) == i \in DOMAIN m /\ Fields!FullName(m[i]) = q[1] /\ AllRead(m, u, i, q[2])

NearestInv ==
  Distinct(types) =>
    \A i \in DOMAIN types : Concerned(types, unread, asked, i) =>
      /\ step = "walk" => \E j \in ChainOf(types, i) : CameTo(types, i, asked[2], j, current, visited)
      /\ step = "idle" /\ asked # <<>> /\ table.fields # <<>> => IsNearest(types, i, asked[2], offset)

LEMMA ChainOfTypes ==
  ASSUME NEW i
  PROVE  Fields!Chain(i) = ChainOf(types, i)
  <1>1. \A k : Fields!Parents(k) = ParentsOf(types, k)
    BY DEF Fields!Parents, ParentsOf
  <1>2. QED
    BY <1>1 DEF Fields!Chain, ChainOf

LEMMA ParentOther ==
  ASSUME types \in Metadata, NEW j \in DOMAIN types, NEW p \in Fields!Parents(j)
  PROVE  p # j
  <1>1. PICK d \in [DOMAIN types -> 0..Len(types)] : Depths(types, d)
    BY MetadataFacts
  <1>2. p \in DOMAIN types /\ d[j] = d[p] + 1
    BY <1>1 DEF Fields!Parents, Depths
  <1>3. d[j] \in Nat
    BY <1>1, TypesLength
  <1>4. QED
    BY <1>2, <1>3

LEMMA ResolveNearest ==
  ASSUME BuildInv, WalkInv, Fields!TryResolveFullTypeName
  PROVE  NearestInv'
  <1>1. /\ step = "resolve" /\ types \in Metadata /\ UNCHANGED <<types, unread, table, asked, visited>>
        /\ IF Resolvable THEN current' = Resolved /\ step' = "walk" ELSE step' = "idle"
    BY DEF Fields!TryResolveFullTypeName, Fields!buildVars, Resolvable, Resolved, BuildInv
  <1>2. visited = {}
    BY <1>1 DEF WalkInv
  <1>3. table.known = {Fields!FullName(types[k]) : k \in DOMAIN types}
    <2>1. at = Len(types) + 1 /\ NamesOK(types, Entered, table)
      BY <1>1 DEF BuildInv, Building
    <2>2. Entered = Len(types)
      BY <1>1, <2>1, TypesLength DEF Entered
    <2>3. QED
      BY <1>1, <2>1, <2>2, TypesLength DEF NamesOK
  <1>4. SUFFICES ASSUME NEW i \in DOMAIN types, Concerned(types, unread, asked, i)
                 PROVE  /\ step' = "walk" => CameTo(types, i, asked[2], i, current', {}) /\ i \in ChainOf(types, i)
                        /\ step' # "idle"
    BY <1>1, <1>2 DEF NearestInv
  <1>5. asked[1] = Fields!FullName(types[i]) /\ asked[1] \in table.known
    BY <1>3, <1>4 DEF Concerned
  <1>6. step' = "walk" /\ current' = asked[1]
    BY <1>1, <1>5 DEF Resolvable, Resolved
  <1>7. i \in ChainOf(types, i)
    BY <1>4, ChainFacts, ChainOfTypes
  <1>8. CameTo(types, i, asked[2], i, current', {})
    BY <1>5, <1>6 DEF CameTo, DeclaringOf
  <1>9. QED
    BY <1>6, <1>7, <1>8

LEMMA VisitNearest ==
  ASSUME BuildInv, WalkInv, NearestInv, Fields!VisitType
  PROVE  NearestInv'
  <1> DEFINE f == asked[2]
  <1>1. /\ step = "walk" /\ types \in Metadata /\ UNCHANGED <<types, unread, table, asked>>
        /\ table.fields # <<>> /\ offset = Fields!NoOffset
    BY DEF Fields!VisitType, Fields!buildVars, BuildInv, WalkInv
  <1>2. SUFFICES ASSUME Distinct(types), NEW i \in DOMAIN types, Concerned(types, unread, asked, i)
                 PROVE  \/ step' = "walk" /\ \E j \in ChainOf(types, i) : CameTo(types, i, f, j, current', visited')
                        \/ step' = "idle" /\ IsNearest(types, i, f, offset')
    BY <1>1 DEF NearestInv
  <1>3. PICK j \in ChainOf(types, i) : CameTo(types, i, f, j, current, visited)
    BY <1>1, <1>2 DEF NearestInv
  <1>4. /\ at = Len(types) + 1 /\ FieldsOK(types, unread, at - 1, table.fields)
        /\ ParentsOK(types, Entered, table.parent)
    BY <1>1, <1>2 DEF BuildInv, Building
  <1>5. at - 1 = Len(types) /\ Entered = Len(types) /\ DOMAIN types = 1..Len(types)
    BY <1>1, <1>4, TypesLength DEF Entered
  <1>6. /\ j \in DOMAIN types /\ j \in 1..Len(types) /\ j \in ChainOf(types, j)
        /\ ChainOf(types, j) \subseteq ChainOf(types, i)
        /\ ChainOf(types, i) \subseteq DOMAIN types
    BY <1>2, <1>3, <1>5, ChainFacts, ChainOfChain, ChainOfTypes
  <1>7. /\ current = Fields!FullName(types[j])
        /\ visited = {Fields!FullName(types[k]) : k \in ChainOf(types, i) \ ChainOf(types, j)}
        /\ DeclaringOf(types, i, f) \subseteq ChainOf(types, j)
    BY <1>3 DEF CameTo
  <1>8. current \notin visited
    BY <1>2, <1>6, <1>7 DEF Distinct
  <1>9. /\ visited' = visited \cup {current}
        /\ IF current \in DOMAIN table.fields /\ f \in DOMAIN table.fields[current]
             THEN offset' = table.fields[current][f] /\ step' = "idle"
             ELSE IF current \in DOMAIN table.parent
               THEN current' = table.parent[current] /\ UNCHANGED step
             ELSE step' = "idle" /\ UNCHANGED offset
    BY <1>8 DEF Fields!VisitType, Fields!NotVisited
  <1> DEFINE n == Len(types[j].fields) + 1
  <1>10. \A s \in DOMAIN types[j].fields : s < n
    <2>1. TAKE s \in DOMAIN types[j].fields
    <2>2. s \in 1..Len(types[j].fields) /\ Len(types[j].fields) \in Nat
      BY <1>1, <1>6, SlotIs
    <2>3. QED
      BY <2>2
  <1> HIDE DEF f, n
  <1>11. IF current \in DOMAIN table.fields THEN ReadInto(types, unread, table.fields[current], j, n)
         ELSE \A s : ~ GoodSlot(types, unread, j, s)
    BY <1>4, <1>5, <1>6, <1>7 DEF FieldsOK, n
  <1>12. CASE current \in DOMAIN table.fields /\ f \in DOMAIN table.fields[current]
    <2>1. PICK s \in DOMAIN types[j].fields : GoodSlot(types, unread, j, s) /\ types[j].fields[s].name = f
      BY <1>11, <1>12 DEF ReadInto
    <2>2. table.fields[current][f] = Served(types, j, s)
      BY <1>10, <1>11, <1>12, <2>1 DEF ReadInto
    <2>3. types[j].fields[s].raw >= 0
      BY <2>1 DEF GoodSlot
    <2>4. j \in DeclaringOf(types, i, f)
      BY <1>3, <2>1, <2>3 DEF DeclaringOf, Declares
    <2>5. IsNearest(types, i, f, offset')
      BY <1>7, <1>9, <1>12, <2>1, <2>2, <2>3, <2>4 DEF IsNearest
    <2>6. QED
      BY <1>9, <1>12, <2>5
  <1>13. CASE ~ (current \in DOMAIN table.fields /\ f \in DOMAIN table.fields[current])
    <2>1. ~ Declares(types, j, f)
      <3>1. SUFFICES ASSUME NEW s \in DOMAIN types[j].fields, types[j].fields[s].name = f, types[j].fields[s].raw >= 0
                     PROVE  FALSE
        BY DEF Declares
      <3>2. <<j, s>> \notin unread
        BY <1>2, <1>3, <3>1 DEF Concerned, AllRead, f
      <3>3. GoodSlot(types, unread, j, s)
        BY <3>1, <3>2 DEF GoodSlot
      <3>4. QED
        BY <1>10, <1>11, <1>13, <3>1, <3>3 DEF ReadInto
    <2>2. j \notin DeclaringOf(types, i, f)
      BY <2>1 DEF DeclaringOf
    <2>3. CASE current \in DOMAIN table.parent
      <3>1. Up(types, j) # Fields!Unnamed /\ table.parent[current] = Up(types, j)
        BY <1>4, <1>5, <1>6, <1>7, <2>3 DEF ParentsOK
      <3>2. PICK p \in Fields!Parents(j) : TRUE
        BY <1>1, <1>6, <3>1, NamesOfTypes, UpIs
      <3>3. /\ p \in DOMAIN types /\ p # j /\ Up(types, j) = Fields!FullName(types[p])
            /\ Fields!Chain(j) = {j} \cup Fields!Chain(p) /\ p \in Fields!Chain(p)
        BY <1>1, <1>6, ParentOne, ParentOther, UpIs, ChainStep, ChainFacts
      <3>4. j \notin Fields!Chain(p)
        BY <1>1, <1>6, <3>3, ChainAcyclic
      <3>5. ChainOf(types, j) = {j} \cup ChainOf(types, p) /\ j \notin ChainOf(types, p) /\ p \in ChainOf(types, p)
        BY <3>3, <3>4, ChainOfTypes
      <3>6. ChainOf(types, i) \ ChainOf(types, p) = (ChainOf(types, i) \ ChainOf(types, j)) \cup {j}
        BY <1>3, <3>5
      <3>7. visited' = {Fields!FullName(types[k]) : k \in ChainOf(types, i) \ ChainOf(types, p)}
        BY <1>7, <1>9, <3>6
      <3>8. DeclaringOf(types, i, f) \subseteq ChainOf(types, p)
        BY <1>7, <2>2, <3>5
      <3>9. p \in ChainOf(types, i)
        BY <1>6, <3>5
      <3>10. current' = Fields!FullName(types[p]) /\ step' = "walk"
        BY <1>1, <1>9, <1>13, <2>3, <3>1, <3>3
      <3>11. QED
        BY <3>7, <3>8, <3>9, <3>10 DEF CameTo
    <2>4. CASE current \notin DOMAIN table.parent
      <3>1. Up(types, j) = Fields!Unnamed
        BY <1>4, <1>5, <1>6, <1>7, <2>4 DEF ParentsOK
      <3>2. Fields!Parents(j) = {}
        <4>1. SUFFICES ASSUME NEW p \in Fields!Parents(j)
                       PROVE  FALSE
          OBVIOUS
        <4>2. p \in DOMAIN types /\ Up(types, j) = Fields!FullName(types[p])
          BY <1>1, <1>6, ParentOne, UpIs
        <4>3. QED
          BY <1>1, <3>1, <4>2, NamesOfTypes
      <3>3. ChainOf(types, j) = {j}
        BY <1>6, <3>2, ChainEnd, ChainOfTypes
      <3>4. DeclaringOf(types, i, f) = {}
        BY <1>7, <2>2, <3>3
      <3>5. IsNearest(types, i, f, offset')
        BY <1>1, <1>9, <1>13, <2>4, <3>4 DEF IsNearest
      <3>6. QED
        BY <1>9, <1>13, <2>4, <3>5
    <2>5. QED
      BY <2>3, <2>4
  <1>14. QED
    BY <1>12, <1>13 DEF f

LEMMA NearestKept ==
  ASSUME BuildInv, WalkInv, NearestInv, Fields!Next
  PROVE  NearestInv'
  <1>1. CASE Fields!TryGetFieldOffset \/ Fields!EnterType \/ Fields!ReadField \/ Fields!LeaveType
    <2>1. step' \in {"resolve", "type", "field"}
      BY <1>1 DEF Fields!TryGetFieldOffset, Fields!EnterType, Fields!ReadField, Fields!LeaveType
    <2>2. QED
      BY <2>1 DEF NearestInv
  <1>2. CASE Fields!TableBuilt
    <2>1. step' \in {"idle", "resolve"} /\ (step' = "idle" => table' = Fields!EmptyTable)
      BY <1>2 DEF Fields!TableBuilt
    <2>2. Fields!EmptyTable.fields = <<>>
      BY DEF Fields!EmptyTable
    <2>3. QED
      BY <2>1, <2>2 DEF NearestInv
  <1>3. QED
    BY <1>1, <1>2, ResolveNearest, VisitNearest DEF Fields!Next

(***************************************************************************)
(* What the properties say.                                                *)
(***************************************************************************)
LEMMA NearestMeans ==
  ASSUME types \in Metadata, NEW i \in DOMAIN types, NEW f, NEW o, IsNearest(types, i, f, o)
  PROVE  o = Fields!Nearest(i, f)
  <1> DEFINE from == Fields!Declaring(i, f)
             c == CHOOSE j \in from : \A k \in from : k \in Fields!Chain(j)
  <1>1. from = DeclaringOf(types, i, f)
    BY ChainOfTypes DEF Fields!Declaring, DeclaringOf, Declares
  <1>2. Fields!Nearest(i, f) = IF from = {} THEN Fields!NoOffset ELSE Fields!OffsetIn(c, f)
    BY DEF Fields!Nearest
  <1> HIDE DEF from
  <1>3. CASE from = {}
    BY <1>1, <1>2, <1>3 DEF IsNearest
  <1>4. CASE from # {}
    <2>1. PICK j \in from :
            /\ from \subseteq ChainOf(types, j)
            /\ \E s \in DOMAIN types[j].fields :
                 types[j].fields[s].name = f /\ types[j].fields[s].raw >= 0 /\ o = Served(types, j, s)
      BY <1>1, <1>4 DEF IsNearest
    <2>2. \A k \in from : k \in DOMAIN types
      BY <1>1, ChainFacts, ChainOfTypes DEF DeclaringOf
    <2>3. \A k \in from : k \in Fields!Chain(j)
      BY <2>1, ChainOfTypes
    <2>4. c \in from /\ \A k \in from : k \in Fields!Chain(c)
      BY <2>3
    <2> HIDE DEF c
    <2>5. c = j
      BY <2>2, <2>3, <2>4, ChainAcyclic
    <2>6. PICK s \in DOMAIN types[j].fields :
            types[j].fields[s].name = f /\ types[j].fields[s].raw >= 0 /\ o = Served(types, j, s)
      BY <2>1
    <2> DEFINE t == CHOOSE x \in DOMAIN types[j].fields : types[j].fields[x].name = f
               boxed == \E p \in Fields!Parents(j) :
                          Fields!FullName(types[p]) \in {<<"System", "ValueType">>, <<"System", "Enum">>}
               raw == types[j].fields[s].raw
    <2>7. t = s
      <3>1. t \in DOMAIN types[j].fields /\ types[j].fields[t].name = f
        BY <2>6
      <3> HIDE DEF t
      <3>2. QED
        BY <2>2, <2>6, <3>1, MetadataFacts
    <2>8. Fields!OffsetIn(j, f) = IF boxed /\ types[j].fields[t].raw - HeaderSize >= 0
                                    THEN types[j].fields[t].raw - HeaderSize ELSE types[j].fields[t].raw
      BY DEF Fields!OffsetIn
    <2>9. boxed <=> Up(types, j) \in {<<"System", "Enum">>, <<"System", "ValueType">>}
      <3>1. CASE Fields!Parents(j) = {}
        <4>1. Up(types, j) = Fields!Unnamed
          BY <2>2, <3>1, UpIs, NamesOfTypes
        <4>2. Fields!Unnamed \notin {<<"System", "Enum">>, <<"System", "ValueType">>}
          BY DEF Fields!Unnamed
        <4>3. ~ boxed
          BY <3>1
        <4>4. QED
          BY <4>1, <4>2, <4>3
      <3>2. CASE Fields!Parents(j) # {}
        <4>1. PICK p \in Fields!Parents(j) : TRUE
          BY <3>2
        <4>2. Fields!Parents(j) = {p} /\ Up(types, j) = Fields!FullName(types[p])
          BY <2>2, ParentOne, UpIs
        <4>3. QED
          BY <4>2
      <3>3. QED
        BY <3>1, <3>2
    <2>10. raw \in Int /\ HeaderSize \in Nat
      BY <2>2, SlotIs, MetadataFacts
    <2> HIDE DEF t, boxed, raw
    <2>11. raw - HeaderSize >= 0 <=> raw >= HeaderSize
      BY <2>10
    <2>12. o = IF boxed /\ raw >= HeaderSize THEN raw - HeaderSize ELSE raw
      BY <2>6, <2>9 DEF Served, raw
    <2>13. Fields!OffsetIn(j, f) = IF boxed /\ raw - HeaderSize >= 0 THEN raw - HeaderSize ELSE raw
      BY <2>7, <2>8 DEF raw
    <2>14. QED
      BY <1>2, <1>4, <2>5, <2>11, <2>12, <2>13 DEF c
  <1>5. QED
    BY <1>3, <1>4

\* At rest, with a table, the names are those of all the types.
LEMMA TableAtRest ==
  ASSUME BuildInv, Fields!Answered
  PROVE  types \in Metadata /\ DOMAIN types = 1..Len(types) /\ NamesOK(types, Len(types), table)
  <1>1. step = "idle" /\ table.fields # <<>> /\ types \in Metadata
    BY DEF Fields!Answered, BuildInv
  <1>2. at = Len(types) + 1 /\ NamesOK(types, Entered, table)
    BY <1>1 DEF BuildInv, Building
  <1>3. Entered = Len(types)
    BY <1>1, <1>2, TypesLength DEF Entered
  <1>4. QED
    BY <1>1, <1>2, <1>3, TypesLength

LEMMA NearestServed ==
  ASSUME BuildInv, NearestInv
  PROVE  Fields!NearestIsServed
  <1> SUFFICES ASSUME Fields!Answered, Distinct(types), NEW i \in Fields!Named(asked[1]),
                      \A p \in unread : p[1] \in Fields!Chain(i) => types[p[1]].fields[p[2]].name # asked[2]
               PROVE  offset = Fields!Nearest(i, asked[2])
    BY DEF Fields!NearestIsServed, Distinct
  <1>1. i \in DOMAIN types /\ Fields!FullName(types[i]) = asked[1]
    BY DEF Fields!Named
  <1>2. AllRead(types, unread, i, asked[2])
    BY ChainOfTypes DEF AllRead
  <1>3. step = "idle" /\ asked # <<>> /\ table.fields # <<>>
    BY DEF Fields!Answered
  <1>4. IsNearest(types, i, asked[2], offset)
    BY <1>1, <1>2, <1>3 DEF NearestInv, Concerned
  <1>5. QED
    BY <1>1, <1>4, TableAtRest, NearestMeans

LEMMA FieldsCardinality ==
  ASSUME NEW S
  PROVE  Fields!Cardinality(S) = Cardinality(S)
  BY Zenon DEF Fields!Cardinality, Cardinality

\* Of a name that is no type's, all types behind it are others.
LEMMA BehindIs ==
  ASSUME BuildInv, Fields!Answered, NEW a, Fields!Named(a) = {}
  PROVE  /\ a \notin table.known /\ Others(types, Len(types), a) = Fields!Behind(a)
         /\ Fields!Cardinality(Fields!Behind(a)) = 1 <=> \E x : Fields!Behind(a) = {x}
  <1>1. types \in Metadata /\ DOMAIN types = 1..Len(types) /\ NamesOK(types, Len(types), table)
    BY TableAtRest
  <1>2. \A k \in 1..Len(types) : Fields!FullName(types[k]) # a
    BY <1>1 DEF Fields!Named
  <1>3. a \notin table.known
    BY <1>1, <1>2 DEF NamesOK
  <1>4. Fields!Behind(a) = {Fields!FullName(types[k]) : k \in {j \in 1..Len(types) : Fields!ShortName(types[j]) = a}}
    BY <1>1 DEF Fields!Behind
  <1>5. Others(types, Len(types), a) = Fields!Behind(a)
    BY <1>2, <1>4 DEF Others
  <1>6. IsFiniteSet(Fields!Behind(a))
    <2> DEFINE S == {j \in 1..Len(types) : Fields!ShortName(types[j]) = a}
    <2>1. IsFiniteSet(1..Len(types))
      BY <1>1, TypesLength, FS_Interval
    <2>2. IsFiniteSet(S)
      BY <2>1, FS_Subset
    <2> DEFINE names == [k \in S |-> Fields!FullName(types[k])]
    <2>3. names \in Surjection(S, Fields!Behind(a))
      BY <1>4 DEF Surjection
    <2> HIDE DEF S, names
    <2>4. QED
      BY <2>2, <2>3, FS_Surjection
  <1>7. Fields!Cardinality(Fields!Behind(a)) = 1 <=> \E x : Fields!Behind(a) = {x}
    BY <1>6, FieldsCardinality, FS_Singleton
  <1>8. QED
    BY <1>3, <1>5, <1>7

LEMMA AliasServed ==
  ASSUME BuildInv, WalkInv
  PROVE  Fields!AliasIsUnique
  <1> DEFINE a == asked[1]
             behind == Fields!Behind(a)
  <1>1. SUFFICES ASSUME Fields!Answered, Fields!Named(a) = {}
                 PROVE  IF Fields!Cardinality(behind) = 1 THEN path # <<>> /\ path[1] \in behind ELSE path = <<>>
    BY DEF Fields!AliasIsUnique
  <1>2. /\ a \notin table.known /\ Others(types, Len(types), a) = behind
        /\ Fields!Cardinality(behind) = 1 <=> \E x : behind = {x}
    BY <1>1, BehindIs
  <1>3. NamesOK(types, Len(types), table)
    BY <1>1, TableAtRest
  <1>4. IF Resolvable THEN path # <<>> /\ path[1] = Resolved ELSE path = <<>>
    BY <1>1 DEF WalkInv, Fields!Answered
  <1> HIDE DEF behind
  <1>5. /\ a \in DOMAIN table.alias <=> ~ (\E x, y \in behind : x # y) /\ behind # {}
        /\ a \in DOMAIN table.alias => table.alias[a] \in behind
    BY <1>2, <1>3 DEF NamesOK
  <1>6. a \in DOMAIN table.alias <=> \E x : behind = {x}
    <2>1. CASE \E x, y \in behind : x # y
      BY <1>5, <2>1
    <2>2. CASE ~ (\E x, y \in behind : x # y) /\ behind # {}
      <3>1. PICK x \in behind : TRUE
        BY <2>2
      <3>2. behind = {x}
        BY <2>2, <3>1
      <3>3. QED
        BY <1>5, <2>2, <3>2
    <2>3. CASE behind = {}
      BY <1>5, <2>3
    <2>4. QED
      BY <2>1, <2>2, <2>3
  <1>7. (Resolvable <=> a \in DOMAIN table.alias) /\ Resolved = table.alias[a]
    BY <1>2 DEF Resolvable, Resolved
  <1>8. QED
    BY <1>2, <1>4, <1>5, <1>6, <1>7

LEMMA WalkEnds ==
  ASSUME WalkInv
  PROVE  Fields!NoTypeTwice
  <1>1. DOMAIN path = 1..Len(path) /\ \A j, k \in 1..Len(path) : path[j] = path[k] => j = k
    BY DEF WalkInv
  <1>2. QED
    BY <1>1 DEF Fields!NoTypeTwice, Fields!IsInjective

OffsetsInv == BuildInv /\ WalkInv /\ NearestInv

LEMMA OffsetsKeptInWorld ==
  ASSUME world = "fields" => OffsetsInv, [AllNext]_allVars
  PROVE  (world = "fields" => OffsetsInv)'
  <1> SUFFICES ASSUME world' = "fields"
               PROVE  OffsetsInv'
    OBVIOUS
  <1>1. world' = world /\ (Fields!Next \/ UNCHANGED fieldVars)
    BY DEF AllNext, ContextNext, FieldsNext, allVars
  <1>2. OffsetsInv
    BY <1>1
  <1>3. CASE Fields!Next
    BY <1>2, <1>3, BuildKept, WalkKept, NearestKept DEF OffsetsInv
  <1>4. CASE UNCHANGED fieldVars
    <2>1. UNCHANGED <<types, step, at, slot, classFields, table, asked, current, visited, offset, unread, path>>
      BY <1>4 DEF fieldVars
    <2>2. BuildInv'
      BY <1>2, <2>1 DEF OffsetsInv, BuildInv, TableShape, Building, Entered
    <2>3. WalkInv'
      BY <1>2, <2>1 DEF OffsetsInv, WalkInv, Resolvable, Resolved, Building
    <2>4. NearestInv'
      BY <1>2, <2>1 DEF OffsetsInv, NearestInv
    <2>5. QED
      BY <2>2, <2>3, <2>4 DEF OffsetsInv
  <1>5. QED
    BY <1>1, <1>3, <1>4

\* Whichever offsets can be read: where every type has a name of its own, the
\* offset served is that of the nearest type upwards that has the field, if that
\* field of these types could be read; a name without namespace stands for a type
\* only if that is the only one; and no type is looked at twice.  For any metadata
\* of a compiled program, and any questions one after the other.
THEOREM OffsetsAreNearest == AllSpec => []OffsetIsNearest
  <1> DEFINE J == world = "fields" => OffsetsInv
  <1>1. AllInit => J
    <2>1. SUFFICES ASSUME AllInit, world = "fields"
                   PROVE  OffsetsInv
      OBVIOUS
    <2>2. Fields!Init
      BY <2>1 DEF AllInit, ContextInit
    <2>3. NearestInv
      BY <2>2 DEF Fields!Init, NearestInv
    <2>4. QED
      BY <2>2, <2>3, BuildAtFirst, WalkAtFirst DEF OffsetsInv
  <1>2. J /\ [AllNext]_allVars => J'
    BY OffsetsKeptInWorld
  <1>3. J => OffsetIsNearest
    BY NearestServed, AliasServed, WalkEnds DEF OffsetsInv, OffsetIsNearest
  <1>4. QED
    BY <1>1, <1>2, <1>3, PTL DEF AllSpec

\* The worlds of the run add nothing to the calls: what is proved of Spec holds
\* there.
LEMMA ContextInWorlds == AllSpec => Spec
  <1>1. AllInit => Init
    BY DEF AllInit, ContextInit
  <1>2. [AllNext]_allVars => [Next]_vars
    BY DEF AllNext, ContextNext, FieldsNext, allVars
  <1>3. QED
    BY <1>1, <1>2, PTL DEF AllSpec, Spec
===============================================================================
