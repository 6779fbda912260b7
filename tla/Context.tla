------------------------------- MODULE Context --------------------------------
(***************************************************************************)
(* The global context of the library (init/context_*.hpp), the handle its  *)
(* WinApiContextBackend holds (init/backend.hpp), AutoInit, and the two    *)
(* caches filled on demand: the type info table of g_ctx (init/classmap)   *)
(* and g_fieldOffsetState (init/field_offset).                             *)
(*                                                                         *)
(* One thread calls the library, one call at a time; the operating system  *)
(* moves between any two questions a call asks it.  An address or a table  *)
(* is modelled by the process instance it was taken from.                  *)
(***************************************************************************)
EXTENDS Processes

CONSTANT GaBase   \* where each instance has GameAssembly.dll

ASSUME ContextAssumption == GaBase \in [Instances -> Nat \ {0}]

VARIABLES
  ctx,      \* g_ctx
  handle,   \* the backend's process handle (with its memory accessor)
  cache,    \* g_fieldOffsetState
  pc,       \* what the running call does next
  pids,     \* AutoInit's candidates, the current one included
  ga,       \* its GameAssembly.dll, as found before it is opened
  ret,      \* what the last call returned: [call, value]
  before    \* history: g_ctx when the call began

callVars == <<pc, pids, ga, ret, before>>
vars == <<osVars, ctx, handle, cache, callVars>>

Sources == Instances \cup {None}

\* Context{}
Cleared ==
  [pid |-> 0, process |-> None, runtime |-> "Mono", unityPlayer |-> None,
   gameAssembly |-> None, gomSlot |-> None, msIdSlot |-> None,
   names |-> None, table |-> None]

\* RuntimeState{}
NotLoaded == [loaded |-> FALSE, pid |-> 0, base |-> 0, from |-> None]

NoReturn == [call |-> "none", value |-> FALSE]

Init ==
  /\ OsInit
  /\ ctx = Cleared
  /\ handle = None
  /\ cache = NotLoaded
  /\ pc = "idle"
  /\ pids = {}
  /\ ga = None
  /\ ret = NoReturn
  /\ before = Cleared

\* IsInited()
IsInited == handle # None /\ ctx.pid # 0 /\ ctx.unityPlayer # None

Answers(call, value) ==
  /\ ret' = [call |-> call, value |-> value]
  /\ pc' = "idle"
  /\ pids' = {} /\ ga' = None

Continues(step) == pc' = step /\ UNCHANGED ret

\* Mutant: only the process is given up.
DetachOnly == ctx' = [ctx EXCEPT !.pid = 0, !.process = None] /\ handle' = None

\* ResetContext(): the backend lets go of the process, g_ctx is new.
ResetContext == ctx' = Cleared /\ handle' = None

Idle == pc = "idle" /\ before' = ctx

(***************************************************************************)
(* InitSettings(pid, runtime), up to and including OpenProcess, which may  *)
(* be refused; then its question for UnityPlayer.dll.  AutoInit makes the  *)
(* same call, so both steps say where to go on.                            *)
(***************************************************************************)
Opened(p) == {None, host[p]}

\* Mutant: what the context held is kept.
AttachKeeping(p, runtime, h) ==
  /\ handle' = h
  /\ ctx' = IF h = None THEN Cleared
            ELSE [ctx EXCEPT !.pid = p, !.runtime = runtime, !.process = h]

\* Mutant: pid and handle are mixed up.
AttachSwapped(p, runtime, h) ==
  /\ handle' = h
  /\ ctx' = IF h = None THEN Cleared
            ELSE [Cleared EXCEPT !.pid = h, !.runtime = runtime, !.process = p]

Attach(p, runtime, h) ==
  /\ handle' = h
  /\ ctx' = IF h = None THEN Cleared
            ELSE [Cleared EXCEPT !.pid = p, !.runtime = runtime, !.process = h]

InitSettings ==
  /\ Idle
  /\ \E p \in Pids, runtime \in {"Mono", "Il2Cpp"}, h \in Sources :
       /\ h \in Opened(p)
       /\ Attach(p, runtime, h)
       /\ IF h = None THEN Answers("InitSettings", FALSE)
          ELSE Continues("settings") /\ UNCHANGED <<pids, ga>>
  /\ UNCHANGED <<osVars, cache>>

SettingsUnityPlayer ==
  /\ pc = "settings"
  /\ \E m \in Snapshot(ctx.pid, "UnityPlayer") :
       IF m = None
         THEN ResetContext /\ Answers("InitSettings", FALSE)
         ELSE /\ ctx' = [ctx EXCEPT !.unityPlayer = m]
              /\ UNCHANGED handle
              /\ Answers("InitSettings", TRUE)
  /\ UNCHANGED <<osVars, cache, before>>

(***************************************************************************)
(* AutoInit().                                                             *)
(***************************************************************************)
First(p) == p \in pids /\ \A q \in pids : p <= q

NextPid(p) ==
  /\ pids' = pids \ {p}
  /\ ga' = None
  /\ Continues("pid")

\* FindUnityWndClassPids, or else FindPidsWithModule.
AutoInit ==
  /\ Idle
  /\ \E windows \in SUBSET {p \in Pids : host[p] # None} :
       LET found == IF windows # {} THEN windows
                    ELSE {p \in Pids : Has(p, "UnityPlayer")}
       IN  IF found = {} THEN Answers("AutoInit", FALSE)
           ELSE pids' = found /\ Continues("pid") /\ UNCHANGED ga
  /\ UNCHANGED <<osVars, ctx, handle, cache>>

AskUnityPlayer ==
  /\ pc = "pid"
  /\ \E p \in Pids : First(p) /\ \E m \in Snapshot(p, "UnityPlayer") :
       IF m = None THEN NextPid(p)
       ELSE Continues("assembly") /\ UNCHANGED <<pids, ga>>
  /\ UNCHANGED <<osVars, ctx, handle, cache, before>>

AskGameAssembly ==
  /\ pc = "assembly"
  /\ \E p \in Pids : First(p) /\ ga' \in Snapshot(p, "GameAssembly")
  /\ Continues("attach")
  /\ UNCHANGED <<osVars, ctx, handle, cache, pids, before>>

AutoAttach ==
  /\ pc = "attach"
  /\ \E p \in Pids : First(p) /\ \E h \in Opened(p) :
       /\ Attach(p, IF ga # None THEN "Il2Cpp" ELSE "Mono", h)
       /\ IF h = None THEN NextPid(p)
          ELSE Continues("player") /\ UNCHANGED <<pids, ga>>
  /\ UNCHANGED <<osVars, cache, before>>

\* The rest of InitSettings, and g_ctx.gameAssembly = ga.
AutoUnityPlayer ==
  /\ pc = "player"
  /\ \E m \in Snapshot(ctx.pid, "UnityPlayer") :
       IF m = None
         THEN ResetContext /\ \E p \in Pids : First(p) /\ NextPid(p)
         ELSE /\ ctx' = [ctx EXCEPT !.unityPlayer = m, !.gameAssembly = ga]
              /\ Continues("gom")
              /\ UNCHANGED <<handle, pids, ga>>
  /\ UNCHANGED <<osVars, cache, before>>

\* FindGomGlobalSlotRvaByScan through the handle.
ScanGom ==
  /\ pc = "gom"
  /\ \/ /\ Alive(handle)
        /\ ctx' = [ctx EXCEPT !.gomSlot = ctx.unityPlayer]
        /\ Continues("msid")
        /\ UNCHANGED <<handle, pids, ga>>
     \/ ResetContext /\ \E p \in Pids : First(p) /\ NextPid(p)
  /\ UNCHANGED <<osVars, cache, before>>

\* FindMsIdToPointerSlotVaByScan, whose failure is ignored.
ScanMsId ==
  /\ pc = "msid"
  /\ \/ Alive(handle) /\ ctx' = [ctx EXCEPT !.msIdSlot = ctx.unityPlayer]
     \/ UNCHANGED ctx
  /\ Answers("AutoInit", TRUE)
  /\ UNCHANGED <<osVars, handle, cache, before>>

NoCandidateLeft ==
  /\ pc = "pid"
  /\ pids = {}
  /\ ResetContext
  /\ Answers("AutoInit", FALSE)
  /\ UNCHANGED <<osVars, cache, before>>

(***************************************************************************)
(* The other calls that change the context.                                *)
(***************************************************************************)
InitBase ==
  /\ Idle
  /\ IF handle # None /\ ctx.unityPlayer # None
       THEN /\ ctx' = [ctx EXCEPT !.gomSlot = ctx.unityPlayer, !.msIdSlot = ctx.unityPlayer]
            /\ Answers("InitBase", TRUE)
       ELSE UNCHANGED ctx /\ Answers("InitBase", FALSE)
  /\ UNCHANGED <<osVars, handle, cache>>

Reset ==
  /\ Idle
  /\ ResetContext
  /\ Answers("ResetContext", TRUE)
  /\ UNCHANGED <<osVars, cache>>

\* SetContextBackend: the old backend is reset; the new one may already be
\* attached to a process.
SetContextBackend ==
  /\ Idle
  /\ \E h \in {None} \cup {i \in Instances : Alive(i)} :
       handle' = h /\ ctx' = [Cleared EXCEPT !.process = h]
  /\ Answers("SetContextBackend", TRUE)
  /\ UNCHANGED <<osVars, cache>>

(***************************************************************************)
(* InitIl2CppTypeInfoInternal behind EnsureIl2CppTypeInfoInited.           *)
(***************************************************************************)
Il2CppReady == IsInited /\ ctx.runtime = "Il2Cpp"

\* Target memory can be read as GameAssembly.dll of instance m.
ReadsAs(m) ==
  Alive(handle) /\ "GameAssembly" \in loaded[handle] /\ GaBase[m] = GaBase[handle]

EnsureTypeInfo ==
  /\ Idle
  /\ IF ~ Il2CppReady
       THEN UNCHANGED ctx /\ Answers("TypeInfo", FALSE)
       ELSE IF ctx.table # None /\ ctx.names # None
       THEN UNCHANGED ctx /\ Answers("TypeInfo", TRUE)
       ELSE \E m \in IF ctx.gameAssembly # None THEN {ctx.gameAssembly}
                     ELSE Snapshot(ctx.pid, "GameAssembly") :
              IF m = None THEN UNCHANGED ctx /\ Answers("TypeInfo", FALSE)
              ELSE /\ ctx' = [ctx EXCEPT !.gameAssembly = m]
                   /\ Continues("names") /\ UNCHANGED <<pids, ga>>
  /\ UNCHANGED <<osVars, handle, cache>>

\* The metadata is exported and the names are kept in g_ctx.
ReadTypeNames ==
  /\ pc = "names"
  /\ \/ /\ ReadsAs(ctx.gameAssembly)
        /\ ctx' = [ctx EXCEPT !.names = handle]
        /\ Continues("table") /\ UNCHANGED <<pids, ga>>
     \/ UNCHANGED ctx /\ Answers("TypeInfo", FALSE)
  /\ UNCHANGED <<osVars, handle, cache, before>>

FindTypeTable ==
  /\ pc = "table"
  /\ \/ /\ ReadsAs(ctx.gameAssembly)
        /\ ctx' = [ctx EXCEPT !.table = handle]
        /\ Answers("TypeInfo", TRUE)
     \/ UNCHANGED ctx /\ Answers("TypeInfo", FALSE)
  /\ UNCHANGED <<osVars, handle, cache, before>>

(***************************************************************************)
(* EnsureRuntimeState of the field offsets.                                *)
(***************************************************************************)
\* Mutant: the base is not compared.
CacheHitByPid(m) == cache.loaded /\ cache.pid = ctx.pid

CacheHit(m) == cache.loaded /\ cache.pid = ctx.pid /\ cache.base = GaBase[m]

EnsureFieldOffsets ==
  /\ Idle
  /\ \E m \in IF Il2CppReady THEN Snapshot(ctx.pid, "GameAssembly") ELSE {None} :
       IF m = None
         THEN cache' = NotLoaded /\ Answers("FieldOffsets", FALSE)
         ELSE /\ UNCHANGED cache
              /\ IF CacheHit(m) THEN Answers("FieldOffsets", TRUE)
                 ELSE Continues("build") /\ UNCHANGED <<pids, ga>>
  /\ UNCHANGED <<osVars, ctx, handle>>

\* BuildRuntimeState asks for the module again.
BuildFieldOffsets ==
  /\ pc = "build"
  /\ \E m \in Snapshot(ctx.pid, "GameAssembly") :
       \/ /\ m # None
          /\ ReadsAs(m)
          /\ cache' = [loaded |-> TRUE, pid |-> ctx.pid, base |-> GaBase[m], from |-> handle]
          /\ Answers("FieldOffsets", TRUE)
       \/ cache' = NotLoaded /\ Answers("FieldOffsets", FALSE)
  /\ UNCHANGED <<osVars, ctx, handle, before>>

Os ==
  /\ \/ \E i \in Instances, p \in Pids : Start(i, p, handle)
     \/ \E i \in Instances, m \in Modules : Load(i, m)
     \/ \E i \in Instances : Exit(i)
  /\ UNCHANGED <<ctx, handle, cache, callVars>>

InitStep == InitSettings \/ SettingsUnityPlayer \/ InitBase \/ Reset \/ SetContextBackend

AutoStep ==
  \/ AutoInit \/ AskUnityPlayer \/ AskGameAssembly \/ AutoAttach \/ AutoUnityPlayer
  \/ ScanGom \/ ScanMsId \/ NoCandidateLeft

CacheStep ==
  \/ EnsureTypeInfo \/ ReadTypeNames \/ FindTypeTable
  \/ EnsureFieldOffsets \/ BuildFieldOffsets

Next == InitStep \/ AutoStep \/ CacheStep \/ Os

Spec == Init /\ [][Next]_vars

(***************************************************************************)
(* Properties.                                                             *)
(***************************************************************************)
Contexts ==
  [pid : Pids \cup {0}, process : Sources, runtime : {"Mono", "Il2Cpp"},
   unityPlayer : Sources, gameAssembly : Sources, gomSlot : Sources,
   msIdSlot : Sources, names : Sources, table : Sources]

Caches == [loaded : BOOLEAN, pid : Pids \cup {0}, base : Nat, from : Sources]

Returns ==
  [call : {"none", "InitSettings", "AutoInit", "InitBase", "ResetContext",
           "SetContextBackend", "TypeInfo", "FieldOffsets"},
   value : BOOLEAN]

Steps ==
  {"idle", "settings", "pid", "assembly", "attach", "player", "gom", "msid",
   "names", "table", "build"}

\* Type invariant of the context, its caches and the running call.
TypeOK ==
  /\ OsTypeOK
  /\ ctx \in Contexts
  /\ handle \in Sources
  /\ cache \in Caches
  /\ pc \in Steps
  /\ pids \in SUBSET Pids
  /\ ga \in Sources
  /\ ret \in Returns
  /\ before \in Contexts

\* Whatever ids are given out again, once the context is initialised its
\* handle, its pid and its UnityPlayer.dll are of one and the same process:
\* InitSettings takes the module by pid, but only after the handle is open.
OneTarget ==
  /\ ctx.process = handle
  /\ IsInited => pidOf[handle] = ctx.pid /\ ctx.unityPlayer = handle

\* Nothing the context holds outlives its process: the global slots and the
\* type table are of the process the handle is open to, or not there.
NothingStale ==
  \A a \in {ctx.gomSlot, ctx.msIdSlot, ctx.names, ctx.table} : a \in {None, handle}

\* A call that reports failure to initialise leaves no handle open and
\* nothing initialised, unless AutoInit saw no candidate: then it has not
\* touched the context.
FailureDetaches ==
  pc = "idle" /\ ret.value = FALSE /\ ret.call \in {"InitSettings", "AutoInit"} =>
    \/ handle = None /\ ctx = Cleared
    \/ ret.call = "AutoInit" /\ ctx = before

\* Unless an id and a base have come back together in another process, field
\* offsets that EnsureFieldOffsetsInited vouches for were read from the
\* process the context is attached to, although g_fieldOffsetState survives
\* ResetContext and the process it was read from.
Distinguishable ==
  \A i, j \in Instances :
    pidOf[i] # 0 /\ pidOf[i] = pidOf[j] /\ GaBase[i] = GaBase[j] => i = j

OffsetsVouched == pc = "idle" /\ ret = [call |-> "FieldOffsets", value |-> TRUE]

FieldOffsetsFresh == Distinguishable /\ OffsetsVouched => cache.from = handle

\* The repository's README.md:146: TryGetFieldOffset answers with the offset
\* of the field in the type, that is, of the process the context is attached to.
FieldOffsetsOfTarget == OffsetsVouched => cache.from = handle
===============================================================================
