---------------------------- MODULE DumpPipeline ----------------------------
(***************************************************************************)
(* The dumps and the files they leave: DumpSdkRunInProcess, the collection *)
(* alone (DumpIl2CppOfflineCollectFromModule) and DumpSdkDump of another   *)
(* process (DumpSdk6DumpByPid), one call after the other into one          *)
(* directory.  Every stage may fail, a file may refuse to be opened, break *)
(* off while it is written, or come out short because the stream is only   *)
(* flushed when it is closed, where nobody looks.                          *)
(*                                                                         *)
(* What is in a file is: when it was written and by which path, and for    *)
(* the hint which of the two registrations it names.                       *)
(***************************************************************************)
EXTENDS Naturals, Sequences

CONSTANTS
  Dlls,      \* the assemblies' files in DummyDll, in the order of the collection
  MaxCalls   \* bound: calls of a behaviour

VARIABLES
  pc, entry, call,
  files,       \* name -> content
  todo,        \* files a writer has still to write
  allWritten,  \* ok of SidecarWriter::WriteAll
  found,       \* registrations the running path has found
  outcome,     \* "none" before the first call, "running", "ok", or the error
  paths,       \* DumpSdk6Paths of the last call
  \* history of the call, not in the code
  before,      \* files when it began
  refused,     \* files it could not open
  extracted    \* it has read the metadata

vars == <<pc, entry, call, files, todo, allWritten, found, outcome, paths, before, refused, extracted>>

Sidecars == <<"dump.cs", "il2cpp.h", "script.json", "stringliteral.json">>
Legacy == <<"global-string-xrefs.json", "runtime-rdata-string-xrefs.json">>
SetOf(s) == {s[i] : i \in 1..Len(s)}
Names == SetOf(Sidecars \o Legacy \o Dlls)
           \cup {"global-metadata.dat", "il2cpp-offline.hint.json", "generic.json"}

Registrations == {"code", "metadata"}

\* Content of a file; one that is not there is "none".
Content(state, at, path, names) == [state |-> state, call |-> at, path |-> path, regs |-> names]
Missing == Content("none", 0, "none", {})

Init ==
  /\ pc = "idle" /\ entry = "none" /\ call = 0
  /\ \E there \in {{}, Names} :
       files = [f \in Names |-> IF f \in there THEN Content("whole", 0, "main", Registrations) ELSE Missing]
  /\ todo = <<>> /\ allWritten = TRUE /\ found = {} /\ outcome = "none" /\ paths = {}
  /\ before = files /\ refused = {} /\ extracted = FALSE

(***************************************************************************)
(* One file: opened (truncating it), written, closed.                      *)
(***************************************************************************)
Results == {"refused", "part", "short", "whole"}
Good(r) == r \in {"short", "whole"}

\* f is written from path p, with result r.
Write(f, r, p, names) ==
  /\ files' = IF r = "refused" THEN files ELSE [files EXCEPT ![f] = Content(r, call, p, names)]
  /\ refused' = IF r = "refused" THEN refused \cup {f} ELSE refused

KeepFiles == UNCHANGED <<files, refused>>

Goto(next) == pc' = next /\ UNCHANGED outcome
Return(what) == pc' = "idle" /\ outcome' = what

\* Go on if good, otherwise return with the error.
Step(good, next, error) == IF good THEN Goto(next) ELSE Return(error)

Call ==
  /\ pc = "idle" /\ call < MaxCalls
  /\ \E e \in {"run", "collect", "dump"} :
       /\ entry' = e
       /\ pc' = IF e = "dump" THEN "open" ELSE "snapshot"
  /\ call' = call + 1
  /\ outcome' = "running"
  /\ found' = {} /\ paths' = {} /\ todo' = <<>> /\ allWritten' = TRUE
  /\ before' = files /\ refused' = {} /\ extracted' = FALSE
  /\ UNCHANGED files

rest == <<entry, call, before>>

(***************************************************************************)
(* DumpIl2CppOfflineCollect.                                               *)
(***************************************************************************)
Snapshot ==
  /\ pc = "snapshot"
  /\ \E good \in BOOLEAN : Step(good, "extract", "module snapshot failed")
  /\ KeepFiles /\ UNCHANGED <<rest, todo, allWritten, found, paths, extracted>>

TryExtractMetadataFromModule ==
  /\ pc = "extract"
  /\ \E good \in BOOLEAN : Step(good, "directory", "Metadata scan failed") /\ extracted' = good
  /\ KeepFiles /\ UNCHANGED <<rest, todo, allWritten, found, paths>>

CreateDirectories ==
  /\ pc = "directory"
  /\ \E good \in BOOLEAN : Step(good, "legacy", "failed to create offline output directory")
  /\ todo' = Legacy
  /\ KeepFiles /\ UNCHANGED <<rest, allWritten, found, paths, extracted>>

\* A file that is not there is removed without an error.
RemoveReport ==
  /\ pc = "legacy" /\ todo # <<>>
  /\ \E good \in BOOLEAN :
       /\ files' = IF good THEN [files EXCEPT ![Head(todo)] = Missing] ELSE files
       /\ Step(good, IF Len(todo) = 1 THEN "metadata" ELSE "legacy", "failed to remove legacy XRef report")
  /\ todo' = Tail(todo)
  /\ UNCHANGED <<rest, refused, allWritten, found, paths, extracted>>

WriteMetadata ==
  /\ pc = "metadata"
  /\ \E r \in Results :
       /\ Write("global-metadata.dat", r, "main", {})
       /\ Step(Good(r), "parse", "failed to write global-metadata.dat")
  /\ UNCHANGED <<rest, todo, allWritten, found, paths, extracted>>

ParseMetadata ==
  /\ pc = "parse"
  /\ \E good \in BOOLEAN : Step(good, "registrations", "metadata parse failed")
  /\ KeepFiles /\ UNCHANGED <<rest, todo, allWritten, found, paths, extracted>>

\* Addresses that FindIl2CppRegistrations gives and InitFromAddresses accepts,
\* or else those of FindAndInit: both or none.
LocateRegistrations ==
  /\ pc = "registrations"
  /\ \E primary \in SUBSET Registrations, accepted, searched \in BOOLEAN :
       LET ready == (primary = Registrations /\ accepted) \/ searched
       IN  /\ Step(ready, "runtime", "registrations not found")
           /\ found' = IF ready THEN Registrations ELSE {}
  /\ KeepFiles /\ UNCHANGED <<rest, todo, allWritten, paths, extracted>>

InitializeRuntime ==
  /\ pc = "runtime"
  /\ \E good \in BOOLEAN : Step(good, "types", "runtime not initialized")
  /\ KeepFiles /\ UNCHANGED <<rest, todo, allWritten, found, paths, extracted>>

CollectTypes ==
  /\ pc = "types"
  /\ \E good \in BOOLEAN : Step(good, "hint", "offline collect produced zero assemblies")
  /\ KeepFiles /\ UNCHANGED <<rest, todo, allWritten, found, paths, extracted>>

\* What Collect throws once the metadata is parsed (of a stream that ends early),
\* nobody catches but the caller.
CollectThrows ==
  /\ pc \in {"registrations", "runtime", "types"}
  /\ Return("exception")
  /\ KeepFiles /\ UNCHANGED <<rest, todo, allWritten, found, paths, extracted>>

WriteHint ==
  /\ pc = "hint"
  /\ \E r \in Results :
       /\ Write("il2cpp-offline.hint.json", r, "main", found)
       /\ Step(Good(r), "analyzed", "failed to write il2cpp-offline.hint.json")
  /\ UNCHANGED <<rest, todo, allWritten, found, paths, extracted>>

\* After the cross references have been analysed, which cannot fail, the
\* collection returns; DumpSdkRunInProcess counts the types.
Collected ==
  /\ pc = "analyzed"
  /\ IF entry = "collect"
       THEN Return("ok") /\ UNCHANGED todo
       ELSE \E good \in BOOLEAN : Step(good, "sidecars", "no types collected") /\ todo' = Sidecars
  /\ KeepFiles /\ UNCHANGED <<rest, allWritten, found, paths, extracted>>

(***************************************************************************)
(* SidecarWriter::WriteAll goes on after a file that failed;               *)
(* DummyDllGenerator::Generate stops at the first.                         *)
(***************************************************************************)
\* Mutant: the writers after one that failed are not called (ok = ok && ...).
WriteUnlessFailed ==
  /\ pc = "sidecars" /\ todo # <<>>
  /\ IF allWritten
       THEN \E r \in Results : Write(Head(todo), r, "main", {}) /\ allWritten' = Good(r)
       ELSE KeepFiles /\ UNCHANGED allWritten
  /\ todo' = Tail(todo)
  /\ UNCHANGED <<rest, pc, outcome, found, paths, extracted>>

WriteSidecar ==
  /\ pc = "sidecars" /\ todo # <<>>
  /\ \E r \in Results : Write(Head(todo), r, "main", {}) /\ allWritten' = (allWritten /\ Good(r))
  /\ todo' = Tail(todo)
  /\ UNCHANGED <<rest, pc, outcome, found, paths, extracted>>

SidecarsDone ==
  /\ pc = "sidecars" /\ todo = <<>>
  /\ Step(allWritten, "dll_directory", "Sidecar WriteAll failed")
  /\ KeepFiles /\ UNCHANGED <<rest, todo, allWritten, found, paths, extracted>>

GenerateDlls ==
  /\ pc = "dll_directory"
  /\ \E good \in BOOLEAN : Step(good, "dlls", "DummyDll Generate failed")
  /\ todo' = Dlls
  /\ KeepFiles /\ UNCHANGED <<rest, allWritten, found, paths, extracted>>

WriteAssembly ==
  /\ pc = "dlls" /\ todo # <<>>
  /\ \E r \in Results :
       Write(Head(todo), r, "main", {}) /\ Step(Good(r), "dlls", "DummyDll Generate failed")
  /\ todo' = Tail(todo)
  /\ UNCHANGED <<rest, allWritten, found, paths, extracted>>

DllsDone ==
  /\ pc = "dlls" /\ todo = <<>>
  /\ Goto("optional")
  /\ KeepFiles /\ UNCHANGED <<rest, todo, allWritten, found, paths, extracted>>

(***************************************************************************)
(* DumpSdkDump: of another process, or after the main path, where its      *)
(* result does not matter.                                                 *)
(***************************************************************************)
\* Mutant: the optional dump leaves writeDumpCs at its default.
AlwaysDumpCs == TRUE

WriteDumpCs == entry = "dump"

DirectReturn(what) == Return(IF entry = "run" THEN "ok" ELSE what)
DirectStep(good, next, error) == IF good THEN Goto(next) ELSE DirectReturn(error)

OpenTarget ==
  /\ pc = "open"
  /\ \E good \in BOOLEAN : Step(good, "direct", "no process or no GameAssembly.dll")
  /\ KeepFiles /\ UNCHANGED <<rest, todo, allWritten, found, paths, extracted>>

\* Mutant: what could not be read is written all the same.
ReadAllUnchecked ==
  /\ pc \in {"optional", "direct"}
  /\ \E good \in BOOLEAN, regs \in SUBSET Registrations :
       Goto("direct_metadata") /\ found' = regs /\ extracted' = (extracted \/ good)
  /\ KeepFiles /\ UNCHANGED <<rest, todo, allWritten, paths>>

\* BuildMetadataHintTScore (registrations may be missing), ExportMetadataByScore,
\* ReadMetadataHeaderFieldsFromBytes; the tables that cannot be read stay empty.
\* That create_directories fails is not looked at.
ReadAll ==
  /\ pc \in {"optional", "direct"}
  /\ \E good \in BOOLEAN, regs \in SUBSET Registrations :
       /\ DirectStep(good, "direct_metadata", "metadata not read")
       /\ found' = regs
       /\ extracted' = (extracted \/ good)
  /\ KeepFiles /\ UNCHANGED <<rest, todo, allWritten, paths>>

WriteMetadataFile ==
  /\ pc = "direct_metadata"
  /\ \E r \in Results :
       /\ Write("global-metadata.dat", r, "direct", {})
       /\ DirectStep(Good(r), "direct_hint", "failed to write global-metadata.dat")
  /\ UNCHANGED <<rest, todo, allWritten, found, paths, extracted>>

\* Mutant: no hint unless both registrations have been found.
NotBoth == found # Registrations

\* All four words are zero.
NoRegistration == found = {}

WriteHintJson ==
  /\ pc = "direct_hint"
  /\ IF NoRegistration
       THEN Goto("generic") /\ KeepFiles
       ELSE \E r \in Results :
              /\ Write("il2cpp-offline.hint.json", r, "direct", found)
              /\ DirectStep(Good(r), "generic", "failed to write il2cpp-offline.hint.json")
  /\ UNCHANGED <<rest, todo, allWritten, found, paths, extracted>>

DumpCsPath == IF WriteDumpCs THEN {"dump.cs"} ELSE {}
Succeeded == DirectReturn("ok") /\ paths' = {"generic.json"} \cup DumpCsPath

WriteGenericJson ==
  /\ pc = "generic"
  /\ \E r \in Results :
       /\ Write("generic.json", r, "direct", {})
       /\ IF Good(r) /\ ~ WriteDumpCs
            THEN Succeeded
            ELSE DirectStep(Good(r), "direct_dump_cs", "DumpSdk6WriteGenericJsonFile failed") /\ UNCHANGED paths
  /\ UNCHANGED <<rest, todo, allWritten, found, extracted>>

\* Mutant: the paths are filled in whatever became of dump.cs.
PathsAnyway ==
  /\ pc = "direct_dump_cs"
  /\ \E r \in Results : Write("dump.cs", r, "direct", {}) /\ Succeeded
  /\ UNCHANGED <<rest, todo, allWritten, found, extracted>>

WriteDumpCsFile ==
  /\ pc = "direct_dump_cs"
  /\ \E r \in Results :
       /\ Write("dump.cs", r, "direct", {})
       /\ IF Good(r) THEN Succeeded ELSE DirectReturn("DumpSdk6WriteDumpCsFile failed") /\ UNCHANGED paths
  /\ UNCHANGED <<rest, todo, allWritten, found, extracted>>

Next ==
  \/ Call
  \/ Snapshot \/ TryExtractMetadataFromModule \/ CreateDirectories \/ RemoveReport \/ WriteMetadata
  \/ ParseMetadata \/ LocateRegistrations \/ InitializeRuntime \/ CollectTypes
  \/ CollectThrows \/ WriteHint \/ Collected
  \/ WriteSidecar \/ SidecarsDone \/ GenerateDlls \/ WriteAssembly \/ DllsDone
  \/ OpenTarget \/ ReadAll \/ WriteMetadataFile \/ WriteHintJson \/ WriteGenericJson \/ WriteDumpCsFile

Spec == Init /\ [][Next]_vars

(***************************************************************************)
(* Properties.                                                             *)
(***************************************************************************)
IsOf(f, at, path) == files[f].state \in {"short", "whole"} /\ files[f].call = at /\ files[f].path = path

\* DumpSdkRunInProcess that returns true has written the sidecar files and the
\* assemblies, and nothing after that takes them away.
MainFilesStay ==
  entry = "run" /\ outcome = "ok" => \A f \in SetOf(Sidecars \o Dlls) : IsOf(f, call, "main")

\* A call that does not get hold of the metadata leaves the files of the calls
\* before it as they were.
NothingLostEarly == files # before => extracted

\* One sidecar file that fails does not cost the others: when the writers have
\* been called, every file is of this call or could not be opened.
EverySidecarTried ==
  outcome = "Sidecar WriteAll failed" =>
    \A f \in SetOf(Sidecars) : files[f].call = call \/ f \in refused

\* The metadata and the hint beside it are of one call when that call returned
\* true, unless it was a dump that found no registration.
HintNotOlder ==
  outcome = "ok" /\ files["il2cpp-offline.hint.json"].call # call => entry = "dump" /\ found = {}

\* The paths returned are those of files this call has written to their end.
PathsAreWritten == \A f \in paths : IsOf(f, call, "direct")

\* What the collection wrote, its hint with both registrations among it, is
\* still there when DumpSdkRunInProcess returns true.
MainPathKept ==
  entry = "run" /\ outcome = "ok" =>
    \A f \in {"global-metadata.dat", "il2cpp-offline.hint.json"} : IsOf(f, call, "main")
==============================================================================
