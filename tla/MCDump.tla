------------------------------- MODULE MCDump -------------------------------
(***************************************************************************)
(* A dump and what it is made of: the progress of a stage (extended here), *)
(* the order of the stages and their files, the export of a hint, the      *)
(* access to the memory of the own process, and the addresses of methods.  *)
(* A behaviour is one of them: world says which.  Variables of the others  *)
(* keep the value Idle.                                                    *)
(***************************************************************************)
EXTENDS DumpProgress, Integers, FiniteSets, TLC

CONSTANTS
  Dlls, MaxCalls,                           \* of DumpPipeline
  HintTargets, ImageRecord, AssemblyRecord, \* of HintExport
  Pages, CopyChunk, Changes,                \* of HostMemory
  MethodTargets, Key, ViewSearch, DumpSearch, Rows, Indices, MaxImages, MaxPointers, Width \* of MethodAddress

VARIABLES
  world,
  \* DumpPipeline
  entry, call, files, todo, allWritten, found, outcome, paths, before, refused, extracted,
  \* HintExport
  version, hint, document, file,
  \* HostMemory
  op, first, size, prot, cursor, regionEnd, copyEnd, buffer, result, lost, changes,
  \* MethodAddress
  asked, turn, images, pointers, diskSecs, answers, unread,
  \* more than one
  target, pc

Idle == "idle"

pipelineVars == <<entry, call, files, todo, allWritten, found, outcome, paths, before, refused, extracted>>
hintVars == <<version, hint, document, file>>
hostVars == <<op, first, size, prot, cursor, regionEnd, copyEnd, buffer, result, lost, changes>>
methodVars == <<asked, turn, images, pointers, diskSecs, answers, unread>>
allVars == <<world, vars, pipelineVars, hintVars, hostVars, methodVars, target, pc>>

PipelineIdle ==
  /\ entry = Idle /\ call = Idle /\ files = Idle /\ todo = Idle /\ allWritten = Idle /\ found = Idle
  /\ outcome = Idle /\ paths = Idle /\ before = Idle /\ refused = Idle /\ extracted = Idle
HintIdle == version = Idle /\ hint = Idle /\ document = Idle /\ file = Idle
HostIdle ==
  /\ op = Idle /\ first = Idle /\ size = Idle /\ prot = Idle /\ cursor = Idle /\ regionEnd = Idle
  /\ copyEnd = Idle /\ buffer = Idle /\ result = Idle /\ lost = Idle /\ changes = Idle
MethodIdle ==
  /\ asked = Idle /\ turn = Idle /\ images = Idle /\ pointers = Idle /\ diskSecs = Idle /\ answers = Idle
  /\ unread = Idle

ProgressInit == world = "progress" /\ Init /\ PipelineIdle /\ HintIdle /\ HostIdle /\ MethodIdle
                /\ target = Idle /\ pc = Idle
ProgressNext == world = "progress" /\ Next /\ UNCHANGED <<world, pipelineVars, hintVars, hostVars, methodVars, target, pc>>

(***************************************************************************)
(* DumpPipeline: one call, two assemblies, an empty directory or one with  *)
(* the files of a dump.                                                    *)
(***************************************************************************)
MCDlls == <<"First.dll", "Second.dll">>

Pipeline == INSTANCE DumpPipeline

\* The assemblies are in a directory of their own, whatever they are called.
ASSUME PipelineAssumption ==
  /\ Dlls \in Seq(Pipeline!SetOf(Dlls))
  /\ Pipeline!SetOf(Dlls) \cap {"global-metadata.dat", "il2cpp-offline.hint.json", "generic.json"} = {}

PipelineInit == world = "pipeline" /\ Pipeline!Init /\ Init /\ HintIdle /\ HostIdle /\ MethodIdle /\ target = Idle
PipelineNext == world = "pipeline" /\ Pipeline!Next /\ UNCHANGED <<world, vars, hintVars, hostVars, methodVars, target>>

\* What a call tells of its files is so: true means they are there, a path that
\* the file is written, failed sidecars that each of them was tried.
ReportedIsWritten ==
  world = "pipeline" => Pipeline!MainFilesStay /\ Pipeline!PathsAreWritten /\ Pipeline!EverySidecarTried

\* Files of earlier calls are touched only once the metadata is there, and a
\* call that returns true does not leave its metadata beside an older hint.
FilesBelongTogether == world = "pipeline" => Pipeline!NothingLostEarly /\ Pipeline!HintNotOlder

\* The metadata and the hint of the main path survive the optional dump.
MainPathKept == world = "pipeline" => Pipeline!MainPathKept

(***************************************************************************)
(* HintExport: no module, and modules with tables of no, of two and of a   *)
(* broken number of records.                                               *)
(***************************************************************************)
ModuleAt(b, i, a) ==
  [base |-> b, modulePath |-> 7, moduleSize |-> 30, peImageBase |-> 9, metaBase |-> 50, totalSize |-> 20,
   magic |-> 5, version |-> 1, imagesSize |-> i, assembliesSize |-> a, codeRegistration |-> b + 3,
   metadataRegistration |-> b + 4, codeGenModules |-> b + 5]

MCHintTargets == {ModuleAt(0, 6, 6)} \cup {ModuleAt(10, i, a) : i \in {0, 5, 6}, a \in {0, 6, 7}}

Hint == INSTANCE HintExport WITH Targets <- HintTargets, Null <- NoListener

\* The words of a module are numbers, and no document is taken for null.
ASSUME HintAssumption ==
  /\ ImageRecord \in Nat \ {0} /\ AssemblyRecord \in Nat \ {0}
  /\ HintTargets \subseteq
       [base : Nat, modulePath : Nat, moduleSize : Nat, peImageBase : Nat, metaBase : Nat, totalSize : Nat,
        magic : Nat, version : Nat, imagesSize : Nat, assembliesSize : Nat, codeRegistration : Nat,
        metadataRegistration : Nat, codeGenModules : Nat]
  /\ NoListener \notin [Hint!Fields -> Nat \cup {NoListener}]

HintInit == world = "hint" /\ Hint!Init /\ Init /\ PipelineIdle /\ HostIdle /\ MethodIdle
HintNext == world = "hint" /\ Hint!Next /\ UNCHANGED <<world, vars, pipelineVars, hostVars, methodVars>>

\* A hint that is exported tells the truth, and one that is not leaves the old
\* one as it was.
HintExported == world = "hint" => Hint!HintTellsTruth /\ Hint!OldUntilReady

(***************************************************************************)
(* HostMemory: four pages, chunks of two, one change of protection during  *)
(* a call.                                                                 *)
(***************************************************************************)
ASSUME HostAssumption == Pages \in Nat \ {0} /\ CopyChunk \in Nat \ {0}

Host == INSTANCE HostMemory

HostInit == world = "host" /\ Host!Init /\ Init /\ PipelineIdle /\ HintIdle /\ MethodIdle /\ target = Idle
HostNext == world = "host" /\ Host!Next /\ UNCHANGED <<world, vars, pipelineVars, hintVars, methodVars, target>>

\* A read is exact or fails, and fails only if a page was not there; a
\* snapshot lacks no page that could be read.
CopiesAreExact == world = "host" => Host!AccessExact /\ Host!SnapshotComplete

(***************************************************************************)
(* MethodAddress: tables of methods whose size allows two or three         *)
(* layouts, one of them cut off; images with a gap, without a name and     *)
(* without a module; pointers that are zero, below the module and far      *)
(* behind it; sections without bytes in the file.                          *)
(***************************************************************************)
Image(name, s, n) == [name |-> name, start |-> s, count |-> n]
Section(rva, n, raw) == [rva |-> rva, size |-> n, raw |-> raw]
Module(name, ps) == [name |-> name, pointers |-> ps]
Layout8 == [stride |-> 8, token |-> 5]
Layout9 == [stride |-> 9, token |-> 6]
Layout10 == [stride |-> 10, token |-> 7]

\* Type and row of each method.
MethodTable == <<<<0, 1>>, <<0, 2>>, <<1, 3>>, <<2, 1>>, <<2, 3>>, <<3, 2>>, <<4, 1>>, <<4, 2>>, <<4, 3>>, <<5, 1>>>>

\* A table of that many words, of which the metadata has some.
MethodTarget(layout, n, present) ==
  LET word(w) == LET m  == (w - 1) \div layout.stride + 1
                     at == (w - 1) % layout.stride
                 IN  CASE at = 1 -> -MethodTable[m][1] [] at = layout.token -> MethodTable[m][2] [] OTHER -> -at
      methods(t) == {m \in 1..(n \div layout.stride) : MethodTable[m][1] = t}
  IN  [images |-> <<Image("a.dll", 0, 1), Image("b.dll", 2, 2), Image("a.dll", -5, 2), Image("c", 4, 1), Image("", 5, 1)>>,
       types |-> [t \in 1..6 |->
                   [first |-> IF methods(t - 1) = {} THEN 0 ELSE (CHOOSE m \in methods(t - 1) :
                                                                  \A k \in methods(t - 1) : m <= k) - 1,
                    count |-> Cardinality(methods(t - 1))]],
       words |-> [w \in 1..present |-> word(w)], size |-> n, layout |-> layout,
       modules |-> <<Module("/x/B.dll", <<111, 0, 1121>>), Module("", <<150>>), Module("d", <<>>),
                     Module("A", <<121, 50>>)>>,
       sections |-> <<Section(30, 0, 9), Section(10, 5, 4), Section(20, 5, 0), Section(18, 6, 40)>>,
       base |-> 100, hint |-> TRUE]

MCMethodTargets ==
  {MethodTarget(Layout8, 72, 72), MethodTarget(Layout9, 72, 72), MethodTarget(Layout9, 72, 50),
   MethodTarget(Layout8, 80, 80), MethodTarget(Layout10, 80, 80),
   [MethodTarget(Layout8, 32, 32) EXCEPT !.hint = FALSE],
   [MethodTarget(Layout8, 40, 40) EXCEPT !.images = <<>>], [MethodTarget(Layout9, 45, 45) EXCEPT !.size = 46]}

MCKey ==
  ("a.dll" :> "a") @@ ("A" :> "a") @@ ("b.dll" :> "b") @@ ("/x/B.dll" :> "b") @@ ("c" :> "c") @@ ("d" :> "d")
    @@ ("" :> "")
MCViewSearch == [layouts |-> <<Layout8, Layout9, Layout10>>, sample |-> 4, limit |-> 20, whole |-> TRUE]
MCDumpSearch == [layouts |-> <<Layout8, Layout9>>, sample |-> 5, limit |-> 10, whole |-> FALSE]

Method == INSTANCE MethodAddress WITH Targets <- MethodTargets

LayoutType == {l \in [stride : Nat \ {0}, token : Nat] : l.token < l.stride}
SearchType == [layouts : Seq(LayoutType), sample : Nat, limit : Nat, whole : BOOLEAN]

\* An image is named after a file, so that a key is left of its name; its types
\* are types of the metadata; there are not more images, nor more pointers of a
\* module, than are read.
ASSUME MethodAssumption ==
  /\ MethodTargets \subseteq Method!TargetType
  /\ \A t \in MethodTargets :
       /\ t.layout \in LayoutType /\ Len(t.images) <= MaxImages
       /\ \A k \in DOMAIN t.images :
            /\ t.images[k].name \in DOMAIN Key
            /\ Method!Usable(t.images[k]) => Method!End(t.images[k]) <= Len(t.types)
       /\ \A k \in DOMAIN t.modules : t.modules[k].name \in DOMAIN Key /\ Len(t.modules[k].pointers) <= MaxPointers
  /\ "" \in DOMAIN Key /\ \A n \in DOMAIN Key : Key[n] = "" <=> n = ""
  /\ {ViewSearch, DumpSearch} \subseteq SearchType
  /\ Rows \subseteq Nat /\ MaxImages \in Nat /\ MaxPointers \in Nat /\ Width \in Nat \ {0}

\* If the size of a table allows a layout, it allows the one it has, and by no
\* other, or one looked at later, do as many of its records look like methods.
LayoutsTold ==
  \A t \in MethodTargets, s \in {ViewSearch, DumpSearch} :
    Method!Possible(t, s) # {} /\ (\E l \in DOMAIN s.layouts : s.layouts[l] = t.layout) =>
      \E l \in Method!Possible(t, s) :
        /\ s.layouts[l] = t.layout
        /\ \A k \in Method!Possible(t, s) \ {l} :
             \/ Method!Hits(t, s, k) < Method!Hits(t, s, l)
             \/ Method!Hits(t, s, k) = Method!Hits(t, s, l) /\ l < k

ASSUME LayoutAssumption == LayoutsTold

MethodInit == world = "method" /\ Method!Init /\ Init /\ PipelineIdle /\ HintIdle /\ HostIdle
MethodNext == world = "method" /\ Method!Next /\ UNCHANGED <<world, vars, pipelineVars, hintVars, hostVars>>

\* The address that is given for a method is its own, and one that has code
\* gets it unless something could not be read.
AddressesAreRight ==
  world = "method" => Method!AddressIsOfMethod /\ Method!AddressesAreAll /\ Method!MethodIsOfType

AllInit == ProgressInit \/ PipelineInit \/ HintInit \/ HostInit \/ MethodInit
AllNext == ProgressNext \/ PipelineNext \/ HintNext \/ HostNext \/ MethodNext
AllSpec == AllInit /\ [][AllNext]_allVars
PipelineSpec == PipelineInit /\ [][PipelineNext]_allVars
==============================================================================
