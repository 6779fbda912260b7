------------------------------- MODULE MCScans -------------------------------
(***************************************************************************)
(* The chunked scans of target memory and the searches of the offline dump *)
(* in its snapshot, each with its own inputs.  A behaviour is one call of  *)
(* one of them: world says which.  Variables of the others keep the value  *)
(* Idle.                                                                   *)
(***************************************************************************)
EXTENDS Integers, Sequences, FiniteSets, TLC

CONSTANTS
  \* PatternScan
  Bytes, Patterns, ChunkSizes, MinChunk, Maps, HitLimits,
  \* MetadataLocator
  Others, Width, Align, MinOffset, MinTables, MinEnd, MaxEnd, ImageRecord, AssemblyRecord, MaxRecords,
  ScorePage, Required, Strict, NoBlob, Blobs, PageOf, Fits, HeaderAt, Modules, WordSize, ChunkSize,
  MaxPages, ReadSize,
  \* RegistrationScan
  RegistrationInputs, ModuleNames, SampleSize, MaxCount, MaxInvokers, MaxModules, MaxListed, MaxMethods, Half,
  \* OfflineRegistration
  OfflineInputs, ImageNames, Mscorlib, MaxBack, MaxDelta, MaxRatio, MaxGeneric, MaxTable,
  \* TypeInfoTable
  ClassTargets, Anchors, ClassName, MaxSamples, ClassChunk

VARIABLES
  world,
  \* PatternScan
  map, memory, pattern, chunkSize, maxHits, region, readAddr, tail, outHits,
  \* MetadataLocator
  module, off, front, pageMap, best, copied, ok, missed,
  \* RegistrationScan
  input, stage, regs, array, list, hindered,
  \* OfflineRegistration
  image, pointerInExec, found, result, error, runtime, via,
  \* TypeInfoTable
  target, heap, range, cur, read, word, table, sample, matched, anchored, blocked,
  \* more than one
  pc, section, offset, expired

Idle == "idle"

patternVars == <<map, memory, pattern, chunkSize, maxHits, region, readAddr, tail, outHits>>
locatorVars == <<module, off, front, pageMap, best, copied, ok, missed>>
registrationVars == <<input, stage, regs, array, list, hindered>>
offlineVars == <<image, pointerInExec, found, result, error, runtime, via>>
classVars == <<target, heap, range, cur, read, word, table, sample, matched, anchored, blocked>>
scanVars == <<section, offset, expired>>
vars == <<world, patternVars, locatorVars, registrationVars, offlineVars, classVars, scanVars, pc>>

PatternIdle ==
  /\ map = Idle /\ memory = Idle /\ pattern = Idle /\ chunkSize = Idle /\ maxHits = Idle
  /\ region = Idle /\ readAddr = Idle /\ tail = Idle /\ outHits = Idle
LocatorIdle ==
  /\ module = Idle /\ off = Idle /\ front = Idle /\ pageMap = Idle /\ best = Idle
  /\ copied = Idle /\ ok = Idle /\ missed = Idle
RegistrationIdle ==
  /\ input = Idle /\ stage = Idle /\ regs = Idle /\ array = Idle /\ list = Idle /\ hindered = Idle
OfflineIdle ==
  /\ image = Idle /\ pointerInExec = Idle /\ found = Idle /\ result = Idle /\ error = Idle
  /\ runtime = Idle /\ via = Idle
ClassIdle ==
  /\ target = Idle /\ heap = Idle /\ range = Idle /\ cur = Idle /\ read = Idle /\ word = Idle /\ table = Idle
  /\ sample = Idle /\ matched = Idle /\ anchored = Idle /\ blocked = Idle
ScanIdle == section = Idle /\ offset = Idle /\ expired = Idle

(***************************************************************************)
(* PatternScan over all contents of a few small address spaces: a region   *)
(* of several chunks, a region that is passed over between two that touch  *)
(* it, and chunks that cannot be read.                                     *)
(***************************************************************************)
R(a, n, s, l) == [start |-> a, size |-> n, scanned |-> s, lost |-> l]

MCPatterns == {<<1>>, <<0, 1>>, <<1, 1>>, <<1, 0, 1>>, <<1, 1, 1>>}
MCMaps == {<<R(0, 7, TRUE, {})>>, <<R(0, 8, TRUE, {3})>>,
           <<R(0, 3, TRUE, {}), R(3, 1, FALSE, {}), R(4, 3, TRUE, {})>>,
           <<R(0, 2, TRUE, {}), R(2, 5, TRUE, {4})>>}

Pattern == INSTANCE PatternScan

\* Regions do not overlap and come in the order of their addresses, as those of
\* VirtualQueryEx do; what is lost of one lies in it.
ASSUME PatternAssumption ==
  /\ MinChunk \in Nat \ {0} /\ ChunkSizes \subseteq Nat /\ HitLimits \subseteq Nat
  /\ \A p \in Patterns : p \in Seq(Bytes) /\ p # <<>>
  /\ \A m \in Maps :
       /\ m \in Seq([start : Nat, size : Nat, scanned : BOOLEAN, lost : SUBSET Nat])
       /\ \A i \in DOMAIN m : m[i].lost \subseteq 0..(m[i].size - 1)
       /\ \A i, j \in DOMAIN m : i < j => m[i].start + m[i].size <= m[j].start

PatternInit ==
  /\ world = "pattern" /\ Pattern!Init
  /\ LocatorIdle /\ RegistrationIdle /\ OfflineIdle /\ ClassIdle /\ ScanIdle

PatternNext ==
  world = "pattern" /\ Pattern!Next /\ UNCHANGED <<world, locatorVars, registrationVars, offlineVars, classVars, scanVars>>

\* The hits are the occurrences of the pattern in what could be read, each once.
HitsAreOccurrences == world = "pattern" => Pattern!HitsAreOccurrences

(***************************************************************************)
(* MetadataLocator over modules of four words in one or two sections, one  *)
(* of them ending in half a word, with pointers to two headers of one page *)
(* that differ in score, to one of another page, and to junk.              *)
(***************************************************************************)
Table(o, s) == [offset |-> o, size |-> s]

\* Three tables and a fourth one.
HeaderWith(x) ==
  LET t == [string |-> Table(4, 8), images |-> Table(12, 4), assemblies |-> Table(16, 4), other |-> x]
  IN  [version |-> 29, offset |-> [n \in DOMAIN t |-> t[n].offset], size |-> [n \in DOMAIN t |-> t[n].size]]

MCBlobs == {"good", "better", "wraps", "broken"}
MCPageOf == [b \in MCBlobs |-> IF b = "wraps" THEN 2 ELSE 1]
MCFits == [b \in MCBlobs |-> TRUE]
MCHeaderAt ==
  [b \in MCBlobs |-> HeaderWith(CASE b = "good" -> Table(0, 0) [] b = "better" -> Table(20, 6)
                                  [] b = "wraps" -> Table(60, 20) [] b = "broken" -> Table(21, 4))]

DotData(d, r, n) == [data |-> d, rva |-> r, size |-> n]
LocatorLayouts == {<<DotData(TRUE, 0, 8)>>,
                   <<DotData(FALSE, 0, 4), DotData(TRUE, 4, 0)>>,
                   <<DotData(TRUE, 0, 5), DotData(TRUE, 6, 9)>>}
MCModules == {[size |-> 8, sections |-> l, word |-> w] :
                l \in LocatorLayouts, w \in [{0, 2, 4, 6} -> MCBlobs \cup {"none"}]}

Locator == INSTANCE MetadataLocator WITH None <- NoBlob, Word <- WordSize

\* Headers have words of Width values.  The places of a module's words hold
\* what its pointers lead to; sections start at whole words (at pages), and a
\* chunk, which is 2 MB unless the caller says otherwise, is of whole words.
ASSUME LocatorAssumption ==
  /\ {Width, ImageRecord, AssemblyRecord, ScorePage, WordSize, ChunkSize, ReadSize} \subseteq Nat \ {0}
  /\ {MaxEnd, MaxRecords} \subseteq Nat
  /\ IsFiniteSet(Others) /\ HeaderAt \in [Blobs -> Locator!Headers]
  /\ ChunkSize % WordSize = 0
  /\ \A m \in Modules :
       /\ m.size \in Nat
       /\ m.sections \in Seq([data : BOOLEAN, rva : Nat, size : Nat])
       /\ \A i \in DOMAIN m.sections : m.sections[i].rva % WordSize = 0
       /\ m.word \in [{a \in 0..(m.size - WordSize) : a % WordSize = 0} -> Blobs \cup {NoBlob}]

LocatorInit == world = "locator" /\ Locator!Init /\ PatternIdle /\ RegistrationIdle /\ OfflineIdle /\ ClassIdle

LocatorNext ==
  world = "locator" /\ Locator!Next /\ UNCHANGED <<world, patternVars, registrationVars, offlineVars, classVars>>

\* What is taken for the metadata scores as a header, and none of the same page
\* with a pointer in the same chunk scores better (those of other pages, and of
\* other chunks, are not compared); a search that ran to its end comes back
\* with none only if every header was in what could not be read.
BestHeaderFound == world = "locator" => Locator!FoundIsGenuine /\ Locator!NothingPassedOver

\* The metadata is exported as a whole, or nothing is.
ExportAllOrNothing == world = "locator" => Locator!ExportAllOrNothing

(***************************************************************************)
(* RegistrationScan over modules with the code of two methods, read-only   *)
(* data with three code generation modules' worth of arrays, and the two   *)
(* structures one after the other at several places of a data section that *)
(* is read in chunks of three sizes.                                       *)
(***************************************************************************)
Pad(n) == [i \in 1..n |-> 0]

\* Addresses 1 to 24: code, invokers, the array of modules, two modules, their
\* names, types, field offsets.
ReadOnly ==
  Pad(2) \o <<1, 1, 2>> \o <<9, 9, 13>> \o <<17, 1, 3, 0>> \o <<18, 1, 3, 0>>
  \o <<901, 902>> \o <<3, 3, 3>> \o <<0, 3, 0>>

CodeWords == [i \in 1..15 |-> CASE i = 6 -> 1 [] i = 7 -> 3 [] i = 14 -> 3 [] i = 15 -> 6 [] OTHER -> 0]
MetaWords == [i \in 1..16 |-> CASE i = 7 -> 1 [] i = 8 -> 19 [] i \in {11, 13} -> 5
                                [] i = 12 -> 22 [] i = 14 -> 3 [] OTHER -> 0]

Part(k, a, n) == [kind |-> k, start |-> a, size |-> n]
PartsOf(n) == <<Part("text", 1, 2), Part("tables", 3, 22), Part("data", 25, n)>>

\* methods: the word that has the number of methods of the second module.
ModuleWith(data, methods, chunk, path) ==
  [word |-> [ReadOnly EXCEPT ![14] = methods] \o data, file |-> PartsOf(Len(data)), memory |-> PartsOf(Len(data)),
   path |-> path, version |-> 29, images |-> 3, typeDefs |-> {5}, chunk |-> chunk]

\* Half is 1000: one method and something in the upper half, and more methods
\* (invokers) than are allowed.
MCRegistrationInputs ==
  {ModuleWith(d, 1, c, p) :
     d \in {Pad(i) \o CodeWords \o MetaWords : i \in 0..3}
           \cup {MetaWords \o Pad(1) \o CodeWords, MetaWords \o <<17, 1, 3, 0>>},
     c \in {16, 20, 36}, p \in {"none", "parsed", "broken"}}
  \cup {ModuleWith(d, n, 36, "none") :
          d \in {CodeWords \o MetaWords, [CodeWords EXCEPT ![6] = 101] \o MetaWords}, n \in {51, 1001}}

Registration == INSTANCE RegistrationScan WITH Inputs <- RegistrationInputs, Names <- ModuleNames, Sample <- SampleSize

\* The sections of a file or a module come in the order of their addresses and
\* do not overlap; those of data lie behind more headers and code than a
\* structure has words.
ASSUME RegistrationAssumption ==
  /\ \A i \in RegistrationInputs :
       /\ i.word \in Seq(Nat) /\ i.version \in Nat /\ i.images \in Nat /\ i.typeDefs \subseteq Nat
       /\ i.path \in {"none", "parsed", "broken"} /\ i.chunk \in Nat \ {0}
       /\ \A ss \in {i.file, i.memory} :
            /\ ss \in Seq([kind : STRING, start : Nat \ {0}, size : Nat])
            /\ \A j \in DOMAIN ss : ss[j].kind = "data" => ss[j].start > Registration!MetaOffsets(i.version).need
            /\ \A j, k \in DOMAIN ss : j < k => ss[j].start + ss[j].size <= ss[k].start
  /\ SampleSize \in Nat
  /\ {MaxInvokers, MaxModules, MaxListed, MaxMethods} \subseteq Nat /\ Half \in Nat \ {0}

RegistrationInit == world = "registration" /\ Registration!Init /\ PatternIdle /\ LocatorIdle /\ OfflineIdle /\ ClassIdle

RegistrationNext ==
  world = "registration" /\ Registration!Next /\ UNCHANGED <<world, patternVars, locatorVars, offlineVars, classVars>>

\* A search that is not hindered misses a registration only if every copy that
\* it could see is cut by the edges of its chunks, and what is listed then are
\* modules, each once.
FoundUnlessCut ==
  world = "registration" =>
    Registration!MetaFoundUnlessCut /\ Registration!CodeFoundUnlessCut /\ Registration!ModulesOnce

(***************************************************************************)
(* OfflineRegistration over snapshots with both structures, of seven       *)
(* layouts: the name of mscorlib in a section of data, of code, or in none *)
(* of them, with a reference to it that leads nowhere; a reference at the  *)
(* start of a section; the structure at its end; types that leave the      *)
(* image; one module (method) more than the second reading takes.  The     *)
(* first attempt has the right addresses or wrong ones.                    *)
(***************************************************************************)
OfflineCodeWords(v, generic, n) ==
  (IF v < 2420 THEN <<n, 106>> ELSE <<>>) \o Pad(2) \o <<generic, 106>>
  \o (IF v \in {2450, 2720, 2900, 2910} THEN Pad(1) ELSE <<>>) \o <<1, 106>>
  \o Pad(CASE v = 2400 -> 6 [] v = 2420 -> 6 [] v = 2450 -> 8 [] v = 2910 -> 8 [] OTHER -> 6)
  \o (IF v < 2420 THEN <<>> ELSE <<n, 116>>)
OfflineMetaWords(types, n, sizes) == Pad(6) \o <<n, types>> \o Pad(2) \o <<3, 113, 3, sizes, 2, 147>>

\* where: the section the name of mscorlib is in, or none; both if it is the
\* one of code and that has initialised data as well.
OfflineReadOnly(where, decoy) ==
  LET inCode == where \in {"exec", "both"}
      name   == IF inCode THEN 103 ELSE 104
      type   == IF inCode THEN 101 ELSE 109
  IN  <<1, 1, IF inCode THEN 901 ELSE 1>>
      \o <<CASE where = "data" -> 901 [] where = "none" -> 903 [] OTHER -> 1, 902>> \o <<101, 102, 101, 0, 0>>
      \o <<type, type>> \o <<0, IF decoy THEN name ELSE 0, 0>> \o <<119, 133, 0>>
      \o <<name, 2, 106>> \o Pad(11) \o <<105, 1, 108>> \o Pad(11) \o <<109, 109>>

\* The data from word 150 on: first, the structures in one order or the other,
\* and a rest.
OfflineImage(v, where, decoy, first, swapped, generic, types, rest) ==
  LET code == OfflineCodeWords(v, generic, IF types = "many" THEN 3 ELSE 2)
      meta == IF types = "cut" THEN OfflineMetaWords(149 + Len(first) + Len(code) + 16 + Len(rest), 2, 113)
                               ELSE OfflineMetaWords(111, 2, IF generic = 1 THEN 113 ELSE 147)
      data == first \o (IF swapped THEN meta \o code ELSE code \o meta) \o rest
      c    == 150 + Len(first) + (IF swapped THEN 16 ELSE 0)
      m    == 150 + Len(first) + (IF swapped THEN 0 ELSE Len(code))
      ro   == OfflineReadOnly(where, decoy)
  IN  [word |-> [a \in 101..(100 + Len(ro)) \cup 150..(149 + Len(data)) |->
                   IF a < 150 THEN ro[a - 100] ELSE data[a - 149]],
       sections |-> <<[kinds |-> IF where = "both" THEN {"exec", "data"} ELSE {"exec"}, start |-> 101, size |-> 3],
                      [kinds |-> {"data"}, start |-> 104, size |-> Len(ro) - 3],
                      [kinds |-> {"data"}, start |-> 150, size |-> Len(data)]>>,
       version |-> v, methods |-> 2, typeDefs |-> 3, images |-> 2,
       usages |-> IF v >= 2700 THEN 0 ELSE 2,
       primaries |-> {<<c, m>>, <<c + 1, m>>, <<c, m + 2>>}]

MCOfflineInputs ==
  {OfflineImage(v, w, f[1], f[2], s, r[1], r[2], r[3]) :
     v \in {2400, 2420, 2450, 2700, 2720, 2900, 2910}, w \in {"data", "exec", "both", "none"}, s \in BOOLEAN,
     f \in {<<FALSE, <<>>>>, <<TRUE, <<0>>>>, <<FALSE, <<116>>>>},
     r \in {<<1, "whole", <<109>>>>, <<99, "whole", <<>>>>, <<1, "cut", <<109>>>>, <<1, "many", <<109>>>>}}

Offline == INSTANCE OfflineRegistration WITH Inputs <- OfflineInputs, Names <- ImageNames

\* The words of a snapshot are numbers at addresses, none of them among the
\* first, where no image is, and its sections lie in it; the metadata has types
\* and images.
ASSUME OfflineAssumption ==
  /\ {MaxBack, MaxDelta, MaxRatio, MaxGeneric, MaxTable} \subseteq Nat
  /\ \A x \in OfflineInputs :
       /\ \A a \in DOMAIN x.word : a \in Nat /\ a > 20 /\ x.word[a] \in Nat
       /\ \A i \in DOMAIN x.sections :
            /\ x.sections[i].start \in Nat /\ x.sections[i].size \in Nat
            /\ x.sections[i].start..(x.sections[i].start + x.sections[i].size - 1) \subseteq DOMAIN x.word
       /\ x.primaries \subseteq Nat \X Nat
       /\ {x.version, x.methods} \subseteq Nat /\ {x.typeDefs, x.images} \subseteq Nat \ {0}

OfflineInit ==
  world = "offline" /\ Offline!Init /\ PatternIdle /\ LocatorIdle /\ RegistrationIdle /\ ClassIdle /\ ScanIdle

OfflineNext ==
  world = "offline" /\ Offline!Next
  /\ UNCHANGED <<world, patternVars, locatorVars, registrationVars, classVars, scanVars>>

\* What leads from the name of mscorlib to an array of modules is followed, in
\* the sections of code only where those of data do not lead there, and the
\* structure of an array found this way is initialised.
LinkedIsFound ==
  world = "offline" =>
    Offline!NothingLinkedIsMissed /\ Offline!ExecOnlyAsFallback /\ Offline!ArrayFoundIsInitialised

\* No pair of structures that scores better would have been initialised.
NoBetterOneLeft == world = "offline" => Offline!NoBetterOneLeft

\* A call that returns has an error or tables; these are the tables that were
\* looked at when the structures were accepted, except for modules of MaxTable
\* methods, and only what lacks something or has too many is not loaded.
LoadedOrError ==
  world = "offline" => Offline!ErrorUnlessLoaded /\ Offline!TablesAgree /\ Offline!RefusalHasReason

(***************************************************************************)
(* TypeInfoTable with seven types, of which the first and the last are     *)
(* sampled beside two anchors; the table at 100, most of its entries       *)
(* filled in or not; at 110 an array with the right classes at two sampled *)
(* places and a wrong one elsewhere, and at 120 one with a single anchor.  *)
(***************************************************************************)
ClassTable == [b \in 0..6 |-> 201 + b]
ClassHeap(used) ==
  [a \in 98..126 |->
     CASE a \in 100..106 -> IF a - 100 \in used THEN ClassTable[a - 100] ELSE 0
       [] a \in {110, 116} -> ClassTable[a - 110]
       [] a = 114 -> ClassTable[5]
       [] a = 121 -> ClassTable[1]
       [] OTHER -> 0]
ClassTarget(words, data, used, more) ==
  [names |-> 0 :> "A" @@ 1 :> "Object" @@ 2 :> "C" @@ 3 :> "String" @@ 4 :> "E" @@ 5 :> "F" @@ 6 :> "G",
   word |-> words, data |-> data, heap |-> ClassHeap(used), later |-> [a \in {100 + b : b \in more} |-> ClassTable[a - 100]]]

MCClassTargets ==
  {ClassTarget(w, d, u[1], u[2]) :
     w \in {<<110, 98, 0, 100, 7>>, <<100, 102, 120, 110, 0>>, <<0, 0, 120, 0, 100>>},
     d \in {{}, 3..4}, u \in {<<0..6, {}>>, <<{1, 3, 4}, {0, 6}>>, <<{0, 6}, {1, 3}>>, <<{0, 5}, {2}>>}}
MCAnchors == <<"Object", "String">>
MCClassName ==
  201 :> "A" @@ 202 :> "Object" @@ 203 :> "C" @@ 204 :> "String" @@ 205 :> "E" @@ 206 :> "F" @@ 207 :> "G"

Classes == INSTANCE TypeInfoTable WITH Targets <- ClassTargets, ChunkSize <- ClassChunk, hindered <- blocked

ClassInit ==
  world = "class" /\ Classes!Init /\ PatternIdle /\ LocatorIdle /\ RegistrationIdle /\ OfflineIdle /\ ScanIdle

ClassNext ==
  world = "class" /\ Classes!Next
  /\ UNCHANGED <<world, patternVars, locatorVars, registrationVars, offlineVars, scanVars>>

\* What is taken for the table of classes has all of them under their names,
\* and the table is missed only if each pointer to it, or one of the samples
\* compared for it, could not be read.
ClassTableFound == world = "class" => Classes!ClassesHaveTheirNames /\ Classes!TableNotMissed

Init == PatternInit \/ LocatorInit \/ RegistrationInit \/ OfflineInit \/ ClassInit
Next == PatternNext \/ LocatorNext \/ RegistrationNext \/ OfflineNext \/ ClassNext
Spec == Init /\ [][Next]_vars
==============================================================================
