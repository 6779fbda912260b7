# TLA+ verification of er2 (Unity runtime structure resolver)

er2 reads the memory of a running Unity process from outside (or from inside,
through `LocalMemoryAccessor`) and rebuilds engine structures from it: the
GameObjectManager (GOM), the MSID registry of all objects, components,
transforms, IL2CPP metadata. It only reads. The program it reads is never
stopped and shares no lock with it, so **every read of target memory is a point
at which the target may have moved**. That is where this code is hard to test,
and it is what most modules here are about. The rest is about searches through
memory that may be anything, read in chunks of which any may be unreadable;
about state the library keeps itself (its global context and caches); and about
dumps, in which one step of many fails and files of an earlier call are about.

Paths below are relative to the repository. `gom/`, `init/`, `msid/`,
`dumpsdk/`, `metadata/` and `transform/` stand for directories of
`include/er2/unity2/`, `offline/` and `writers/` for those of `src/dumpsdk/`.

## 1. Inventory

| Part | State it keeps | Operations | What is hard | What makes it correct |
|:--|:--|:--|:--|:--|
| GameObject enumeration (`gom/gom_walker.hpp`, `gom_bucket.hpp`) | locals of one call: visited set, node, bucket list | `EnumerateGameObjects` | lists relinked, tables moved between two reads | ends; no duplicate; only what was listed; complete on additions |
| Candidate check (`gom/validate_dlist.hpp`, `manager_score.hpp`) | locals of one call | `ValidateCircularDList`, `CheckGameObjectManagerCandidateBlindScan` | arbitrary words, three unbounded loops | accepts exactly sound rings; ends |
| Pattern scan (`gom/scan_pattern.hpp`) | tail of the last chunk, hits | `ScanProcessForPatternGlobal` | chunk edges, unreadable chunks, hit limit | hits are the occurrences, once each, in order |
| GOM search (`gom/scan_chain.hpp`, `scan_heuristic.hpp`, `gom_scan.hpp`) | candidates and the best score | `FindGomGlobalSlot...` | several failing stages, stray words that look right | the right word; the best valid candidate |
| Search by tag (`gom/gom_search_common.hpp`, `gom_bucket.hpp`, `gom_hash_calc.hpp`) | none | `FindGameObjectThroughTag`, `FindBucketThrough...` | erased slots, empty lists | finds the tag's first object |
| Component queries (`gom/gom_search_component.hpp`, `init/component.hpp`) | locals of one call | five queries | array shrinks or moves during the query | returns what the object has (had), first match |
| Context (`init/context_*.hpp`, `auto_init.hpp`, `backend.hpp`) | `g_ctx`, backend's handle and accessor | `InitSettings`, `AutoInit`, `InitBase`, `ResetContext`, `SetContextBackend` | processes exit, ids come back, calls fail half way | one target; nothing stale; failure leaves nothing |
| Type table (`init/classmap.hpp`) | table and names in `g_ctx` | search, `EnsureIl2CppTypeInfoInited` | entries the target has not filled in | the table, and no other array |
| Field offsets (`init/field_offset.hpp`) | `g_fieldOffsetState` | build, `TryGetFieldOffset` | names shared by types, unreadable offsets | offset of the nearest type with the field |
| MSID enumeration (`msid/enumerate_objects.hpp`, `ms_id_to_pointer.hpp`) | chunk, class cache of one call | `EnumerateMsIdToPointerObjects` | torn header, tombstones, stale class cache | reports what was registered; complete on additions |
| MSID search (`msid/msid_scan.hpp`) | best word | `FindMsIdToPointerSlotVaByScan` | batches that cannot be read, registry in motion | the registry's word wins |
| `FindObjectsOfTypeAll` (`init/msid.hpp`) | targets of the filter | one call | names with dots | objects of the class asked for |
| Dump progress (`dumpsdk/dump_progress.hpp`) | stage counters, callback slot | construct, `Update`, `Complete`, `Fail`, destroy, set callback | callback exchanged at any time, early returns | reports in order, framed, throttled |
| DumpSDK pipeline (`dumpsdk/sdk_runner.hpp`, `run_in_process.hpp`) | files in a directory, paths told | `DumpSdkRunInProcess`, `DumpSdkDump` | a step of several fails | true means the files are there; files belong together |
| Offline dump (`offline/`) | snapshot of the module, tables | collect, write artefacts | stages, errors left behind | no artefact of a failed stage |
| Offline registration search (`offline/RegistrationSearch*.cpp`) | candidates and scores | `AutoPlusInit`, searches per version | versions' layouts, sections, fallbacks | what is linked is found; the best candidate |
| Metadata location and export (`metadata/export.hpp`, `header/`, `hint/`) | page map, best candidate; hint | `ExportMetadataByScore`, `ExportMetadataHintJson...` | chunk edges, wrapping sums, reads that fail | best header; all bytes or none; a true hint |
| Methods and their addresses (`metadata/method_resolver.hpp`, `metadata_images.hpp`, `metadata_methods.hpp`, `dumpsdk/dump_cs.hpp`) | images and pointers read so far | `ResolveMethodAddress`, `DumpSdk6WriteDumpCsFile`, `ReadMethodDefView` | record layouts to guess, images that cannot be read | the address of that method; every one that has code |
| Registration scanners (`metadata/registration/`, `metadata/codegen/`) | offsets, deadline | `FindIl2CppRegistrations`, `CollectCodeGenModules` | chunks, timeouts, fallbacks | missed only if cut by chunk edges |
| Transforms and bones (`transform/`, `init/bones.hpp`) | locals of one call | walk to the root, walk to all below | parents set meanwhile, limits | path and bones of the target |
| Memory of the own process (`os/win/local_memory_accessor.hpp`, `offline/SafeHostMemory.cpp`) | none | `Read`, `Write`, snapshot | protection changes after the check | exact or failed; nothing readable lacking |
| Text, names, writers' contents, xrefs | parsed tables | format, decode | bounds, recursion | sequential; not modelled |

The parts interact by calls on one thread only: `context_types.hpp:48` and
`field_offset.hpp:39` say that the context must be used by a single thread, so
no two library calls run at once. What does run concurrently is the target, the
operating system's process list, threads that set the progress callback, and,
inside a process, threads that change the protection of its pages. `AutoInit`
calls the GOM search and the MSID search; the GOM search calls pattern scan and
candidate check; enumeration and queries take slots and offsets from the
context; `FindObjectsOfTypeAll` filters the MSID enumeration; a dump calls
metadata location, registration scanner, hint and offline search.

## 2. Modules

The reader modules are all built the same way: **one action is one read of
target memory together with the code up to the next read** (or one chunk, one
attempt, one file, where the module says so). `pc` says what is next; the other
variables are the call's locals with their names in the source. The target has
actions of its own, from the layout the readers assume (marked *external* where
it has a module of its own). History variables, named as such in each module,
record what a property needs of the past.

| Module | Models | Variables and actions |
|:--|:--|:--|
| `ObjectListing` | **abstract**: what enumerations of a running target promise | `present`, `seen`, `reported`; `Start`, `ReportOne` (something seen since the call began), `Answer`, `Clear`, `Change` |
| `GomTarget` (external) | circular doubly linked lists of GameObject nodes | `next`, `prev`, `linked`, `unmapped`; `Link`, `Unlink`, `WriteBack` (the second of the two words of an update), `Unmap` |
| `GomTable` (external) | the manager's bucket table | `base`, `count`, `freed`; a rehash writes its two words in either order; `SlotHead` is what the readers of `gom_bucket.hpp` make of a slot |
| `GomWalk` | `EnumerateGameObjects` on `GomTarget` + `GomTable`; implements `ObjectListing` | `ReadBase`, `ReadCount`, `CollectBucket`, `EnterBucket`, `EnterLocal`, `VisitNode` |
| `GomCandidate` | the candidate check on `GomTarget` | four head reads, Floyd's two pointers, `Measure`, `FindHead`, the round with its four comparisons, `EnterTable`, `CountSlot`, `Score` |
| `GomLocate` | chain of scans and heuristic over the sections; `ScoreOf` stands for `GomCandidate` | a scan word by word, the search upwards for the table, the candidates, the sections |
| `GomTag` | the search by tag and by mask | a read of mask, key, head, first node each, any of which may fail; slots erased and used again |
| `PatternScan` | the chunked scan | `QueryRegion`, `ScanChunk`, `SkipChunk`, `Finished` |
| `IdTable` (external) | the MSID registry, an open hash table with tombstones | `Insert`, `Erase`, `Grow`, `FinishGrow`, `Free` |
| `MsIdEnumerate` | `EnumerateMsIdToPointerObjects` on `IdTable`; implements `ObjectListing` | `ReadSet`, `ReadBase`, `ReadCapacity`, `ReadCount`, `HeaderUnread`; `CopyChunk`, `ChunkUnread`; an entry is not in use, passed over, of a known class, or the first of its class (`ClassMet`, whose reads go up the parents); `ChunksDone` |
| `FindObjects` | `FindObjectsOfTypeAll` on `ObjectListing` | the listing's actions with the filter on each report |
| `MsIdScan` | the scan for the registry | `NextSection`, `LookAtWord`, `WordUnread`, `CountBatch`, `BatchUnread`, `TableCounted`, `Move` |
| `ComponentPool` (external) | one GameObject's component array | `AddComponent`, `RemoveComponent` and `FinishRemoval` (a slot at a time), `MovePool`, `FreePool` |
| `ComponentLookup` | the five component queries on `ComponentPool` | `ReadPool`, `ReadCount`, `ReadTypeId`, `ReadNative`, `ReadComponent`, `ReadClass` |
| `TransformTree` | the walk to the root and the walk to all bones | one action per read, and one for each kind of read that fails; `SetParent` moves a subtree to other slots and may replace the new parent's array of children |
| `Processes` (external) | process ids, module lists | `Start`, `Load`, `Exit`; `Snapshot` may fail at any time |
| `Context` | `g_ctx`, the backend's handle, `g_fieldOffsetState`, `AutoInit` | one action per question a call asks the system; addresses and tables are modelled by the process instance they were taken from |
| `TypeInfoTable` | the search for the table of classes | `ReadChunk`, `LookAtWord`, `ReadSample` (`CompareSample` or `SampleUnread`), `SamplesDone`; `UseClass` fills an entry in |
| `FieldOffsets` | building the table of field offsets and asking it | `EnterType`, `ReadField`, `LeaveType`, `TableBuilt`; `TryResolveFullTypeName`, `VisitType` |
| `MetadataHeader` | the score of a metadata header, as operators; words wrap round | `ScoreMetadataHeader`, `CalcTotalSizeFromHeader` and their conditions |
| `MetadataLocator` | `ExportMetadataByScore` on `MetadataHeader` | sections, chunks, words, pages in any order, total size, regions copied |
| `RegistrationScan` | `FindIl2CppRegistrations` with its fallbacks, `CollectCodeGenModules` | a chunk scanned or unreadable, `Deadline`, `GiveUp`, `NothingFound` (to the next search), the array, the last scan |
| `OfflineRegistration` | the offline dump's own search and `AutoPlusInit`, for versions from 24.0 on | one search, one attempt, one loading each; tables of member layouts by version |
| `DumpProgress` | `DumpSdkProgressScope` and the callback slot | one action per member function, `SetDumpSdkProgressCallback`, `Tick` (100 ms have passed) |
| `DumpPipeline` | the order of stages and their files, for three entry points | one action per stage or file; each file is refused, cut off, short, or whole; `CollectThrows` leaves the call at any stage after the metadata is parsed |
| `HintExport` | the export of a metadata hint and its file | one action per question or read; the target may be gone at each |
| `MethodAddress` | `ResolveMethodAddress`, the addresses in dump.cs, `ReadMethodDefView` with its guess of the layout | `ReadHeader`, `ReadImage`, `FindPointer`, `ReadPointer`; `ReadModule`, `DetectLayout`, `WriteMethods` (a type at a time); `View` |
| `HostMemory` | `LocalMemoryAccessor` and the snapshot of a module | region checked, page copied, `Fault`, `QueryFails`; `Protect` at any time |

`MC*` modules give the constants their values; `*_proofs` modules hold the
theorems. An MC module that holds several components runs them side by side as
*worlds*: a behaviour is one call (or sequence of calls) of one of them, `world`
says of which, variables of the others keep an idle value, and each property
begins with `world = ... =>`. The components are checked together because a
question is about all of them (every chunked scan, every step of a dump), not
because they share state. Where components do interact the modules are composed:
`GomWalk`, `GomCandidate` and `MsIdEnumerate` extend their target's module,
`FindObjects` extends `ObjectListing`, `MetadataLocator` extends
`MetadataHeader`.

An operator whose comment begins with "Mutant:" is a plausible bug in the
definition below it. Each property was confirmed to fail when that definition
is replaced by its mutant.

Abstractions, by data: an address is the thing it points to, or the index of a
word; a word that no validity test lets through is `Null`; names, formatting and
logging are left out; a chunk of the registry, and an entry of it with its class
and that class's parents, and the class of a component are read in one step; GomCandidate's step counter saturates at the score cap, and
its cycle length at `LenBound`. Layout facts about Unity that the models take
from the readers: the memory of a list node, an entry or a component keeps its
kind while mapped, a node's `native_object` never changes, an object has one id
for life, what lies behind an array does not pass for an entry, and the pointer to
the registry and the two arrays of a hierarchy of transforms stay in their places
(an array of children may be replaced, and then anything may be where it was).
Integers
are unbounded except where a width matters: `MetadataHeader` adds offsets and
sizes modulo `Width`, as `std::uint32_t` does.

### The abstract specification

`ObjectListing` says of any enumeration of a running target: between a call and
its answer, things are reported one by one, and each was there at some time
since the call began. An atomic snapshot, which a caller may have in mind, is
more than the code can do. `GomWalk!ImplementsListing` maps nodes to
things, `linked` to `present` and the result to `reported`;
`MsIdEnumerate!ImplementsListing` maps the registered objects. TLC checks both
(`gom_rehash`, `msid`), TLAPS proves both. `FindObjects` is then built on the
abstract module and not on either of the detailed ones.

## 3. What the runs check

| Run | Question | Bounds |
|:--|:--|:--|
| `gom_rehash` | no duplicate, a listing (`ImplementsListing`), complete when objects are only added | 2 objects, 1 tag list, local list, tables of 1 and 2 slots, every word an unlinked node may keep |
| `gom_search` | enumeration ends although the target relinks for ever; candidate check right on a running manager; tag found; chain and heuristic end at the right word | walk: one table, node limit 10; candidate: 2 heads, 2 objects; at most 4 buckets; tag: 3 tags, two with one hash, 2 lists, 2 slots, 3 objects, any read failing; locate: 20 words with two sections, stray masks and pointers, one write of the target |
| `gom_heads` | *fails*: a list head is reported as a GameObject | as `gom_rehash`, one table |
| `cand_any` | verdict = "sound ring", check ends, on **every** memory | 1 head, 3 nodes, every `next` and `prev`, one page missing or not |
| `cand_spins` | *fails*: the measuring loop never ends | 2 heads, 2 objects |
| `scans` | what each chunked scan, and the offline search, finds is what is there | see below |
| `dump` | reports in order, framed, throttled; files told are files written, and belong together; a hint is true; copies are exact; addresses are those of their methods | totals 0 to 7 around multiples of 3 parts, 2 callbacks; one call with two assemblies into an empty or a full directory; modules with 0, 2 and broken records; 4 pages, chunks of 2, one change of protection, any query failing; up to ten methods of six types in five images (`MaxImages`), tables of 32 to 80 words that are a multiple of one, two or three record lengths, one cut off, any read failing |
| `dump_kept` | *fails*: the optional dump destroys files of the main path | one call |
| `context` | one target, nothing stale, failure leaves nothing, offsets fresh; the offset served is the nearest | 2 ids, 3 processes, 2 of them IL2CPP; six metadata with types that share short or full names, 21 questions, every set of offsets unreadable |
| `ctx_offsets` | *fails*: offsets of an exited process are served | 1 id, 2 processes with one base |
| `msid` | the enumeration is a listing; exact when objects are only added; filter exact; registry found | enumerate: 2 objects of a class derived from ScriptableObject, tables of 1 and 3 slots, chunks of 2, one erased entry left in a table (`MaxErased`), one object destroyed (`MaxGone`), any read failing; find: 4 classes, names of 0 to 2 parts, namespaces that cannot be read; scan: two sections of three words, four things they point to, batches of 2, any word or batch unreadable |
| `component` | what is returned was attached, exact when nothing changes; path and bones are the target's | components: 3, of 3 classes with 2 names, arrays of 3 and 1, caps 3 and 2; tree: 4 transforms, 5 shapes, one a path of four up and one down (deeper than the limit), two moves, depth 2, 3 bones, 2 children, any read failing |

Bounds of `scans`: *pattern* 7-8 bytes of 2 values, patterns up to 3, chunks of
2 to 4, limits 0, 1, 2. *locator* modules of 4 words in one or two sections, one
ending in half a word; pointers to two headers of one page that differ in score,
to one whose end wraps round, to one that is broken, to nothing; chunks of two
words, two pages at a time. *registration* two structures at every offset of
four in chunks of 16, 20 and 36 words, both orders, cut short, the file absent,
parsed or broken; any chunk unreadable, time running out at any chunk.
*offline* seven versions from 24.0 to 29.1, the name of mscorlib in data, code,
both or neither, three pairs of addresses the first attempt may start from, both
orders of the structures, one cut off by the end of the image, modules with as many
methods as `MaxTable` and more. *class* tables of
seven classes filled in to four degrees before and during the search, two arrays
that resemble them, with and without a data section.

Some properties are conjunctions of invariants of one component that answer one
question; the MC module names the conjuncts, and their comments say what each
means:

| Property | Conjuncts |
|:--|:--|
| `TagAnswered` | `TagFound`, `WrongOnlyFromErasedOrEmpty`, `MaskFound` |
| `ChainFound` | `ChainSound`, `ChainComplete` |
| `BestHeaderFound` | `FoundIsGenuine`, `NothingPassedOver` |
| `FoundUnlessCut` | `MetaFoundUnlessCut`, `CodeFoundUnlessCut`, `ModulesOnce` |
| `LinkedIsFound` | `NothingLinkedIsMissed`, `ExecOnlyAsFallback`, `ArrayFoundIsInitialised` |
| `LoadedOrError` | `ErrorUnlessLoaded`, `TablesAgree`, `RefusalHasReason` |
| `ClassTableFound` | `ClassesHaveTheirNames`, `TableNotMissed` |
| `ReportedIsWritten` | `MainFilesStay`, `PathsAreWritten`, `EverySidecarTried` |
| `FilesBelongTogether` | `NothingLostEarly`, `HintNotOlder` |
| `HintExported` | `HintTellsTruth`, `OldUntilReady` |
| `CopiesAreExact` | `AccessExact`, `SnapshotComplete` |
| `AddressesAreRight` | `AddressIsOfMethod`, `AddressesAreAll`, `MethodIsOfType` |
| `OffsetIsNearest` | `NearestIsServed`, `AliasIsUnique`, `NoTypeTwice` |
| `PathIsOfTarget` | `PathWasLinked`, `PathIsWhole` |
| `BonesAreOfTarget` | `NoBoneTwice`, `BonesWereBelow`, `BonesAreAll` |

Why this is enough: the interesting cases need one object moved under the
reader and one that stays, two lists or two tables to confuse, one full and one
partial chunk, one element behind a cap, one id used twice, one structure on
either side of a chunk edge, one stage that fails before and one after a file is
opened. Each is there, and each property has a mutant that these bounds catch.
For larger sizes the theorems of section 5 take over.

**Provisos.** `InsertOnlyComplete` and `InsertOnlyExact` speak of calls during
which the target only added objects, `QuietExact` and `TagFound` of calls during
which it did nothing. The code cannot promise more: an object that stays can be
missed because *another* one is unlinked while the walk stands on its node
(`gom_walker.hpp:99`). `InsertOnlyExact` excepts, one by one, what a failed read
costs: all objects in a chunk, the one object whose wrapper could not be followed,
all objects of a class whose name or lineage could not be read when it was first
met. `RegistryFound` takes the objects that stayed in the registry and could be
read there for its measure, whatever else comes and goes. `FoundUnlessCut`,
`TableNotMissed` and `NothingPassedOver` except what could not be read (an entry
or a name among the samples included) and, for the first, what lies across the
edge of a chunk, since chunks do not overlap there. `PathWasLinked` is for calls
in which the start was in the hierarchy read before when its slot was read, and no
slot got another owner; `BonesWereBelow` for those in which no array of children
was replaced between the read of its address and of its words. In either case
nothing in the code stands against the torn read, and its result is arbitrary.
`ChainFound` is for a target that stays as it is. `NearestIsServed` is for metadata in
which full names are unique; `AddressesAreAll` for calls in which every read
succeeded; `MethodIsOfType` for tables in one of the layouts the code knows that
look more like it than like another (`LayoutsTold`), and the two about addresses
for targets whose images do not overlap and whose modules have different names. Each such premise is met by most behaviours of its
run, and the mutants are found under it.

**Fairness.** Only the calling thread is assumed to keep running:
`WF` of `GomWalk`'s reader in `gom_search`, `WF_vars(Check)` in `GomCandidate`.
The code justifies it, since neither loop waits for anything. Nothing is assumed
of the target; in particular it may relink for ever. Other loops of the code go
through ranges that shrink with each step, and their runs visit finitely many
states without a cycle the reader could go round, the walk over bones and the
walk over parents of a type excepted: `NoBoneTwice` and `NoTypeTwice` are what
makes those end.

`CHECK_DEADLOCK FALSE` is in `GomSearch.cfg`, `MsId.cfg`, `Component.cfg`,
`Dump.cfg` and `DumpKept.cfg`: a behaviour there may be a single call, after
which nothing is left to do. In the other runs calls are made again and again,
or the end is a step of its own (`Returned`, `Ended`).

## 4. Disagreements found while modelling

Shown by runs that end in a violation:

- `OnlyGameObjects`: `gom_list_node.hpp:38` calls the head a header whose next
  is the first node; the walk starts at the head and reports it.
- `CheckEnds` on a live target: the loop at `validate_dlist.hpp:111` waits for a
  node the target may unlink.
- `FieldOffsetsOfTarget`: process id and module base do not tell processes apart.
- `MainPathKept`: the dump at the end of `DumpSdkRunInProcess`
  (`run_in_process.hpp:84`) is optional and must not matter to the result, but
  writes over the metadata and the hint of the main path.

Reachable in the models, with no run spent on them:

- an object that stays linked during the whole call can be missed (see above),
  against "遍历所有 GameObject" (`README.md:125`);
- `AutoInit` takes a failed module snapshot for a Mono process
  (`auto_init.hpp:68`), against automatic recognition (`README.md:7`), and
  succeeds without an MSID slot (`auto_init.hpp:105`), against `README.md:97`;
- `GetComponentThroughTypeId` reads type id and component separately
  (`gom_search_component.hpp:40` and `:51`): a removal in between returns a
  component of another type, against `README.md:166`;
- a tag in use whose list is empty is answered with the word the head has where
  a node has its object: the head's next is the head, which `GetListNodeFirst`
  does not tell from a node (`gom_list_node.hpp:39`, `gom_search_common.hpp:32`
  and `:37`), against "the first GameObject of the tag" (`README.md:127`) and
  `gom_list_node.hpp:38`. `TagFound` claims nothing of such a tag, and
  `WrongOnlyFromErasedOrEmpty` names it as one of the two ways to a wrong answer;
- the walk to the root ends after `maxDepth` parents and succeeds
  (`transform.hpp:120`): of a transform further down, the position returned is
  relative to that ancestor, against the world position of `README.md:175`.
  `PathIsWhole` says so, and the run has such trees (`Up`);
- the two readings of a pair of structures in the offline dump differ for modules
  with 0x400000 methods or more: `TryInit` accepts them,
  `OfflineRuntimeMethods.cpp:47` takes such a module for one without methods, and
  `:24` and `:65` refuse the whole pair for more modules, or methods in the one
  table of the old versions (`TablesAgree` and `RefusalHasReason` except this);
- one sample of the table of classes that cannot be read, an entry or a name,
  refutes the true table (`classmap.hpp:103`, `:124`), and the search goes on to
  another or to none;
- one name or parent that cannot be read when a class is first met leaves out all
  objects of the class (`enumerate_objects.hpp:148`, `il2cpp_class.hpp:56` and
  `:69`), and a namespace that cannot be read gives the class another full name
  (`il2cpp_class.hpp:36`);
- `GetAllComponents` stops at 128 components without a sign
  (`init/component.hpp:197`), against `README.md:165`;
- types nested in different types may have one full name; the table of offsets
  keeps the fields of the first with fields (`field_offset.hpp:306`) and the
  parent of the first with a parent (`:236`), which may be two types;
- a field whose own offset cannot be read is answered with an inherited field of
  the same name;
- of two modules with one name, `ResolveMethodAddress` takes the first
  (`method_resolver.hpp:113`) and dump.cs the last (`dump_cs.hpp:82`), and only
  one of the two refuses more than 4000000 pointers (`dump_cs.hpp:71`);
- dump.cs knows two layouts of a method record (`sdk_metadata_helpers.hpp:233`),
  `DetectMethodDefLayout` three (`metadata_methods.hpp:177`): with the third
  there is no dump.cs or, where the size of the table is a multiple of one of the
  two lengths, one with words of other fields for rows;
- the distance of a method from the module is cut to 32 bits before its section
  is looked for (`method_resolver.hpp:351`, `dump_writer.hpp:342`), so that code
  far outside gets an offset in the file;
- a read that throws in `AutoPlusInit` (`RegistrationSearchInit.cpp:223`, `:242`)
  leaves the loop over candidates, so that those behind it are not tried.

Seen while reading, outside what the models tell apart:

- `gom_hash_calc.hpp:15` computes `4097 * tag + 2127912214` in signed int before
  the cast: it overflows for tags from 5 on. TLC's integers cannot show it, and
  `GomTag` takes the hash for an uninterpreted function;
- `gom_scan.hpp:84` turns a word below the module into an offset by unsigned
  subtraction (which adding the base undoes); `scan_heuristic.hpp:74` copies
  eight bytes from a buffer that may be shorter;
- `RegistrationSearchLegacy.cpp:83`: for versions from 19 to 26 the structure is
  taken to begin two words too low; `registration_types.hpp:105` and
  `Il2CppStructs.cpp:111` differ in the layout of 24.5 (`genericAdjustorThunks`);
- `sdk_runner.hpp:106` and `OfflineArtifactWriter.cpp:62` test a stream before
  its destructor flushes it (`DumpPipeline` has the file come out *short*, which
  the code takes for success); `sdk_runner.hpp:150` writes the id of the calling
  process into the hint of another;
- `memory_read.hpp:143` reads a string with all of its maximum length, so that
  one that ends shortly before unreadable memory is not read at all;
  `classmap.hpp:166` takes a module of unknown size for one of 512 MB;
  `dummy_dll_generator.cpp:94` gives assemblies one file when their names differ
  only behind the stem.

## 5. What is proved

All proofs hold for every value of the constants under the assumptions named in
the modules (`TargetAssumption`, `WalkAssumption`, `LocatorAssumption`, ...).
They say of what kind the constants are, and of the inputs what the program gets
from elsewhere: regions come in the order of their addresses and do not overlap,
sections start at whole words, lie in their image, do not overlap and come in
the order of their addresses, those of data behind more headers and code than a
registration structure has words (`RegistrationAssumption`), an image is named
after a file and its types are types of the metadata, a module has no more
pointers than dump.cs reads, and a target no more images than are read
(`MethodAssumption`),
the registry is no larger than its scan takes for plausible, a transform is in the
hierarchy of its parent and not below itself, the types of the metadata and
their fields have names, a type its own index and no parent below itself
(`MetadataAssumption`; two types may have the same name). TLC evaluates them in the runs.
Eight modules hold theorems.

**Readers of a running target.** Nothing is assumed of the target but the layout.

| Theorem | Statement | Argument |
|:--|:--|:--|
| `GomWalk_proofs!TypeCorrect` | types | per action |
| `GomWalk_proofs!NoDuplicates` | no node twice | `out` stays within `visited`, and a visited node is never looked at |
| `GomWalk_proofs!EntriesWereLinked` | entries were listed during the call | `RingInv`: the words of linked nodes point to linked nodes, a half-made update included; `SeenInv`: the walk's node and whatever its word leads to is in `seen`, also when the node has been unlinked since |
| `GomWalk_proofs!WalkImplementsListing` | `EnumerateGameObjects` implements `ObjectListing` | each action is one of the listing's or a stutter; `VisitNode` reports what `SeenInv` and the invariants above put into `seen` |
| `GomWalk_proofs!CompleteUnderInsertion` | `InsertOnlyComplete`, if `LimitsHold` | `Reached`: a set of linked nodes that is closed under `next` and has every head in it has every linked node; `CoverInv`: there is a set around the visited nodes in which nothing is missed, that has the head of each list not still to come, and that `next` leaves only to the node the walk is at; an insertion joins it on one side or the other |
| `GomCandidate_proofs!AcceptedIsRing` | an accepted list is a closed ring of matching words | `ListInv`: what the round has compared so far is closed up to the current node |
| `GomCandidate_proofs!VerdictIsExact` | `VerdictCorrect`, if `BoundHolds` | `SoundInv`: what has been compared lies in every closed ring with the head, and `outSteps` is its cardinality; `RingsKept`: if there is such a ring, the two pointers, the cycle measured and the round stay on it and are not refused |
| `MCGomSearch_proofs!VerdictIsCorrect` | the same on the manager of a running target, whatever it does before and after the call | `GomCandidate_proofs` is instantiated with the constants of this world: its lemmas are cited, their assumptions proved from `ListAssumption` and `BoundAssumption` |
| `MCGomSearch_proofs!TagIsAnswered` | `TagAnswered` | `TableSound`: a slot in use has a list of its own, in which every object has the slot's tag, and a slot not in use keeps list and key together; `TagTaken`: whichever reads fail, what the reader has in hand it took from such a slot, or one was erased during the call, or a list was empty when its first object was read; `KeyKnows`, `MaskKnows`, while nothing has changed and every read was good: no slot passed would have answered, and the answer is the first object of the list or, of an empty one, the head's own word |
| `MsIdEnumerate_proofs!ReportsAreListed` | reports were registered | `CallSeen`: every live entry of the table being copied, of the buffer and of the result is in `seen` |
| `MsIdEnumerate_proofs!EnumerationImplementsListing` | `EnumerateMsIdToPointerObjects` implements `ObjectListing` | `CallInv` (a call that is not running has no buffer or result) with `CallSeen`, per action |
| `MsIdEnumerate_proofs!ExactUnderInsertion` | `InsertOnlyExact`, if `LimitsHold` | `OneEntry`: an object has one live entry of a table, also of one rebuilt; `QuietInv`, while nothing is erased and no read of the header fails: of the slots up to `Done` the call has reported what it should have and no others, but for objects that were unreadable (`lost`) and classes a read failed of when they were first met (`misread`), and the buffer is true to the slots behind |
| `MsIdEnumerate_proofs!FoundAreAsked` | `FoundIsAsked`, over any enumeration | `FindInv`: what is found is what the callback keeps of the objects reported, by what was read of their namespaces; `LastDotSeparates`: a full name taken apart at its last dot gives back namespace and class |
| `MsIdEnumerate_proofs!RegistryIsFound` | `RegistryFound` | `CountKnows`: of the registry's table, what has been counted and what is in the slots still to come are together at least what there was when the scan began, wherever objects are inserted and whichever batches are unreadable (`standing` leaves those objects out); of another table no more has been counted than lies before the next batch. `BestKnows`: either no word passed leads to the registry, or one that does is the best, with at least that count |
| `ComponentLookup_proofs!ReturnsAreAttached` | what is returned was attached | `LooksKnown`: every slot still to be looked at holds what the object has had, though removals move them under the reader |
| `ComponentLookup_proofs!QuietQueriesAreExact` | `QuietExact` | in a quiet call the slots looked at are those of the array: none of them matched, or all that matched are in the result, in order |
| `ComponentLookup_proofs!PathsAreOfTarget` | `PathIsOfTarget` | `TargetInv`: each transform has a slot with its node and its parent's slot, also after a move, and until a slot changes hands its words lead only to parents there have been (`SlotsLinked`); `PathInv`: the slot to be read next is that of such a parent of the last one read, if hierarchy and slot of the start were read from one place (`~ torn`) |
| `ComponentLookup_proofs!BonesAreAllOfTarget` | `BonesAreOfTarget` | `BoneInv`: who is visited or on the stack is the start, or has been the child of a visited one, and so are the words still to be read, also those a shrinking array leaves behind, unless an array was replaced between the read of its address and those of its count and words; `AllInv`, for a tree at rest: a child of a visited one is visited, on the stack or to be read, and an entry's depth is its distance from the start (`Under`), so that none is cut off by a longer way; what reads that fail cost is named in `Bare`, `Due` and `cut` |

**The library's own state.**

| Theorem | Statement | Argument |
|:--|:--|:--|
| `MCDump_proofs!ProgressTypes`, `ReportsInOrder`, `ReportsAreThrottled` | types; order; at most `Parts` reports that are not due to the clock | `LogInv` relates log and counters; `Paid`: every such report has used up one step of `total` |
| `MCDump_proofs!StagesAreFramed` | a callback there for a whole stage is told its begin once, first, and its end once, last | `FrameInv`: where begins and ends are in the log of such a callback, by the state of the scope |
| `Context_proofs!ContextTypes`, `TargetIsOneProcess`, `NothingOutlivesTarget`, `FailureLeavesNothing`, `FieldOffsetsAreFresh` | the invariants of `Context` | `TargetInv`: handle, id and module agree at each step of a running call, as an id does not come back while a handle is open; `CacheInv`, `VouchedInv`: a loaded cache carries the id and base its process had |
| `Context_proofs!OffsetsAreNearest` | `OffsetIsNearest`, whichever offsets cannot be read | `BuildInv`: at each point of the building, of the types before it the table has what could be read of their fields (`FieldsOK`), their parents (`ParentsOK`), and an alias for exactly the short names that only one of them has (`NamesOK`); `NearestInv`: the walk has visited the names of the types between the one asked for and the one it is at, and none of those declares the field; `WalkInv`: no name twice, the first the one resolved |

**Steps of which any may fail.**

| Theorem | Statement | Argument |
|:--|:--|:--|
| `MCDump_proofs!CopiesAlwaysExact` | `CopiesAreExact`, whatever other threads do to the protection of pages | `HostInv`: a page before the cursor has been copied, or a page less than a chunk before it was lost during the call (taken away, or not told of by a query); what cannot be accessed now is among the lost |
| `MCDump_proofs!ExportTellsTruth` | `HintExported` | `HintInv`: at each question, every field of the hint so far is what the module holds, or zero |
| `MCDump_proofs!ReportsAreTrue`, `FilesStayTogether` | `ReportedIsWritten`, `FilesBelongTogether`, for any number of calls | `PipelineInv`, by the stage a call is at: whether the metadata is there, which of its files it has written, whether the hint is its own |
| `MCDump_proofs!AddressIsOwn` | the first part of `AddressesAreRight`, `AddressIsOfMethod`, whatever layout is taken for the table of methods | `MethodTrue`: images, sections and pointers read so far are those of the target but for names that could not be read, so that the image and the module found for a type are its own, and every answer is true by the way it is made |
| `MCDump_proofs!AddressesAreTold` | `AddressesAreRight`, if `LayoutsTold` | with it `MethodAll`, while nothing was unreadable: the images and pointers before the one to come are all there, so that a call that gives up had no code to find (`MethodMissed`); and `MethodLines`: the lines of dump.cs are those of the types passed, all of them and no others, which by `LayoutsTold` are the methods those types have |

**Searches.**

| Theorem | Statement | Argument |
|:--|:--|:--|
| `MCScans_proofs!HitsAreExact` | `HitsAreOccurrences` | `PatInv`: before each chunk the hits are the occurrences that end before it, in order (`Listed`), and the tail holds the last readable bytes, as many as a match can need (`TailFits`), so that the matches in the window are the occurrences that end in the chunk; where the limit cuts, the hits are the first of all (`FullListed`) |
| `MCGomSearch_proofs!ChainIsFound` | `ChainFound` | `StageKnows`, a part for each stage of the chain, while the target has not written: the hits of a scan are the places passed that hold the word, in order, and all of them unless the limit was met (`ScanKnows`); the candidates hold the tables above the seeds, and one that was left for the next leads nowhere (`CandsKnow`); the heuristic is come to only if no table could be told by a single seed (`NoChain`) |
| `MCGomSearch_proofs!BestIsTaken` | `BestOfSections` | `BestBefore`, a part of `StageKnows`: the best so far is the first of the best of the words passed |
| `MCScans_proofs!MetadataIsBest` | `BestHeaderFound` | `LocInv`: what waits in the page map and what is best are genuine; of the words of the chunk up to `off`, each scores no better than the best, or could not be read, or waits (`LookedAt`); of the words before the chunk, each leads to no header or to one that could not be read (`LeftBehind`), since a chunk is left only with an empty map and nothing found |
| `MCScans_proofs!WholeOrNothing` | `ExportAllOrNothing` | with `LocInv`: the bytes copied are `copied` of the total size of the best header, and the end of each table is at most that |
| `MCScans_proofs!TablesOrError` | `LoadedOrError` | `OfflineInv`: no error before the call returns, and the pair it goes on with is one `TryInit` accepts in the same image, by which the second reading skips nothing but modules at its own limit |
| `MCScans_proofs!BestPairTaken` | `NoBetterOneLeft` | part of `OfflineInv`: the pair taken is the best of those that would be accepted, also where candidates without a score take part |
| `MCScans_proofs!UncutIsFound` | `FoundUnlessCut` | `RegInv`: nothing visible lies behind a search for a registration that nothing hinders (`NonePassed`); the searches that gave way to the one running saw nothing in their whole sections (`MetaSoFar`); what the scan for modules has listed is ascending, below the next chunk, and has every module passed (`ListInv`), so that the first of a name is the lowest. `NoneFoundable` takes the places looked at, counted in chunks, back to `Foundable`, which knows nothing of the loop |
| `MCScans_proofs!LinksAreFollowed` | the first two conjuncts of `LinkedIsFound` | `SearchedBefore`: the search of code is come to, and the pattern after it, only when no path from the name told anything; of the paths that tell something there is a first (`LinkedTells`) |

None of these properties is inductive: each needs the named strengthening,
which says what is true of the target's memory between two reads, or of what a
loop has done before the item it is at.

Four theorems have a hypothesis besides the assumptions. `LimitsHold`
(`GomWalk`, `MsIdEnumerate`) says that the caps of the code lie beyond what the
target has: a call that stops at a cap is not complete. `BoundHolds` says that
`LenBound`, which the model has and the code has not, is never reached.
`LayoutsTold` (`MCDump`) says that a table of methods looks more like its own
layout than like another the code knows: the layout is guessed from the words
that look like tokens, and where another layout has more of them it is taken
(`metadata_methods.hpp:189`, `sdk_metadata_helpers.hpp:233`). The MC modules
assume them by name, so that TLC evaluates them for its instances.

Where an argument goes by induction over the items of a loop, or over the nodes
of a list, the library's theorems do not help, as they take an operator for a
parameter. Such a lemma is proved by a least counterexample instead: the set of
numbers for which the claim fails has a least element (`WFMin`, `LeastOfNat`),
which is not the first, and the claim for the one before leads to it.

Only model-checked:

- liveness (`CallEnds`, `CheckEnds`), which the prover does not reach;
- `ArrayFoundIsInitialised` (the third conjunct of `LinkedIsFound`) and
  `ClassTableFound`: what a heuristic that samples data takes for an array is
  the right one only for data in which nothing else resembles it, and the inputs
  are chosen so.

## 6. Not modelled, and the plan

Left out for good, because there is no state between two items or because a
property of them would be about wording: text formatting and JSON, the layout of
sidecars and DummyDlls, type names and members of the offline dump, the decoding
of instructions (string cross references), chains of a few reads to a name or a
field (`object/`), floating-point positions and cameras, handles and system
calls with one owner, constants and records. Of modelled components the
following parts are left out: strings of the metadata and tables of generic
methods (parsed in one pass); versions before 24.0 in the offline search, whose
field offsets are values of 32 bits; the hash of a tag.

Next, in this order:

1. Versions before 24.0 of `OfflineRegistration`, with the two searches'
   tables of layouts compared.
2. `ScanGom` in `Context` as a refinement of what `GomLocate` promises.
3. `DumpPipeline` for several calls in a row (`MaxCalls` above 1 multiplies the
   states by those of the directory).

## 7. Running

    tlc -config GomWalkRehash.cfg MCGomWalk
    tlapm GomWalk_proofs.tla

`PROJECT.json` names module and configuration of each run. They take between
seconds and two minutes each with two workers (`context` has 3.3 million
states, `component` 2.6 million, the others less than one million).
