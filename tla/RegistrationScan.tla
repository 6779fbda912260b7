--------------------------- MODULE RegistrationScan ---------------------------
(***************************************************************************)
(* FindIl2CppRegistrations and CollectCodeGenModules (metadata/            *)
(* registration, metadata/codegen): look through the data sections of      *)
(* GameAssembly, chunk by chunk, for the two registration structures, then *)
(* list the code generation modules, from the first structure or, failing  *)
(* that, by another scan.                                                  *)
(*                                                                         *)
(* An address is the index of a word of the module; what lies outside      *)
(* cannot be read.  One action is one chunk; a chunk may be unreadable and *)
(* the time of a search may run out at any moment.  The module's words do  *)
(* not change.                                                             *)
(***************************************************************************)
EXTENDS Integers, Sequences, Functions, FiniteSetsExt

CONSTANTS
  Inputs,     \* modules and metadata looked at (see InputType)
  Names,      \* words that are the names of dlls
  Sample,     \* entries of an array that are looked at (3)
  MaxCount,   \* the largest number of types (300000),
  MaxInvokers,   \* of invokers (10000000),
  MaxModules,    \* of modules (1000000), of which are
  MaxListed,     \* listed (10000), and
  MaxMethods,    \* of methods of a module (2000000)
  Half        \* values of half a word (2^32)

Unread == -1

\* file, memory: sections as [kind, start, size], from the file on disk and
\* from the headers in memory.  Kinds are text, data (.data, .rdata), tables
\* (.pdata, .tls, .reloc), il2cpp, .il2cpp, and rest.  path: whether the path of the file is known and
\* can be parsed; typeDefs: InferTypeDefCounts of the header's table size.
InputType ==
  [word : Seq(Nat), file : Seq([kind : STRING, start : Nat, size : Nat]),
   memory : Seq([kind : STRING, start : Nat, size : Nat]),
   path : {"none", "parsed", "broken"}, version : Nat, images : Nat,
   typeDefs : SUBSET Nat, chunk : Nat]

VARIABLES
  input,
  pc,         \* "code", "meta", "modules", "scan", "returned"
  stage,      \* which of the searches for it runs
  section,    \* index of the section being scanned
  offset,     \* of the current chunk in it
  expired,    \* the deadline of the search has passed
  regs,       \* codeRegistration, metadataRegistration; 0 is none
  array,      \* outArray
  list,       \* outList, as addresses of modules
  hindered    \* history: kinds of search a chunk or the time was missing for

vars == <<input, pc, stage, section, offset, expired, regs, array, list, hindered>>

WordAt(a) == IF a \in DOMAIN input.word THEN input.word[a] ELSE Unread
InModule(a) == a \in DOMAIN input.word

(***************************************************************************)
(* Offsets of the members, in words, by metadata version.                  *)
(***************************************************************************)

\* Versions, times 100, from and up to which a member of CodeRegistration is
\* there; 0 is no bound.
CodeFields ==
  <<<<0, 2410>>, <<0, 2410>>, <<0, 2100>>, <<0, 2100>>, <<2200, 0>>, <<2200, 0>>, <<0, 2200>>,
    <<0, 2200>>, <<0, 2200>>, <<0, 2200>>, <<2100, 2200>>, <<2100, 2200>>, <<0, 0>>, <<0, 0>>,
    <<2710, 0>>, <<0, 0>>, <<0, 0>>, <<0, 2450>>, <<0, 2450>>, <<2100, 2200>>, <<2100, 2200>>,
    <<2200, 0>>, <<2200, 0>>, <<2910, 3099>>, <<2910, 3099>>, <<2300, 0>>, <<2300, 0>>,
    <<2430, 0>>, <<2430, 0>>, <<2420, 0>>, <<2420, 0>>>>

Has(i, v) ==
  LET f == CodeFields[i] IN (f[1] # 0 => 100 * v >= f[1]) /\ (f[2] # 0 => 100 * v <= f[2])

Before(i, v) == Cardinality({j \in 1..(i - 1) : Has(j, v)})

\* GetCodeRegistrationOffsets; need 0 when a member is not there.
CodeOffsets(v) ==
  [invokers |-> Before(17, v), modules |-> Before(31, v),
   need |-> IF Has(30, v) /\ Has(31, v) THEN Before(31, v) + 1 ELSE 0]

\* GetMetadataRegistrationOffsets.
MetaOffsets(v) ==
  LET fo == IF v <= 16 THEN 12 ELSE 10
  IN  [types |-> 7, fieldOffsets |-> fo + 1, sizes |-> fo + 3,
       need |-> fo + 4 + (IF v >= 19 THEN 2 ELSE 0)]

(***************************************************************************)
(* What passes for a structure.                                            *)
(***************************************************************************)
InAny(ss, a, kinds) ==
  \E s \in Range(ss) : s.kind \in kinds /\ a \in s.start..(s.start + s.size - 1)

\* BuildRanges; BuildRangesFromModuleSections takes more for data.
Exec == {"text", "il2cpp", ".il2cpp"}
Data == {"data", "tables", "il2cpp"}
ModuleData == Data \cup {".il2cpp", "rest"}

\* CheckCodeGenModulesArray.
IsModulesArray(p) ==
  /\ InModule(p)
  /\ \A i \in 0..(Sample - 1) :
       /\ InModule(WordAt(p + i))
       /\ WordAt(WordAt(WordAt(p + i))) \in Names

\* CheckPointerArrayPointsIntoExec.
IsExecArray(ss, p) ==
  InModule(p) /\ \A i \in 0..(Sample - 1) : InAny(ss, WordAt(p + i), Exec)

IsCodeRegistration(ss, a) ==
  LET o == CodeOffsets(input.version)
  IN  /\ WordAt(a + o.modules - 1) = input.images
      /\ IsModulesArray(WordAt(a + o.modules))
      /\ WordAt(a + o.invokers - 1) \in 1..MaxInvokers
      /\ IsExecArray(ss, WordAt(a + o.invokers))

\* Both counts are those of the type definitions.
CountsAgree(a, o) ==
  /\ WordAt(a + o.fieldOffsets - 1) \in input.typeDefs
  /\ WordAt(a + o.sizes - 1) = WordAt(a + o.fieldOffsets - 1)

PointersAreData(ss, a, o) ==
  /\ WordAt(a + o.types - 1) \in 1..MaxCount
  /\ \A m \in {o.types, o.fieldOffsets, o.sizes} : InAny(ss, WordAt(a + m), Data)

IsMetadataRegistration(ss, a) ==
  LET o == MetaOffsets(input.version)
      first(m) == {WordAt(WordAt(a + m) + j) : j \in 0..(Sample - 1)}
  IN  /\ CountsAgree(a, o)
      /\ PointersAreData(ss, a, o)
      /\ \A p \in first(o.types) : InAny(ss, p, Data)
      /\ \A p \in first(o.fieldOffsets) : p = 0 \/ InAny(ss, p, Data)
      /\ first(o.fieldOffsets) # {0}

\* FindMetadataRegistrationSidecarStyle: the arrays are not looked into.
IsSidecarRegistration(ss, a) ==
  LET o == MetaOffsets(input.version) IN CountsAgree(a, o) /\ PointersAreData(ss, a, o)

\* The number of methods is half a word, whatever is in the other half.
MethodCount(m) == IF InModule(m + 1) THEN WordAt(m + 1) % Half ELSE 0

\* A code generation module with a name, methods and code.
IsModule(m) ==
  /\ InAny(input.memory, m, ModuleData)
  /\ InAny(input.memory, WordAt(m), ModuleData) /\ WordAt(WordAt(m)) \in Names
  /\ MethodCount(m) \in 1..MaxMethods
  /\ InAny(input.memory, WordAt(m + 2), ModuleData)
  /\ \A p \in {WordAt(WordAt(m + 2) + j) : j \in 0..(Min({Sample, MethodCount(m)}) - 1)} :
       p = 0 \/ InAny(input.memory, p, Exec)

(***************************************************************************)
(* The scan of one chunk.                                                  *)
(***************************************************************************)
SectionsOf(st) == IF st = "disk" THEN input.file ELSE input.memory
Sections == SectionsOf(stage)

\* dataSecs.
IsScanned(s, search) ==
  s.kind \in (IF search = "scan" THEN Data \cup {".il2cpp"} ELSE {"data"}) /\ s.size > 0

ToRead == Min({input.chunk, Sections[section].size - offset})
ChunkAt == Sections[section].start + offset

\* How far a structure reaches from the word it is recognised by, and where
\* that word is in it.  The sidecar search looks at the counts only, and at
\* the rest of the structure wherever it lies.
Reach ==
  CASE pc = "code"                      -> CodeOffsets(input.version).need
    [] pc = "meta" /\ stage # "sidecar" -> MetaOffsets(input.version).need
    [] pc = "meta" /\ stage = "sidecar" -> 4
    [] pc = "scan"                      -> 4
Lead == IF stage = "sidecar" THEN MetaOffsets(input.version).fieldOffsets - 1 ELSE 0

\* Mutant: the last position is left out.
PositionsBelow == {ChunkAt + i - Lead : i \in 0..(ToRead - Reach - 1)}

\* The places a structure may start at if its words lie in the chunk.  The
\* sidecar search wants one byte more than it needs.
Positions ==
  IF stage = "sidecar" /\ ToRead = Reach THEN {}
  ELSE {ChunkAt + i - Lead : i \in 0..(ToRead - Reach)}

Hits ==
  {a \in Positions : CASE pc = "code"                      -> IsCodeRegistration(Sections, a)
                       [] pc = "meta" /\ stage # "sidecar" -> IsMetadataRegistration(Sections, a)
                       [] pc = "meta" /\ stage = "sidecar" -> IsSidecarRegistration(Sections, a)
                       [] pc = "scan"                      -> IsModule(a)}

\* The first search for a kind of structure.
FirstStage == IF input.path = "parsed" THEN "disk" ELSE "memory"

Init ==
  /\ input \in Inputs
  /\ pc = "code"
  /\ stage = FirstStage
  /\ section = 1 /\ offset = 0 /\ expired = FALSE
  /\ regs = [code |-> 0, meta |-> 0]
  /\ array = 0 /\ list = <<>>
  /\ hindered = {}

Restart(p, s) == pc' = p /\ stage' = s /\ section' = 1 /\ offset' = 0 /\ expired' = FALSE

\* What comes after the search for a structure.
After == IF pc = "code" THEN "meta" ELSE "modules"

GoOn == IF After = "meta" THEN Restart("meta", FirstStage) ELSE Restart("modules", "memory")

\* Searches that end before their first chunk: the file was named and cannot
\* be parsed, the version has no modules, the number of types is unknown.
CannotSearch ==
  \/ pc = "code" /\ (input.path = "broken" \/ CodeOffsets(input.version).need = 0)
  \/ pc = "meta" /\ input.typeDefs = {}

\* The section headers or the words of the metadata header cannot be read.
\* Only the search in memory hands over to the next one.
GiveUp ==
  /\ pc \in {"code", "meta"}
  /\ section = 1 /\ offset = 0 /\ ~ expired
  /\ IF pc = "meta" /\ stage = "memory" THEN Restart("meta", "sidecar") ELSE GoOn
  /\ hindered' = IF CannotSearch THEN hindered ELSE hindered \cup {pc}
  /\ UNCHANGED <<input, regs, array, list>>

\* Mutant: no search follows that in memory.
OneFallback ==
  IF pc = "meta" /\ stage = "disk" THEN Restart("meta", "memory") ELSE GoOn

\* The search that follows one that found nothing.
FallBack ==
  CASE pc = "meta" /\ stage = "disk"   -> Restart("meta", "memory")
    [] pc = "meta" /\ stage = "memory" -> Restart("meta", "sidecar")
    [] OTHER                           -> GoOn

NothingFound ==
  /\ pc \in {"code", "meta"}
  /\ ~ CannotSearch
  /\ section > Len(Sections)
  /\ FallBack
  /\ UNCHANGED <<input, regs, array, list, hindered>>

\* A section that is not to be scanned is not in dataSecs.
NextSection ==
  /\ pc \in {"code", "meta", "scan"}
  /\ ~ CannotSearch
  /\ section <= Len(Sections)
  /\ expired \/ ~ IsScanned(Sections[section], pc) \/ offset >= Sections[section].size
  /\ section' = section + 1 /\ offset' = 0
  /\ UNCHANGED <<input, pc, stage, expired, regs, array, list, hindered>>

Searching ==
  /\ pc \in {"code", "meta", "scan"}
  /\ ~ CannotSearch
  /\ section <= Len(Sections) /\ IsScanned(Sections[section], pc)
  /\ ~ expired
  /\ offset < Sections[section].size

ChunkUnreadable ==
  /\ Searching
  /\ offset' = offset + ToRead
  /\ hindered' = hindered \cup {pc}
  /\ UNCHANGED <<input, pc, stage, section, expired, regs, array, list>>

ScanForRegistration ==
  /\ Searching
  /\ pc \in {"code", "meta"}
  /\ IF Hits = {}
       THEN offset' = offset + ToRead /\ UNCHANGED <<pc, stage, section, expired, regs>>
       ELSE regs' = [regs EXCEPT ![pc] = Min(Hits)] /\ GoOn
  /\ UNCHANGED <<input, array, list, hindered>>

Deadline ==
  /\ pc \in {"code", "meta", "scan"}
  /\ ~ CannotSearch
  /\ ~ expired
  /\ expired' = TRUE
  /\ hindered' = hindered \cup {pc}
  /\ UNCHANGED <<input, pc, stage, section, offset, regs, array, list>>

(***************************************************************************)
(* CollectCodeGenModules.                                                  *)
(***************************************************************************)

\* The members of a set of numbers in order, and the members of a sequence at
\* such places.
Ascending(S) ==
  CHOOSE s \in [1..Cardinality(S) -> S] : \A i, j \in 1..Cardinality(S) : i < j => s[i] < s[j]
Select(s, places) == [k \in 1..Cardinality(places) |-> s[Ascending(places)[k]]]

\* TryReadCodeGenModulesFromCodeRegistration: the array ends at a word that
\* cannot be read; entries that are no modules are left out.
Entries(p, n) ==
  LET readable == {i \in 0..(n - 1) : \A j \in 0..i : InModule(p + j)}
  IN  [i \in 1..Cardinality(readable) |-> WordAt(p + i - 1)]

\* outArray and outList of that.
ArrayOf(a) ==
  LET at == a + CodeOffsets(input.version).modules
  IN  IF a # 0 /\ CodeOffsets(input.version).need > 0 /\ WordAt(at - 1) \in 1..MaxModules
         /\ InAny(input.memory, WordAt(at), ModuleData)
        THEN WordAt(at) ELSE 0

ListedModules ==
  IF ArrayOf(regs.code) = 0 THEN <<>>
  ELSE LET n == WordAt(regs.code + CodeOffsets(input.version).modules - 1)
           e == Entries(ArrayOf(regs.code), Min({n, MaxListed}))
       IN  Select(e, {i \in DOMAIN e : IsModule(e[i])})

HasRanges == \A kinds \in {Exec, ModuleData} : \E s \in Range(input.memory) : s.kind \in kinds

\* An array of which no entry is a module is remembered all the same.
ReadModules ==
  /\ pc = "modules"
  /\ array' = IF HasRanges THEN ArrayOf(regs.code) ELSE 0
  /\ list' = IF HasRanges THEN ListedModules ELSE <<>>
  /\ pc' = IF HasRanges /\ list' = <<>> THEN "scan" ELSE "returned"
  /\ UNCHANGED <<input, stage, section, offset, expired, regs, hindered>>

\* TryScanCodeGenModulesHeuristic.
ScanForModules ==
  /\ Searching
  /\ pc = "scan"
  /\ list' = list \o Ascending(Hits)
  /\ offset' = offset + ToRead
  /\ UNCHANGED <<input, pc, stage, section, expired, regs, array, hindered>>

NameOf(m) == WordAt(WordAt(m))

\* Mutant: the last module of a name is kept.
LastOfEachName ==
  Select(list, {i \in DOMAIN list : \A j \in (i + 1)..Len(list) : NameOf(list[j]) # NameOf(list[i])})

\* uniq: the first module of each name.
FirstOfEachName ==
  Select(list, {i \in DOMAIN list : \A j \in 1..(i - 1) : NameOf(list[j]) # NameOf(list[i])})

ModulesDone ==
  /\ pc = "scan"
  /\ section > Len(Sections)
  /\ list' = FirstOfEachName
  /\ array' = IF list = <<>> THEN array ELSE 0
  /\ pc' = "returned"
  /\ UNCHANGED <<input, stage, section, offset, expired, regs, hindered>>

Returned == pc = "returned" /\ UNCHANGED vars

Next ==
  \/ GiveUp \/ NothingFound \/ NextSection \/ ChunkUnreadable \/ ScanForRegistration
  \/ Deadline \/ ReadModules \/ ScanForModules \/ ModulesDone \/ Returned

Spec == Init /\ [][Next]_vars

(***************************************************************************)
(* Properties.                                                             *)
(***************************************************************************)

\* The reference: the structures of which some words, by which they are known,
\* lie in one chunk of a scanned section, the chunk being no shorter than that.
InOneChunk(ss, search, lead, reach, least) ==
  UNION {{a \in (s.start - lead)..(s.start + s.size - lead - 1) :
            LET at  == a + lead - s.start
                len == Min({input.chunk, s.size - (at - (at % input.chunk))})
            IN  (at % input.chunk) + reach <= len /\ len >= least} :
         s \in {t \in Range(ss) : IsScanned(t, search)}}

Foundable(search, st) ==
  LET ss == SectionsOf(st)
      c  == CodeOffsets(input.version).need
      o  == MetaOffsets(input.version)
  IN  CASE search = "code" ->
             {a \in InOneChunk(ss, "code", 0, c, c) : IsCodeRegistration(ss, a)}
        [] search = "meta" /\ st = "sidecar" ->
             {a \in InOneChunk(ss, "meta", o.fieldOffsets - 1, 4, 5) : IsSidecarRegistration(ss, a)}
        [] search = "meta" /\ st # "sidecar" ->
             {a \in InOneChunk(ss, "meta", 0, o.need, o.need) : IsMetadataRegistration(ss, a)}
        [] search = "scan" -> {a \in InOneChunk(ss, "scan", 0, 4, 4) : IsModule(a)}

\* A metadata registration that any of the searches that are to run can see
\* is found: when none was hindered, the call comes back without one only if
\* each of its copies is cut by an edge of the chunks of every search.
MetaFoundUnlessCut ==
  pc = "returned" /\ "meta" \notin hindered /\ input.typeDefs # {} /\ regs.meta = 0 =>
    \A st \in {FirstStage, "memory", "sidecar"} : Foundable("meta", st) = {}

\* The code registration is looked for once, in the sections of the file or,
\* without a file, in those in memory, and found there unless it is cut.
CodeFoundUnlessCut ==
  pc = "returned" /\ "code" \notin hindered /\ regs.code = 0 /\ CodeOffsets(input.version).need > 0 =>
    input.path = "broken" \/ Foundable("code", FirstStage) = {}

\* The modules listed are modules, each of its name once when they come from
\* the scan, the one at the lowest address of a scanned section; the address
\* of an array is given only with the modules read from it.
ModulesOnce ==
  pc = "returned" =>
    /\ \A m \in Range(list) : IsModule(m)
    /\ list # <<>> /\ array = 0 =>
         /\ \A i, j \in DOMAIN list : i # j => NameOf(list[i]) # NameOf(list[j])
         /\ "scan" \notin hindered =>
              \A n \in Foundable("scan", "memory") :
                \E m \in Range(list) : m <= n /\ NameOf(m) = NameOf(n)
==============================================================================
