------------------------- MODULE OfflineRegistration -------------------------
(***************************************************************************)
(* How the offline dump comes by the two registration structures           *)
(* (dumpsdk/offline): Collect takes the addresses the scan of the process  *)
(* came up with and, when these do not initialise, looks for the           *)
(* structures in its snapshot of the module (RegistrationSearch); the      *)
(* runtime context then reads the tables once more.                        *)
(*                                                                         *)
(* An address is that of a word of the snapshot.  A read outside throws;   *)
(* the helpers named Try, and those that report success, catch it.  One    *)
(* action is one search, one attempt at initialising, one loading.  Field  *)
(* offsets of 32 bits, those up to version 21, are left out.               *)
(***************************************************************************)
EXTENDS Integers, Sequences, FiniteSetsExt

CONSTANTS
  Inputs,       \* snapshots and what the metadata says (see InputType)
  Names,        \* words that are the names of dlls
  Mscorlib,     \* one of them
  MaxBack,      \* words a structure is looked for before a hit (64)
  MaxDelta,     \* words an address may be wrong by (0x40)
  MaxRatio,     \* generic methods per method (200)
  MaxGeneric,   \* generic methods (5000000)
  MaxTable      \* entries of a table that is loaded (0x400000)

\* sections: in the order of their addresses.  version: times 100.  primaries:
\* what FindIl2CppRegistrations may come up with.
InputType ==
  [word : UNION {[s -> Nat] : s \in SUBSET Nat},
   sections : Seq([kinds : SUBSET {"exec", "data"}, start : Nat, size : Nat]),
   version : Nat, methods : Nat, typeDefs : Nat, images : Nat, usages : Nat,
   primaries : SUBSET (Nat \X Nat)]

VARIABLES
  image,
  pc,             \* the search or attempt to come, "returned" or "thrown"
  pointerInExec,
  found,          \* codeRegistration, metadataRegistration; 0 is none
  result,         \* RegistrationInitResult; None without success
  error,          \* "" is none
  runtime,        \* the tables of OfflineRuntimeContext; None before Init
  via             \* history: what found the code registration

vars == <<image, pc, pointerInExec, found, result, error, runtime, via>>

None == [code |-> 0]
Thrown == -1
Sample == 3

(***************************************************************************)
(* PeImage.                                                                *)
(***************************************************************************)
Mapped(a) == a \in DOMAIN image.word
MappedRange(a, n) == \A i \in 0..(n - 1) : Mapped(a + i)
WordAt(a) == image.word[a]

SectionsOf(kind) == {s \in Range(image.sections) : kind \in s.kinds}
In(kind, a) == \E s \in SectionsOf(kind) : a \in s.start..(s.start + s.size - 1)

\* Where the loops over the words of a section look: never at its last word.
Scanned(kind) == UNION {s.start..(s.start + s.size - 2) : s \in SectionsOf(kind)}
AllWords(kind) == UNION {s.start..(s.start + s.size - 1) : s \in SectionsOf(kind)}

\* The first Sample of n pointers at p: TryCheckPointerArrayInExec and InBss.
PointersIn(kind, p, n) ==
  \A i \in 0..(Min({Sample, n}) - 1) : Mapped(p + i) /\ WordAt(p + i) # 0 /\ In(kind, WordAt(p + i))

(***************************************************************************)
(* Il2CppStructs.                                                          *)
(***************************************************************************)
V == image.version
If(cond, fields) == IF cond THEN fields ELSE <<>>

CodeLayout ==
  If(V <= 2410, <<"methodPointersCount", "methodPointers">>) \o If(V <= 2100, <<"skip", "skip">>)
  \o If(V >= 2200, <<"reverseCount", "reverse">>) \o If(V <= 2200, [i \in 1..6 |-> "skip"])
  \o <<"genericCount", "generic">> \o If(V = 2450 \/ V >= 2710, <<"adjustors">>)
  \o <<"invokersCount", "invokers">> \o If(V <= 2450, <<"attributesCount", "attributes">>)
  \o If(V \in 2100..2200, <<"skip", "skip">>) \o If(V >= 2200, <<"unresolvedCount", "unresolved">>)
  \o If(V \in 2910..3099, <<"instanceCalls", "staticCalls">>) \o If(V >= 2300, <<"interopCount", "interop">>)
  \o If(V >= 2430, <<"factoriesCount", "factories">>) \o If(V >= 2420, <<"modulesCount", "modules">>)

MetaLayout ==
  <<"classesCount", "classes", "instsCount", "insts", "tableCount", "table", "typesCount", "types",
    "specsCount", "specs">>
  \o If(V <= 1600, <<"skip", "skip">>) \o <<"offsetsCount", "offsets", "sizesCount", "sizes">>
  \o If(V >= 1900, <<"usagesCount", "usages">>)

\* A view of the words at a: every member of the layout, and 0 for the others.
ViewOf(layout, a, members) ==
  [m \in members |->
     LET at == {i \in DOMAIN layout : layout[i] = m} IN IF at = {} THEN 0 ELSE WordAt(a + Min(at) - 1)]

CodeReadable(a) == MappedRange(a, Len(CodeLayout))
CodeView(a) ==
  ViewOf(CodeLayout, a, {"methodPointersCount", "methodPointers", "reverseCount", "reverse", "genericCount",
                         "generic", "invokersCount", "invokers", "unresolvedCount", "unresolved",
                         "modulesCount", "modules"})
MetaReadable(a) == MappedRange(a, Len(MetaLayout))
MetaView(a) ==
  ViewOf(MetaLayout, a, {"typesCount", "types", "specs", "offsetsCount", "offsets", "sizesCount", "sizes",
                         "usagesCount", "usages"})

\* ReadCodeGenModule: name, number of methods, methods, and more.
ModuleSize == 11 + (IF V = 2450 \/ V >= 2710 THEN 2 ELSE 0) + (IF V \in 2700..2720 THEN 1 ELSE 0)
ModuleReadable(m) == MappedRange(m, ModuleSize)
NameOf(m) == WordAt(WordAt(m))

TypeReadable(t) == MappedRange(t, 2)

(***************************************************************************)
(* The searches for CodeRegistration.  Each is 0, an address, or Thrown.   *)
(***************************************************************************)
\* Mutant: the first reference only.
FirstReference(a) == {r \in Scanned("data") : WordAt(r) = a /\ \A q \in Scanned("data") : WordAt(q) = a => r <= q}

FindReference(a) == {r \in Scanned("data") : WordAt(r) = a}

\* Paths from the name of mscorlib to a pointer into the array of modules that
\* the module of that name is the i-th of.
Paths(kind) ==
  UNION {UNION {UNION {UNION {{<<n, m, r, i, t>> : t \in FindReference(r - i)} : i \in 0..(image.images - 1)}
                         : r \in FindReference(m)} : m \in FindReference(n)}
           : n \in {w \in AllWords(kind) : WordAt(w) = Mscorlib}}

\* The order they are met in: with versions from 27 on the last image is first.
Earlier(p, q) ==
  LET key(x) == [x EXCEPT ![4] = IF V >= 2700 THEN -x[4] ELSE x[4]]
  IN  \E k \in 1..5 : key(p)[k] < key(q)[k] /\ \A j \in 1..(k - 1) : key(p)[j] = key(q)[j]

\* Words from the start of the structure to the array of modules.
PointerCount == IF V >= 2900 THEN 14 ELSE 13

\* FindCodeRegistrationFromSecondReference for one of them.
FromPath(p) ==
  CASE V < 2700                                   -> p[5] - PointerCount
    [] V >= 2700 /\ ~ Mapped(p[5] - 1)            -> Thrown
    [] V >= 2700 /\ Mapped(p[5] - 1) /\ WordAt(p[5] - 1) = image.images -> p[5] - PointerCount
    [] OTHER                                      -> 0

\* FindCodeRegistration2019.
FindCodeRegistration2019(kind) ==
  LET telling == {p \in Paths(kind) : FromPath(p) # 0}
  IN  IF telling = {} THEN 0 ELSE FromPath(CHOOSE p \in telling : \A q \in telling \ {p} : Earlier(p, q))

\* The first word of the sections at which a search comes to an answer.
FirstAnswer(answer) ==
  LET telling == {a \in DOMAIN answer : answer[a] # 0} IN IF telling = {} THEN 0 ELSE answer[Min(telling)]

TryCheckCodeGenModulesArray(p) ==
  /\ Mapped(p)
  /\ \A i \in 0..(Min({image.images, Sample}) - 1) :
       /\ Mapped(p + i) /\ WordAt(p + i) # 0
       /\ ModuleReadable(WordAt(p + i))
       /\ Mapped(WordAt(WordAt(p + i))) /\ NameOf(WordAt(p + i)) \in Names

Before(hit) == (hit - MaxBack)..hit

\* The best start before a hit, the nearest of equals.
BestStart(score) ==
  LET best == {a \in DOMAIN score : \A b \in DOMAIN score : score[b] <= score[a]}
  IN  IF best = {} THEN 0 ELSE Max(best)

Points(cond, n) == IF cond THEN n ELSE 0

\* FindBestCodeRegistrationStartFromHit.
CodeStartFrom(hit, modules) ==
  LET fits(a) == /\ CodeReadable(a)
                 /\ CodeView(a).modulesCount = image.images /\ CodeView(a).modules = modules
      array(n, p) == Points(n > 0 /\ p # 0, 2) + Points(n > 0 /\ p # 0 /\ PointersIn("exec", p, n), 6)
      score(a) == LET c == CodeView(a)
                  IN  array(c.invokersCount, c.invokers) + array(c.genericCount, c.generic)
                      + Points(c.reverseCount = 0 \/ c.reverse # 0, 1)
                      + Points(c.unresolvedCount = 0 \/ c.unresolved # 0, 1)
  IN  BestStart([a \in {b \in Before(hit) : fits(b)} |-> score(a)])

\* FindCodeRegistrationByCodeGenModules.
FindCodeRegistrationByCodeGenModules ==
  LET answer(a) == IF WordAt(a) = image.images /\ Mapped(a + 1) /\ WordAt(a + 1) # 0
                      /\ TryCheckCodeGenModulesArray(WordAt(a + 1))
                     THEN CodeStartFrom(a, WordAt(a + 1)) ELSE 0
  IN  IF image.images = 0 THEN 0 ELSE FirstAnswer([a \in Scanned("data") |-> answer(a)])

\* FindCodeRegistrationOld.
FindCodeRegistrationOld ==
  LET answer(a) == IF /\ WordAt(a) = image.methods /\ image.methods > 0
                      /\ Mapped(a + 1) /\ In("data", WordAt(a + 1))
                      /\ PointersIn("exec", WordAt(a + 1), image.methods)
                     THEN a ELSE 0
  IN  FirstAnswer([a \in Scanned("data") |-> answer(a)])

(***************************************************************************)
(* The searches for MetadataRegistration.                                  *)
(***************************************************************************)

\* The words FindMetadataRegistrationV21 checks the sampled types with: one
\* that cannot be read throws.
SampledTypes(types, n) ==
  LET bad == {i \in 0..(Min({Sample, n}) - 1) :
                ~ Mapped(types + i) \/ ~ In(IF pointerInExec THEN "exec" ELSE "data", WordAt(types + i))}
  IN  CASE bad = {}                              -> "ok"
        [] bad # {} /\ ~ Mapped(types + Min(bad)) -> "thrown"
        [] OTHER                                 -> "bad"

FindMetadataRegistrationV21 ==
  LET fits(a) == /\ MetaReadable(a - 10)
                 /\ LET m == MetaView(a - 10)
                    IN  /\ m.offsetsCount = image.typeDefs /\ m.sizesCount = image.typeDefs
                        /\ m.typesCount > 0
                        /\ \A p \in {m.types, m.offsets, m.sizes} : Mapped(p)
      answer(a) ==
        IF WordAt(a) # image.typeDefs THEN 0
        ELSE IF ~ Mapped(a + 2) THEN Thrown
        ELSE IF WordAt(a + 2) # image.typeDefs \/ ~ fits(a) THEN 0
        ELSE [ok |-> a - 10, thrown |-> Thrown, bad |-> 0]
               [SampledTypes(MetaView(a - 10).types, MetaView(a - 10).typesCount)]
  IN  FirstAnswer([a \in Scanned("data") |-> answer(a)])

\* FindMetadataRegistrationOld.
FindMetadataRegistrationOld ==
  LET answer(a) == IF /\ WordAt(a) = image.typeDefs
                      /\ image.usages > 0
                      /\ Mapped(a + 3) /\ In("data", WordAt(a + 3))
                      /\ PointersIn("data", WordAt(a + 3), image.usages)
                     THEN a - 12 ELSE 0
  IN  FirstAnswer([a \in Scanned("data") |-> answer(a)])

\* FindMetadataRegistrationByMetadataUsages, with the best start from a hit.
FindMetadataRegistrationByMetadataUsages ==
  LET fits(a, p) == /\ MetaReadable(a)
                    /\ MetaView(a).usagesCount = image.usages /\ MetaView(a).usages = p
      score(a)   == LET m == MetaView(a)
                    IN  Points(m.typesCount > 0 /\ m.types # 0, 1) + Points(m.offsetsCount > 0 /\ m.offsets # 0, 1)
                        + Points(PointersIn("data", m.usages, image.usages), 6)
      answer(a)  == LET p == WordAt(a + 1)
                    IN  IF WordAt(a) = image.usages /\ p # 0 /\ Mapped(p) /\ PointersIn("data", p, image.usages)
                          THEN BestStart([b \in {x \in Before(a) : fits(x, p)} |-> score(b)]) ELSE 0
  IN  IF image.usages = 0 THEN 0 ELSE FirstAnswer([a \in Scanned("data") |-> answer(a)])

(***************************************************************************)
(* AutoPlusInit.                                                           *)
(***************************************************************************)

\* An address and what it points to.
WithTarget(a) == {a} \cup {WordAt(b) : b \in {c \in {a} : Mapped(c) /\ WordAt(c) # 0 /\ Mapped(WordAt(c))}}

MetaCandidates(m) == WithTarget(m)

\* Mutant: only the addresses themselves.
ExactCodeCandidates(c) == WithTarget(c)

CodeCandidates(c) ==
  {a \in UNION {(b - MaxDelta)..(b + MaxDelta) : b \in WithTarget(c)} : a > 0}

ModulesCountFits(c) ==
  V >= 2420 =>
    /\ c.modules # 0 /\ c.modulesCount # 0
    /\ image.images > 0 =>
         c.modulesCount \in (IF image.images > 1 THEN image.images \div 2 ELSE 1)..(2 * image.images)

CodeScore(a) ==
  IF ~ CodeReadable(a) \/ ~ ModulesCountFits(CodeView(a)) THEN -1
  ELSE LET c == CodeView(a)
       IN  Points(image.images > 0, IF c.modulesCount = image.images THEN 1000 ELSE 200)
           + Points(Mapped(c.modules), 200)
           + Points(image.methods > 0,
                    CASE c.genericCount \in 1..Min({MaxRatio * image.methods, MaxGeneric}) -> 400
                      [] c.genericCount = 0 -> 10
                      [] OTHER -> -200)
           + Points(Mapped(c.generic), 50) + Points(Mapped(c.invokers), 50)

MetaScore(a) ==
  IF ~ MetaReadable(a) \/ MetaView(a).types = 0 \/ MetaView(a).typesCount = 0 THEN -1
  ELSE LET m    == MetaView(a)
           diff == IF m.typesCount >= image.typeDefs THEN m.typesCount - image.typeDefs
                                                     ELSE image.typeDefs - m.typesCount
       IN  Points(image.typeDefs > 0,
                  CASE diff = 0 -> 1000 [] diff \in 1..(image.typeDefs \div 10 - 1) -> 300 [] OTHER -> -100)
           + Points(Mapped(m.types), 200) + Points(Mapped(m.specs), 50) + Points(Mapped(m.offsets), 50)

\* Candidates with their scores; all with 0 when none has a score.
Scored(score) ==
  IF \A a \in DOMAIN score : score[a] < 0 THEN [a \in DOMAIN score |-> 0]
  ELSE [a \in {b \in DOMAIN score : score[b] >= 0} |-> score[a]]

\* The entries of an array of modules that have a name, and per name what the
\* last of them has for methods.
ModuleAt(c, i) == WordAt(c.modules + i)

NamedEntries(c) ==
  {i \in 0..(c.modulesCount - 1) :
     ModuleAt(c, i) # 0 /\ ModuleReadable(ModuleAt(c, i)) /\ NameOf(ModuleAt(c, i)) # 0}

ByName(c, methods) ==
  [n \in {NameOf(ModuleAt(c, i)) : i \in NamedEntries(c)} |->
     methods[Max({i \in NamedEntries(c) : NameOf(ModuleAt(c, i)) = n})]]

\* TryInit: "yes", "no", or "thrown" when an array, or the name of a module,
\* leaves the image.  The types are gone through one by one: the first that
\* cannot be used ends the attempt.
CannotReadModules(c) ==
  \/ ~ MappedRange(c.modules, c.modulesCount)
  \/ \E i \in 0..(c.modulesCount - 1) :
       LET m == WordAt(c.modules + i)
       IN  /\ m # 0 /\ ModuleReadable(m)
           /\ ~ Mapped(WordAt(m)) \/ (NameOf(m) # 0 /\ ~ MappedRange(WordAt(m + 2), WordAt(m + 1)))

TryInit(code, meta) ==
  LET c == CodeView(code)
      m == MetaView(meta)
      unusable == {i \in 0..(m.typesCount - 1) :
                     ~ Mapped(m.types + i) \/ WordAt(m.types + i) = 0 \/ ~ TypeReadable(WordAt(m.types + i))}
      methodsCut == IF V >= 2420 THEN CannotReadModules(c)
                    ELSE c.methodPointers # 0 /\ ~ MappedRange(c.methodPointers, c.methodPointersCount)
  IN  IF ~ CodeReadable(code) \/ ~ MetaReadable(meta) \/ ~ ModulesCountFits(c) THEN "no"
      ELSE IF m.offsets # 0 /\ V > 2100 /\ ~ MappedRange(m.offsets, m.offsetsCount) THEN "thrown"
      ELSE IF m.types # 0 /\ unusable # {} THEN IF Mapped(m.types + Min(unusable)) THEN "no" ELSE "thrown"
      ELSE IF methodsCut THEN "thrown" ELSE "yes"

Words(p, n) == [i \in 1..n |-> WordAt(p + i - 1)]

\* The tables TryInit leaves in the result.
ResultOf(code, meta) ==
  LET c == CodeView(code)
      m == MetaView(meta)
  IN  [code |-> code, meta |-> meta, pointerInExec |-> pointerInExec,
       offsets |-> IF m.offsets # 0 /\ V > 2100 THEN Words(m.offsets, m.offsetsCount) ELSE <<>>,
       types |-> IF m.types # 0 THEN Words(m.types, m.typesCount) ELSE <<>>,
       methods |-> IF V < 2420 THEN <<>>
                   ELSE ByName(c, [i \in NamedEntries(c) |->
                                     Words(WordAt(ModuleAt(c, i) + 2), WordAt(ModuleAt(c, i) + 1))]),
       legacy |-> IF V < 2420 /\ c.methodPointers # 0 THEN Words(c.methodPointers, c.methodPointersCount) ELSE <<>>]

\* The pairs that may be the first not to be refused: the order of equal
\* scores is that of an unstable sort.

\* Mutant: the worst first.
Bottom(s, scores) == {a \in s : \A b \in s : scores[a] <= scores[b]}

Top(s, scores) == {a \in s : \A b \in s : scores[b] <= scores[a]}

FirstAccepted(codes, metas) ==
  LET accepted(m) == {c \in DOMAIN codes : TryInit(c, m) # "no"}
      usable      == {m \in DOMAIN metas : accepted(m) # {}}
  IN  UNION {{<<c, m>> : c \in Top(accepted(m), codes)} : m \in Top(usable, metas)}

\* AutoPlusInit on the addresses found; otherwise is what happens if it fails.
AutoPlusInit(otherwise) ==
  LET codes == Scored([a \in CodeCandidates(found.code) |-> CodeScore(a)])
      metas == Scored([a \in MetaCandidates(found.meta) |-> MetaScore(a)])
      first == FirstAccepted(codes, metas)
  IN  /\ IF first = {} THEN otherwise
         ELSE \E p \in first :
                IF TryInit(p[1], p[2]) = "thrown" THEN pc' = "thrown" /\ UNCHANGED <<result, error>>
                ELSE pc' = "runtime" /\ result' = ResultOf(p[1], p[2]) /\ UNCHANGED error
      /\ UNCHANGED <<image, pointerInExec, found, runtime, via>>

(***************************************************************************)
(* Collect.                                                                *)
(***************************************************************************)
\* Mutant: the sections of data are left out.
ExecFirst == IF V >= 2420 THEN "exec" ELSE "old"
FirstSearch == IF V >= 2420 THEN "data" ELSE "old"
FirstMetaSearch == CASE V < 1900 -> "both" [] V >= 2700 -> "v21" [] OTHER -> "oldMeta"

Init ==
  /\ image \in Inputs
  /\ pc = "er2"
  /\ pointerInExec = FALSE
  /\ found = [code |-> 0, meta |-> 0]
  /\ result = None /\ runtime = None
  /\ error = ""
  /\ via = "er2"

\* TryFindRegistrationsWithEr2, which may as well fail.
TryFindRegistrationsWithEr2 ==
  /\ pc = "er2"
  /\ \/ \E p \in image.primaries : found' = [code |-> p[1], meta |-> p[2]] /\ pc' = "primary"
     \/ pc' = FirstSearch /\ UNCHANGED found
  /\ UNCHANGED <<image, pointerInExec, result, error, runtime, via>>

\* Mutant: the message of the first attempt stays.
ErrorStays == "AutoPlusInit failed"
\* error.clear().
ErrorAfterRejection == ""

InitFromAddresses ==
  /\ pc = "primary"
  /\ AutoPlusInit(pc' = FirstSearch /\ error' = ErrorAfterRejection /\ UNCHANGED result)

CodeAnswer ==
  CASE pc \in {"data", "exec"} -> FindCodeRegistration2019(pc)
    [] pc = "pattern"          -> FindCodeRegistrationByCodeGenModules
    [] pc = "old"              -> FindCodeRegistrationOld

\* FindCodeRegistration, with addresses of its own.
FindCodeRegistration ==
  /\ pc \in {"data", "exec", "pattern", "old"}
  /\ LET a == CodeAnswer
     IN  /\ pc' = CASE a = Thrown                -> "thrown"
                    [] a = 0 /\ pc = "data"      -> "exec"
                    [] a = 0 /\ pc = "exec"      -> "pattern"
                    [] OTHER                     -> FirstMetaSearch
         /\ found' = [code |-> a, meta |-> 0]
         /\ pointerInExec' = (pointerInExec \/ (pc = "exec" /\ a > 0))
         /\ via' = pc
  /\ UNCHANGED <<image, result, error, runtime>>

MetaAnswer ==
  CASE pc = "v21"     -> FindMetadataRegistrationV21
    [] pc = "oldMeta" -> FindMetadataRegistrationOld
    [] pc = "usages"  -> FindMetadataRegistrationByMetadataUsages

\* FindMetadataRegistration.
FindMetadataRegistration ==
  /\ pc \in {"v21", "oldMeta", "usages"}
  /\ LET a == MetaAnswer
     IN  /\ pc' = CASE a = Thrown                        -> "thrown"
                    [] a = 0 /\ pc \in {"v21", "oldMeta"} -> "usages"
                    [] OTHER                             -> "both"
         /\ found' = [found EXCEPT !.meta = a]
  /\ UNCHANGED <<image, pointerInExec, result, error, runtime, via>>

NotFound ==
  /\ pc = "both"
  /\ found.meta = 0 \/ found.code = 0
  /\ error' = "not found"
  /\ pc' = "returned"
  /\ UNCHANGED <<image, pointerInExec, found, result, runtime, via>>

FindAndInit ==
  /\ pc = "both"
  /\ found.meta # 0 /\ found.code # 0
  /\ AutoPlusInit(pc' = "returned" /\ error' = "AutoPlusInit failed" /\ UNCHANGED result)

(***************************************************************************)
(* OfflineRuntimeContext::Init.  Here nothing that cannot be read throws:  *)
(* a word is 0 then.                                                       *)
(***************************************************************************)
TryReadU64(a) == IF Mapped(a) THEN WordAt(a) ELSE 0
TriedWords(p, n) == [i \in 1..n |-> TryReadU64(p + i - 1)]

\* Mutant: an array of one method is taken for none.
MethodsButOne(x) == IF WordAt(x + 1) > 1 THEN TriedWords(WordAt(x + 2), WordAt(x + 1)) ELSE <<>>
MethodsOf(x) ==
  IF WordAt(x + 1) \in 1..(MaxTable - 1) /\ WordAt(x + 2) # 0 THEN TriedWords(WordAt(x + 2), WordAt(x + 1)) ELSE <<>>

LoadMethodPointers(c) == ByName(c, [i \in NamedEntries(c) |-> MethodsOf(ModuleAt(c, i))])

\* LoadTypes: more than half of the types can be read.
TypesLoad(m) ==
  2 * Cardinality({i \in 0..(m.typesCount - 1) : ~ TypeReadable(TryReadU64(m.types + i))}) <= m.typesCount

RuntimeInit ==
  /\ pc = "runtime"
  /\ LET c == CodeView(result.code)
         m == MetaView(result.meta)
         ok == /\ m.types # 0 /\ m.typesCount > 0 /\ TypesLoad(m)
               /\ V >= 2420 => c.modules # 0 /\ c.modulesCount \in 1..MaxTable /\ NamedEntries(c) # {}
               /\ V < 2420 => c.methodPointers # 0 /\ c.methodPointersCount \in 1..MaxTable
     IN  /\ IF ok THEN error' = error ELSE error' = "runtime"
         /\ runtime' =
              IF ~ ok THEN None
              ELSE [code |-> result.code,
                    types |-> TriedWords(m.types, m.typesCount),
                    offsets |-> IF m.offsets # 0 /\ V > 2100 THEN TriedWords(m.offsets, m.offsetsCount) ELSE <<>>,
                    methods |-> IF V >= 2420 THEN LoadMethodPointers(c) ELSE <<>>,
                    legacy |-> IF V < 2420 THEN TriedWords(c.methodPointers, c.methodPointersCount) ELSE <<>>]
  /\ pc' = "returned"
  /\ UNCHANGED <<image, pointerInExec, found, result, via>>

Ended == pc \in {"returned", "thrown"} /\ UNCHANGED vars

Next ==
  \/ TryFindRegistrationsWithEr2 \/ InitFromAddresses \/ FindCodeRegistration \/ FindMetadataRegistration
  \/ NotFound \/ FindAndInit \/ RuntimeInit \/ Ended

Spec == Init /\ [][Next]_vars

(***************************************************************************)
(* Properties.                                                             *)
(***************************************************************************)

\* The distance from a structure to its array of modules is right for some
\* versions only, and wrong by up to three words for the others: a structure
\* around the array the search came from that can be initialised is not missed,
\* and what is initialised has that array.
ArrayFoundIsInitialised ==
  pc \in {"runtime", "returned"} /\ via \in {"data", "exec"} /\ found.meta # 0 =>
    LET t     == found.code + PointerCount
        right == t + 1 - Len(CodeLayout)
    IN  Mapped(t - 1) /\ WordAt(t - 1) = image.images /\ TryInit(right, found.meta) = "yes" =>
          result # None /\ CodeView(result.code).modules = WordAt(t)

\* No pair that scores better than the one initialised would have been: every
\* better one is refused by each of the other structure's addresses that could
\* have been tried with it.
NoBetterOneLeft ==
  pc = "runtime" =>
    /\ \A m \in MetaCandidates(found.meta), c \in CodeCandidates(found.code) :
         MetaScore(m) > MetaScore(result.meta) /\ CodeScore(c) >= 0 => TryInit(c, m) = "no"
    /\ \A c \in CodeCandidates(found.code) :
         CodeScore(c) > CodeScore(result.code) => TryInit(c, result.meta) = "no"

\* When the searches along references come back with nothing, no array of
\* modules is linked to the name of mscorlib by words the searches go through:
\* the last word of a section is none of them.
Word(ss) == UNION {s.start..(s.start + s.size - 2) : s \in {x \in Range(ss) : "data" \in x.kinds}}
Linked ==
  LET words == Word(image.sections)
  IN  \E n \in DOMAIN image.word : \E k \in {"data", "exec"} :
        /\ image.word[n] = Mscorlib /\ In(k, n)
        /\ \E m \in words : /\ image.word[m] = n
                             /\ \E r \in words : /\ image.word[r] = m
                                                  /\ \E t \in words : /\ r - image.word[t] \in 0..(image.images - 1)
                                                                       /\ t - 1 \in DOMAIN image.word
                                                                       /\ image.word[t - 1] = image.images
NothingLinkedIsMissed == pc = "pattern" => ~ Linked

\* Types are looked for in the sections of code only when the name of mscorlib
\* could not be followed from the sections of data, and then they lie there.
ExecOnlyAsFallback ==
  pointerInExec =>
    /\ FindCodeRegistration2019("data") = 0
    /\ pc = "both" /\ V >= 2700 /\ found.meta > 0 /\ MetaView(found.meta).sizesCount = image.typeDefs
       /\ found.meta = FindMetadataRegistrationV21 =>
         LET m == MetaView(found.meta)
         IN  \A i \in 0..(Min({Sample, m.typesCount}) - 1) : In("exec", WordAt(m.types + i))

\* A call that returns has tables, or an error and no tables: the message of
\* an attempt that was made up for does not stay.
ErrorUnlessLoaded == pc = "returned" => (error = "" <=> runtime # None)

\* The structures are read twice, once to see whether they initialise and once
\* for use, by code with other checks.  What is loaded are the tables accepted,
\* but for the methods of a module that has MaxTable of them or more, which the
\* second reading takes for a module without any,
TablesAgree ==
  pc = "returned" /\ runtime # None =>
    /\ runtime.types = result.types /\ runtime.offsets = result.offsets /\ runtime.legacy = result.legacy
    /\ runtime.methods = [n \in DOMAIN result.methods |->
                             IF Len(result.methods[n]) < MaxTable THEN result.methods[n] ELSE <<>>]

\* and structures that were accepted are refused at the second reading only if
\* they are without types or methods, or have more modules (or methods, where
\* these are in one table) than it takes.
RefusalHasReason ==
  pc = "returned" /\ error = "runtime" =>
    \/ result.types = <<>>
    \/ IF V >= 2420 THEN DOMAIN result.methods = {} \/ CodeView(result.code).modulesCount > MaxTable
                    ELSE result.legacy = <<>> \/ Len(result.legacy) > MaxTable
==============================================================================
