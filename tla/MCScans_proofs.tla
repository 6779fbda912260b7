--------------------------- MODULE MCScans_proofs ----------------------------
(***************************************************************************)
(* Theorems about the scans and searches, each in its world of MCScans,    *)
(* for any values of the constants.                                        *)
(***************************************************************************)
EXTENDS MCScans, FiniteSetTheorems, SequenceTheorems, WellFoundedInduction,
        TLAPS

(***************************************************************************)
(* Numbers.  What the library says of induction cannot be cited here; that *)
(* every set of numbers has a least one can, and serves as well.           *)
(***************************************************************************)
NatLess == {s \in Nat \X Nat : s[1] < s[2]}

LEMMA LeastOfNat ==
  ASSUME NEW T \in SUBSET Nat, T # {}
  PROVE  \E x \in T : \A y \in T : x <= y
  <1>1. NatLess = OpToRel(<, Nat)
    BY DEF NatLess, OpToRel
  <1>2. IsWellFoundedOn(NatLess, Nat)
    BY <1>1, NatLessThanWellFounded
  <1>3. PICK x \in T : \A y \in T : ~ (<<y, x>> \in NatLess)
    BY <1>2, WFMin
  <1>4. ASSUME NEW y \in T PROVE x <= y
    <2>1. x \in Nat /\ y \in Nat
      OBVIOUS
    <2>2. ASSUME y < x PROVE <<y, x>> \in NatLess
      BY <2>1, <2>2 DEF NatLess
    <2>3. QED
      BY <1>3, <2>1, <2>2
  <1>5. QED
    BY <1>4

\* The same of integers with a lower, or an upper bound.
LEMMA LeastOfInt ==
  ASSUME NEW S \in SUBSET Int, S # {}, NEW low \in Int, \A y \in S : low <= y
  PROVE  \E x \in S : \A y \in S : x <= y
  <1> DEFINE T == {y - low : y \in S}
  <1>1. T \in SUBSET Nat /\ T # {}
    <2>1. ASSUME NEW y \in S PROVE y - low \in Nat
      OBVIOUS
    <2>2. PICK y \in S : TRUE
      OBVIOUS
    <2>3. y - low \in T
      BY <2>2
    <2>4. QED
      BY <2>1, <2>3
  <1>2. PICK t \in T : \A y \in T : t <= y
    BY <1>1, LeastOfNat
  <1>3. PICK x \in S : t = x - low
    BY <1>2
  <1>4. ASSUME NEW y \in S PROVE x <= y
    <2>1. y - low \in T /\ x - low <= y - low
      BY <1>2, <1>3
    <2>2. QED
      BY <2>1
  <1>5. QED
    BY <1>4

LEMMA GreatestOfInt ==
  ASSUME NEW S \in SUBSET Int, S # {}, NEW high \in Int, \A y \in S : y <= high
  PROVE  \E x \in S : \A y \in S : x >= y
  <1> DEFINE T == {high - y : y \in S}
  <1>1. T \in SUBSET Nat /\ T # {}
    <2>1. ASSUME NEW y \in S PROVE high - y \in Nat
      OBVIOUS
    <2>2. PICK y \in S : TRUE
      OBVIOUS
    <2>3. high - y \in T
      BY <2>2
    <2>4. QED
      BY <2>1, <2>3
  <1>2. PICK t \in T : \A y \in T : t <= y
    BY <1>1, LeastOfNat
  <1>3. PICK x \in S : t = high - x
    BY <1>2
  <1>4. ASSUME NEW y \in S PROVE x >= y
    <2>1. high - y \in T /\ high - x <= high - y
      BY <1>2, <1>3
    <2>2. QED
      BY <2>1
  <1>5. QED
    BY <1>4

(***************************************************************************)
(* OfflineRegistration.                                                    *)
(***************************************************************************)
LEMMA MinIsLeast ==
  ASSUME NEW S \in SUBSET Int, S # {}, NEW low \in Int, \A y \in S : low <= y
  PROVE  /\ Offline!Min(S) \in S /\ Offline!Min(S) \in Int
         /\ \A y \in S : Offline!Min(S) <= y
  <1>1. PICK x \in S : \A y \in S : x <= y
    BY LeastOfInt
  <1>2. QED
    BY <1>1 DEF Offline!Min

LEMMA MaxIsGreatest ==
  ASSUME NEW S \in SUBSET Int, S # {}, NEW high \in Int, \A y \in S : y <= high
  PROVE  /\ Offline!Max(S) \in S /\ Offline!Max(S) \in Int
         /\ \A y \in S : Offline!Max(S) >= y
  <1>1. PICK x \in S : \A y \in S : x >= y
    BY GreatestOfInt
  <1>2. QED
    BY <1>1 DEF Offline!Max

OffInput == image \in OfflineInputs

LEMMA InputFacts ==
  ASSUME OffInput
  PROVE  /\ \A a \in DOMAIN image.word : a \in Nat /\ a > 20 /\ image.word[a] \in Nat
         /\ \A i \in DOMAIN image.sections : image.sections[i].start \in Nat /\ image.sections[i].size \in Nat
         /\ image.primaries \subseteq Nat \X Nat
         /\ image.version \in Nat /\ image.methods \in Nat
         /\ image.typeDefs \in Nat \ {0} /\ image.images \in Nat \ {0}
         /\ {MaxBack, MaxDelta, MaxRatio, MaxGeneric, MaxTable} \subseteq Nat
  BY OfflineAssumption DEF OffInput

\* A number of words from an address that are mapped.
LEMMA RangeFacts ==
  ASSUME OffInput, NEW a \in Int, NEW n \in Int, Offline!MappedRange(a, n), NEW i \in 0..(n - 1)
  PROVE  Offline!Mapped(a + i) /\ a + i \in Nat /\ a + i > 20 /\ Offline!WordAt(a + i) \in Nat
  BY InputFacts DEF Offline!MappedRange, Offline!Mapped, Offline!WordAt

LEMMA ViewOfFacts ==
  ASSUME OffInput, NEW layout, Len(layout) \in Nat, DOMAIN layout = 1..Len(layout),
         NEW a \in Int, Offline!MappedRange(a, Len(layout)), NEW M, NEW m \in M
  PROVE  Offline!ViewOf(layout, a, M)[m] \in Nat
  <1> DEFINE at == {i \in DOMAIN layout : layout[i] = m}
  <1>1. Offline!ViewOf(layout, a, M)[m] = IF at = {} THEN 0 ELSE Offline!WordAt(a + Offline!Min(at) - 1)
    BY DEF Offline!ViewOf
  <1>2. CASE at = {}
    BY <1>1, <1>2
  <1>3. CASE at # {}
    <2>1. at \in SUBSET Int /\ \A y \in at : 1 <= y
      OBVIOUS
    <2>2. Offline!Min(at) \in 1..Len(layout)
      BY <1>3, <2>1, MinIsLeast
    <2>3. PICK k \in 1..Len(layout) : k = Offline!Min(at)
      BY <2>2
    <2>4. PICK j \in 0..(Len(layout) - 1) : j = k - 1 /\ a + k - 1 = a + j
      OBVIOUS
    <2>5. Offline!WordAt(a + j) \in Nat
      BY RangeFacts
    <2>6. QED
      BY <1>1, <1>3, <2>3, <2>4, <2>5
  <1>4. QED
    BY <1>2, <1>3

\* The names of members in the two layouts.
Members ==
  {"skip", "methodPointersCount", "methodPointers", "reverseCount", "reverse", "genericCount", "generic",
   "adjustors", "invokersCount", "invokers", "attributesCount", "attributes", "unresolvedCount", "unresolved",
   "instanceCalls", "staticCalls", "interopCount", "interop", "factoriesCount", "factories", "modulesCount",
   "modules", "classesCount", "classes", "instsCount", "insts", "tableCount", "table", "typesCount", "types",
   "specsCount", "specs", "offsetsCount", "offsets", "sizesCount", "sizes", "usagesCount", "usages"}

LEMMA Joined ==
  ASSUME NEW T, NEW s \in Seq(T), NEW t \in Seq(T)
  PROVE  s \o t \in Seq(T)
  OBVIOUS

LEMMA Empty == \A T : <<>> \in Seq(T)
  OBVIOUS

LEMMA SixSkips == [i \in 1..6 |-> "skip"] \in Seq(Members)
  BY DEF Members

LEMMA CodeLayoutSeq == Offline!CodeLayout \in Seq(Members)
  <1>1. /\ <<"methodPointersCount", "methodPointers">> \in Seq(Members)
        /\ <<"skip", "skip">> \in Seq(Members)
        /\ <<"reverseCount", "reverse">> \in Seq(Members)
        /\ <<"genericCount", "generic">> \in Seq(Members)
        /\ <<"adjustors">> \in Seq(Members)
        /\ <<"invokersCount", "invokers">> \in Seq(Members)
        /\ <<"attributesCount", "attributes">> \in Seq(Members)
        /\ <<"unresolvedCount", "unresolved">> \in Seq(Members)
        /\ <<"instanceCalls", "staticCalls">> \in Seq(Members)
        /\ <<"interopCount", "interop">> \in Seq(Members)
        /\ <<"factoriesCount", "factories">> \in Seq(Members)
        /\ <<"modulesCount", "modules">> \in Seq(Members)
    BY DEF Members
  <1>2. /\ Offline!If(Offline!V <= 2410, <<"methodPointersCount", "methodPointers">>) \in Seq(Members)
        /\ Offline!If(Offline!V <= 2100, <<"skip", "skip">>) \in Seq(Members)
        /\ Offline!If(Offline!V >= 2200, <<"reverseCount", "reverse">>) \in Seq(Members)
        /\ Offline!If(Offline!V <= 2200, [i \in 1..6 |-> "skip"]) \in Seq(Members)
        /\ Offline!If(Offline!V = 2450 \/ Offline!V >= 2710, <<"adjustors">>) \in Seq(Members)
    BY <1>1, SixSkips, Empty DEF Offline!If
  <1>3. /\ Offline!If(Offline!V <= 2450, <<"attributesCount", "attributes">>) \in Seq(Members)
        /\ Offline!If(Offline!V \in 2100..2200, <<"skip", "skip">>) \in Seq(Members)
        /\ Offline!If(Offline!V >= 2200, <<"unresolvedCount", "unresolved">>) \in Seq(Members)
        /\ Offline!If(Offline!V \in 2910..3099, <<"instanceCalls", "staticCalls">>) \in Seq(Members)
        /\ Offline!If(Offline!V >= 2300, <<"interopCount", "interop">>) \in Seq(Members)
        /\ Offline!If(Offline!V >= 2430, <<"factoriesCount", "factories">>) \in Seq(Members)
        /\ Offline!If(Offline!V >= 2420, <<"modulesCount", "modules">>) \in Seq(Members)
    BY <1>1, Empty DEF Offline!If
  <1>4. QED
    BY <1>1, <1>2, <1>3, Joined DEF Offline!CodeLayout

LEMMA MetaLayoutSeq == Offline!MetaLayout \in Seq(Members)
  <1>1. /\ <<"classesCount", "classes", "instsCount", "insts", "tableCount", "table", "typesCount", "types",
             "specsCount", "specs">> \in Seq(Members)
        /\ <<"skip", "skip">> \in Seq(Members)
        /\ <<"offsetsCount", "offsets", "sizesCount", "sizes">> \in Seq(Members)
        /\ <<"usagesCount", "usages">> \in Seq(Members)
    BY DEF Members
  <1>2. /\ Offline!If(Offline!V <= 1600, <<"skip", "skip">>) \in Seq(Members)
        /\ Offline!If(Offline!V >= 1900, <<"usagesCount", "usages">>) \in Seq(Members)
    BY <1>1, Empty DEF Offline!If
  <1>3. QED
    BY <1>1, <1>2, Joined DEF Offline!MetaLayout

CodeMembers ==
  {"methodPointersCount", "methodPointers", "reverseCount", "reverse", "genericCount", "generic",
   "invokersCount", "invokers", "unresolvedCount", "unresolved", "modulesCount", "modules"}
MetaMembers ==
  {"typesCount", "types", "specs", "offsetsCount", "offsets", "sizesCount", "sizes", "usagesCount", "usages"}

LEMMA SeqDomain ==
  ASSUME NEW T, NEW s \in Seq(T)
  PROVE  Len(s) \in Nat /\ DOMAIN s = 1..Len(s)
  OBVIOUS

LEMMA CodeViewFacts ==
  ASSUME OffInput, NEW a \in Int, Offline!CodeReadable(a), NEW m \in CodeMembers
  PROVE  Offline!CodeView(a)[m] \in Nat
  <1>1. Len(Offline!CodeLayout) \in Nat /\ DOMAIN Offline!CodeLayout = 1..Len(Offline!CodeLayout)
    BY CodeLayoutSeq, SeqDomain
  <1>2. Offline!CodeView(a) = Offline!ViewOf(Offline!CodeLayout, a, CodeMembers)
    BY DEF Offline!CodeView, CodeMembers
  <1>3. Offline!MappedRange(a, Len(Offline!CodeLayout))
    BY DEF Offline!CodeReadable
  <1>4. QED
    BY <1>1, <1>2, <1>3, ViewOfFacts

LEMMA MetaViewFacts ==
  ASSUME OffInput, NEW a \in Int, Offline!MetaReadable(a), NEW m \in MetaMembers
  PROVE  Offline!MetaView(a)[m] \in Nat
  <1>1. Len(Offline!MetaLayout) \in Nat /\ DOMAIN Offline!MetaLayout = 1..Len(Offline!MetaLayout)
    BY MetaLayoutSeq, SeqDomain
  <1>2. Offline!MetaView(a) = Offline!ViewOf(Offline!MetaLayout, a, MetaMembers)
    BY DEF Offline!MetaView, MetaMembers
  <1>3. Offline!MappedRange(a, Len(Offline!MetaLayout))
    BY DEF Offline!MetaReadable
  <1>4. QED
    BY <1>1, <1>2, <1>3, ViewOfFacts

LEMMA SectionWords ==
  ASSUME OffInput, NEW kind
  PROVE  Offline!Scanned(kind) \in SUBSET Nat /\ Offline!AllWords(kind) \in SUBSET Nat
  <1>1. \A s \in Offline!SectionsOf(kind) : s.start \in Nat /\ s.size \in Nat
    BY InputFacts DEF Offline!SectionsOf, Offline!Range
  <1>2. QED
    BY <1>1 DEF Offline!Scanned, Offline!AllWords

LEMMA SectionsMapped ==
  ASSUME OffInput, NEW kind, NEW a \in Offline!AllWords(kind) \cup Offline!Scanned(kind)
  PROVE  a \in DOMAIN image.word
  <1>1. PICK i \in DOMAIN image.sections :
          \/ a \in image.sections[i].start..(image.sections[i].start + image.sections[i].size - 1)
          \/ a \in image.sections[i].start..(image.sections[i].start + image.sections[i].size - 2)
    BY DEF Offline!AllWords, Offline!Scanned, Offline!SectionsOf, Offline!Range
  <1>2. image.sections[i].start \in Nat /\ image.sections[i].size \in Nat
    BY InputFacts
  <1>3. a \in image.sections[i].start..(image.sections[i].start + image.sections[i].size - 1)
    BY <1>1, <1>2
  <1>4. QED
    BY <1>3, OfflineAssumption DEF OffInput

LEMMA FirstAnswerInt ==
  ASSUME NEW answer, DOMAIN answer \in SUBSET Nat, \A a \in DOMAIN answer : answer[a] \in Int
  PROVE  Offline!FirstAnswer(answer) \in Int
  <1> DEFINE telling == {a \in DOMAIN answer : answer[a] # 0}
  <1>1. Offline!FirstAnswer(answer) = IF telling = {} THEN 0 ELSE answer[Offline!Min(telling)]
    BY DEF Offline!FirstAnswer
  <1>2. CASE telling # {}
    <2>1. telling \in SUBSET Int /\ \A y \in telling : 0 <= y
      OBVIOUS
    <2>2. Offline!Min(telling) \in telling
      BY <1>2, <2>1, MinIsLeast
    <2>3. QED
      BY <1>1, <1>2, <2>2
  <1>3. QED
    BY <1>1, <1>2

LEMMA BestStartInt ==
  ASSUME NEW score, DOMAIN score \in SUBSET Int, NEW high \in Int, \A a \in DOMAIN score : a <= high
  PROVE  Offline!BestStart(score) \in Int
  <1> DEFINE highest == {a \in DOMAIN score : \A b \in DOMAIN score : score[b] <= score[a]}
  <1>1. Offline!BestStart(score) = IF highest = {} THEN 0 ELSE Offline!Max(highest)
    BY DEF Offline!BestStart
  <1>2. CASE highest # {}
    <2>1. highest \in SUBSET Int /\ \A y \in highest : y <= high
      OBVIOUS
    <2>2. Offline!Max(highest) \in Int
      BY <1>2, <2>1, MaxIsGreatest
    <2>3. QED
      BY <1>1, <1>2, <2>2
  <1>3. QED
    BY <1>1, <1>2

LEMMA BeforeHit ==
  ASSUME OffInput, NEW hit \in Nat
  PROVE  Offline!Before(hit) \in SUBSET Int /\ \A a \in Offline!Before(hit) : a <= hit
  BY InputFacts DEF Offline!Before

LEMMA OldCodeInt ==
  ASSUME OffInput
  PROVE  Offline!FindCodeRegistrationOld \in Int
  <1> DEFINE good(a) == /\ Offline!WordAt(a) = image.methods /\ image.methods > 0
                        /\ Offline!Mapped(a + 1) /\ Offline!In("data", Offline!WordAt(a + 1))
                        /\ Offline!PointersIn("exec", Offline!WordAt(a + 1), image.methods)
             f == [a \in Offline!Scanned("data") |-> IF good(a) THEN a ELSE 0]
  <1>1. Offline!FindCodeRegistrationOld = Offline!FirstAnswer(f)
    BY DEF Offline!FindCodeRegistrationOld
  <1>2. DOMAIN f \in SUBSET Nat /\ \A a \in DOMAIN f : f[a] \in Int
    BY SectionWords
  <1>3. QED
    BY <1>1, <1>2, FirstAnswerInt

LEMMA ModulesCodeInt ==
  ASSUME OffInput
  PROVE  Offline!FindCodeRegistrationByCodeGenModules \in Int
  <1>1. ASSUME NEW hit \in Nat, NEW modules PROVE Offline!CodeStartFrom(hit, modules) \in Int
    <2> DEFINE fits(a) == /\ Offline!CodeReadable(a)
                          /\ Offline!CodeView(a).modulesCount = image.images
                          /\ Offline!CodeView(a).modules = modules
               S == {b \in Offline!Before(hit) : fits(b)}
    <2>1. S \in SUBSET Int /\ \A a \in S : a <= hit
      BY BeforeHit
    <2> DEFINE points(n, p) == Offline!Points(n > 0 /\ p # 0, 2)
                              + Offline!Points(n > 0 /\ p # 0 /\ Offline!PointersIn("exec", p, n), 6)
               score(a) == points(Offline!CodeView(a).invokersCount, Offline!CodeView(a).invokers)
                           + points(Offline!CodeView(a).genericCount, Offline!CodeView(a).generic)
                           + Offline!Points(Offline!CodeView(a).reverseCount = 0 \/ Offline!CodeView(a).reverse # 0, 1)
                           + Offline!Points(Offline!CodeView(a).unresolvedCount = 0
                                            \/ Offline!CodeView(a).unresolved # 0, 1)
               g == [a \in S |-> score(a)]
    <2>2. Offline!CodeStartFrom(hit, modules) = Offline!BestStart(g)
      BY DEF Offline!CodeStartFrom
    <2>3. DOMAIN g = S
      OBVIOUS
    <2>4. QED
      BY <2>1, <2>2, <2>3, BestStartInt
  <1> DEFINE good(a) == /\ Offline!WordAt(a) = image.images
                        /\ Offline!Mapped(a + 1) /\ Offline!WordAt(a + 1) # 0
                        /\ Offline!TryCheckCodeGenModulesArray(Offline!WordAt(a + 1))
             f == [a \in Offline!Scanned("data") |->
                     IF good(a) THEN Offline!CodeStartFrom(a, Offline!WordAt(a + 1)) ELSE 0]
  <1>2. Offline!FindCodeRegistrationByCodeGenModules = IF image.images = 0 THEN 0 ELSE Offline!FirstAnswer(f)
    BY DEF Offline!FindCodeRegistrationByCodeGenModules
  <1>3. DOMAIN f \in SUBSET Nat /\ \A a \in DOMAIN f : f[a] \in Int
    BY <1>1, SectionWords
  <1>4. QED
    BY <1>2, <1>3, FirstAnswerInt

LEMMA OldMetaInt ==
  ASSUME OffInput
  PROVE  Offline!FindMetadataRegistrationOld \in Int
  <1> DEFINE good(a) == /\ Offline!WordAt(a) = image.typeDefs
                        /\ image.usages > 0
                        /\ Offline!Mapped(a + 3) /\ Offline!In("data", Offline!WordAt(a + 3))
                        /\ Offline!PointersIn("data", Offline!WordAt(a + 3), image.usages)
             f == [a \in Offline!Scanned("data") |-> IF good(a) THEN a - 12 ELSE 0]
  <1>1. Offline!FindMetadataRegistrationOld = Offline!FirstAnswer(f)
    BY DEF Offline!FindMetadataRegistrationOld
  <1>2. DOMAIN f \in SUBSET Nat /\ \A a \in DOMAIN f : f[a] \in Int
    BY SectionWords
  <1>3. QED
    BY <1>1, <1>2, FirstAnswerInt

LEMMA UsagesMetaInt ==
  ASSUME OffInput
  PROVE  Offline!FindMetadataRegistrationByMetadataUsages \in Int
  <1> DEFINE fits(a, p) == /\ Offline!MetaReadable(a)
                           /\ Offline!MetaView(a).usagesCount = image.usages /\ Offline!MetaView(a).usages = p
             score(a) == Offline!Points(Offline!MetaView(a).typesCount > 0 /\ Offline!MetaView(a).types # 0, 1)
                         + Offline!Points(Offline!MetaView(a).offsetsCount > 0 /\ Offline!MetaView(a).offsets # 0, 1)
                         + Offline!Points(Offline!PointersIn("data", Offline!MetaView(a).usages, image.usages), 6)
             good(a) == /\ Offline!WordAt(a) = image.usages /\ Offline!WordAt(a + 1) # 0
                        /\ Offline!Mapped(Offline!WordAt(a + 1))
                        /\ Offline!PointersIn("data", Offline!WordAt(a + 1), image.usages)
             nearest(a) ==
               Offline!BestStart([b \in {x \in Offline!Before(a) : fits(x, Offline!WordAt(a + 1))} |-> score(b)])
             f == [a \in Offline!Scanned("data") |-> IF good(a) THEN nearest(a) ELSE 0]
  <1>1. Offline!FindMetadataRegistrationByMetadataUsages = IF image.usages = 0 THEN 0 ELSE Offline!FirstAnswer(f)
    BY DEF Offline!FindMetadataRegistrationByMetadataUsages
  <1>2. ASSUME NEW a \in Nat PROVE nearest(a) \in Int
    <2> DEFINE S == {x \in Offline!Before(a) : fits(x, Offline!WordAt(a + 1))}
               g == [b \in S |-> score(b)]
    <2>1. S \in SUBSET Int /\ \A b \in S : b <= a
      BY BeforeHit
    <2>2. DOMAIN g = S
      OBVIOUS
    <2>3. Offline!BestStart(g) \in Int
      BY <2>1, <2>2, BestStartInt
    <2>4. QED
      BY <2>3
  <1>3. DOMAIN f \in SUBSET Nat /\ \A a \in DOMAIN f : f[a] \in Int
    <2> HIDE DEF nearest
    <2>1. QED
      BY <1>2, SectionWords
  <1>4. QED
    BY <1>1, <1>3, FirstAnswerInt

LEMMA V21MetaInt ==
  ASSUME OffInput
  PROVE  Offline!FindMetadataRegistrationV21 \in Int
  <1> DEFINE fits(a) == /\ Offline!MetaReadable(a - 10)
                        /\ LET m == Offline!MetaView(a - 10)
                           IN  /\ m.offsetsCount = image.typeDefs /\ m.sizesCount = image.typeDefs
                               /\ m.typesCount > 0
                               /\ \A p \in {m.types, m.offsets, m.sizes} : Offline!Mapped(p)
             sampled(a) == Offline!SampledTypes(Offline!MetaView(a - 10).types, Offline!MetaView(a - 10).typesCount)
             answer(a) ==
               IF Offline!WordAt(a) # image.typeDefs THEN 0
               ELSE IF ~ Offline!Mapped(a + 2) THEN Offline!Thrown
               ELSE IF Offline!WordAt(a + 2) # image.typeDefs \/ ~ fits(a) THEN 0
               ELSE [ok |-> a - 10, thrown |-> Offline!Thrown, bad |-> 0][sampled(a)]
             f == [a \in Offline!Scanned("data") |-> answer(a)]
  <1>1. Offline!FindMetadataRegistrationV21 = Offline!FirstAnswer(f)
    BY DEF Offline!FindMetadataRegistrationV21
  <1>2. ASSUME NEW a \in Nat PROVE answer(a) \in Int
    <2>1. \A types, n : Offline!SampledTypes(types, n) \in {"ok", "thrown", "bad"}
      BY DEF Offline!SampledTypes
    <2>2. sampled(a) \in {"ok", "thrown", "bad"}
      BY <2>1
    <2>3. [ok |-> a - 10, thrown |-> Offline!Thrown, bad |-> 0][sampled(a)] \in Int
      <3> HIDE DEF sampled
      <3>1. QED
        BY <2>2 DEF Offline!Thrown
    <2>4. QED
      BY <2>3 DEF Offline!Thrown
  <1>3. DOMAIN f \in SUBSET Nat /\ \A a \in DOMAIN f : f[a] \in Int
    <2> HIDE DEF answer
    <2>1. QED
      BY <1>2, SectionWords
  <1>4. QED
    BY <1>1, <1>3, FirstAnswerInt

(***************************************************************************)
(* Among paths that say something one is the earliest: the least of their  *)
(* first words, then of the second among these, and so on.                 *)
(***************************************************************************)
PathKey(p) == [p EXCEPT ![4] = IF Offline!V >= 2700 THEN -p[4] ELSE p[4]]

LEMMA PathType ==
  ASSUME OffInput, NEW kind, NEW p \in Offline!Paths(kind)
  PROVE  /\ p[1] \in Nat /\ p[2] \in Nat /\ p[3] \in Nat /\ p[4] \in 0..(image.images - 1) /\ p[5] \in Nat
         /\ p = <<p[1], p[2], p[3], p[4], p[5]>>
  <1>1. PICK n \in Offline!AllWords(kind), m \in Offline!Scanned("data"), r \in Offline!Scanned("data"),
             i \in 0..(image.images - 1), t \in Offline!Scanned("data") : p = <<n, m, r, i, t>>
    BY DEF Offline!Paths, Offline!FindReference
  <1>2. n \in Nat /\ m \in Nat /\ r \in Nat /\ t \in Nat
    BY <1>1, SectionWords
  <1>3. QED
    BY <1>1, <1>2

\* The members of U are those of S with the least k-th key.
LeastAt(K, U, S, k) == \A p \in U, q \in S : K[p][k] < K[q][k] \/ (K[p][k] = K[q][k] /\ q \in U)

LEMMA NarrowedAt ==
  ASSUME NEW T, NEW K \in [T -> [1..5 -> Int]], NEW low \in Int, \A p \in T : \A k \in 1..5 : low <= K[p][k],
         NEW S \in SUBSET T, S # {}, NEW k \in 1..5
  PROVE  \E U : U \subseteq S /\ U # {} /\ LeastAt(K, U, S, k)
  <1>1. \A p \in S : K[p][k] \in Int /\ low <= K[p][k]
    OBVIOUS
  <1>2. PICK Y : Y = {K[p][k] : p \in S}
    OBVIOUS
  <1>3. Y \in SUBSET Int /\ Y # {} /\ \A y \in Y : low <= y
    BY <1>1, <1>2
  <1>4. PICK x \in Y : \A y \in Y : x <= y
    BY <1>3, LeastOfInt
  <1>5. PICK U : U = {p \in S : K[p][k] = x}
    OBVIOUS
  <1>6. U \subseteq S /\ U # {}
    BY <1>2, <1>4, <1>5
  <1>7. ASSUME NEW p \in U, NEW q \in S PROVE K[p][k] < K[q][k] \/ (K[p][k] = K[q][k] /\ q \in U)
    <2>1. K[p][k] = x /\ K[q][k] \in Y
      BY <1>2, <1>5
    <2>2. x <= K[q][k] /\ K[q][k] \in Int /\ x \in Int
      BY <1>3, <1>4, <2>1
    <2>3. K[q][k] = x => q \in U
      BY <1>5
    <2>4. QED
      BY <2>1, <2>2, <2>3
  <1>8. LeastAt(K, U, S, k)
    BY <1>7 DEF LeastAt
  <1>9. QED
    BY <1>6, <1>8

NotAfter(K, p, q) ==
  \/ \E k \in 1..5 : K[p][k] < K[q][k] /\ \A j \in 1..(k - 1) : K[p][j] = K[q][j]
  \/ \A k \in 1..5 : K[p][k] = K[q][k]

LEMMA FirstOfAll ==
  ASSUME NEW T, T # {}, NEW K \in [T -> [1..5 -> Int]], NEW low \in Int,
         \A p \in T : \A k \in 1..5 : low <= K[p][k]
  PROVE  \E p \in T : \A q \in T : NotAfter(K, p, q)
  <1>1. ASSUME NEW S, S \subseteq T, S # {}, NEW k \in 1..5
        PROVE  \E U : U \subseteq S /\ U # {} /\ LeastAt(K, U, S, k)
    <2>1. S \in SUBSET T
      BY <1>1
    <2>2. QED
      BY <1>1, <2>1, NarrowedAt
  <1>a. 1 \in 1..5 /\ 2 \in 1..5 /\ 3 \in 1..5 /\ 4 \in 1..5 /\ 5 \in 1..5
    OBVIOUS
  <1>2. PICK T1 : T1 \subseteq T /\ T1 # {} /\ LeastAt(K, T1, T, 1)
    BY <1>1, <1>a, Zenon
  <1>3. PICK T2 : T2 \subseteq T1 /\ T2 # {} /\ LeastAt(K, T2, T1, 2)
    BY <1>1, <1>2, <1>a, Zenon
  <1>4. T2 \subseteq T
    BY <1>2, <1>3
  <1>5. PICK T3 : T3 \subseteq T2 /\ T3 # {} /\ LeastAt(K, T3, T2, 3)
    BY <1>1, <1>3, <1>4, <1>a, Zenon
  <1>6. T3 \subseteq T
    BY <1>4, <1>5
  <1>7. PICK T4 : T4 \subseteq T3 /\ T4 # {} /\ LeastAt(K, T4, T3, 4)
    BY <1>1, <1>5, <1>6, <1>a, Zenon
  <1>8. T4 \subseteq T
    BY <1>6, <1>7
  <1>9. PICK T5 : T5 \subseteq T4 /\ T5 # {} /\ LeastAt(K, T5, T4, 5)
    BY <1>1, <1>7, <1>8, <1>a, Zenon
  <1>10. PICK p \in T5 : TRUE
    BY <1>9
  <1>11. p \in T1 /\ p \in T2 /\ p \in T3 /\ p \in T4 /\ p \in T
    BY <1>2, <1>3, <1>5, <1>7, <1>9, <1>10
  <1>12. ASSUME NEW q \in T
         PROVE  NotAfter(K, p, q)
    <2> DEFINE less(k) == K[p][k] < K[q][k]
               same(k) == K[p][k] = K[q][k]
    <2>1. less(1) \/ (same(1) /\ q \in T1)
      BY <1>2, <1>11 DEF LeastAt
    <2>2. q \in T1 => less(2) \/ (same(2) /\ q \in T2)
      BY <1>3, <1>11 DEF LeastAt
    <2>3. q \in T2 => less(3) \/ (same(3) /\ q \in T3)
      BY <1>5, <1>11 DEF LeastAt
    <2>4. q \in T3 => less(4) \/ (same(4) /\ q \in T4)
      BY <1>7, <1>11 DEF LeastAt
    <2>5. q \in T4 => less(5) \/ (same(5) /\ q \in T5)
      BY <1>9, <1>10 DEF LeastAt
    <2> HIDE DEF less, same, NotAfter
    <2>6. CASE less(1)
      <3>1. less(1) /\ \A j \in 1..(1 - 1) : same(j)
        BY <2>6
      <3>2. QED
        BY <3>1 DEF less, same, NotAfter
    <2>7. CASE same(1) /\ less(2)
      <3>1. less(2) /\ \A j \in 1..(2 - 1) : same(j)
        BY <2>7
      <3>2. QED
        BY <3>1 DEF less, same, NotAfter
    <2>8. CASE same(1) /\ same(2) /\ less(3)
      <3>1. \A j \in 1..(3 - 1) : j = 1 \/ j = 2
        OBVIOUS
      <3>2. less(3) /\ \A j \in 1..(3 - 1) : same(j)
        BY <2>8, <3>1
      <3>3. QED
        BY <3>2 DEF less, same, NotAfter
    <2>9. CASE same(1) /\ same(2) /\ same(3) /\ less(4)
      <3>1. \A j \in 1..(4 - 1) : j = 1 \/ j = 2 \/ j = 3
        OBVIOUS
      <3>2. less(4) /\ \A j \in 1..(4 - 1) : same(j)
        BY <2>9, <3>1
      <3>3. QED
        BY <3>2 DEF less, same, NotAfter
    <2>10. CASE same(1) /\ same(2) /\ same(3) /\ same(4) /\ less(5)
      <3>1. \A j \in 1..(5 - 1) : j = 1 \/ j = 2 \/ j = 3 \/ j = 4
        OBVIOUS
      <3>2. less(5) /\ \A j \in 1..(5 - 1) : same(j)
        BY <2>10, <3>1
      <3>3. QED
        BY <3>2 DEF less, same, NotAfter
    <2>11. CASE same(1) /\ same(2) /\ same(3) /\ same(4) /\ same(5)
      <3>1. \A j \in 1..5 : j = 1 \/ j = 2 \/ j = 3 \/ j = 4 \/ j = 5
        OBVIOUS
      <3>2. \A j \in 1..5 : same(j)
        BY <2>11, <3>1
      <3>3. QED
        BY <3>2 DEF same, NotAfter
    <2>12. QED
      BY <2>1, <2>2, <2>3, <2>4, <2>5, <2>6, <2>7, <2>8, <2>9, <2>10, <2>11
  <1>13. QED
    BY <1>11, <1>12, Zenon

LEMMA PathKeys ==
  ASSUME OffInput, NEW kind, NEW p \in Offline!Paths(kind)
  PROVE  /\ \A k \in 1..5 : PathKey(p)[k] \in Int /\ -image.images <= PathKey(p)[k]
         /\ \A k \in {1, 2, 3, 5} : PathKey(p)[k] = p[k]
         /\ PathKey(p)[4] = IF Offline!V >= 2700 THEN -p[4] ELSE p[4]
  <1>1. /\ p[1] \in Nat /\ p[2] \in Nat /\ p[3] \in Nat /\ p[4] \in 0..(image.images - 1) /\ p[5] \in Nat
        /\ p = <<p[1], p[2], p[3], p[4], p[5]>>
    BY PathType
  <1>2. PICK a \in Nat, b \in Nat, c \in Nat, d \in 0..(image.images - 1), e \in Nat : p = <<a, b, c, d, e>>
    BY <1>1
  <1>3. PathKey(p) = <<a, b, c, IF Offline!V >= 2700 THEN -d ELSE d, e>>
    BY <1>2 DEF PathKey
  <1>4. image.images \in Nat
    BY InputFacts
  <1>5. QED
    BY <1>2, <1>3, <1>4

LEMMA EarliestExists ==
  ASSUME OffInput, NEW kind, NEW T \in SUBSET Offline!Paths(kind), T # {}
  PROVE  \E p \in T : \A q \in T \ {p} : Offline!Earlier(p, q)
  <1>1. PICK K : K = [p \in T |-> [k \in 1..5 |-> PathKey(p)[k]]]
    OBVIOUS
  <1>2. PICK low \in Int : low = -image.images
    BY InputFacts
  <1>3. /\ K \in [T -> [1..5 -> Int]]
        /\ \A p \in T : \A k \in 1..5 : K[p][k] = PathKey(p)[k] /\ low <= K[p][k]
    BY <1>1, <1>2, PathKeys
  <1>a. \A p \in T : \A k \in 1..5 : low <= K[p][k]
    BY <1>3
  <1>4. PICK p \in T : \A q \in T : NotAfter(K, p, q)
    BY <1>2, <1>3, <1>a, FirstOfAll, Zenon
  <1>5. ASSUME NEW q \in T \ {p} PROVE Offline!Earlier(p, q)
    <2>1. CASE \E k \in 1..5 : K[p][k] < K[q][k] /\ \A j \in 1..(k - 1) : K[p][j] = K[q][j]
      <3>1. PICK k \in 1..5 : K[p][k] < K[q][k] /\ \A j \in 1..(k - 1) : K[p][j] = K[q][j]
        BY <2>1
      <3>2. \A j \in 1..(k - 1) : j \in 1..5
        OBVIOUS
      <3>3. PathKey(p)[k] < PathKey(q)[k] /\ \A j \in 1..(k - 1) : PathKey(p)[j] = PathKey(q)[j]
        BY <1>3, <3>1, <3>2
      <3>4. QED
        BY <3>3 DEF Offline!Earlier, PathKey
    <2>2. CASE \A k \in 1..5 : K[p][k] = K[q][k]
      <3>1. p \in Offline!Paths(kind) /\ q \in Offline!Paths(kind)
        OBVIOUS
      <3>2. \A k \in 1..5 : PathKey(p)[k] = PathKey(q)[k]
        BY <1>3, <2>2
      <3>3. p[1] = q[1] /\ p[2] = q[2] /\ p[3] = q[3] /\ p[5] = q[5]
        BY <3>1, <3>2, PathKeys
      <3>4. p[4] \in Int /\ q[4] \in Int
        BY <3>1, PathType
      <3>5. p[4] = q[4]
        BY <3>1, <3>2, <3>4, PathKeys
      <3>6. p = <<p[1], p[2], p[3], p[4], p[5]>> /\ q = <<q[1], q[2], q[3], q[4], q[5]>>
        BY <3>1, PathType
      <3>7. QED
        BY <3>3, <3>5, <3>6
    <2>3. QED
      BY <1>4, <2>1, <2>2 DEF NotAfter
  <1>6. QED
    BY <1>5

(***************************************************************************)
(* What the searches along references come to.                             *)
(***************************************************************************)
LEMMA FromPathInt ==
  ASSUME OffInput, NEW kind, NEW p \in Offline!Paths(kind)
  PROVE  Offline!FromPath(p) \in Int
  <1>1. p[5] \in Nat
    BY PathType
  <1>2. QED
    BY <1>1 DEF Offline!FromPath, Offline!PointerCount, Offline!Thrown

\* The search comes to nothing only if no path says anything.
LEMMA SearchAnswers ==
  ASSUME OffInput, NEW kind
  PROVE  /\ Offline!FindCodeRegistration2019(kind) \in Int
         /\ Offline!FindCodeRegistration2019(kind) = 0 => \A p \in Offline!Paths(kind) : Offline!FromPath(p) = 0
  <1> DEFINE telling == {p \in Offline!Paths(kind) : Offline!FromPath(p) # 0}
             isFirst(p) == \A q \in telling \ {p} : Offline!Earlier(p, q)
  <1>1. Offline!FindCodeRegistration2019(kind) =
          IF telling = {} THEN 0 ELSE Offline!FromPath(CHOOSE p \in telling : isFirst(p))
    BY DEF Offline!FindCodeRegistration2019
  <1>2. CASE telling = {}
    BY <1>1, <1>2
  <1>3. CASE telling # {}
    <2>1. telling \in SUBSET Offline!Paths(kind)
      OBVIOUS
    <2>2. \E p \in telling : isFirst(p)
      <3>1. PICK T \in SUBSET Offline!Paths(kind) : T = telling
        BY <2>1
      <3>2. \E p \in T : \A q \in T \ {p} : Offline!Earlier(p, q)
        BY <1>3, <3>1, EarliestExists
      <3>3. QED
        BY <3>1, <3>2
    <2>3. (CHOOSE p \in telling : isFirst(p)) \in telling
      <3> HIDE DEF telling, isFirst
      <3>1. QED
        BY <2>2
    <2>4. PICK p \in telling : Offline!FindCodeRegistration2019(kind) = Offline!FromPath(p)
      <3> HIDE DEF telling, isFirst
      <3>1. QED
        BY <1>1, <1>3, <2>3
    <2>5. QED
      BY <2>4, FromPathInt
  <1>4. QED
    BY <1>2, <1>3

\* What is linked to the name of mscorlib is the end of a path that says
\* something.
LEMMA LinkedTells ==
  ASSUME OffInput, Offline!Linked
  PROVE  \E kind \in {"data", "exec"} : \E p \in Offline!Paths(kind) : Offline!FromPath(p) # 0
  <1>1. Offline!Word(image.sections) = Offline!Scanned("data")
    BY DEF Offline!Word, Offline!Scanned, Offline!SectionsOf
  <1>2. PICK n \in DOMAIN image.word, kind \in {"data", "exec"} :
          /\ image.word[n] = Mscorlib /\ Offline!In(kind, n)
          /\ \E m \in Offline!Scanned("data") :
               /\ image.word[m] = n
               /\ \E r \in Offline!Scanned("data") :
                    /\ image.word[r] = m
                    /\ \E t \in Offline!Scanned("data") :
                         /\ r - image.word[t] \in 0..(image.images - 1)
                         /\ t - 1 \in DOMAIN image.word /\ image.word[t - 1] = image.images
    BY <1>1 DEF Offline!Linked
  <1>3. PICK m \in Offline!Scanned("data"), r \in Offline!Scanned("data"), t \in Offline!Scanned("data") :
          /\ image.word[m] = n /\ image.word[r] = m /\ r - image.word[t] \in 0..(image.images - 1)
          /\ t - 1 \in DOMAIN image.word /\ image.word[t - 1] = image.images
    BY <1>2
  <1>4. n \in Offline!AllWords(kind) /\ Offline!WordAt(n) = Mscorlib
    BY <1>2 DEF Offline!In, Offline!AllWords, Offline!WordAt
  <1>5. t \in DOMAIN image.word /\ r \in Nat
    BY SectionWords, SectionsMapped
  <1>6. t \in Nat /\ t > 20 /\ image.word[t] \in Nat
    BY <1>5, InputFacts
  <1>7. PICK i \in 0..(image.images - 1) : i = r - image.word[t] /\ image.word[t] = r - i
    BY <1>3, <1>5, <1>6
  <1>8. /\ m \in Offline!FindReference(n) /\ r \in Offline!FindReference(m)
        /\ t \in Offline!FindReference(r - i)
    BY <1>3, <1>7 DEF Offline!FindReference, Offline!WordAt
  <1>9. PICK p : p = <<n, m, r, i, t>>
    OBVIOUS
  <1>10. p \in Offline!Paths(kind)
    BY <1>4, <1>8, <1>9 DEF Offline!Paths
  <1>11. p[5] = t
    BY <1>9
  <1>12. Offline!Mapped(p[5] - 1) /\ Offline!WordAt(p[5] - 1) = image.images
    BY <1>3, <1>11 DEF Offline!Mapped, Offline!WordAt
  <1>13. Offline!FromPath(p) = t - Offline!PointerCount
    BY <1>11, <1>12, InputFacts DEF Offline!FromPath, Offline!V
  <1>14. Offline!FromPath(p) # 0
    BY <1>6, <1>13 DEF Offline!PointerCount
  <1>15. QED
    BY <1>10, <1>14

(***************************************************************************)
(* AutoPlusInit.                                                           *)
(***************************************************************************)
LEMMA CandidatesInt ==
  ASSUME OffInput, NEW x \in Int
  PROVE  Offline!MetaCandidates(x) \subseteq Int /\ Offline!CodeCandidates(x) \subseteq Int
  <1>1. Offline!WithTarget(x) \subseteq Int
    BY InputFacts DEF Offline!WithTarget, Offline!Mapped, Offline!WordAt
  <1>2. QED
    BY <1>1, InputFacts DEF Offline!MetaCandidates, Offline!CodeCandidates

\* A score is -1 or that of what can be read.
LEMMA CodeScoreRange ==
  ASSUME OffInput, NEW a \in Int
  PROVE  Offline!CodeScore(a) \in Int /\ Offline!CodeScore(a) >= -1
  <1>1. CASE ~ Offline!CodeReadable(a) \/ ~ Offline!ModulesCountFits(Offline!CodeView(a))
    BY <1>1 DEF Offline!CodeScore
  <1>2. CASE Offline!CodeReadable(a) /\ Offline!ModulesCountFits(Offline!CodeView(a))
    <2>1. PICK c : c = Offline!CodeView(a)
      OBVIOUS
    <2>2. PICK x : x = Offline!Points(image.images > 0, IF c.modulesCount = image.images THEN 1000 ELSE 200)
      OBVIOUS
    <2>3. x \in Int /\ x >= 200
      BY <2>2, InputFacts DEF Offline!Points
    <2>4. PICK y : y = Offline!Points(image.methods > 0,
                         CASE c.genericCount \in 1..Offline!Min({MaxRatio * image.methods, MaxGeneric}) -> 400
                           [] c.genericCount = 0 -> 10
                           [] OTHER -> -200)
      OBVIOUS
    <2>5. y \in Int /\ y >= -200
      BY <2>4 DEF Offline!Points
    <2>6. \A P \in BOOLEAN : \A n \in Nat : Offline!Points(P, n) \in Int /\ Offline!Points(P, n) >= 0
      BY DEF Offline!Points
    <2>7. PICK u, v, w : /\ u = Offline!Points(Offline!Mapped(c.modules), 200)
                         /\ v = Offline!Points(Offline!Mapped(c.generic), 50)
                         /\ w = Offline!Points(Offline!Mapped(c.invokers), 50)
      OBVIOUS
    <2>8. u \in Int /\ u >= 0 /\ v \in Int /\ v >= 0 /\ w \in Int /\ w >= 0
      BY <2>7 DEF Offline!Points
    <2>9. Offline!CodeScore(a) = x + u + y + v + w
      BY <1>2, <2>1, <2>2, <2>4, <2>7 DEF Offline!CodeScore
    <2>10. QED
      BY <2>3, <2>5, <2>8, <2>9
  <1>3. QED
    BY <1>1, <1>2

LEMMA MetaScoreRange ==
  ASSUME OffInput, NEW a \in Int
  PROVE  /\ Offline!MetaScore(a) \in Int
         /\ Offline!MetaReadable(a) /\ Offline!Mapped(Offline!MetaView(a).types)
              => Offline!MetaScore(a) = -1 \/ Offline!MetaScore(a) >= 0
         /\ Offline!MetaView(a).types = 0 \/ Offline!MetaView(a).typesCount = 0 => Offline!MetaScore(a) = -1
  <1> DEFINE none == \/ ~ Offline!MetaReadable(a)
                     \/ Offline!MetaView(a).types = 0 \/ Offline!MetaView(a).typesCount = 0
  <1>1. CASE none
    BY <1>1 DEF Offline!MetaScore
  <1>2. CASE ~ none
    <2>1. PICK m : m = Offline!MetaView(a)
      OBVIOUS
    <2>2. PICK diff : diff = IF m.typesCount >= image.typeDefs THEN m.typesCount - image.typeDefs
                                                               ELSE image.typeDefs - m.typesCount
      OBVIOUS
    <2>3. PICK x : x = Offline!Points(image.typeDefs > 0,
                         CASE diff = 0 -> 1000 [] diff \in 1..(image.typeDefs \div 10 - 1) -> 300 [] OTHER -> -100)
      OBVIOUS
    <2>4. x \in Int /\ x >= -100
      BY <2>3 DEF Offline!Points
    <2>5. PICK u, v, w : /\ u = Offline!Points(Offline!Mapped(m.types), 200)
                         /\ v = Offline!Points(Offline!Mapped(m.specs), 50)
                         /\ w = Offline!Points(Offline!Mapped(m.offsets), 50)
      OBVIOUS
    <2>6. u \in Int /\ u >= 0 /\ v \in Int /\ v >= 0 /\ w \in Int /\ w >= 0
      BY <2>5 DEF Offline!Points
    <2>7. Offline!MetaScore(a) = x + u + v + w
      BY <1>2, <2>1, <2>2, <2>3, <2>5 DEF Offline!MetaScore
    <2>8. Offline!Mapped(m.types) => u = 200
      BY <2>5 DEF Offline!Points
    <2>9. QED
      BY <1>2, <2>1, <2>4, <2>6, <2>7, <2>8
  <1>3. QED
    BY <1>1, <1>2

\* What the scores of an attempt are made of.
Codes(a) == Offline!Scored([c \in Offline!CodeCandidates(a) |-> Offline!CodeScore(c)])
Metas(a) == Offline!Scored([m \in Offline!MetaCandidates(a) |-> Offline!MetaScore(m)])

LEMMA ScoredFacts ==
  ASSUME NEW score, \A a \in DOMAIN score : score[a] \in Int,
         NEW x \in DOMAIN Offline!Scored(score), NEW y \in DOMAIN score, score[y] >= 0
  PROVE  /\ x \in DOMAIN score /\ score[x] >= 0
         /\ y \in DOMAIN Offline!Scored(score)
         /\ Offline!Scored(score)[x] = score[x] /\ Offline!Scored(score)[y] = score[y]
  <1>1. ~ (\A a \in DOMAIN score : score[a] < 0)
    OBVIOUS
  <1>2. Offline!Scored(score) = [a \in {b \in DOMAIN score : score[b] >= 0} |-> score[a]]
    BY <1>1 DEF Offline!Scored
  <1>3. QED
    BY <1>2

LEMMA ScoredDomain ==
  ASSUME NEW score
  PROVE  DOMAIN Offline!Scored(score) \subseteq DOMAIN score
  BY DEF Offline!Scored

\* TryInit does not accept what it cannot read.
LEMMA Accepted ==
  ASSUME OffInput, NEW code, NEW meta, Offline!TryInit(code, meta) = "yes"
  PROVE  /\ Offline!CodeReadable(code) /\ Offline!MetaReadable(meta)
         /\ Offline!MetaView(meta).offsets # 0 /\ Offline!V > 2100 =>
              Offline!MappedRange(Offline!MetaView(meta).offsets, Offline!MetaView(meta).offsetsCount)
         /\ Offline!MetaView(meta).types # 0 =>
              \A i \in 0..(Offline!MetaView(meta).typesCount - 1) :
                /\ Offline!Mapped(Offline!MetaView(meta).types + i)
                /\ Offline!TypeReadable(Offline!WordAt(Offline!MetaView(meta).types + i))
         /\ Offline!ModulesCountFits(Offline!CodeView(code))
         /\ Offline!V >= 2420 => ~ Offline!CannotReadModules(Offline!CodeView(code))
         /\ Offline!V < 2420 /\ Offline!CodeView(code).methodPointers # 0 =>
              Offline!MappedRange(Offline!CodeView(code).methodPointers, Offline!CodeView(code).methodPointersCount)
  <1> DEFINE c == Offline!CodeView(code)
             m == Offline!MetaView(meta)
             unusable == {i \in 0..(m.typesCount - 1) :
                            \/ ~ Offline!Mapped(m.types + i) \/ Offline!WordAt(m.types + i) = 0
                            \/ ~ Offline!TypeReadable(Offline!WordAt(m.types + i))}
             new == Offline!V >= 2420
             cutNew == Offline!CannotReadModules(c)
             cutOld == c.methodPointers # 0 /\ ~ Offline!MappedRange(c.methodPointers, c.methodPointersCount)
             noOffsets == m.offsets # 0 /\ Offline!V > 2100 /\ ~ Offline!MappedRange(m.offsets, m.offsetsCount)
             noTypes == m.types # 0 /\ unusable # {}
             unread == \/ ~ Offline!CodeReadable(code) \/ ~ Offline!MetaReadable(meta)
                       \/ ~ Offline!ModulesCountFits(c)
  <1>1. Offline!TryInit(code, meta) =
          IF unread THEN "no"
          ELSE IF noOffsets THEN "thrown"
          ELSE IF noTypes THEN IF Offline!Mapped(m.types + Offline!Min(unusable)) THEN "no" ELSE "thrown"
          ELSE IF (IF new THEN cutNew ELSE cutOld) THEN "thrown" ELSE "yes"
    BY DEF Offline!TryInit
  <1>2. ~ unread /\ ~ noOffsets /\ ~ noTypes /\ (new => ~ cutNew) /\ (~ new => ~ cutOld)
    <2> HIDE DEF unread, noOffsets, noTypes, new, cutNew, cutOld
    <2>1. QED
      BY <1>1
  <1>3. ~ new <=> Offline!V < 2420
    BY InputFacts DEF Offline!V
  <1>4. /\ Offline!CodeReadable(code) /\ Offline!MetaReadable(meta)
        /\ Offline!ModulesCountFits(Offline!CodeView(code))
    BY <1>2
  <1>5. Offline!MetaView(meta).offsets # 0 /\ Offline!V > 2100 =>
          Offline!MappedRange(Offline!MetaView(meta).offsets, Offline!MetaView(meta).offsetsCount)
    BY <1>2
  <1>6. Offline!MetaView(meta).types # 0 =>
          \A i \in 0..(Offline!MetaView(meta).typesCount - 1) :
            /\ Offline!Mapped(Offline!MetaView(meta).types + i)
            /\ Offline!TypeReadable(Offline!WordAt(Offline!MetaView(meta).types + i))
    BY <1>2
  <1>7. Offline!V >= 2420 => ~ Offline!CannotReadModules(Offline!CodeView(code))
    BY <1>2
  <1>8. Offline!V < 2420 /\ Offline!CodeView(code).methodPointers # 0 =>
          Offline!MappedRange(Offline!CodeView(code).methodPointers, Offline!CodeView(code).methodPointersCount)
    <2> HIDE DEF new
    <2>1. QED
      BY <1>2, <1>3
  <1>9. QED
    BY <1>4, <1>5, <1>6, <1>7, <1>8

LEMMA FirstFacts ==
  ASSUME NEW codes, NEW metas, NEW p \in Offline!FirstAccepted(codes, metas)
  PROVE  /\ p[1] \in DOMAIN codes /\ p[2] \in DOMAIN metas
         /\ \A c \in DOMAIN codes : Offline!TryInit(c, p[2]) # "no" => codes[c] <= codes[p[1]]
         /\ \A m \in DOMAIN metas, c \in DOMAIN codes : Offline!TryInit(c, m) # "no" => metas[m] <= metas[p[2]]
  <1> DEFINE accepted(m) == {c \in DOMAIN codes : Offline!TryInit(c, m) # "no"}
             usable == {m \in DOMAIN metas : accepted(m) # {}}
  <1>1. Offline!FirstAccepted(codes, metas) =
          UNION {{<<c, m>> : c \in Offline!Top(accepted(m), codes)} : m \in Offline!Top(usable, metas)}
    BY DEF Offline!FirstAccepted
  <1>2. PICK m \in Offline!Top(usable, metas) : p \in {<<c, m>> : c \in Offline!Top(accepted(m), codes)}
    BY <1>1
  <1>3. PICK c \in Offline!Top(accepted(m), codes) : p = <<c, m>>
    BY <1>2
  <1>4. p[1] = c /\ p[2] = m
    BY <1>3
  <1>5. /\ m \in DOMAIN metas /\ \A x \in usable : metas[x] <= metas[m]
        /\ c \in DOMAIN codes /\ \A x \in accepted(m) : codes[x] <= codes[c]
    BY DEF Offline!Top
  <1>6. ASSUME NEW x \in DOMAIN codes, Offline!TryInit(x, m) # "no" PROVE codes[x] <= codes[c]
    BY <1>5, <1>6
  <1>7. ASSUME NEW y \in DOMAIN metas, NEW x \in DOMAIN codes, Offline!TryInit(x, y) # "no"
        PROVE  metas[y] <= metas[m]
    <2>1. y \in usable
      BY <1>7
    <2>2. QED
      BY <1>5, <2>1
  <1>8. QED
    BY <1>4, <1>5, <1>6, <1>7

\* A pair accepted first leaves none that scores better.
LEMMA NoneBetter ==
  ASSUME OffInput, NEW f \in Int, NEW g \in Int, NEW p \in Offline!FirstAccepted(Codes(f), Metas(g)),
         Offline!TryInit(p[1], p[2]) = "yes"
  PROVE  /\ \A m \in Offline!MetaCandidates(g), c \in Offline!CodeCandidates(f) :
              Offline!MetaScore(m) > Offline!MetaScore(p[2]) /\ Offline!CodeScore(c) >= 0 =>
                Offline!TryInit(c, m) = "no"
         /\ \A c \in Offline!CodeCandidates(f) :
              Offline!CodeScore(c) > Offline!CodeScore(p[1]) => Offline!TryInit(c, p[2]) = "no"
         /\ p[1] \in Int /\ p[2] \in Int
  <1> DEFINE codeScore == [c \in Offline!CodeCandidates(f) |-> Offline!CodeScore(c)]
             metaScore == [m \in Offline!MetaCandidates(g) |-> Offline!MetaScore(m)]
  <1>1. Codes(f) = Offline!Scored(codeScore) /\ Metas(g) = Offline!Scored(metaScore)
    BY DEF Codes, Metas
  <1>2. DOMAIN codeScore = Offline!CodeCandidates(f) /\ DOMAIN metaScore = Offline!MetaCandidates(g)
    OBVIOUS
  <1>3. DOMAIN codeScore \subseteq Int /\ DOMAIN metaScore \subseteq Int
    BY <1>2, CandidatesInt
  <1>4. /\ \A c \in DOMAIN codeScore :
             codeScore[c] = Offline!CodeScore(c) /\ codeScore[c] \in Int /\ codeScore[c] >= -1
        /\ \A m \in DOMAIN metaScore : metaScore[m] = Offline!MetaScore(m) /\ metaScore[m] \in Int
    BY <1>3, CodeScoreRange, MetaScoreRange
  <1>5. p[1] \in DOMAIN codeScore /\ p[2] \in DOMAIN metaScore
    BY <1>1, FirstFacts, ScoredDomain
  <1>6. Offline!MetaScore(p[2]) = -1 \/ Offline!MetaScore(p[2]) >= 0
    <2>1. Offline!MetaReadable(p[2]) /\ p[2] \in Int
      BY <1>3, <1>5, Accepted
    <2>2. CASE Offline!MetaView(p[2]).types = 0 \/ Offline!MetaView(p[2]).typesCount = 0
      BY <2>1, <2>2, MetaScoreRange
    <2>3. CASE Offline!MetaView(p[2]).types # 0 /\ Offline!MetaView(p[2]).typesCount # 0
      <3>1. Offline!MetaView(p[2]).types \in Nat /\ Offline!MetaView(p[2]).typesCount \in Nat
        BY <2>1, MetaViewFacts DEF MetaMembers
      <3>2. 0 \in 0..(Offline!MetaView(p[2]).typesCount - 1)
        BY <2>3, <3>1
      <3>3. Offline!Mapped(Offline!MetaView(p[2]).types + 0)
        BY <2>3, <3>2, Accepted
      <3>4. Offline!Mapped(Offline!MetaView(p[2]).types)
        BY <3>1, <3>3
      <3>5. QED
        BY <2>1, <3>4, MetaScoreRange
    <2>4. QED
      BY <2>2, <2>3
  <1> HIDE DEF codeScore, metaScore
  <1>7. ASSUME NEW m \in DOMAIN metaScore, NEW c \in DOMAIN codeScore,
               Offline!MetaScore(m) > Offline!MetaScore(p[2]), Offline!CodeScore(c) >= 0,
               Offline!TryInit(c, m) # "no"
        PROVE  FALSE
    <2>1. metaScore[m] >= 0 /\ codeScore[c] >= 0
      BY <1>4, <1>5, <1>6, <1>7
    <2>2. p[1] \in DOMAIN Offline!Scored(codeScore) /\ p[2] \in DOMAIN Offline!Scored(metaScore)
      BY <1>1, FirstFacts
    <2>3. c \in DOMAIN Offline!Scored(codeScore)
      BY <1>4, <2>1, <2>2, ScoredFacts
    <2>4. /\ m \in DOMAIN Offline!Scored(metaScore)
          /\ Offline!Scored(metaScore)[p[2]] = metaScore[p[2]] /\ Offline!Scored(metaScore)[m] = metaScore[m]
      BY <1>4, <2>1, <2>2, ScoredFacts
    <2>5. Offline!Scored(metaScore)[m] <= Offline!Scored(metaScore)[p[2]]
      BY <1>1, <1>7, <2>3, <2>4, FirstFacts
    <2>6. QED
      BY <1>4, <1>5, <1>7, <2>4, <2>5
  <1>8. ASSUME NEW c \in DOMAIN codeScore, Offline!CodeScore(c) > Offline!CodeScore(p[1]),
               Offline!TryInit(c, p[2]) # "no"
        PROVE  FALSE
    <2>1. codeScore[c] >= 0
      BY <1>4, <1>5, <1>8
    <2>2. p[1] \in DOMAIN Offline!Scored(codeScore)
      BY <1>1, FirstFacts
    <2>3. /\ c \in DOMAIN Offline!Scored(codeScore)
          /\ Offline!Scored(codeScore)[p[1]] = codeScore[p[1]] /\ Offline!Scored(codeScore)[c] = codeScore[c]
      BY <1>4, <2>1, <2>2, ScoredFacts
    <2>4. Offline!Scored(codeScore)[c] <= Offline!Scored(codeScore)[p[1]]
      BY <1>1, <1>8, <2>3, FirstFacts
    <2>5. QED
      BY <1>4, <1>5, <1>8, <2>3, <2>4
  <1>9. p[1] \in Int /\ p[2] \in Int
    BY <1>3, <1>5
  <1>10. QED
    BY <1>2, <1>7, <1>8, <1>9

LEMMA AcceptedNotRefused ==
  ASSUME NEW codes, NEW metas, NEW p \in Offline!FirstAccepted(codes, metas)
  PROVE  Offline!TryInit(p[1], p[2]) # "no"
  <1> DEFINE accepted(m) == {c \in DOMAIN codes : Offline!TryInit(c, m) # "no"}
             usable == {m \in DOMAIN metas : accepted(m) # {}}
  <1>1. Offline!FirstAccepted(codes, metas) =
          UNION {{<<c, m>> : c \in Offline!Top(accepted(m), codes)} : m \in Offline!Top(usable, metas)}
    BY DEF Offline!FirstAccepted
  <1>2. PICK m \in Offline!Top(usable, metas) : p \in {<<c, m>> : c \in Offline!Top(accepted(m), codes)}
    BY <1>1
  <1>3. PICK c \in Offline!Top(accepted(m), codes) : p = <<c, m>>
    BY <1>2
  <1>4. c \in accepted(m)
    BY DEF Offline!Top
  <1>5. QED
    BY <1>3, <1>4

LEMMA TryOutcomes ==
  \A code, meta : Offline!TryInit(code, meta) \in {"yes", "no", "thrown"}
  BY DEF Offline!TryInit

(***************************************************************************)
(* What is computed from an image stays as long as the image does.         *)
(***************************************************************************)
Kept == image' = image

LEMMA KeptWords ==
  ASSUME Kept
  PROVE  /\ \A a : (Offline!Mapped(a))' <=> Offline!Mapped(a)
         /\ \A a : (Offline!WordAt(a))' = Offline!WordAt(a)
         /\ \A a, n : (Offline!MappedRange(a, n))' <=> Offline!MappedRange(a, n)
         /\ Offline!V' = Offline!V
         /\ \A k : Offline!SectionsOf(k)' = Offline!SectionsOf(k)
  <1>1. \A a : (Offline!Mapped(a))' <=> Offline!Mapped(a)
    BY DEF Kept, Offline!Mapped
  <1>2. \A a : (Offline!WordAt(a))' = Offline!WordAt(a)
    BY DEF Kept, Offline!WordAt
  <1>3. \A a, n : (Offline!MappedRange(a, n))' <=> Offline!MappedRange(a, n)
    BY <1>1 DEF Offline!MappedRange
  <1>4. Offline!V' = Offline!V
    BY DEF Kept, Offline!V
  <1>5. \A k : Offline!SectionsOf(k)' = Offline!SectionsOf(k)
    BY DEF Kept, Offline!SectionsOf, Offline!Range
  <1>6. QED
    BY <1>1, <1>2, <1>3, <1>4, <1>5

LEMMA KeptLayouts ==
  ASSUME Kept
  PROVE  Offline!CodeLayout' = Offline!CodeLayout /\ Offline!MetaLayout' = Offline!MetaLayout
  <1>1. Offline!V' = Offline!V
    BY KeptWords
  <1>2. QED
    BY <1>1 DEF Offline!CodeLayout, Offline!MetaLayout, Offline!If

LEMMA KeptViews ==
  ASSUME Kept
  PROVE  /\ \A a : Offline!CodeReadable(a)' <=> Offline!CodeReadable(a)
         /\ \A a : Offline!MetaReadable(a)' <=> Offline!MetaReadable(a)
         /\ \A a : Offline!CodeView(a)' = Offline!CodeView(a)
         /\ \A a : Offline!MetaView(a)' = Offline!MetaView(a)
  <1>1. \A a : Offline!CodeReadable(a)' <=> Offline!CodeReadable(a)
    BY KeptWords, KeptLayouts DEF Offline!CodeReadable
  <1>2. \A a : Offline!MetaReadable(a)' <=> Offline!MetaReadable(a)
    BY KeptWords, KeptLayouts DEF Offline!MetaReadable
  <1>3. \A a : Offline!CodeView(a)' = Offline!CodeView(a)
    BY KeptWords, KeptLayouts DEF Offline!CodeView, Offline!ViewOf
  <1>4. \A a : Offline!MetaView(a)' = Offline!MetaView(a)
    BY KeptWords, KeptLayouts DEF Offline!MetaView, Offline!ViewOf
  <1>5. QED
    BY <1>1, <1>2, <1>3, <1>4

(***************************************************************************)
(* The second reading of the tables.                                       *)
(***************************************************************************)
LEMMA ReadTwice ==
  ASSUME NEW p \in Int, NEW n \in Int, Offline!MappedRange(p, n)
  PROVE  Offline!TriedWords(p, n) = Offline!Words(p, n)
  <1>1. ASSUME NEW i \in 1..n PROVE Offline!TryReadU64(p + i - 1) = Offline!WordAt(p + i - 1)
    <2>1. PICK j \in 0..(n - 1) : j = i - 1 /\ p + j = p + i - 1
      OBVIOUS
    <2>2. Offline!Mapped(p + j)
      BY DEF Offline!MappedRange
    <2>3. QED
      BY <2>1, <2>2 DEF Offline!TryReadU64
  <1>2. QED
    BY <1>1 DEF Offline!TriedWords, Offline!Words

LEMMA ModuleWords ==
  ASSUME OffInput, NEW x \in Int, Offline!ModuleReadable(x)
  PROVE  Offline!WordAt(x + 1) \in Nat /\ Offline!WordAt(x + 2) \in Nat
  <1>1. Offline!ModuleSize \in Int /\ Offline!ModuleSize >= 11
    BY DEF Offline!ModuleSize
  <1>2. Offline!MappedRange(x, Offline!ModuleSize)
    BY DEF Offline!ModuleReadable
  <1>3. 1 \in 0..(Offline!ModuleSize - 1) /\ 2 \in 0..(Offline!ModuleSize - 1)
    BY <1>1
  <1>4. QED
    BY <1>1, <1>2, <1>3, RangeFacts

Capped(words) == IF Len(words) < MaxTable THEN words ELSE <<>>

LEMMA LenWords ==
  ASSUME NEW p, NEW n \in Nat PROVE Len(Offline!Words(p, n)) = n
  <1>1. PICK S : S = {Offline!WordAt(p + i - 1) : i \in 1..n}
    OBVIOUS
  <1>2. PICK w : w = Offline!Words(p, n)
    OBVIOUS
  <1>3. w \in [1..n -> S]
    BY <1>1, <1>2 DEF Offline!Words
  <1>4. w \in Seq(S)
    BY <1>3
  <1>5. DOMAIN w = 1..n /\ DOMAIN w = 1..Len(w) /\ Len(w) \in Nat
    BY <1>3, <1>4, SeqDomain
  <1>6. Len(w) = n
    BY <1>5
  <1>7. QED
    BY <1>2, <1>6

LEMMA SameMethods ==
  ASSUME OffInput, NEW a \in Int, Offline!CodeReadable(a), ~ Offline!CannotReadModules(Offline!CodeView(a)),
         NEW i \in Offline!NamedEntries(Offline!CodeView(a))
  PROVE  Offline!MethodsOf(Offline!ModuleAt(Offline!CodeView(a), i))
           = Capped(Offline!Words(Offline!WordAt(Offline!ModuleAt(Offline!CodeView(a), i) + 2),
                                  Offline!WordAt(Offline!ModuleAt(Offline!CodeView(a), i) + 1)))
  <1>1. PICK c : c = Offline!CodeView(a)
    OBVIOUS
  <1>2. c.modules \in Nat /\ c.modulesCount \in Nat
    BY <1>1, CodeViewFacts DEF CodeMembers
  <1>3. PICK x : x = Offline!WordAt(c.modules + i)
    OBVIOUS
  <1>4. i \in 0..(c.modulesCount - 1) /\ x # 0 /\ Offline!ModuleReadable(x) /\ Offline!NameOf(x) # 0
    BY <1>1, <1>3 DEF Offline!NamedEntries, Offline!ModuleAt
  <1>5. Offline!MappedRange(c.modules, c.modulesCount)
    BY <1>1 DEF Offline!CannotReadModules
  <1>6. x \in Nat
    BY <1>2, <1>3, <1>4, <1>5, RangeFacts
  <1>7. Offline!MappedRange(Offline!WordAt(x + 2), Offline!WordAt(x + 1))
    BY <1>1, <1>3, <1>4 DEF Offline!CannotReadModules
  <1>8. PICK p \in Nat, n \in Nat : p = Offline!WordAt(x + 2) /\ n = Offline!WordAt(x + 1)
    BY <1>4, <1>6, ModuleWords
  <1>9. Offline!MethodsOf(x) = Capped(Offline!Words(p, n))
    <2>5. Len(Offline!Words(p, n)) = n /\ MaxTable \in Nat
      BY LenWords, InputFacts
    <2>6. CASE n >= MaxTable
      <3>1. Offline!MethodsOf(x) = <<>>
        BY <1>8, <2>5, <2>6 DEF Offline!MethodsOf
      <3>2. QED
        BY <2>5, <2>6, <3>1 DEF Capped
    <2>7. n < MaxTable => Capped(Offline!Words(p, n)) = Offline!Words(p, n)
      BY <2>5 DEF Capped
    <2>1. CASE n > 0 /\ p # 0 /\ n < MaxTable
      <3>1. Offline!MethodsOf(x) = Offline!TriedWords(p, n)
        BY <1>8, <2>1, <2>5 DEF Offline!MethodsOf
      <3>2. QED
        BY <1>7, <1>8, <2>1, <2>7, <3>1, ReadTwice
    <2>2. CASE n > 0 /\ p = 0
      <3>1. 0 \in 0..(n - 1)
        BY <2>2
      <3>2. p + 0 > 20
        BY <1>7, <1>8, <3>1, RangeFacts
      <3>3. QED
        BY <2>2, <3>2
    <2>3. CASE n = 0
      <3>1. Offline!MethodsOf(x) = <<>>
        BY <1>8, <2>3 DEF Offline!MethodsOf
      <3>2. Offline!Words(p, n) = <<>>
        BY <2>3 DEF Offline!Words
      <3>3. QED
        BY <3>1, <3>2 DEF Capped
    <2>4. QED
      BY <1>8, <2>1, <2>2, <2>3, <2>5, <2>6
  <1>10. QED
    BY <1>1, <1>3, <1>8, <1>9 DEF Offline!ModuleAt

LEMMA SameByName ==
  ASSUME OffInput, NEW a \in Int, Offline!CodeReadable(a), ~ Offline!CannotReadModules(Offline!CodeView(a)),
         NEW accepted,
         accepted = Offline!ByName(Offline!CodeView(a),
                            [i \in Offline!NamedEntries(Offline!CodeView(a)) |->
                               Offline!Words(Offline!WordAt(Offline!ModuleAt(Offline!CodeView(a), i) + 2),
                                             Offline!WordAt(Offline!ModuleAt(Offline!CodeView(a), i) + 1))])
  PROVE  Offline!LoadMethodPointers(Offline!CodeView(a)) = [n \in DOMAIN accepted |-> Capped(accepted[n])]
  <1> DEFINE c == Offline!CodeView(a)
             here(i) == Offline!MethodsOf(Offline!ModuleAt(c, i))
             there(i) == Offline!Words(Offline!WordAt(Offline!ModuleAt(c, i) + 2),
                                       Offline!WordAt(Offline!ModuleAt(c, i) + 1))
             named == Offline!NamedEntries(c)
             names == {Offline!NameOf(Offline!ModuleAt(c, i)) : i \in named}
             of(n) == {i \in named : Offline!NameOf(Offline!ModuleAt(c, i)) = n}
             last(n) == Offline!Max(of(n))
  <1>1. \A i \in named : here(i) = Capped(there(i))
    BY SameMethods
  <1>2. /\ accepted = [n \in names |-> [i \in named |-> there(i)][last(n)]]
        /\ Offline!LoadMethodPointers(c) = [n \in names |-> [i \in named |-> here(i)][last(n)]]
    BY DEF Offline!LoadMethodPointers, Offline!ByName
  <1>3. \A n \in names : last(n) \in named
    <2>1. SUFFICES ASSUME NEW n \in names PROVE last(n) \in of(n)
      OBVIOUS
    <2>2. of(n) # {}
      OBVIOUS
    <2>3. c.modulesCount \in Nat
      BY CodeViewFacts DEF CodeMembers
    <2>4. PICK k \in Nat : k = c.modulesCount
      BY <2>3
    <2>5. named \in SUBSET (0..(k - 1))
      BY <2>4 DEF Offline!NamedEntries
    <2>6. of(n) \in SUBSET Int /\ (\A y \in of(n) : y <= k) /\ k \in Int
      <3>1. PICK S, N : S = of(n) /\ N = named /\ S \in SUBSET N
        OBVIOUS
      <3> HIDE DEF of, named, c
      <3>2. S \in SUBSET (0..(k - 1))
        BY <2>5, <3>1
      <3>3. S \in SUBSET Int /\ (\A y \in S : y <= k)
        BY <3>2
      <3>4. QED
        BY <3>1, <3>3
    <2> HIDE DEF of
    <2>7. QED
      BY <2>2, <2>6, MaxIsGreatest
  <1> HIDE DEF here, there, named, last, c
  <1>4. ASSUME NEW n \in names
        PROVE  /\ accepted[n] = there(last(n))
               /\ Offline!LoadMethodPointers(c)[n] = Capped(accepted[n])
    <2>1. accepted[n] = there(last(n)) /\ Offline!LoadMethodPointers(c)[n] = here(last(n))
      <3> HIDE DEF names
      <3>1. QED
        BY <1>2, <1>3
    <2>2. QED
      BY <1>1, <1>3, <2>1
  <1>5. DOMAIN accepted = names
    BY <1>2
  <1>6. Offline!LoadMethodPointers(c) = [n \in DOMAIN accepted |-> Capped(accepted[n])]
    <2>1. Offline!LoadMethodPointers(c) = [n \in names |-> Offline!LoadMethodPointers(c)[n]]
      <3> HIDE DEF names
      <3>1. QED
        BY <1>2
    <2> HIDE DEF names
    <2>2. QED
      BY <1>4, <1>5, <2>1
  <1>7. QED
    BY <1>6 DEF c

\* No error so far.
Silent == error = ""

LEMMA NoneByName ==
  ASSUME NEW c, Offline!NamedEntries(c) = {}, NEW methods
  PROVE  DOMAIN Offline!ByName(c, methods) = {}
  BY DEF Offline!ByName

LEMMA OfflineCardinality == \A S : Offline!Cardinality(S) = Cardinality(S)
  BY Zenon DEF Offline!Cardinality, Cardinality

\* Why the second reading refuses an accepted pair.
LEMMA RefusedFor ==
  ASSUME OffInput, NEW code \in Int, NEW meta \in Int, Offline!TryInit(code, meta) = "yes",
         result = Offline!ResultOf(code, meta),
         LET c == Offline!CodeView(code)
             m == Offline!MetaView(meta)
         IN  ~ (/\ m.types # 0 /\ m.typesCount > 0 /\ Offline!TypesLoad(m)
                /\ Offline!V >= 2420 =>
                     c.modules # 0 /\ c.modulesCount \in 1..MaxTable /\ Offline!NamedEntries(c) # {}
                /\ Offline!V < 2420 => c.methodPointers # 0 /\ c.methodPointersCount \in 1..MaxTable)
  PROVE  \/ result.types = <<>>
         \/ IF Offline!V >= 2420 THEN DOMAIN result.methods = {} \/ Offline!CodeView(code).modulesCount > MaxTable
            ELSE result.legacy = <<>> \/ Len(result.legacy) > MaxTable
  <1> DEFINE c == Offline!CodeView(code)
             m == Offline!MetaView(meta)
             there == [i \in Offline!NamedEntries(c) |->
                         Offline!Words(Offline!WordAt(Offline!ModuleAt(c, i) + 2),
                                       Offline!WordAt(Offline!ModuleAt(c, i) + 1))]
  <1>1. /\ result.types = IF m.types # 0 THEN Offline!Words(m.types, m.typesCount) ELSE <<>>
        /\ result.methods = IF Offline!V < 2420 THEN <<>> ELSE Offline!ByName(c, there)
        /\ result.legacy = IF Offline!V < 2420 /\ c.methodPointers # 0
                             THEN Offline!Words(c.methodPointers, c.methodPointersCount) ELSE <<>>
    BY DEF Offline!ResultOf
  <1>2. Offline!CodeReadable(code) /\ Offline!MetaReadable(meta) /\ Offline!V \in Nat /\ MaxTable \in Nat
    BY Accepted, InputFacts DEF Offline!V
  <1>3. /\ m.types \in Nat /\ m.typesCount \in Nat
        /\ c.methodPointers \in Nat /\ c.methodPointersCount \in Nat /\ c.modulesCount \in Nat
    BY <1>2, CodeViewFacts, MetaViewFacts DEF CodeMembers, MetaMembers
  <1>4. CASE m.types = 0 \/ m.typesCount = 0
    <2>1. \A p : Offline!Words(p, 0) = <<>>
      BY DEF Offline!Words
    <2> HIDE DEF m
    <2>2. QED
      BY <1>1, <1>4, <2>1
  <1>5. CASE m.types # 0 /\ m.typesCount > 0
    <2>1. Offline!TypesLoad(m)
      <3>1. ASSUME NEW i \in 0..(m.typesCount - 1)
            PROVE  Offline!TypeReadable(Offline!TryReadU64(m.types + i))
        BY <1>5, Accepted DEF Offline!TryReadU64
      <3> DEFINE unread == {i \in 0..(m.typesCount - 1) :
                              ~ Offline!TypeReadable(Offline!TryReadU64(m.types + i))}
      <3>2. unread = {}
        BY <3>1
      <3>3. Offline!Cardinality({}) = 0
        BY FS_EmptySet, OfflineCardinality
      <3>4. PICK n \in Nat : n = m.typesCount
        BY <1>3
      <3>5. Offline!Cardinality(unread) = 0
        <4> HIDE DEF unread
        <4>1. QED
          BY <3>2, <3>3
      <3>6. 2 * Offline!Cardinality(unread) <= m.typesCount
        BY <3>4, <3>5
      <3>7. Offline!TypesLoad(m) <=> 2 * Offline!Cardinality(unread) <= m.typesCount
        BY ONLY Zenon DEF Offline!TypesLoad
      <3>8. QED
        BY <3>6, <3>7
    <2>2. CASE Offline!V >= 2420
      <3>1. c.modules # 0 /\ c.modulesCount # 0
        BY <2>2, Accepted DEF Offline!ModulesCountFits
      <3>2. c.modulesCount > MaxTable \/ Offline!NamedEntries(c) = {}
        <4>1. ~ (c.modulesCount \in 1..MaxTable) \/ Offline!NamedEntries(c) = {}
          BY <1>2, <1>5, <2>1, <2>2, <3>1
        <4> HIDE DEF c
        <4>2. QED
          BY <1>2, <1>3, <3>1, <4>1
      <3>3. Offline!NamedEntries(c) = {} => DOMAIN result.methods = {}
        <4>1. result.methods = Offline!ByName(c, there)
          <5>1. ~ (Offline!V < 2420)
            BY <1>2, <2>2
          <5> HIDE DEF c, m, there
          <5>2. QED
            BY <1>1, <5>1
        <4>2. PICK accepted : accepted = result.methods
          OBVIOUS
        <4>3. accepted = Offline!ByName(c, there)
          <5> HIDE DEF c, there
          <5>1. QED
            BY <4>1, <4>2
        <4>4. Offline!NamedEntries(c) = {} => DOMAIN accepted = {}
          <5> HIDE DEF c, there
          <5>1. QED
            BY <4>3, NoneByName
        <4>5. QED
          BY <4>2, <4>4
      <3>4. QED
        BY <2>2, <3>2, <3>3
    <2>3. CASE Offline!V < 2420
      <3>1. ~ (c.methodPointers # 0 /\ c.methodPointersCount \in 1..MaxTable) /\ ~ (Offline!V >= 2420)
        BY <1>2, <1>5, <2>1, <2>3
      <3>2. \A p : Offline!Words(p, 0) = <<>>
        BY DEF Offline!Words
      <3>3. \A p : \A n \in Nat : Len(Offline!Words(p, n)) = n
        BY LenWords
      <3> HIDE DEF c, m
      <3>4. QED
        BY <1>1, <1>2, <1>3, <2>3, <3>1, <3>2, <3>3
    <2>4. QED
      BY <1>2, <2>2, <2>3
  <1>6. QED
    BY <1>3, <1>4, <1>5

\* What is loaded from an accepted pair is what was looked at.
LEMMA LoadedAgrees ==
  ASSUME OffInput, NEW code \in Int, NEW meta \in Int, Offline!TryInit(code, meta) = "yes",
         result = Offline!ResultOf(code, meta), Silent, Offline!RuntimeInit
  PROVE  Offline!ErrorUnlessLoaded' /\ Offline!TablesAgree' /\ Offline!RefusalHasReason'
  <1> DEFINE c == Offline!CodeView(code)
             m == Offline!MetaView(meta)
             loads == /\ m.types # 0 /\ m.typesCount > 0 /\ Offline!TypesLoad(m)
                      /\ Offline!V >= 2420 =>
                           c.modules # 0 /\ c.modulesCount \in 1..MaxTable /\ Offline!NamedEntries(c) # {}
                      /\ Offline!V < 2420 => c.methodPointers # 0 /\ c.methodPointersCount \in 1..MaxTable
             there == [i \in Offline!NamedEntries(c) |->
                         Offline!Words(Offline!WordAt(Offline!ModuleAt(c, i) + 2),
                                       Offline!WordAt(Offline!ModuleAt(c, i) + 1))]
  <1>1. result.code = code /\ result.meta = meta
    BY DEF Offline!ResultOf
  <1>2. /\ result.offsets = IF m.offsets # 0 /\ Offline!V > 2100
                              THEN Offline!Words(m.offsets, m.offsetsCount) ELSE <<>>
        /\ result.types = IF m.types # 0 THEN Offline!Words(m.types, m.typesCount) ELSE <<>>
        /\ result.methods = IF Offline!V < 2420 THEN <<>> ELSE Offline!ByName(c, there)
        /\ result.legacy = IF Offline!V < 2420 /\ c.methodPointers # 0
                             THEN Offline!Words(c.methodPointers, c.methodPointersCount) ELSE <<>>
    BY DEF Offline!ResultOf
  <1>3. pc' = "returned" /\ result' = result
    BY DEF Offline!RuntimeInit
  <1>4. CASE ~ loads
    <2>1. error' = "runtime" /\ runtime' = Offline!None
      <3>1. /\ IF loads THEN error' = error ELSE error' = "runtime"
            /\ ~ loads => runtime' = Offline!None
        BY <1>1 DEF Offline!RuntimeInit
      <3> HIDE DEF loads
      <3>2. QED
        BY <1>4, <3>1
    <2>2. ~ Silent'
      BY <2>1, Zenon DEF Silent
    <2>3. Offline!ErrorUnlessLoaded' /\ Offline!TablesAgree'
      BY <2>1, <2>2 DEF Offline!ErrorUnlessLoaded, Offline!TablesAgree, Silent
    <2>4. Offline!RefusalHasReason'
      <3>1. image' = image /\ result' = result
        BY <1>3 DEF Offline!RuntimeInit
      <3>2. Offline!V' = Offline!V /\ Offline!CodeView(code)' = c
        BY <3>1, KeptViews DEF Kept, Offline!V
      <3>3. \/ result.types = <<>>
            \/ IF Offline!V >= 2420 THEN DOMAIN result.methods = {} \/ c.modulesCount > MaxTable
               ELSE result.legacy = <<>> \/ Len(result.legacy) > MaxTable
        BY <1>4, RefusedFor DEF c, m
      <3>4. result.code = code
        BY <1>1
      <3> HIDE DEF c, m
      <3>5. QED
        BY <3>1, <3>2, <3>3, <3>4 DEF Offline!RefusalHasReason
    <2>5. QED
      BY <2>3, <2>4
  <1>5. CASE loads
    <2>1. Silent'
      <3>1. IF loads THEN error' = error ELSE error' = "runtime"
        BY <1>1 DEF Offline!RuntimeInit
      <3> HIDE DEF loads
      <3>2. error' = error
        BY <1>5, <3>1
      <3>3. QED
        BY <3>2 DEF Silent
    <2>2. runtime' =
            [code |-> code,
             types |-> Offline!TriedWords(m.types, m.typesCount),
             offsets |-> IF m.offsets # 0 /\ Offline!V > 2100 THEN Offline!TriedWords(m.offsets, m.offsetsCount)
                                                              ELSE <<>>,
             methods |-> IF Offline!V >= 2420 THEN Offline!LoadMethodPointers(c) ELSE <<>>,
             legacy |-> IF Offline!V < 2420 THEN Offline!TriedWords(c.methodPointers, c.methodPointersCount)
                                            ELSE <<>>]
      <3> DEFINE loaded ==
            [code |-> code,
             types |-> Offline!TriedWords(m.types, m.typesCount),
             offsets |-> IF m.offsets # 0 /\ Offline!V > 2100 THEN Offline!TriedWords(m.offsets, m.offsetsCount)
                                                              ELSE <<>>,
             methods |-> IF Offline!V >= 2420 THEN Offline!LoadMethodPointers(c) ELSE <<>>,
             legacy |-> IF Offline!V < 2420 THEN Offline!TriedWords(c.methodPointers, c.methodPointersCount)
                                            ELSE <<>>]
      <3>1. runtime' = IF ~ loads THEN Offline!None ELSE loaded
        BY <1>1 DEF Offline!RuntimeInit
      <3> HIDE DEF loads, loaded
      <3>2. runtime' = loaded
        BY <1>5, <3>1
      <3>3. QED
        BY <3>2 DEF loaded
    <2>10. Offline!RefusalHasReason'
      <3>1. error' # "runtime"
        BY <2>1, Zenon DEF Silent
      <3>2. QED
        BY <3>1 DEF Offline!RefusalHasReason
    <2>3. Offline!CodeReadable(code) /\ Offline!MetaReadable(meta) /\ Offline!V \in Nat
      BY Accepted, InputFacts DEF Offline!V
    <2>4. /\ m.types \in Nat /\ m.typesCount \in Nat /\ m.offsets \in Nat /\ m.offsetsCount \in Nat
          /\ c.methodPointers \in Nat /\ c.methodPointersCount \in Nat
      BY <2>3, CodeViewFacts, MetaViewFacts DEF CodeMembers, MetaMembers
    <2>5. runtime'.types = result.types
      <3>1. Offline!MappedRange(m.types, m.typesCount)
        BY <1>5, Accepted DEF Offline!MappedRange
      <3>2. Offline!TriedWords(m.types, m.typesCount) = Offline!Words(m.types, m.typesCount)
        BY <2>4, <3>1, ReadTwice
      <3>3. m.types # 0
        BY <1>5
      <3> HIDE DEF m
      <3>4. QED
        BY <1>2, <2>2, <3>2, <3>3
    <2>6. runtime'.offsets = result.offsets
      <3>1. CASE m.offsets # 0 /\ Offline!V > 2100
        <4>1. Offline!MappedRange(m.offsets, m.offsetsCount)
          BY <3>1, Accepted
        <4>2. Offline!TriedWords(m.offsets, m.offsetsCount) = Offline!Words(m.offsets, m.offsetsCount)
          BY <2>4, <4>1, ReadTwice
        <4> HIDE DEF m
        <4>3. QED
          BY <1>2, <2>2, <3>1, <4>2
      <3>2. CASE ~ (m.offsets # 0 /\ Offline!V > 2100)
        <4> HIDE DEF m
        <4>1. QED
          BY <1>2, <2>2, <3>2
      <3>3. QED
        BY <3>1, <3>2
    <2>7. CASE Offline!V >= 2420
      <3>7. PICK accepted : accepted = Offline!ByName(c, there)
        OBVIOUS
      <3>1. Offline!LoadMethodPointers(c) = [n \in DOMAIN accepted |-> Capped(accepted[n])]
        BY <2>3, <2>7, <3>7, Accepted, SameByName
      <3>2. ~ (Offline!V < 2420)
        BY <2>3, <2>7
      <3>3. runtime'.methods = [n \in DOMAIN result.methods |-> Capped(result.methods[n])]
        <4>1. result.methods = accepted
          <5> HIDE DEF c, m, there
          <5>1. QED
            BY <1>2, <3>2, <3>7
        <4> HIDE DEF c, m, there
        <4>2. runtime'.methods = Offline!LoadMethodPointers(c)
          BY <2>2, <2>7
        <4>3. QED
          BY <3>1, <4>1, <4>2
      <3>4. runtime'.legacy = result.legacy
        <4> HIDE DEF c, m, there
        <4>1. QED
          BY <1>2, <2>2, <3>2
      <3>5. runtime' # Offline!None
        <4> HIDE DEF c, m, there
        <4>1. "types" \in DOMAIN runtime' /\ ~ ("types" \in DOMAIN Offline!None)
          BY <2>2 DEF Offline!None
        <4>2. QED
          BY <4>1
      <3>6. QED
        BY <1>3, <2>1, <2>5, <2>6, <2>10, <3>3, <3>4, <3>5
           DEF Offline!ErrorUnlessLoaded, Offline!TablesAgree, Silent, Capped
    <2>8. CASE Offline!V < 2420
      <3>1. c.methodPointers # 0
        BY <1>5, <2>8
      <3>2. Offline!MappedRange(c.methodPointers, c.methodPointersCount)
        BY <2>8, <3>1, Accepted
      <3>3. Offline!TriedWords(c.methodPointers, c.methodPointersCount)
              = Offline!Words(c.methodPointers, c.methodPointersCount)
        BY <2>4, <3>2, ReadTwice
      <3>4. ~ (Offline!V >= 2420)
        BY <2>3, <2>8
      <3>5. runtime'.methods = [n \in DOMAIN result.methods |-> Capped(result.methods[n])]
        <4> HIDE DEF c, m, there
        <4>1. runtime'.methods = <<>> /\ result.methods = <<>>
          BY <1>2, <2>2, <2>8, <3>4
        <4>2. DOMAIN <<>> = {}
          OBVIOUS
        <4>3. <<>> = [n \in {} |-> Capped(<<>>[n])]
          OBVIOUS
        <4>4. QED
          BY <4>1, <4>2, <4>3
      <3>6. runtime'.legacy = result.legacy
        <4> HIDE DEF c, m, there
        <4>1. QED
          BY <1>2, <2>2, <2>8, <3>1, <3>3
      <3>7. runtime' # Offline!None
        <4> HIDE DEF c, m, there
        <4>1. "types" \in DOMAIN runtime' /\ ~ ("types" \in DOMAIN Offline!None)
          BY <2>2 DEF Offline!None
        <4>2. QED
          BY <4>1
      <3>8. QED
        BY <1>3, <2>1, <2>5, <2>6, <2>10, <3>5, <3>6, <3>7
           DEF Offline!ErrorUnlessLoaded, Offline!TablesAgree, Silent, Capped
    <2>9. QED
      BY <2>3, <2>7, <2>8
  <1>6. QED
    BY <1>4, <1>5

(***************************************************************************)
(* The types a search for MetadataRegistration has looked at.              *)
(***************************************************************************)
LEMMA AnswerIsOf ==
  ASSUME NEW answer, DOMAIN answer \in SUBSET Nat, Offline!FirstAnswer(answer) # 0
  PROVE  \E a \in DOMAIN answer : Offline!FirstAnswer(answer) = answer[a]
  <1> DEFINE telling == {a \in DOMAIN answer : answer[a] # 0}
  <1>1. Offline!FirstAnswer(answer) = IF telling = {} THEN 0 ELSE answer[Offline!Min(telling)]
    BY DEF Offline!FirstAnswer
  <1>2. telling # {}
    BY <1>1
  <1>3. telling \in SUBSET Int /\ \A y \in telling : 0 <= y
    OBVIOUS
  <1>4. Offline!Min(telling) \in telling
    BY <1>2, <1>3, MinIsLeast
  <1>5. QED
    BY <1>1, <1>2, <1>4

LEMMA SampledLieThere ==
  ASSUME OffInput, pointerInExec, Offline!FindMetadataRegistrationV21 > 0,
         NEW types, types = Offline!MetaView(Offline!FindMetadataRegistrationV21).types,
         NEW n, n = Offline!MetaView(Offline!FindMetadataRegistrationV21).typesCount,
         NEW i \in 0..(Offline!Min({Offline!Sample, n}) - 1)
  PROVE  Offline!In("exec", Offline!WordAt(types + i))
  <1> DEFINE fits(a) == /\ Offline!MetaReadable(a - 10)
                        /\ LET m == Offline!MetaView(a - 10)
                           IN  /\ m.offsetsCount = image.typeDefs /\ m.sizesCount = image.typeDefs
                               /\ m.typesCount > 0
                               /\ \A p \in {m.types, m.offsets, m.sizes} : Offline!Mapped(p)
             sampled(a) == Offline!SampledTypes(Offline!MetaView(a - 10).types, Offline!MetaView(a - 10).typesCount)
             answer(a) ==
               IF Offline!WordAt(a) # image.typeDefs THEN 0
               ELSE IF ~ Offline!Mapped(a + 2) THEN Offline!Thrown
               ELSE IF Offline!WordAt(a + 2) # image.typeDefs \/ ~ fits(a) THEN 0
               ELSE [ok |-> a - 10, thrown |-> Offline!Thrown, bad |-> 0][sampled(a)]
             f == [a \in Offline!Scanned("data") |-> answer(a)]
  <1>1. PICK x \in Int : x = Offline!FindMetadataRegistrationV21 /\ x > 0
    BY V21MetaInt
  <1>2. Offline!FindMetadataRegistrationV21 = Offline!FirstAnswer(f)
    BY DEF Offline!FindMetadataRegistrationV21
  <1>3. DOMAIN f \in SUBSET Nat
    BY SectionWords
  <1>4. PICK a \in Offline!Scanned("data") : x = answer(a)
    <2> HIDE DEF answer
    <2>1. Offline!FirstAnswer(f) # 0
      BY <1>1, <1>2
    <2>2. PICK a \in DOMAIN f : Offline!FirstAnswer(f) = f[a]
      BY <1>3, <2>1, AnswerIsOf
    <2>3. QED
      BY <1>1, <1>2, <2>2
  <1>5. x = [ok |-> a - 10, thrown |-> Offline!Thrown, bad |-> 0][sampled(a)]
    <2> HIDE DEF fits, sampled
    <2>1. QED
      BY <1>1, <1>4 DEF Offline!Thrown
  <1>6. sampled(a) \in {"ok", "thrown", "bad"}
    <2>1. \A t, k : Offline!SampledTypes(t, k) \in {"ok", "thrown", "bad"}
      BY DEF Offline!SampledTypes
    <2>2. QED
      BY <2>1
  <1>7. sampled(a) = "ok" /\ x = a - 10
    <2> HIDE DEF sampled
    <2>1. QED
      BY <1>1, <1>5, <1>6 DEF Offline!Thrown
  <1>8. Offline!SampledTypes(types, n) = "ok"
    BY <1>1, <1>7
  <1> DEFINE bad == {j \in 0..(Offline!Min({Offline!Sample, n}) - 1) :
                       ~ Offline!Mapped(types + j)
                       \/ ~ Offline!In(IF pointerInExec THEN "exec" ELSE "data", Offline!WordAt(types + j))}
  <1>9. bad = {}
    <2>1. Offline!SampledTypes(types, n) =
            CASE bad = {} -> "ok"
              [] bad # {} /\ ~ Offline!Mapped(types + Offline!Min(bad)) -> "thrown"
              [] OTHER -> "bad"
      BY DEF Offline!SampledTypes
    <2> HIDE DEF bad
    <2>2. QED
      BY <1>8, <2>1
  <1>10. Offline!In(IF pointerInExec THEN "exec" ELSE "data", Offline!WordAt(types + i))
    BY <1>9
  <1>11. QED
    BY <1>10

(***************************************************************************)
(* The candidates, attempts and searches of an image stay, too.            *)
(***************************************************************************)
LEMMA KeptCandidates ==
  ASSUME Kept
  PROVE  /\ \A a : Offline!MetaCandidates(a)' = Offline!MetaCandidates(a)
         /\ \A a : Offline!CodeCandidates(a)' = Offline!CodeCandidates(a)
  <1>1. \A a : Offline!WithTarget(a)' = Offline!WithTarget(a)
    BY KeptWords DEF Offline!WithTarget
  <1>2. \A a : Offline!MetaCandidates(a)' = Offline!MetaCandidates(a)
    BY <1>1 DEF Offline!MetaCandidates
  <1>3. \A a : Offline!CodeCandidates(a)' = Offline!CodeCandidates(a)
    BY <1>1 DEF Offline!CodeCandidates
  <1>4. QED
    BY <1>2, <1>3

LEMMA KeptFits ==
  ASSUME Kept
  PROVE  \A c : Offline!ModulesCountFits(c)' <=> Offline!ModulesCountFits(c)
  BY KeptWords DEF Kept, Offline!ModulesCountFits

LEMMA KeptScores ==
  ASSUME Kept
  PROVE  /\ \A a : Offline!CodeScore(a)' = Offline!CodeScore(a)
         /\ \A a : Offline!MetaScore(a)' = Offline!MetaScore(a)
  <1>1. \A a : Offline!CodeScore(a)' = Offline!CodeScore(a)
    BY KeptWords, KeptViews, KeptFits DEF Kept, Offline!CodeScore, Offline!Points
  <1>2. \A a : Offline!MetaScore(a)' = Offline!MetaScore(a)
    BY KeptWords, KeptViews DEF Kept, Offline!MetaScore, Offline!Points
  <1>3. QED
    BY <1>1, <1>2

LEMMA KeptModules ==
  ASSUME Kept
  PROVE  /\ \A m : Offline!ModuleReadable(m)' <=> Offline!ModuleReadable(m)
         /\ \A m : Offline!NameOf(m)' = Offline!NameOf(m)
         /\ \A c, i : Offline!ModuleAt(c, i)' = Offline!ModuleAt(c, i)
         /\ \A c : Offline!NamedEntries(c)' = Offline!NamedEntries(c)
         /\ \A c : Offline!CannotReadModules(c)' <=> Offline!CannotReadModules(c)
         /\ \A t : Offline!TypeReadable(t)' <=> Offline!TypeReadable(t)
  <1>1. \A m : Offline!ModuleReadable(m)' <=> Offline!ModuleReadable(m)
    BY KeptWords DEF Offline!ModuleReadable, Offline!ModuleSize
  <1>2. \A m : Offline!NameOf(m)' = Offline!NameOf(m)
    BY KeptWords DEF Offline!NameOf
  <1>3. \A c, i : Offline!ModuleAt(c, i)' = Offline!ModuleAt(c, i)
    BY KeptWords DEF Offline!ModuleAt
  <1>4. \A c : Offline!NamedEntries(c)' = Offline!NamedEntries(c)
    BY <1>1, <1>2, <1>3 DEF Offline!NamedEntries
  <1>5. \A c : Offline!CannotReadModules(c)' <=> Offline!CannotReadModules(c)
    BY <1>1, <1>2, KeptWords DEF Offline!CannotReadModules
  <1>6. \A t : Offline!TypeReadable(t)' <=> Offline!TypeReadable(t)
    BY KeptWords DEF Offline!TypeReadable
  <1>7. QED
    BY <1>1, <1>2, <1>3, <1>4, <1>5, <1>6

LEMMA KeptTry ==
  ASSUME Kept
  PROVE  \A code, meta : Offline!TryInit(code, meta)' = Offline!TryInit(code, meta)
  BY KeptWords, KeptViews, KeptModules, KeptFits DEF Offline!TryInit

LEMMA KeptResult ==
  ASSUME Kept, pointerInExec' = pointerInExec
  PROVE  \A code, meta : Offline!ResultOf(code, meta)' = Offline!ResultOf(code, meta)
  <1>1. \A p, n : Offline!Words(p, n)' = Offline!Words(p, n)
    BY KeptWords DEF Offline!Words
  <1>2. \A c, f : Offline!ByName(c, f)' = Offline!ByName(c, f)
    BY KeptModules DEF Offline!ByName
  <1>3. QED
    BY <1>1, <1>2, KeptWords, KeptViews, KeptModules DEF Offline!ResultOf

LEMMA KeptPaths ==
  ASSUME Kept
  PROVE  /\ \A k : Offline!Paths(k)' = Offline!Paths(k)
         /\ \A p : Offline!FromPath(p)' = Offline!FromPath(p)
  <1>1. \A k : Offline!Scanned(k)' = Offline!Scanned(k) /\ Offline!AllWords(k)' = Offline!AllWords(k)
    BY KeptWords DEF Offline!Scanned, Offline!AllWords
  <1>2. \A a : Offline!FindReference(a)' = Offline!FindReference(a)
    BY <1>1, KeptWords DEF Offline!FindReference
  <1>3. \A k : Offline!Paths(k)' = Offline!Paths(k)
    BY <1>1, <1>2, KeptWords DEF Kept, Offline!Paths
  <1>4. \A p : Offline!FromPath(p)' = Offline!FromPath(p)
    BY KeptWords DEF Kept, Offline!FromPath, Offline!PointerCount
  <1>5. QED
    BY <1>3, <1>4

(***************************************************************************)
(* The invariant of a call of the offline dump: what it has found are      *)
(* addresses, it has no error before it returns, the pair it goes on with  *)
(* is an accepted one with none better, and a search it has left behind    *)
(* followed all there was to follow.                                       *)
(***************************************************************************)
NothingTold(kind) == \A p \in Offline!Paths(kind) : Offline!FromPath(p) = 0

OfflineType ==
  /\ OffInput
  /\ found \in [code : Int, meta : Int]
  /\ pointerInExec \in BOOLEAN

SilentUntilReturned == pc \notin {"returned", "thrown"} => Silent /\ runtime = Offline!None

AcceptedAtRuntime ==
  pc = "runtime" =>
    /\ Silent
    /\ \E code \in Int, meta \in Int : Offline!TryInit(code, meta) = "yes" /\ result = Offline!ResultOf(code, meta)

SearchedBefore ==
  /\ pc \in {"exec", "pattern"} \/ pointerInExec => NothingTold("data")
  /\ pc = "pattern" => NothingTold("exec")

OfflineInv ==
  /\ OfflineType
  /\ SilentUntilReturned
  /\ AcceptedAtRuntime
  /\ Offline!NoBetterOneLeft
  /\ Offline!ErrorUnlessLoaded /\ Offline!TablesAgree /\ Offline!RefusalHasReason
  /\ SearchedBefore

LEMMA OfflineStarts ==
  ASSUME Offline!Init PROVE OfflineInv
  <1>1. /\ image \in OfflineInputs /\ pc = "er2" /\ pointerInExec = FALSE
        /\ found = [code |-> 0, meta |-> 0] /\ runtime = Offline!None
    BY DEF Offline!Init
  <1>2. Silent
    BY DEF Offline!Init, Silent
  <1>3. OfflineType
    <2>1. OffInput
      BY <1>1 DEF OffInput
    <2>2. [code |-> 0, meta |-> 0] \in [code : Int, meta : Int]
      OBVIOUS
    <2>3. found \in [code : Int, meta : Int]
      BY <1>1, <2>2, Zenon
    <2>4. pointerInExec \in BOOLEAN
      BY <1>1, Zenon
    <2>5. QED
      BY <2>1, <2>3, <2>4 DEF OfflineType
  <1>4. SilentUntilReturned /\ AcceptedAtRuntime /\ SearchedBefore
    BY <1>1, <1>2 DEF SilentUntilReturned, AcceptedAtRuntime, SearchedBefore
  <1>5. /\ Offline!NoBetterOneLeft /\ Offline!ErrorUnlessLoaded /\ Offline!TablesAgree
        /\ Offline!RefusalHasReason
    BY <1>1 DEF Offline!NoBetterOneLeft, Offline!ErrorUnlessLoaded, Offline!TablesAgree, Offline!RefusalHasReason
  <1>6. QED
    BY <1>3, <1>4, <1>5 DEF OfflineInv

LEMMA KeptInput ==
  ASSUME OfflineType, Kept, found' \in [code : Int, meta : Int], pointerInExec' \in BOOLEAN
  PROVE  OfflineType'
  BY DEF OfflineType, OffInput, Kept

LEMMA KeptTold ==
  ASSUME Kept, NEW kind, NothingTold(kind)
  PROVE  NothingTold(kind)'
  BY KeptPaths DEF NothingTold

\* An attempt at initialising keeps the invariant when it fails as well as
\* when it succeeds.
LEMMA AttemptKeeps ==
  ASSUME OfflineInv, Silent, runtime = Offline!None,
         NEW codes, codes = Codes(found.code), NEW metas, metas = Metas(found.meta),
         NEW p \in Offline!FirstAccepted(codes, metas),
         image' = image, pointerInExec' = pointerInExec, found' = found, runtime' = runtime,
         error' = error, pc \notin {"exec", "pattern", "runtime"},
         \/ Offline!TryInit(p[1], p[2]) = "thrown" /\ pc' = "thrown" /\ result' = result
         \/ /\ Offline!TryInit(p[1], p[2]) # "thrown"
            /\ pc' = "runtime" /\ result' = Offline!ResultOf(p[1], p[2])
  PROVE  OfflineInv'
  <1>1. Kept
    BY DEF Kept
  <1>2. OfflineType /\ found.code \in Int /\ found.meta \in Int /\ OffInput
    BY DEF OfflineInv, OfflineType
  <1>3. OfflineType'
    BY <1>1, <1>2, KeptInput DEF OfflineType
  <1>4. Silent'
    BY DEF Silent
  <1>5. SilentUntilReturned'
    BY <1>4 DEF SilentUntilReturned
  <1>6. SearchedBefore'
    BY <1>1, KeptTold DEF OfflineInv, SearchedBefore
  <1>7. Offline!ErrorUnlessLoaded' /\ Offline!TablesAgree' /\ Offline!RefusalHasReason'
    BY DEF Offline!ErrorUnlessLoaded, Offline!TablesAgree, Offline!RefusalHasReason
  <1>8. CASE pc' = "thrown"
    <2>1. AcceptedAtRuntime' /\ Offline!NoBetterOneLeft'
      BY <1>8 DEF AcceptedAtRuntime, Offline!NoBetterOneLeft
    <2>2. QED
      BY <1>3, <1>5, <1>6, <1>7, <2>1 DEF OfflineInv
  <1>9. CASE pc' = "runtime"
    <2>1. Offline!TryInit(p[1], p[2]) # "thrown" /\ result' = Offline!ResultOf(p[1], p[2])
      BY <1>9
    <2>2. Offline!TryInit(p[1], p[2]) # "no"
      BY AcceptedNotRefused
    <2>3. Offline!TryInit(p[1], p[2]) = "yes"
      BY <2>1, <2>2, TryOutcomes
    <2>4. /\ \A m \in Offline!MetaCandidates(found.meta), c \in Offline!CodeCandidates(found.code) :
                Offline!MetaScore(m) > Offline!MetaScore(p[2]) /\ Offline!CodeScore(c) >= 0 =>
                  Offline!TryInit(c, m) = "no"
          /\ \A c \in Offline!CodeCandidates(found.code) :
                Offline!CodeScore(c) > Offline!CodeScore(p[1]) => Offline!TryInit(c, p[2]) = "no"
          /\ p[1] \in Int /\ p[2] \in Int
      BY <1>2, <2>3, NoneBetter
    <2>5. AcceptedAtRuntime'
      <3>1. Offline!TryInit(p[1], p[2])' = "yes" /\ result' = Offline!ResultOf(p[1], p[2])'
        BY <1>1, <2>1, <2>3, KeptTry, KeptResult
      <3>2. QED
        BY <1>4, <2>4, <3>1 DEF AcceptedAtRuntime
    <2>6. result'.code = p[1] /\ result'.meta = p[2]
      BY <2>1 DEF Offline!ResultOf
    <2>7. Offline!NoBetterOneLeft'
      BY <1>1, <2>4, <2>6, KeptCandidates, KeptScores, KeptTry DEF Offline!NoBetterOneLeft
    <2>8. QED
      BY <1>3, <1>5, <1>6, <1>7, <2>5, <2>7 DEF OfflineInv
  <1>10. QED
    BY <1>8, <1>9

LEMMA CodeAnswerInt ==
  ASSUME OffInput, pc \in {"data", "exec", "pattern", "old"}
  PROVE  /\ Offline!CodeAnswer \in Int
         /\ pc \in {"data", "exec"} => Offline!CodeAnswer = Offline!FindCodeRegistration2019(pc)
  BY SearchAnswers, ModulesCodeInt, OldCodeInt DEF Offline!CodeAnswer

LEMMA MetaAnswerInt ==
  ASSUME OffInput, pc \in {"v21", "oldMeta", "usages"}
  PROVE  Offline!MetaAnswer \in Int
  BY V21MetaInt, OldMetaInt, UsagesMetaInt DEF Offline!MetaAnswer

\* A step that neither returns nor comes to "runtime".
LEMMA SearchKeeps ==
  ASSUME OfflineInv, Silent, runtime = Offline!None,
         image' = image, result' = result, error' = error, runtime' = runtime,
         found' \in [code : Int, meta : Int], pointerInExec' \in BOOLEAN,
         pc' \notin {"runtime", "returned"}, SearchedBefore'
  PROVE  OfflineInv'
  <1>1. OfflineType'
    BY KeptInput DEF OfflineInv, Kept
  <1>2. SilentUntilReturned'
    BY DEF SilentUntilReturned, Silent
  <1>3. /\ AcceptedAtRuntime' /\ Offline!NoBetterOneLeft' /\ Offline!ErrorUnlessLoaded' /\ Offline!TablesAgree'
        /\ Offline!RefusalHasReason'
    BY DEF AcceptedAtRuntime, Offline!NoBetterOneLeft, Offline!ErrorUnlessLoaded, Offline!TablesAgree,
           Offline!RefusalHasReason
  <1>4. QED
    BY <1>1, <1>2, <1>3 DEF OfflineInv

LEMMA Er2Keeps ==
  ASSUME OfflineInv, Offline!TryFindRegistrationsWithEr2
  PROVE  OfflineInv'
  <1>1. /\ pc = "er2" /\ image' = image /\ pointerInExec' = pointerInExec /\ result' = result
        /\ error' = error /\ runtime' = runtime
    BY DEF Offline!TryFindRegistrationsWithEr2
  <1>2. Silent /\ runtime = Offline!None
    BY <1>1 DEF OfflineInv, SilentUntilReturned
  <1>3. OfflineType /\ pointerInExec \in BOOLEAN /\ found \in [code : Int, meta : Int]
    BY DEF OfflineInv, OfflineType
  <1>4. pc' \in {"primary", "data", "old"}
    BY DEF Offline!TryFindRegistrationsWithEr2, Offline!FirstSearch
  <1>5. found' \in [code : Int, meta : Int]
    <2>1. CASE \E p \in image.primaries : found' = [code |-> p[1], meta |-> p[2]]
      <3>1. PICK p \in Nat \X Nat : found' = [code |-> p[1], meta |-> p[2]]
        BY <1>3, <2>1, InputFacts DEF OfflineType
      <3>2. QED
        BY <3>1
    <2>2. CASE found' = found
      BY <1>3, <2>2
    <2>3. QED
      BY <2>1, <2>2 DEF Offline!TryFindRegistrationsWithEr2
  <1>6. SearchedBefore'
    BY <1>1, <1>4, KeptTold DEF OfflineInv, SearchedBefore, Kept
  <1>7. QED
    BY <1>1, <1>2, <1>3, <1>4, <1>5, <1>6, SearchKeeps

LEMMA CodeKeeps ==
  ASSUME OfflineInv, Offline!FindCodeRegistration
  PROVE  OfflineInv'
  <1>1. /\ pc \in {"data", "exec", "pattern", "old"} /\ image' = image /\ result' = result
        /\ error' = error /\ runtime' = runtime
    BY DEF Offline!FindCodeRegistration
  <1>2. Silent /\ runtime = Offline!None
    BY <1>1 DEF OfflineInv, SilentUntilReturned
  <1>3. OffInput /\ pointerInExec \in BOOLEAN
    BY DEF OfflineInv, OfflineType
  <1>4. PICK a \in Int : a = Offline!CodeAnswer
    BY <1>1, <1>3, CodeAnswerInt
  <1>5. /\ pc' = CASE a = Offline!Thrown -> "thrown"
                   [] a = 0 /\ pc = "data" -> "exec"
                   [] a = 0 /\ pc = "exec" -> "pattern"
                   [] OTHER -> Offline!FirstMetaSearch
        /\ found' = [code |-> a, meta |-> 0]
    BY <1>4 DEF Offline!FindCodeRegistration
  <1>6. found' \in [code : Int, meta : Int]
    BY <1>5
  <1>7. pointerInExec' = (pointerInExec \/ (pc = "exec" /\ a > 0))
    BY <1>4 DEF Offline!FindCodeRegistration
  <1>8. pointerInExec' \in BOOLEAN
    <2>1. \A P, Q : (P \/ Q) \in BOOLEAN
      OBVIOUS
    <2>2. QED
      BY <1>7, <2>1, Zenon
  <1>9. Offline!FirstMetaSearch \in {"both", "v21", "oldMeta"}
    BY DEF Offline!FirstMetaSearch
  <1>10. pc' \in {"thrown", "exec", "pattern", "both", "v21", "oldMeta"}
    BY <1>5, <1>9
  <1>11. (pc' = "exec" => a = 0 /\ pc = "data") /\ (pc' = "pattern" => a = 0 /\ pc = "exec")
    <2>1. Offline!Thrown # 0
      BY DEF Offline!Thrown
    <2>2. QED
      BY <1>5, <1>9, <2>1
  <1>12. pointerInExec' => pointerInExec \/ pc = "exec"
    BY <1>7, Zenon
  <1>13. a = 0 /\ pc \in {"data", "exec"} => NothingTold(pc)
    BY <1>3, <1>4, <1>1, CodeAnswerInt, SearchAnswers DEF NothingTold
  <1>14. SearchedBefore'
    <2>1. pc' \in {"exec", "pattern"} \/ pointerInExec' => NothingTold("data")
      BY <1>11, <1>12, <1>13 DEF OfflineInv, SearchedBefore
    <2>2. pc' = "pattern" => NothingTold("exec")
      BY <1>11, <1>13
    <2>3. (NothingTold("data") => NothingTold("data")') /\ (NothingTold("exec") => NothingTold("exec")')
      BY <1>1, KeptTold DEF Kept
    <2>4. QED
      BY <2>1, <2>2, <2>3, Zenon DEF SearchedBefore
  <1>15. QED
    BY <1>1, <1>2, <1>6, <1>8, <1>10, <1>14, SearchKeeps

LEMMA MetaKeeps ==
  ASSUME OfflineInv, Offline!FindMetadataRegistration
  PROVE  OfflineInv'
  <1>1. /\ pc \in {"v21", "oldMeta", "usages"} /\ image' = image /\ pointerInExec' = pointerInExec
        /\ result' = result /\ error' = error /\ runtime' = runtime
    BY DEF Offline!FindMetadataRegistration
  <1>2. Silent /\ runtime = Offline!None
    BY <1>1 DEF OfflineInv, SilentUntilReturned
  <1>3. OffInput /\ pointerInExec \in BOOLEAN /\ found \in [code : Int, meta : Int]
    BY DEF OfflineInv, OfflineType
  <1>4. PICK a \in Int : a = Offline!MetaAnswer
    BY <1>1, <1>3, MetaAnswerInt
  <1>5. found' = [found EXCEPT !.meta = a] /\ pc' \in {"thrown", "usages", "both"}
    BY <1>4 DEF Offline!FindMetadataRegistration
  <1>6. found' \in [code : Int, meta : Int]
    BY <1>3, <1>5
  <1>7. SearchedBefore'
    BY <1>1, <1>5, KeptTold DEF OfflineInv, SearchedBefore, Kept
  <1>8. QED
    BY <1>1, <1>2, <1>3, <1>5, <1>6, <1>7, SearchKeeps

LEMMA PrimaryKeeps ==
  ASSUME OfflineInv, Offline!InitFromAddresses
  PROVE  OfflineInv'
  <1> DEFINE first == Offline!FirstAccepted(Codes(found.code), Metas(found.meta))
  <1>1. /\ pc = "primary" /\ image' = image /\ pointerInExec' = pointerInExec
        /\ found' = found /\ runtime' = runtime
    BY DEF Offline!InitFromAddresses, Offline!AutoPlusInit
  <1>2. IF first = {} THEN pc' = Offline!FirstSearch /\ error' = Offline!ErrorAfterRejection /\ result' = result
        ELSE \E p \in first :
               IF Offline!TryInit(p[1], p[2]) = "thrown" THEN pc' = "thrown" /\ result' = result /\ error' = error
               ELSE pc' = "runtime" /\ result' = Offline!ResultOf(p[1], p[2]) /\ error' = error
    BY Zenon DEF Offline!InitFromAddresses, Offline!AutoPlusInit, Codes, Metas
  <1>3. Silent /\ runtime = Offline!None
    BY <1>1 DEF OfflineInv, SilentUntilReturned
  <1>4. OffInput /\ pointerInExec \in BOOLEAN /\ found \in [code : Int, meta : Int]
    BY DEF OfflineInv, OfflineType
  <1>5. CASE first = {}
    <2>1. pc' = Offline!FirstSearch /\ error' = Offline!ErrorAfterRejection /\ result' = result
      <3> HIDE DEF first
      <3>1. QED
        BY <1>2, <1>5
    <2>2. error' = error
      BY <1>3, <2>1, Zenon DEF Silent, Offline!ErrorAfterRejection
    <2>3. pc' \in {"data", "old"}
      BY <2>1 DEF Offline!FirstSearch
    <2>4. SearchedBefore'
      BY <1>1, <2>3, KeptTold DEF OfflineInv, SearchedBefore, Kept
    <2>5. found' \in [code : Int, meta : Int] /\ pointerInExec' \in BOOLEAN
      BY <1>1, <1>4
    <2>6. pc' \notin {"runtime", "returned"}
      BY <2>3
    <2>7. QED
      BY <1>1, <1>3, <2>1, <2>2, <2>4, <2>5, <2>6, SearchKeeps
  <1>6. CASE first # {}
    <2>1. PICK p \in first :
            IF Offline!TryInit(p[1], p[2]) = "thrown" THEN pc' = "thrown" /\ result' = result /\ error' = error
            ELSE pc' = "runtime" /\ result' = Offline!ResultOf(p[1], p[2]) /\ error' = error
      <3> HIDE DEF first
      <3>1. QED
        BY <1>2, <1>6, Zenon
    <2>2. error' = error
      BY <2>1
    <2>3. \/ Offline!TryInit(p[1], p[2]) = "thrown" /\ pc' = "thrown" /\ result' = result
          \/ /\ Offline!TryInit(p[1], p[2]) # "thrown"
             /\ pc' = "runtime" /\ result' = Offline!ResultOf(p[1], p[2])
      BY <2>1
    <2>4. QED
      BY <1>1, <1>3, <2>2, <2>3, AttemptKeeps
  <1>7. QED
    BY <1>5, <1>6

LEMMA ReturnKeeps ==
  ASSUME OfflineInv, image' = image, pointerInExec' = pointerInExec, found' = found,
         pc' = "returned", Offline!ErrorUnlessLoaded', Offline!TablesAgree', Offline!RefusalHasReason'
  PROVE  OfflineInv'
  <1>1. OfflineType'
    BY KeptInput DEF OfflineInv, OfflineType, Kept
  <1>2. SilentUntilReturned' /\ AcceptedAtRuntime' /\ Offline!NoBetterOneLeft'
    BY DEF SilentUntilReturned, AcceptedAtRuntime, Offline!NoBetterOneLeft
  <1>3. SearchedBefore'
    BY KeptTold DEF OfflineInv, SearchedBefore, Kept
  <1>4. QED
    BY <1>1, <1>2, <1>3 DEF OfflineInv

LEMMA NotFoundKeeps ==
  ASSUME OfflineInv, Offline!NotFound
  PROVE  OfflineInv'
  <1>1. /\ pc = "both" /\ image' = image /\ pointerInExec' = pointerInExec /\ found' = found
        /\ runtime' = runtime /\ pc' = "returned" /\ error' = "not found"
    BY DEF Offline!NotFound
  <1>2. runtime = Offline!None
    BY <1>1 DEF OfflineInv, SilentUntilReturned
  <1>3. error' # ""
    BY <1>1, Zenon
  <1>4. Offline!ErrorUnlessLoaded' /\ Offline!TablesAgree'
    BY <1>1, <1>2, <1>3, Zenon DEF Offline!ErrorUnlessLoaded, Offline!TablesAgree, Offline!None
  <1>6. Offline!RefusalHasReason'
    BY <1>1, Zenon DEF Offline!RefusalHasReason
  <1>5. QED
    BY <1>1, <1>4, <1>6, ReturnKeeps

LEMMA SearchedKeeps ==
  ASSUME OfflineInv, Offline!FindAndInit
  PROVE  OfflineInv'
  <1> DEFINE first == Offline!FirstAccepted(Codes(found.code), Metas(found.meta))
  <1>1. /\ pc = "both" /\ image' = image /\ pointerInExec' = pointerInExec
        /\ found' = found /\ runtime' = runtime
    BY DEF Offline!FindAndInit, Offline!AutoPlusInit
  <1>2. IF first = {} THEN pc' = "returned" /\ error' = "AutoPlusInit failed" /\ result' = result
        ELSE \E p \in first :
               IF Offline!TryInit(p[1], p[2]) = "thrown" THEN pc' = "thrown" /\ result' = result /\ error' = error
               ELSE pc' = "runtime" /\ result' = Offline!ResultOf(p[1], p[2]) /\ error' = error
    BY Zenon DEF Offline!FindAndInit, Offline!AutoPlusInit, Codes, Metas
  <1>3. Silent /\ runtime = Offline!None
    BY <1>1 DEF OfflineInv, SilentUntilReturned
  <1>5. CASE first = {}
    <2>1. pc' = "returned" /\ error' = "AutoPlusInit failed"
      <3> HIDE DEF first
      <3>1. QED
        BY <1>2, <1>5
    <2>2. error' # ""
      BY <2>1, Zenon
    <2>3. Offline!ErrorUnlessLoaded' /\ Offline!TablesAgree'
      BY <1>1, <1>3, <2>2, Zenon DEF Offline!ErrorUnlessLoaded, Offline!TablesAgree, Offline!None
    <2>5. Offline!RefusalHasReason'
      BY <2>1, Zenon DEF Offline!RefusalHasReason
    <2>4. QED
      BY <1>1, <2>1, <2>3, <2>5, ReturnKeeps
  <1>6. CASE first # {}
    <2>1. PICK p \in first :
            IF Offline!TryInit(p[1], p[2]) = "thrown" THEN pc' = "thrown" /\ result' = result /\ error' = error
            ELSE pc' = "runtime" /\ result' = Offline!ResultOf(p[1], p[2]) /\ error' = error
      <3> HIDE DEF first
      <3>1. QED
        BY <1>2, <1>6, Zenon
    <2>2. error' = error
      BY <2>1
    <2>3. \/ Offline!TryInit(p[1], p[2]) = "thrown" /\ pc' = "thrown" /\ result' = result
          \/ /\ Offline!TryInit(p[1], p[2]) # "thrown"
             /\ pc' = "runtime" /\ result' = Offline!ResultOf(p[1], p[2])
      BY <2>1
    <2>4. QED
      BY <1>1, <1>3, <2>2, <2>3, AttemptKeeps
  <1>7. QED
    BY <1>5, <1>6

LEMMA RuntimeKeeps ==
  ASSUME OfflineInv, Offline!RuntimeInit
  PROVE  OfflineInv'
  <1>1. /\ pc = "runtime" /\ image' = image /\ pointerInExec' = pointerInExec /\ found' = found
        /\ pc' = "returned"
    BY DEF Offline!RuntimeInit
  <1>2. OffInput /\ Silent
    BY <1>1 DEF OfflineInv, OfflineType, AcceptedAtRuntime
  <1>3. PICK code \in Int, meta \in Int :
          Offline!TryInit(code, meta) = "yes" /\ result = Offline!ResultOf(code, meta)
    BY <1>1 DEF OfflineInv, AcceptedAtRuntime
  <1>4. Offline!ErrorUnlessLoaded' /\ Offline!TablesAgree' /\ Offline!RefusalHasReason'
    BY <1>2, <1>3, LoadedAgrees
  <1>5. QED
    BY <1>1, <1>4, ReturnKeeps

LEMMA OfflineStays ==
  ASSUME OfflineInv, image' = image, pointerInExec' = pointerInExec, found' = found, pc' = pc,
         result' = result, error' = error, runtime' = runtime
  PROVE  OfflineInv'
  <1>1. Kept
    BY DEF Kept
  <1>2. OfflineType'
    BY <1>1, KeptInput DEF OfflineInv, OfflineType
  <1>3. SilentUntilReturned'
    BY DEF OfflineInv, SilentUntilReturned, Silent, Offline!None
  <1>4. AcceptedAtRuntime'
    <2>1. Silent' <=> Silent
      BY DEF Silent
    <2>2. QED
      BY <1>1, <2>1, KeptTry, KeptResult DEF OfflineInv, AcceptedAtRuntime
  <1>5. Offline!NoBetterOneLeft'
    BY <1>1, KeptCandidates, KeptScores, KeptTry DEF OfflineInv, Offline!NoBetterOneLeft
  <1>6. Offline!ErrorUnlessLoaded' /\ Offline!TablesAgree' /\ Offline!RefusalHasReason'
    <2>1. Offline!ErrorUnlessLoaded' /\ Offline!TablesAgree'
      BY DEF OfflineInv, Offline!ErrorUnlessLoaded, Offline!TablesAgree, Offline!None
    <2>2. Offline!V' = Offline!V /\ \A a : Offline!CodeView(a)' = Offline!CodeView(a)
      BY <1>1, KeptViews DEF Kept, Offline!V
    <2>3. Offline!CodeView(result.code)' = Offline!CodeView(result.code)
      BY <2>2
    <2>4. Offline!RefusalHasReason'
      BY <2>2, <2>3 DEF OfflineInv, Offline!RefusalHasReason
    <2>5. QED
      BY <2>1, <2>4
  <1>7. SearchedBefore'
    BY <1>1, KeptTold DEF OfflineInv, SearchedBefore
  <1>8. QED
    BY <1>2, <1>3, <1>4, <1>5, <1>6, <1>7 DEF OfflineInv

LEMMA OfflineStep ==
  ASSUME OfflineInv, Offline!Next \/ UNCHANGED vars
  PROVE  OfflineInv'
  <1>1. CASE Offline!Ended \/ UNCHANGED vars
    BY <1>1, OfflineStays DEF Offline!Ended, Offline!vars, vars, offlineVars
  <1>2. CASE Offline!Next /\ ~ Offline!Ended
    BY <1>2, Er2Keeps, PrimaryKeeps, CodeKeeps, MetaKeeps, NotFoundKeeps, SearchedKeeps, RuntimeKeeps
       DEF Offline!Next
  <1>3. QED
    BY <1>1, <1>2

OfflineCall == world = "offline" => OfflineInv

LEMMA OfflineCallHolds == Spec => []OfflineCall
  <1>1. Init => OfflineCall
    <2>1. Init /\ world = "offline" => Offline!Init
      BY DEF Init, PatternInit, LocatorInit, RegistrationInit, OfflineInit, ClassInit
    <2>2. QED
      BY <2>1, OfflineStarts DEF OfflineCall
  <1>2. OfflineCall /\ [Next]_vars => OfflineCall'
    <2> SUFFICES ASSUME OfflineCall, [Next]_vars, world' = "offline"
                 PROVE  OfflineInv'
      BY DEF OfflineCall
    <2>1. world' = world
      BY DEF Next, PatternNext, LocatorNext, RegistrationNext, OfflineNext, ClassNext, vars
    <2>2. OfflineInv
      BY <2>1 DEF OfflineCall
    <2>3. Offline!Next \/ UNCHANGED vars
      <3>1. world = "offline"
        BY <2>1
      <3>2. QED
        BY <3>1 DEF Next, PatternNext, LocatorNext, RegistrationNext, OfflineNext, ClassNext
    <2>4. QED
      BY <2>2, <2>3, OfflineStep
  <1>3. QED
    BY <1>1, <1>2, PTL DEF Spec

\* A call of Collect that returns has tables or an error, never both and never
\* neither.  The tables in use are those that were looked at when the pair was
\* accepted, but for the methods of modules that have MaxTable of them or more:
\* what the second reading takes for zero (TryReadU64) does not occur with a
\* pair TryInit has accepted.  An accepted pair is refused afterwards only for
\* want of types or methods or for more modules (methods) than MaxTable.
THEOREM TablesOrError == Spec => []LoadedOrError
  <1>1. OfflineCall => LoadedOrError
    BY DEF OfflineCall, OfflineInv, LoadedOrError
  <1>2. QED
    BY <1>1, OfflineCallHolds, PTL

\* AutoPlusInit takes no pair while one that scores better would be accepted,
\* whatever the order in which equal scores are tried, and although candidates
\* without a score take part when none has one.
THEOREM BestPairTaken == Spec => []NoBetterOneLeft
  <1>1. OfflineCall => NoBetterOneLeft
    BY DEF OfflineCall, OfflineInv, NoBetterOneLeft
  <1>2. QED
    BY <1>1, OfflineCallHolds, PTL

\* The search by pattern is only come to when nothing is linked to the name of
\* mscorlib, in data or in code: of the paths that say something the search
\* takes the first, and there is a first one.  The sections of code are looked
\* at only when those of data told nothing, and the types then sampled are in
\* the code.
THEOREM LinksAreFollowed ==
  Spec => [](world = "offline" => Offline!NothingLinkedIsMissed /\ Offline!ExecOnlyAsFallback)
  <1>1. ASSUME OfflineInv PROVE Offline!NothingLinkedIsMissed
    <2>1. OffInput
      BY <1>1 DEF OfflineInv, OfflineType
    <2>2. ASSUME pc = "pattern", Offline!Linked PROVE FALSE
      <3>1. NothingTold("data") /\ NothingTold("exec")
        BY <1>1, <2>2 DEF OfflineInv, SearchedBefore
      <3>2. QED
        BY <2>1, <2>2, <3>1, LinkedTells DEF NothingTold
    <2>3. QED
      BY <2>2 DEF Offline!NothingLinkedIsMissed
  <1>2. ASSUME OfflineInv PROVE Offline!ExecOnlyAsFallback
    <2>1. OffInput
      BY <1>2 DEF OfflineInv, OfflineType
    <2>2. SUFFICES ASSUME pointerInExec PROVE
            /\ Offline!FindCodeRegistration2019("data") = 0
            /\ found.meta > 0 /\ found.meta = Offline!FindMetadataRegistrationV21 =>
                 \A i \in 0..(Offline!Min({Offline!Sample, Offline!MetaView(found.meta).typesCount}) - 1) :
                   Offline!In("exec", Offline!WordAt(Offline!MetaView(found.meta).types + i))
      BY DEF Offline!ExecOnlyAsFallback
    <2>3. NothingTold("data")
      BY <1>2, <2>2 DEF OfflineInv, SearchedBefore
    <2>4. Offline!FindCodeRegistration2019("data") = 0
      <3>1. {p \in Offline!Paths("data") : Offline!FromPath(p) # 0} = {}
        BY <2>3 DEF NothingTold
      <3>2. QED
        BY <3>1 DEF Offline!FindCodeRegistration2019
    <2>5. ASSUME found.meta > 0, found.meta = Offline!FindMetadataRegistrationV21,
                 NEW i \in 0..(Offline!Min({Offline!Sample, Offline!MetaView(found.meta).typesCount}) - 1)
          PROVE  Offline!In("exec", Offline!WordAt(Offline!MetaView(found.meta).types + i))
      BY <2>1, <2>2, <2>5, SampledLieThere
    <2>6. QED
      BY <2>4, <2>5
  <1>3. OfflineCall => (world = "offline" => Offline!NothingLinkedIsMissed /\ Offline!ExecOnlyAsFallback)
    BY <1>1, <1>2 DEF OfflineCall
  <1>4. QED
    BY <1>3, OfflineCallHolds, PTL

(***************************************************************************)
(* Whole words: multiples of a number.                                     *)
(***************************************************************************)
LEMMA DivMod ==
  ASSUME NEW w \in Nat \ {0}, NEW a \in Nat
  PROVE  a = w * (a \div w) + (a % w) /\ a \div w \in Int /\ a % w \in 0..(w - 1)
  <1>1. w \in Int /\ w > 0 /\ a \in Int
    OBVIOUS
  <1>2. a = w * (a \div w) + (a % w)
    BY ONLY <1>1, SMT
  <1>3. QED
    BY <1>1, <1>2

LEMMA QuotientNat ==
  ASSUME NEW w \in Nat \ {0}, NEW a \in Nat
  PROVE  a \div w \in Nat
  <1>1. a = w * (a \div w) + (a % w) /\ a \div w \in Int /\ a % w \in 0..(w - 1)
    BY DivMod
  <1>2. ASSUME a \div w < 0 PROVE FALSE
    <2>1. w * (a \div w) <= w * (-1)
      BY <1>1, <1>2
    <2>2. QED
      BY <1>1, <2>1
  <1>3. QED
    BY <1>1, <1>2

LEMMA TimesOf ==
  ASSUME NEW w \in Nat \ {0}, NEW a \in Nat, a % w = 0
  PROVE  \E k \in Int : a = k * w
  <1>1. a = w * (a \div w) + (a % w) /\ a \div w \in Int
    BY DivMod
  <1>2. a = (a \div w) * w
    BY <1>1
  <1>3. QED
    BY <1>1, <1>2

LEMMA ModOfTimes ==
  ASSUME NEW w \in Nat \ {0}, NEW k \in Int
  PROVE  (k * w) % w = 0
  OBVIOUS

LEMMA SumOfTimes ==
  ASSUME NEW w \in Nat \ {0}, NEW a \in Nat, NEW b \in Nat, b % w = 0
  PROVE  (a + b) % w = 0 <=> a % w = 0
  <1>1. PICK j \in Int : b = j * w
    BY TimesOf
  <1>2. ASSUME a % w = 0 PROVE (a + b) % w = 0
    <2>1. PICK k \in Int : a = k * w
      BY <1>2, TimesOf
    <2>2. a + b = (k + j) * w /\ k + j \in Int
      BY <1>1, <2>1
    <2>3. QED
      BY <2>2, ModOfTimes
  <1>3. ASSUME (a + b) % w = 0 PROVE a % w = 0
    <2>1. PICK k \in Int : a + b = k * w
      <3>1. a + b \in Nat
        OBVIOUS
      <3>2. QED
        BY <1>3, <3>1, TimesOf
    <2>2. a = (k - j) * w /\ k - j \in Int
      BY <1>1, <2>1
    <2>3. QED
      BY <2>2, ModOfTimes
  <1>4. QED
    BY <1>2, <1>3

LEMMA NextTimes ==
  ASSUME NEW w \in Nat \ {0}, NEW a \in Nat, NEW b \in Nat, a % w = 0, b % w = 0, a < b
  PROVE  a + w <= b
  <1>1. PICK j \in Int : a = j * w
    BY TimesOf
  <1>2. PICK k \in Int : b = k * w
    BY TimesOf
  <1>3. j < k
    BY <1>1, <1>2
  <1>4. j * w + w <= k * w
    BY <1>3
  <1>5. QED
    BY <1>1, <1>2, <1>4

\* What is left of a number behind its last multiple.
LEMMA RestOf ==
  ASSUME NEW w \in Nat \ {0}, NEW a \in Nat, NEW b \in Nat, a % w = 0, a <= b, b < a + w
  PROVE  b - (b % w) = a
  <1>1. b = w * (b \div w) + (b % w) /\ b \div w \in Nat /\ b % w \in 0..(w - 1)
    BY DivMod, QuotientNat
  <1>2. PICK c \in Nat : c % w = 0 /\ c = b - (b % w) /\ c <= b /\ b < c + w
    <2>1. b - (b % w) = (b \div w) * w /\ b - (b % w) \in Nat
      BY <1>1
    <2>2. ((b \div w) * w) % w = 0
      BY <1>1, ModOfTimes
    <2>3. QED
      BY <1>1, <2>1, <2>2
  <1>3. ASSUME a < c PROVE FALSE
    <2>1. a + w <= c
      BY <1>2, <1>3, NextTimes
    <2>2. QED
      BY <1>2, <2>1
  <1>4. ASSUME c < a PROVE FALSE
    <2>1. c + w <= a
      BY <1>2, <1>4, NextTimes
    <2>2. QED
      BY <1>2, <2>1
  <1>5. a = c
    BY <1>3, <1>4
  <1>6. QED
    BY <1>2, <1>5

(***************************************************************************)
(* MetadataLocator: the header and its score.                              *)
(***************************************************************************)
LEMMA LocConstants ==
  /\ Width \in Nat \ {0} /\ ImageRecord \in Nat \ {0} /\ AssemblyRecord \in Nat \ {0}
  /\ ScorePage \in Nat \ {0} /\ WordSize \in Nat \ {0} /\ ChunkSize \in Nat \ {0} /\ ReadSize \in Nat \ {0}
  /\ MaxEnd \in Nat /\ MaxRecords \in Nat
  BY LocatorAssumption

LEMMA HeaderFields ==
  ASSUME NEW h \in Locator!Headers, NEW t \in Locator!HeaderTables
  PROVE  h.offset[t] \in Nat /\ h.size[t] \in Nat
  BY LocConstants DEF Locator!Headers

LEMMA LocMinOfTwo ==
  ASSUME NEW a \in Int, NEW b \in Int
  PROVE  /\ Locator!Min({a, b}) \in {a, b}
         /\ Locator!Min({a, b}) <= a /\ Locator!Min({a, b}) <= b
  <1>1. PICK x \in {a, b} : \A y \in {a, b} : x <= y
    OBVIOUS
  <1>2. QED
    BY <1>1 DEF Locator!Min

LEMMA EndOfWord ==
  ASSUME NEW h \in Locator!Headers, NEW t \in Locator!HeaderTables
  PROVE  Locator!EndOf(h, t) \in 0..(Width - 1)
  <1>1. Width \in Nat \ {0}
    BY LocConstants
  <1>2. h.offset[t] \in Nat /\ h.size[t] \in Nat
    BY HeaderFields
  <1>3. h.offset[t] + h.size[t] \in Nat
    BY <1>2
  <1>4. (h.offset[t] + h.size[t]) % Width \in 0..(Width - 1)
    BY <1>1, <1>3, DivMod
  <1>5. QED
    BY <1>4 DEF Locator!EndOf

\* The end of the last table.
LEMMA MaxEndFacts ==
  ASSUME NEW h \in Locator!Headers
  PROVE  /\ Locator!MaxEndOf(h) \in Nat
         /\ \A t \in Locator!Used(h) : Locator!EndOf(h, t) <= Locator!MaxEndOf(h)
  <1> DEFINE ends == {0} \cup {Locator!EndOf(h, t) : t \in Locator!Used(h)}
  <1>1. Width \in Nat \ {0}
    BY LocConstants
  <1>2. \A y \in ends : y \in Int /\ 0 <= y /\ y <= Width
    BY <1>1, EndOfWord DEF Locator!Used
  <1>3. ends \in SUBSET Int /\ ends # {} /\ 0 \in ends
    BY <1>2
  <1>4. PICK x \in ends : \A y \in ends : x >= y
    <2>1. Width \in Int /\ \A y \in ends : y <= Width
      BY <1>1, <1>2
    <2> HIDE DEF ends
    <2>2. QED
      BY <1>3, <2>1, GreatestOfInt
  <1>5. Locator!MaxEndOf(h) \in ends /\ \A y \in ends : Locator!MaxEndOf(h) >= y
    BY <1>4 DEF Locator!MaxEndOf, Locator!Max
  <1>6. Locator!MaxEndOf(h) \in Nat
    <2> HIDE DEF ends
    <2>1. Locator!MaxEndOf(h) \in Int /\ 0 <= Locator!MaxEndOf(h)
      BY <1>2, <1>5
    <2>2. QED
      BY <2>1
  <1>7. ASSUME NEW t \in Locator!Used(h) PROVE Locator!EndOf(h, t) <= Locator!MaxEndOf(h)
    <2>1. Locator!EndOf(h, t) \in ends
      OBVIOUS
    <2>2. QED
      BY <1>2, <1>5, <2>1
  <1>8. QED
    BY <1>6, <1>7

\* FiniteSets by its name in the instance.
LEMMA LocCardinality ==
  ASSUME NEW S
  PROVE  Locator!Cardinality(S) = Cardinality(S)
  BY Zenon DEF Locator!Cardinality, Cardinality

LEMMA UsedCount ==
  ASSUME NEW h \in Locator!Headers
  PROVE  Locator!Cardinality(Locator!Used(h)) \in Nat
  <1>1. IsFiniteSet(Others)
    BY LocatorAssumption
  <1>2. IsFiniteSet({"string", "images", "assemblies"})
    <2>1. {"string", "images", "assemblies"} = (({} \cup {"string"}) \cup {"images"}) \cup {"assemblies"}
      OBVIOUS
    <2>2. IsFiniteSet({} \cup {"string"})
      BY FS_EmptySet, FS_AddElement
    <2>3. IsFiniteSet(({} \cup {"string"}) \cup {"images"})
      BY <2>2, FS_AddElement
    <2>4. IsFiniteSet((({} \cup {"string"}) \cup {"images"}) \cup {"assemblies"})
      BY <2>3, FS_AddElement
    <2>5. QED
      BY <2>1, <2>4
  <1>3. IsFiniteSet(Locator!HeaderTables)
    BY <1>1, <1>2, FS_Union DEF Locator!HeaderTables
  <1>4. Locator!Used(h) \subseteq Locator!HeaderTables
    BY DEF Locator!Used
  <1>5. QED
    BY <1>3, <1>4, FS_Subset, FS_CardinalityType, LocCardinality

LEMMA MinNat ==
  ASSUME NEW a \in Nat, NEW b \in Nat
  PROVE  Locator!Min({a, b}) \in Nat
  <1>1. Locator!Min({a, b}) \in {a, b}
    BY LocMinOfTwo
  <1>2. QED
    BY <1>1

LEMMA ScoreOfHeader ==
  ASSUME NEW h \in Locator!Headers
  PROVE  Locator!ScoreMetadataHeader(h) \in Nat
  <1>1. h.size["string"] \in Nat /\ h.size["images"] \in Nat /\ h.size["assemblies"] \in Nat
    BY HeaderFields DEF Locator!HeaderTables
  <1>2. Locator!MaxEndOf(h) \div ScorePage \in Nat
    BY MaxEndFacts, QuotientNat, LocConstants
  <1>3. Locator!Min({h.size["string"], MaxEnd}) \div ScorePage \in Nat
    <2>1. Locator!Min({h.size["string"], MaxEnd}) \in Nat
      BY <1>1, MinNat, LocConstants
    <2>2. QED
      BY <2>1, QuotientNat, LocConstants
  <1>4. Locator!Min({h.size["images"] \div ImageRecord, MaxRecords}) \in Nat
    <2>1. h.size["images"] \div ImageRecord \in Nat
      BY <1>1, QuotientNat, LocConstants
    <2>2. QED
      BY <2>1, MinNat, LocConstants
  <1>5. Locator!Min({h.size["assemblies"] \div AssemblyRecord, MaxRecords}) \in Nat
    <2>1. h.size["assemblies"] \div AssemblyRecord \in Nat
      BY <1>1, QuotientNat, LocConstants
    <2>2. QED
      BY <2>1, MinNat, LocConstants
  <1>6. 100000 * Locator!Cardinality(Locator!Used(h)) \in Nat
    BY UsedCount
  <1>7. ASSUME NEW a \in Nat, NEW b \in Nat, NEW c \in Nat, NEW d \in Nat, NEW e \in Nat
        PROVE  a + b + c + d + e \in Nat
    BY <1>7
  <1>8. 100000 * Locator!Cardinality(Locator!Used(h)) + Locator!MaxEndOf(h) \div ScorePage
       + Locator!Min({h.size["string"], MaxEnd}) \div ScorePage
       + Locator!Min({h.size["images"] \div ImageRecord, MaxRecords})
       + Locator!Min({h.size["assemblies"] \div AssemblyRecord, MaxRecords}) \in Nat
    BY ONLY <1>2, <1>3, <1>4, <1>5, <1>6, <1>7
  <1>9. CASE ~ Locator!Acceptable(h)
    BY <1>9 DEF Locator!ScoreMetadataHeader
  <1>10. CASE Locator!Acceptable(h)
    <2>1. Locator!ScoreMetadataHeader(h) =
            100000 * Locator!Cardinality(Locator!Used(h)) + Locator!MaxEndOf(h) \div ScorePage
            + Locator!Min({h.size["string"], MaxEnd}) \div ScorePage
            + Locator!Min({h.size["images"] \div ImageRecord, MaxRecords})
            + Locator!Min({h.size["assemblies"] \div AssemblyRecord, MaxRecords})
      BY <1>10 DEF Locator!ScoreMetadataHeader
    <2>2. QED
      BY <1>8, <2>1
  <1>11. QED
    BY <1>9, <1>10

LEMMA ScoreNat ==
  ASSUME NEW b \in Blobs
  PROVE  Locator!Score(b) \in Nat
  <1>1. HeaderAt[b] \in Locator!Headers
    BY LocatorAssumption
  <1>2. Locator!ScoreMetadataHeader(HeaderAt[b]) \in Nat
    BY <1>1, ScoreOfHeader
  <1>3. QED
    BY <1>2 DEF Locator!Score

\* A first one among the greatest.
LEMMA FirstGreatest ==
  ASSUME NEW n \in Nat \ {0}, NEW f, \A i \in 1..n : f[i] \in Int
  PROVE  \E k \in 1..n : \A j \in 1..n : f[j] < f[k] \/ (f[j] = f[k] /\ k <= j)
  <1> DEFINE Has(m) == \E k \in 1..m : \A j \in 1..m : f[j] < f[k] \/ (f[j] = f[k] /\ k <= j)
             without == {m \in 1..n : ~ Has(m)}
  <1>1. ASSUME without # {} PROVE FALSE
    <2>1. without \in SUBSET Nat
      OBVIOUS
    <2>2. PICK m \in without : \A y \in without : m <= y
      BY <1>1, <2>1, LeastOfNat
    <2>3. m \in 1..n /\ ~ Has(m)
      BY <2>2
    <2>4. m # 1
      <3>1. Has(1)
        OBVIOUS
      <3>2. QED
        BY <2>3, <3>1
    <2>5. m - 1 \in 1..n /\ m - 1 < m
      BY <2>3, <2>4
    <2>6. Has(m - 1)
      <3> HIDE DEF Has
      <3>1. QED
        BY <2>2, <2>5
    <2>7. PICK k \in 1..(m - 1) : \A j \in 1..(m - 1) : f[j] < f[k] \/ (f[j] = f[k] /\ k <= j)
      BY <2>6
    <2>8. f[m] \in Int /\ f[k] \in Int /\ \A j \in 1..m : f[j] \in Int
      BY <2>3, <2>7
    <2>9. \A j \in 1..m : j \in 1..(m - 1) \/ j = m
      BY <2>3
    <2>10. CASE f[m] > f[k]
      <3>1. \A j \in 1..m : f[j] < f[m] \/ (f[j] = f[m] /\ m <= j)
        BY <2>3, <2>7, <2>8, <2>9, <2>10
      <3>2. QED
        BY <2>3, <3>1
    <2>11. CASE ~ f[m] > f[k]
      <3>1. \A j \in 1..m : f[j] < f[k] \/ (f[j] = f[k] /\ k <= j)
        BY <2>3, <2>7, <2>8, <2>9, <2>11
      <3>2. QED
        BY <2>3, <2>7, <3>1
    <2>12. QED
      BY <2>10, <2>11
  <1>2. Has(n)
    <2> HIDE DEF Has
    <2>1. QED
      BY <1>1
  <1>3. QED
    BY <1>2

Candidates == [at : Nat, to : Blobs]

\* What is kept of the candidates of a page.
LEMMA BestOfFacts ==
  ASSUME NEW b, b.score \in Nat, NEW cands \in Seq(Candidates)
  PROVE  /\ \/ Locator!BestOf(b, cands) = b
            \/ \E k \in DOMAIN cands :
                 /\ Locator!BestOf(b, cands) = [at |-> cands[k].at, to |-> cands[k].to,
                                                score |-> Locator!Score(cands[k].to)]
                 /\ Locator!Score(cands[k].to) > b.score
         /\ Locator!BestOf(b, cands).score \in Nat
         /\ Locator!BestOf(b, cands).score >= b.score
         /\ \A k \in DOMAIN cands : Locator!Score(cands[k].to) <= Locator!BestOf(b, cands).score
  <1> DEFINE f == [k \in 1..Len(cands) |-> Locator!Score(cands[k].to)]
             First(k) == \A j \in DOMAIN cands :
                           \/ Locator!Score(cands[j].to) < Locator!Score(cands[k].to)
                           \/ Locator!Score(cands[j].to) = Locator!Score(cands[k].to) /\ k <= j
  <1>1. DOMAIN cands = 1..Len(cands) /\ Len(cands) \in Nat
    OBVIOUS
  <1>2. \A k \in DOMAIN cands : cands[k].to \in Blobs /\ Locator!Score(cands[k].to) \in Nat
    <2>1. ASSUME NEW k \in DOMAIN cands PROVE cands[k].to \in Blobs
      <3>1. cands[k] \in Candidates
        BY <1>1
      <3>2. QED
        BY <3>1 DEF Candidates
    <2>2. QED
      BY <2>1, ScoreNat
  <1>3. CASE \A k \in DOMAIN cands : Locator!Score(cands[k].to) <= b.score
    <2>1. Locator!BestOf(b, cands) = b
      BY <1>3 DEF Locator!BestOf
    <2>2. QED
      BY <1>3, <2>1
  <1>4. CASE ~ \A k \in DOMAIN cands : Locator!Score(cands[k].to) <= b.score
    <2>1. PICK x \in DOMAIN cands : ~ Locator!Score(cands[x].to) <= b.score
      BY <1>4
    <2>2. Len(cands) \in Nat \ {0}
      BY <1>1, <2>1
    <2>3. \A i \in 1..Len(cands) : f[i] \in Int
      BY <1>1, <1>2
    <2>4. \E k \in 1..Len(cands) : \A j \in 1..Len(cands) : f[j] < f[k] \/ (f[j] = f[k] /\ k <= j)
      <3> HIDE DEF f
      <3>1. QED
        BY <2>2, <2>3, FirstGreatest
    <2>5. \E k \in DOMAIN cands : First(k)
      BY <1>1, <2>4
    <2>6. PICK k : k = (CHOOSE y \in DOMAIN cands : First(y))
      OBVIOUS
    <2>7. k \in DOMAIN cands /\ First(k)
      <3> HIDE DEF First
      <3>1. QED
        BY <2>5, <2>6
    <2>8. Locator!BestOf(b, cands) = [at |-> cands[k].at, to |-> cands[k].to,
                                      score |-> Locator!Score(cands[k].to)]
      BY <1>4, <2>6 DEF Locator!BestOf
    <2>9. Locator!Score(cands[k].to) > b.score
      BY <1>2, <2>1, <2>7
    <2>10. \A j \in DOMAIN cands : Locator!Score(cands[j].to) <= Locator!Score(cands[k].to)
      BY <1>2, <2>7
    <2>11. QED
      BY <1>2, <2>7, <2>8, <2>9, <2>10
  <1>5. QED
    BY <1>3, <1>4

(***************************************************************************)
(* The scan: sections, chunks and words.                                   *)
(***************************************************************************)
LocModule == module \in Modules

LEMMA SeqElement ==
  ASSUME NEW T, NEW s \in Seq(T), NEW i \in DOMAIN s
  PROVE  s[i] \in T
  OBVIOUS

LEMMA SectionFacts ==
  ASSUME LocModule, NEW i \in Locator!ScanSections, NEW s, s = Locator!Clipped(module.sections[i])
  PROVE  /\ i \in 1..Len(module.sections)
         /\ s.rva \in Nat /\ s.size \in Nat \ {0} /\ s.rva + s.size <= module.size
         /\ s.rva % WordSize = 0
  <1>1. module.size \in Nat /\ module.sections \in Seq([data : BOOLEAN, rva : Nat, size : Nat])
    BY LocatorAssumption DEF LocModule
  <1>2. i \in DOMAIN module.sections /\ module.sections[i].rva < module.size
    BY DEF Locator!ScanSections
  <1>3. DOMAIN module.sections = 1..Len(module.sections)
    BY <1>1
  <1>4. module.sections[i] \in [data : BOOLEAN, rva : Nat, size : Nat]
    BY <1>1, <1>2, SeqElement
  <1>5. PICK r \in [data : BOOLEAN, rva : Nat, size : Nat] : r = module.sections[i]
    BY <1>4
  <1>6. r.rva % WordSize = 0
    BY <1>2, <1>5, LocatorAssumption DEF LocModule
  <1>7. s.rva = r.rva /\ s.size = IF r.size = 0 \/ r.size > module.size - r.rva THEN module.size - r.rva ELSE r.size
    BY <1>5 DEF Locator!Clipped
  <1>8. QED
    BY <1>1, <1>2, <1>3, <1>5, <1>6, <1>7

\* A word of a section is one of the module's words.
LEMMA WordFacts ==
  ASSUME LocModule, NEW i \in Locator!ScanSections, NEW s, s = Locator!Clipped(module.sections[i]),
         NEW a \in Locator!WordsOf(s)
  PROVE  /\ a \in Nat /\ s.rva <= a /\ a + WordSize <= s.rva + s.size
         /\ (a - s.rva) % WordSize = 0 /\ a - s.rva \in Nat
         /\ a \in Locator!ScannedWords
         /\ Locator!WordAt(a) \in Blobs \cup {NoBlob}
  <1>1. s.rva \in Nat /\ s.size \in Nat \ {0} /\ s.rva + s.size <= module.size /\ s.rva % WordSize = 0
    BY SectionFacts
  <1>2. WordSize \in Nat \ {0}
    BY LocConstants
  <1>3. a \in s.rva..(s.rva + s.size - WordSize) /\ (a - s.rva) % WordSize = 0
    BY DEF Locator!WordsOf
  <1>4. a \in Nat /\ s.rva <= a /\ a + WordSize <= s.rva + s.size /\ a - s.rva \in Nat
    BY <1>1, <1>2, <1>3
  <1>5. a % WordSize = 0
    <2>1. PICK d \in Nat : d = a - s.rva /\ d % WordSize = 0
      BY <1>3, <1>4
    <2>2. (d + s.rva) % WordSize = 0
      BY <1>1, <1>2, <2>1, SumOfTimes
    <2>3. a = d + s.rva
      BY <1>1, <1>4, <2>1
    <2>4. QED
      BY <2>2, <2>3
  <1>6. Locator!WordAt(a) \in Blobs \cup {NoBlob}
    <2>1. module.size \in Nat /\ module.word \in [{x \in 0..(module.size - WordSize) : x % WordSize = 0} -> Blobs \cup {NoBlob}]
      BY LocatorAssumption DEF LocModule
    <2>2. a \in 0..(module.size - WordSize)
      BY <1>1, <1>2, <1>4, <2>1
    <2>3. a \in {x \in 0..(module.size - WordSize) : x % WordSize = 0}
      BY <1>5, <2>2
    <2>4. QED
      BY <2>1, <2>3 DEF Locator!WordAt
  <1>7. a \in Locator!ScannedWords
    BY DEF Locator!ScannedWords
  <1>8. QED
    BY <1>3, <1>4, <1>6, <1>7

\* A section being read, its chunk at a whole word.
InSection ==
  /\ section \in Locator!ScanSections
  /\ offset \in Nat /\ offset % WordSize = 0 /\ offset < Locator!Scanned.size

LEMMA ChunkFacts ==
  ASSUME LocModule, InSection
  PROVE  /\ section \in 1..Len(module.sections)
         /\ Locator!Scanned.rva \in Nat /\ Locator!Scanned.size \in Nat \ {0}
         /\ Locator!Scanned.rva % WordSize = 0
         /\ Locator!ToRead \in Nat \ {0} /\ Locator!ToRead <= ChunkSize
         /\ offset + Locator!ToRead <= Locator!Scanned.size
         /\ Locator!ToRead = ChunkSize \/ offset + Locator!ToRead = Locator!Scanned.size
         /\ Locator!ChunkAt \in Nat /\ Locator!ChunkAt = Locator!Scanned.rva + offset
         /\ Locator!Limit \in Nat
         /\ Locator!Limit = IF Locator!ToRead >= WordSize THEN Locator!ToRead - WordSize ELSE 0
  <1>1. /\ section \in 1..Len(module.sections)
        /\ Locator!Scanned.rva \in Nat /\ Locator!Scanned.size \in Nat \ {0}
        /\ Locator!Scanned.rva % WordSize = 0
    BY SectionFacts DEF InSection, Locator!Scanned
  <1>2. ChunkSize \in Nat \ {0} /\ WordSize \in Nat \ {0}
    BY LocConstants
  <1>3. PICK r : r = Locator!Scanned.size - offset
    OBVIOUS
  <1>4. r \in Nat \ {0} /\ offset \in Nat
    BY <1>1, <1>3 DEF InSection
  <1>5. Locator!ToRead = Locator!Min({ChunkSize, r})
    BY <1>3 DEF Locator!ToRead
  <1>6. Locator!ToRead \in {ChunkSize, r} /\ Locator!ToRead <= ChunkSize /\ Locator!ToRead <= r
    BY <1>2, <1>4, <1>5, LocMinOfTwo
  <1>7. Locator!ToRead \in Nat \ {0}
    BY <1>2, <1>4, <1>6
  <1>8. offset + Locator!ToRead <= Locator!Scanned.size
        /\ (Locator!ToRead = ChunkSize \/ offset + Locator!ToRead = Locator!Scanned.size)
    BY <1>1, <1>2, <1>3, <1>4, <1>6, <1>7
  <1>9. Locator!ChunkAt \in Nat /\ Locator!ChunkAt = Locator!Scanned.rva + offset
    BY <1>1, <1>4 DEF Locator!ChunkAt
  <1>10. /\ Locator!Limit \in Nat
         /\ Locator!Limit = IF Locator!ToRead >= WordSize THEN Locator!ToRead - WordSize ELSE 0
    BY <1>2, <1>7 DEF Locator!Limit
  <1>11. QED
    BY <1>1, <1>6, <1>7, <1>8, <1>9, <1>10

(***************************************************************************)
(* The invariant of the search for the metadata.                           *)
(***************************************************************************)
\* Where a word that leads to p may have been read.
IsPlace(a, p) ==
  \/ a \in Locator!ScannedWords /\ Locator!WordAt(a) = p
  \/ a \in Locator!RaggedEnds

\* p is among the candidates collected and not looked at yet.
Waiting(p) == \E q \in DOMAIN pageMap : \E i \in DOMAIN pageMap[q] : pageMap[q][i].to = p

LocType ==
  /\ LocModule
  /\ section \in Nat \ {0} /\ offset \in Nat /\ off \in Nat /\ off % WordSize = 0
  /\ front \in Blobs \cup {NoBlob}
  /\ pc \in {"word", "page", "found"} => InSection
  /\ pc \in {"sections", "chunk"} /\ section \in Locator!ScanSections /\ offset < Locator!Scanned.size => InSection

BestIsGenuine ==
  best # Locator!NotFound =>
    /\ best.to \in Blobs /\ best.score \in Nat \ {0} /\ best.score = Locator!Score(best.to)
    /\ IsPlace(best.at, best.to)

PagesAreGenuine ==
  \A q \in DOMAIN pageMap :
    /\ pageMap[q] \in Seq(Candidates)
    /\ \A i \in DOMAIN pageMap[q] : PageOf[pageMap[q][i].to] = q /\ IsPlace(pageMap[q][i].at, pageMap[q][i].to)

\* There is no best before a page is looked at, and its page is not looked at
\* again.
BestInTime ==
  /\ pc \in {"sections", "chunk", "word"} => best = Locator!NotFound
  /\ pc \in {"sections", "chunk"} => DOMAIN pageMap = {}
  /\ pc \in {"found", "region"} => best # Locator!NotFound
  /\ pc \in {"page", "found"} /\ best # Locator!NotFound => PageOf[best.to] \notin DOMAIN pageMap

\* The words of the chunk up to off score no better than the best, or their
\* header was lost, or waits to be looked at.
LookedAt ==
  pc \in {"word", "page", "found"} =>
    \A a \in Locator!WordsOf(Locator!Scanned) :
      a >= Locator!ChunkAt /\ a + WordSize <= Locator!ChunkAt + off /\ Locator!WordAt(a) # NoBlob =>
        \/ Locator!Score(Locator!WordAt(a)) <= best.score
        \/ Locator!WordAt(a) \in missed
        \/ Waiting(Locator!WordAt(a))

\* The words before the chunk lead to no header, or to one that was lost.
Before(i, a) == i < section \/ (i = section /\ a < Locator!ChunkAt)
Lost(p) == p = NoBlob \/ Locator!Score(p) = 0 \/ p \in missed

LeftBehind ==
  ~ expired =>
    \A i \in Locator!ScanSections : \A a \in Locator!WordsOf(Locator!Clipped(module.sections[i])) :
      Before(i, a) => Lost(Locator!WordAt(a))

CopiedSoFar ==
  /\ pc \notin {"region", "returned"} => copied = 0 /\ ok = FALSE
  /\ pc = "region" => ok = FALSE /\ copied \in Nat /\ copied <= Locator!TotalSize
  /\ pc = "returned" => IF ok THEN best # Locator!NotFound /\ copied = Locator!TotalSize ELSE copied = 0

LocInv ==
  /\ LocType /\ BestIsGenuine /\ PagesAreGenuine /\ BestInTime
  /\ LookedAt /\ LeftBehind /\ CopiedSoFar

\* The module stays.
LEMMA LocKept ==
  ASSUME module' = module
  PROVE  /\ LocModule' <=> LocModule
         /\ Locator!ScanSections' = Locator!ScanSections
         /\ \A s : Locator!Clipped(s)' = Locator!Clipped(s)
         /\ \A a : Locator!WordAt(a)' = Locator!WordAt(a)
         /\ Locator!ScannedWords' = Locator!ScannedWords
         /\ \A a, p : IsPlace(a, p)' <=> IsPlace(a, p)
  <1>1. LocModule' <=> LocModule
    BY DEF LocModule
  <1>2. Locator!ScanSections' = Locator!ScanSections
    BY DEF Locator!ScanSections
  <1>3. \A s : Locator!Clipped(s)' = Locator!Clipped(s)
    BY DEF Locator!Clipped
  <1>4. \A a : Locator!WordAt(a)' = Locator!WordAt(a)
    BY DEF Locator!WordAt
  <1>5. Locator!ScannedWords' = Locator!ScannedWords
    BY <1>2, <1>3 DEF Locator!ScannedWords
  <1>6. Locator!RaggedEnds' = Locator!RaggedEnds
    BY <1>2, <1>3 DEF Locator!RaggedEnds
  <1>7. \A a, p : IsPlace(a, p)' <=> IsPlace(a, p)
    BY <1>4, <1>5, <1>6 DEF IsPlace
  <1>8. QED
    BY <1>1, <1>2, <1>3, <1>4, <1>5, <1>7

\* The chunk stays.
LEMMA ChunkKept ==
  ASSUME module' = module, section' = section, offset' = offset
  PROVE  /\ Locator!Scanned' = Locator!Scanned
         /\ Locator!ToRead' = Locator!ToRead /\ Locator!ChunkAt' = Locator!ChunkAt
         /\ Locator!Limit' = Locator!Limit
         /\ InSection' <=> InSection
  <1>1. Locator!Scanned' = Locator!Scanned
    BY LocKept DEF Locator!Scanned
  <1>2. Locator!ToRead' = Locator!ToRead /\ Locator!ChunkAt' = Locator!ChunkAt
    BY <1>1 DEF Locator!ToRead, Locator!ChunkAt
  <1>3. Locator!Limit' = Locator!Limit
    BY <1>2 DEF Locator!Limit
  <1>4. InSection' <=> InSection
    BY <1>1, LocKept DEF InSection
  <1>5. QED
    BY <1>1, <1>2, <1>3, <1>4

LEMMA LocatorStarts ==
  ASSUME Locator!Init
  PROVE  LocInv
  <1> USE DEF Locator!Init
  <1>1. WordSize \in Nat \ {0} /\ 0 % WordSize = 0
    BY LocConstants
  <1>2. LocType
    BY <1>1 DEF LocType, LocModule, InSection
  <1>3. DOMAIN pageMap = {}
    OBVIOUS
  <1>4. BestIsGenuine /\ PagesAreGenuine /\ BestInTime
    BY <1>3 DEF BestIsGenuine, PagesAreGenuine, BestInTime
  <1>5. LookedAt
    BY DEF LookedAt
  <1>6. LeftBehind
    <2>1. SUFFICES ASSUME NEW i \in Locator!ScanSections,
                          NEW a \in Locator!WordsOf(Locator!Clipped(module.sections[i])), Before(i, a)
                   PROVE  FALSE
      BY DEF LeftBehind
    <2>2. /\ i \in 1..Len(module.sections)
          /\ Locator!Clipped(module.sections[i]).rva \in Nat /\ Locator!Clipped(module.sections[i]).rva <= a /\ a \in Nat
      BY <1>2, SectionFacts, WordFacts DEF LocType
    <2>3. i = section => Locator!ChunkAt = Locator!Clipped(module.sections[i]).rva + 0
      BY DEF Locator!ChunkAt, Locator!Scanned
    <2>4. Len(module.sections) \in Nat
      BY <1>2, LocatorAssumption DEF LocType, LocModule
    <2>5. QED
      BY <2>1, <2>2, <2>3, <2>4 DEF Before
  <1>7. CopiedSoFar
    BY DEF CopiedSoFar
  <1>8. QED
    BY <1>2, <1>4, <1>5, <1>6, <1>7 DEF LocInv

LEMMA LeftBehindKept ==
  ASSUME LeftBehind, module' = module, section' = section, offset' = offset,
         missed \subseteq missed', ~ expired' => ~ expired
  PROVE  LeftBehind'
  <1>1. \A i, a : Before(i, a)' <=> Before(i, a)
    BY ChunkKept DEF Before
  <1>2. \A p : Lost(p) => Lost(p)'
    BY DEF Lost
  <1>3. SUFFICES ASSUME ~ expired', NEW i \in Locator!ScanSections,
                        NEW a \in Locator!WordsOf(Locator!Clipped(module.sections[i])), Before(i, a)
                 PROVE  Lost(Locator!WordAt(a))'
    BY <1>1, LocKept DEF LeftBehind
  <1>4. Lost(Locator!WordAt(a))
    BY <1>3 DEF LeftBehind
  <1>5. Locator!WordAt(a)' = Locator!WordAt(a)
    BY LocKept
  <1>6. QED
    BY <1>4, <1>5 DEF Lost

\* Steps that neither read a word nor look at a header.
LEMMA QuietKeeps ==
  ASSUME LocInv, module' = module, section' = section, offset' = offset, off' = off, front' = front,
         pageMap' = pageMap, best' = best, missed' = missed, ~ expired' => ~ expired,
         pc' \in {"word", "page", "found"} => pc' = pc,
         pc' \in {"sections", "chunk"} => pc \in {"sections", "chunk"},
         pc' = "region" => pc \in {"found", "region"},
         CopiedSoFar'
  PROVE  LocInv'
  <1>1. LocType'
    BY LocKept, ChunkKept DEF LocInv, LocType
  <1>2. BestIsGenuine'
    <2>1. \A a, p : IsPlace(a, p)' <=> IsPlace(a, p)
      BY LocKept
    <2>2. IsPlace(best.at, best.to)' <=> IsPlace(best.at, best.to)
      BY <2>1 DEF IsPlace
    <2>3. QED
      BY <2>2 DEF LocInv, BestIsGenuine, Locator!NotFound
  <1>3. PagesAreGenuine'
    BY LocKept DEF LocInv, PagesAreGenuine
  <1>4. BestInTime'
    BY DEF LocInv, BestInTime, Locator!NotFound
  <1>5. LookedAt'
    <2>1. \A p : Waiting(p)' <=> Waiting(p)
      BY DEF Waiting
    <2>2. QED
      BY <2>1, LocKept, ChunkKept DEF LocInv, LookedAt
  <1>6. LeftBehind'
    BY LeftBehindKept DEF LocInv
  <1>7. QED
    BY <1>1, <1>2, <1>3, <1>4, <1>5, <1>6 DEF LocInv

\* What is copied never exceeds what is to be copied.
LEMMA TotalNat ==
  ASSUME LocInv, best # Locator!NotFound
  PROVE  Locator!TotalSize \in Nat
  <1>1. HeaderAt[best.to] \in Locator!Headers
    BY LocatorAssumption DEF LocInv, BestIsGenuine
  <1>2. QED
    BY <1>1, MaxEndFacts DEF Locator!TotalSize, Locator!CalcTotalSizeFromHeader

LEMMA QuietSteps ==
  ASSUME LocInv,
         \/ Locator!ReadSections \/ Locator!NothingFound \/ Locator!ReadTotal \/ Locator!CopyRegion
         \/ Locator!RegionDone \/ Locator!Expire \/ Locator!Returned \/ UNCHANGED vars
  PROVE  LocInv'
  <1>1. CASE Locator!ReadSections
    <2>1. CopiedSoFar'
      BY <1>1 DEF LocInv, CopiedSoFar, Locator!ReadSections
    <2>2. QED
      BY <1>1, <2>1, QuietKeeps DEF Locator!ReadSections
  <1>2. CASE Locator!NothingFound
    <2>1. CopiedSoFar'
      BY <1>2 DEF LocInv, CopiedSoFar, Locator!NothingFound
    <2>2. QED
      BY <1>2, <2>1, QuietKeeps DEF Locator!NothingFound
  <1>3. CASE Locator!ReadTotal
    <2>1. pc = "found" /\ best # Locator!NotFound /\ Locator!TotalSize \in Nat
      BY <1>3, TotalNat DEF Locator!ReadTotal, LocInv, BestInTime
    <2>2. Locator!TotalSize' = Locator!TotalSize
      BY <1>3 DEF Locator!ReadTotal, Locator!TotalSize
    <2>3. CopiedSoFar'
      BY <1>3, <2>1, <2>2 DEF LocInv, CopiedSoFar, Locator!ReadTotal
    <2>4. QED
      BY <1>3, <2>3, QuietKeeps DEF Locator!ReadTotal
  <1>4. CASE Locator!CopyRegion
    <2>1. pc = "region" /\ best # Locator!NotFound /\ Locator!TotalSize \in Nat /\ ReadSize \in Nat \ {0}
      BY <1>4, TotalNat, LocConstants DEF Locator!CopyRegion, LocInv, BestInTime
    <2>2. Locator!TotalSize' = Locator!TotalSize
      BY <1>4 DEF Locator!CopyRegion, Locator!TotalSize
    <2>3. copied \in Nat /\ copied < Locator!TotalSize /\ ok = FALSE
      BY <1>4, <2>1 DEF LocInv, CopiedSoFar, Locator!CopyRegion
    <2>4. PICK r : r = Locator!TotalSize - copied
      OBVIOUS
    <2>5. Locator!Min({ReadSize, r}) \in Nat /\ Locator!Min({ReadSize, r}) <= r
      <3>1. r \in Nat
        BY <2>1, <2>3, <2>4
      <3>2. QED
        BY <2>1, <3>1, LocMinOfTwo, MinNat
    <2>6. copied + Locator!Min({ReadSize, Locator!TotalSize - copied}) \in Nat
          /\ copied + Locator!Min({ReadSize, Locator!TotalSize - copied}) <= Locator!TotalSize
      BY <2>1, <2>3, <2>4, <2>5
    <2>7. CopiedSoFar'
      BY <1>4, <2>1, <2>2, <2>3, <2>6 DEF CopiedSoFar, Locator!CopyRegion, Locator!ClearOut
    <2>8. QED
      BY <1>4, <2>7, QuietKeeps DEF Locator!CopyRegion
  <1>5. CASE Locator!RegionDone
    <2>1. pc = "region" /\ best # Locator!NotFound
      BY <1>5 DEF Locator!RegionDone, LocInv, BestInTime
    <2>2. Locator!TotalSize' = Locator!TotalSize
      BY <1>5 DEF Locator!RegionDone, Locator!TotalSize
    <2>3. CopiedSoFar'
      BY <1>5, <2>1, <2>2 DEF CopiedSoFar, Locator!RegionDone, Locator!NotFound
    <2>4. QED
      BY <1>5, <2>3, QuietKeeps DEF Locator!RegionDone
  <1>6. CASE Locator!Expire
    <2>1. CopiedSoFar'
      BY <1>6 DEF LocInv, CopiedSoFar, Locator!Expire
    <2>2. QED
      BY <1>6, <2>1, QuietKeeps DEF Locator!Expire
  <1>7. CASE Locator!Returned \/ UNCHANGED vars
    <2>1. UNCHANGED <<module, locatorVars, scanVars, pc>>
      BY <1>7 DEF Locator!Returned, Locator!vars, vars, locatorVars, scanVars
    <2>2. Locator!TotalSize' = Locator!TotalSize
      BY <2>1 DEF locatorVars, Locator!TotalSize
    <2>3. CopiedSoFar'
      BY <2>1, <2>2 DEF LocInv, CopiedSoFar, locatorVars, Locator!NotFound
    <2>4. QED
      BY <2>1, <2>3, QuietKeeps DEF locatorVars, scanVars
  <1>8. QED
    BY <1>1, <1>2, <1>3, <1>4, <1>5, <1>6, <1>7

\* A next section: the one left is read to its end, or time is up.
LEMMA SectionKeeps ==
  ASSUME LocInv, Locator!NextSection
  PROVE  LocInv'
  <1> USE DEF Locator!NextSection
  <1>1. WordSize \in Nat \ {0} /\ 0 % WordSize = 0
    BY LocConstants
  <1>2. LocType'
    <2>1. LocModule' /\ section' \in Nat \ {0} /\ offset' = 0
      BY LocKept DEF LocInv, LocType
    <2>2. section' \in Locator!ScanSections' /\ offset' < Locator!Scanned'.size => InSection'
      BY <1>1, <2>1 DEF InSection
    <2>3. QED
      BY <2>1, <2>2 DEF LocInv, LocType
  <1>3. BestIsGenuine'
    <2>1. best = Locator!NotFound
      BY DEF LocInv, BestInTime
    <2>2. QED
      BY <2>1 DEF BestIsGenuine, Locator!NotFound
  <1>4. PagesAreGenuine' /\ BestInTime' /\ LookedAt'
    BY DEF LocInv, PagesAreGenuine, BestInTime, LookedAt, Locator!NotFound
  <1>5. LeftBehind'
    <2>1. SUFFICES ASSUME ~ expired, NEW i \in Locator!ScanSections,
                          NEW a \in Locator!WordsOf(Locator!Clipped(module.sections[i])), Before(i, a)'
                   PROVE  Before(i, a)
      <3>1. \A p : Lost(p)' <=> Lost(p)
        BY DEF Lost
      <3>2. QED
        BY <3>1, LocKept DEF LocInv, LeftBehind
    <2> DEFINE s == Locator!Clipped(module.sections[i])
    <2>2. /\ i \in Nat /\ s.rva \in Nat /\ s.size \in Nat /\ a \in Nat
          /\ s.rva <= a /\ a + WordSize <= s.rva + s.size
      BY SectionFacts, WordFacts DEF LocInv, LocType
    <2>3. section \in Nat /\ offset \in Nat
      BY DEF LocInv, LocType
    <2>4. i = section + 1 => ~ (a < Locator!ChunkAt')
      <3>1. ASSUME i = section + 1 PROVE Locator!ChunkAt' = s.rva + 0
        <4>1. Locator!Scanned' = s
          BY <3>1, LocKept DEF Locator!Scanned, Locator!Clipped
        <4>2. QED
          BY <4>1 DEF Locator!ChunkAt
      <3>2. QED
        BY <2>2, <3>1
    <2>5. i <= section
      BY <2>1, <2>2, <2>3, <2>4 DEF Before
    <2>6. CASE i = section
      <3>1. Locator!Scanned = s
        BY <2>6 DEF Locator!Scanned
      <3>2. offset >= s.size
        BY <2>1, <2>6, <3>1
      <3>3. Locator!ChunkAt = s.rva + offset
        BY <3>1 DEF Locator!ChunkAt
      <3>4. a < Locator!ChunkAt
        BY <1>1, <2>2, <2>3, <3>2, <3>3
      <3>5. QED
        BY <2>6, <3>4 DEF Before
    <2>7. QED
      BY <2>2, <2>3, <2>5, <2>6 DEF Before
  <1>6. CopiedSoFar'
    BY DEF LocInv, CopiedSoFar
  <1>7. QED
    BY <1>2, <1>3, <1>4, <1>5, <1>6 DEF LocInv

\* A word of the section from the chunk on.
LEMMA WordInChunk ==
  ASSUME LocModule, InSection, NEW a \in Locator!WordsOf(Locator!Scanned), a >= Locator!ChunkAt
  PROVE  /\ a \in Nat /\ a - Locator!ChunkAt \in Nat /\ (a - Locator!ChunkAt) % WordSize = 0
         /\ Locator!WordAt(a) \in Blobs \cup {NoBlob}
         /\ a < Locator!ChunkAt + Locator!ToRead =>
              a - Locator!ChunkAt <= Locator!ToRead - WordSize /\ Locator!ToRead >= WordSize
  <1>1. /\ a \in Nat /\ Locator!Scanned.rva <= a /\ a + WordSize <= Locator!Scanned.rva + Locator!Scanned.size
        /\ (a - Locator!Scanned.rva) % WordSize = 0 /\ a - Locator!Scanned.rva \in Nat
        /\ Locator!WordAt(a) \in Blobs \cup {NoBlob}
    BY WordFacts DEF InSection, Locator!Scanned
  <1>2. /\ Locator!ChunkAt \in Nat /\ Locator!ChunkAt = Locator!Scanned.rva + offset
        /\ Locator!ToRead \in Nat \ {0} /\ Locator!Scanned.rva \in Nat /\ Locator!Scanned.size \in Nat
        /\ Locator!ToRead = ChunkSize \/ offset + Locator!ToRead = Locator!Scanned.size
    BY ChunkFacts
  <1>3. offset \in Nat /\ offset % WordSize = 0 /\ WordSize \in Nat \ {0} /\ ChunkSize \in Nat
    BY LocConstants DEF InSection
  <1>4. PICK d \in Nat : d = a - Locator!ChunkAt
    BY <1>1, <1>2
  <1>5. d % WordSize = 0
    <2>1. d + offset = a - Locator!Scanned.rva
      BY <1>1, <1>2, <1>3, <1>4
    <2>2. (d + offset) % WordSize = 0
      BY <1>1, <2>1
    <2>3. QED
      BY <1>3, <2>2, SumOfTimes
  <1>6. ASSUME a < Locator!ChunkAt + Locator!ToRead PROVE d + WordSize <= Locator!ToRead
    <2>1. CASE Locator!ToRead = ChunkSize
      <3>1. d < ChunkSize
        BY <1>1, <1>2, <1>4, <1>6, <2>1
      <3>2. ChunkSize % WordSize = 0
        BY LocatorAssumption
      <3>3. QED
        BY <1>3, <1>5, <2>1, <3>1, <3>2, NextTimes
    <2>2. CASE offset + Locator!ToRead = Locator!Scanned.size
      BY <1>1, <1>2, <1>3, <1>4, <2>2
    <2>3. QED
      BY <1>2, <2>1, <2>2
  <1>7. QED
    BY <1>1, <1>2, <1>3, <1>4, <1>5, <1>6

\* The chunk is left: what it holds leads to nothing, or was lost.
LEMMA ChunkLeft ==
  ASSUME LeftBehind, LocModule, InSection, module' = module, section' = section,
         offset' = offset + Locator!ToRead, missed \subseteq missed', expired' = expired,
         ~ expired =>
           \A a \in Locator!WordsOf(Locator!Scanned) :
             a >= Locator!ChunkAt /\ a < Locator!ChunkAt + Locator!ToRead => Lost(Locator!WordAt(a))'
  PROVE  LeftBehind'
  <1>1. \A p : Lost(p) => Lost(p)'
    BY DEF Lost
  <1>2. \A a : Locator!WordAt(a)' = Locator!WordAt(a)
    BY LocKept
  <1>3. SUFFICES ASSUME ~ expired, NEW i \in Locator!ScanSections,
                        NEW a \in Locator!WordsOf(Locator!Clipped(module.sections[i])), Before(i, a)'
                 PROVE  Lost(Locator!WordAt(a))'
    BY LocKept DEF LeftBehind
  <1>4. CASE Before(i, a)
    <2>1. Lost(Locator!WordAt(a))
      BY <1>3, <1>4 DEF LeftBehind
    <2>2. QED
      BY <1>2, <2>1 DEF Lost
  <1>5. CASE ~ Before(i, a)
    <2>1. Locator!Scanned' = Locator!Scanned
      BY LocKept DEF Locator!Scanned
    <2>2. Locator!ChunkAt = Locator!Scanned.rva + offset /\ Locator!ChunkAt \in Nat
          /\ Locator!Scanned.rva \in Nat /\ offset \in Nat /\ Locator!ToRead \in Nat
      BY ChunkFacts DEF InSection
    <2>3. Locator!ChunkAt' = Locator!ChunkAt + Locator!ToRead
      BY <2>1, <2>2 DEF Locator!ChunkAt
    <2>4. i = section /\ ~ a < Locator!ChunkAt /\ a < Locator!ChunkAt + Locator!ToRead
      BY <1>3, <1>5, <2>3 DEF Before
    <2>5. a \in Locator!WordsOf(Locator!Scanned) /\ a \in Nat
      BY <2>4, WordFacts DEF Locator!Scanned
    <2>6. a >= Locator!ChunkAt
      BY <2>2, <2>4, <2>5
    <2>7. QED
      BY <1>3, <2>4, <2>5, <2>6
  <1>6. QED
    BY <1>4, <1>5

\* At the end of a chunk the next one begins at a whole word, or there is none.
LEMMA NextOffset ==
  ASSUME LocModule, InSection, module' = module, section' = section, offset' = offset + Locator!ToRead
  PROVE  /\ offset' \in Nat
         /\ section' \in Locator!ScanSections' /\ offset' < Locator!Scanned'.size => InSection'
  <1>1. offset \in Nat /\ offset % WordSize = 0 /\ WordSize \in Nat \ {0} /\ ChunkSize \in Nat
    BY LocConstants DEF InSection
  <1>2. /\ Locator!ToRead \in Nat \ {0} /\ Locator!Scanned.size \in Nat
        /\ Locator!ToRead = ChunkSize \/ offset + Locator!ToRead = Locator!Scanned.size
    BY ChunkFacts
  <1>3. Locator!Scanned' = Locator!Scanned
    BY LocKept DEF Locator!Scanned
  <1>4. offset' \in Nat
    BY <1>1, <1>2
  <1>5. ASSUME section' \in Locator!ScanSections', offset' < Locator!Scanned'.size
        PROVE  InSection'
    <2>1. offset' = offset + ChunkSize
      BY <1>1, <1>2, <1>3, <1>5
    <2>2. (offset + ChunkSize) % WordSize = 0
      BY <1>1, SumOfTimes, LocatorAssumption
    <2>3. offset' % WordSize = 0
      BY <2>1, <2>2
    <2>4. QED
      BY <1>4, <1>5, <2>3 DEF InSection
  <1>6. QED
    BY <1>4, <1>5

LEMMA ChunkKeeps ==
  ASSUME LocInv, Locator!ReadChunk
  PROVE  LocInv'
  <1>1. /\ pc = "chunk" /\ module' = module /\ section' = section /\ expired' = expired /\ pageMap' = pageMap
        /\ best' = best /\ copied' = copied /\ ok' = ok /\ ~ expired
        /\ best = Locator!NotFound /\ DOMAIN pageMap = {}
    BY DEF Locator!ReadChunk, LocInv, BestInTime
  <1>2. LocModule /\ InSection
    BY <1>1 DEF LocInv, LocType, Locator!ReadChunk
  <1>3. WordSize \in Nat \ {0} /\ 0 % WordSize = 0
    BY LocConstants
  <1>4. BestIsGenuine' /\ PagesAreGenuine' /\ CopiedSoFar'
    <2>1. pc' \in {"chunk", "word"}
      BY <1>1 DEF Locator!ReadChunk
    <2>2. best' = Locator!NotFound /\ DOMAIN pageMap' = {}
      BY <1>1
    <2>3. QED
      BY <1>1, <2>1, <2>2 DEF LocInv, CopiedSoFar, BestIsGenuine, PagesAreGenuine, Locator!NotFound
  <1>5. CASE /\ pc' = "word" /\ off' = 0
             /\ front' = (IF Locator!ToRead >= WordSize THEN Locator!WordAt(Locator!ChunkAt) ELSE front)
             /\ offset' = offset /\ missed' = missed
    <2>1. front' \in Blobs \cup {NoBlob}
      <3>1. ASSUME Locator!ToRead >= WordSize PROVE Locator!WordAt(Locator!ChunkAt) \in Blobs \cup {NoBlob}
        <4>1. /\ Locator!ChunkAt = Locator!Scanned.rva + offset /\ Locator!ToRead \in Nat
              /\ Locator!Scanned.rva \in Nat /\ Locator!Scanned.size \in Nat /\ offset \in Nat /\ offset % WordSize = 0
              /\ offset + Locator!ToRead <= Locator!Scanned.size
          BY <1>2, ChunkFacts DEF InSection
        <4>2. Locator!ChunkAt \in Locator!Scanned.rva..(Locator!Scanned.rva + Locator!Scanned.size - WordSize)
          BY <1>3, <3>1, <4>1
        <4>3. Locator!ChunkAt - Locator!Scanned.rva = offset
          BY <4>1
        <4>4. Locator!ChunkAt \in Locator!WordsOf(Locator!Scanned)
          BY <4>1, <4>2, <4>3 DEF Locator!WordsOf
        <4>5. Locator!ChunkAt >= Locator!ChunkAt
          BY <4>1
        <4>6. QED
          BY <1>2, <4>4, <4>5, WordInChunk
      <3>2. QED
        BY <1>5, <3>1 DEF LocInv, LocType
    <2>2. LocType'
      BY <1>1, <1>2, <1>3, <1>5, <2>1, LocKept, ChunkKept DEF LocInv, LocType
    <2>3. BestInTime'
      BY <1>1, <1>5 DEF BestInTime, Locator!NotFound
    <2>4. LookedAt'
      <3>1. SUFFICES ASSUME NEW a \in Locator!WordsOf(Locator!Scanned),
                            a >= Locator!ChunkAt, a + WordSize <= Locator!ChunkAt + 0
                     PROVE  FALSE
        BY <1>1, <1>5, ChunkKept DEF LookedAt
      <3>2. a \in Nat /\ Locator!ChunkAt \in Nat
        BY <1>2, <3>1, WordInChunk, ChunkFacts
      <3>3. QED
        BY <1>3, <3>1, <3>2
    <2>5. LeftBehind'
      BY <1>1, <1>5, LeftBehindKept DEF LocInv
    <2>6. QED
      BY <1>4, <2>2, <2>3, <2>4, <2>5 DEF LocInv
  <1>6. CASE /\ offset' = offset + Locator!ToRead
             /\ missed' = missed \cup Locator!PlacesIn(Locator!ChunkAt, Locator!ToRead)
             /\ pc' = pc /\ off' = off /\ front' = front
    <2>1. LocType'
      BY <1>1, <1>2, <1>6, LocKept, NextOffset DEF LocInv, LocType
    <2>2. BestInTime' /\ LookedAt'
      BY <1>1, <1>6 DEF BestInTime, LookedAt, Locator!NotFound
    <2>3. ASSUME NEW a \in Locator!WordsOf(Locator!Scanned), a >= Locator!ChunkAt,
                 a < Locator!ChunkAt + Locator!ToRead
          PROVE  Lost(Locator!WordAt(a))'
      <3>1. PICK d \in Nat : d = a - Locator!ChunkAt /\ d % WordSize = 0 /\ d <= Locator!ToRead - WordSize
        BY <1>2, <2>3, WordInChunk
      <3>2. Locator!ChunkAt \in Nat /\ Locator!ToRead \in Nat /\ a \in Nat
        BY <1>2, <2>3, WordInChunk, ChunkFacts
      <3>3. a = Locator!ChunkAt + d /\ d \in 0..(Locator!ToRead - WordSize)
        BY <1>3, <2>3, <3>1, <3>2
      <3>4. Locator!WordAt(a) = NoBlob \/ Locator!WordAt(a) \in missed'
        BY <1>6, <3>1, <3>3 DEF Locator!PlacesIn
      <3>5. Locator!WordAt(a)' = Locator!WordAt(a)
        BY <1>1, LocKept
      <3>6. QED
        BY <3>4, <3>5 DEF Lost
    <2>4. LeftBehind'
      BY <1>1, <1>2, <1>6, <2>3, ChunkLeft DEF LocInv
    <2>5. QED
      BY <1>4, <2>1, <2>2, <2>4 DEF LocInv
  <1>7. QED
    BY <1>5, <1>6 DEF Locator!ReadChunk

\* The word at off is where a pointer may be read from.
LEMMA FoundIsPlace ==
  ASSUME LocType, InSection, off <= Locator!Limit, NEW p \in Locator!Found, p # NoBlob
  PROVE  /\ p \in Blobs /\ Locator!ChunkAt + off \in Nat
         /\ IsPlace(Locator!ChunkAt + off, p)
  <1>1. /\ WordSize \in Nat \ {0} /\ ChunkSize \in Nat \ {0} /\ off \in Nat /\ off % WordSize = 0
        /\ offset \in Nat /\ offset % WordSize = 0 /\ section \in Locator!ScanSections /\ LocModule
    BY LocConstants DEF LocType, InSection
  <1>2. /\ Locator!Scanned.rva \in Nat /\ Locator!Scanned.size \in Nat \ {0}
        /\ Locator!ToRead \in Nat \ {0}
        /\ offset + Locator!ToRead <= Locator!Scanned.size
        /\ Locator!ToRead = ChunkSize \/ offset + Locator!ToRead = Locator!Scanned.size
        /\ Locator!ChunkAt \in Nat /\ Locator!ChunkAt = Locator!Scanned.rva + offset
        /\ Locator!Limit = IF Locator!ToRead >= WordSize THEN Locator!ToRead - WordSize ELSE 0
    BY <1>1, ChunkFacts
  <1>3. Locator!ChunkAt + off \in Nat
    BY <1>1, <1>2
  <1>4. CASE Locator!ToRead >= WordSize
    <2>1. p = Locator!WordAt(Locator!ChunkAt + off)
      BY <1>4 DEF Locator!Found
    <2>2. PICK a \in Nat : a = Locator!ChunkAt + off
      BY <1>3
    <2>3. a - Locator!Scanned.rva = offset + off /\ a \in Locator!Scanned.rva..(Locator!Scanned.rva + Locator!Scanned.size - WordSize)
      BY <1>1, <1>2, <1>4, <2>2
    <2>4. (offset + off) % WordSize = 0
      BY <1>1, SumOfTimes
    <2>5. a \in Locator!WordsOf(Locator!Scanned)
      BY <2>3, <2>4 DEF Locator!WordsOf
    <2>6. a \in Locator!ScannedWords /\ Locator!WordAt(a) \in Blobs \cup {NoBlob}
      BY <1>1, <2>5, WordFacts DEF Locator!Scanned
    <2>7. QED
      BY <1>3, <2>1, <2>2, <2>6 DEF IsPlace
  <1>5. CASE ~ Locator!ToRead >= WordSize
    <2>1. off = 0
      BY <1>1, <1>2, <1>5
    <2>2. p \in Blobs
      BY <1>5 DEF LocType, Locator!Found
    <2>3. Locator!ToRead # ChunkSize
      <3>1. 0 % WordSize = 0 /\ ChunkSize % WordSize = 0
        BY <1>1, LocatorAssumption
      <3>2. 0 + WordSize <= ChunkSize
        BY <1>1, <3>1, NextTimes
      <3>3. QED
        BY <1>1, <1>2, <1>5, <3>2
    <2>4. PICK n \in Nat : n = Locator!Scanned.size
      BY <1>2
    <2>5. offset <= n /\ n < offset + WordSize /\ offset < n
      BY <1>1, <1>2, <1>5, <2>3, <2>4
    <2>6. n - (n % WordSize) = offset
      BY <1>1, <2>5, RestOf
    <2>7. n % WordSize \in Int /\ n % WordSize # 0
      <3>1. PICK r \in Int : r = n % WordSize
        BY <1>1, DivMod
      <3>2. n - r = offset
        BY <2>6, <3>1
      <3>3. r # 0
        BY <1>1, <2>5, <3>2
      <3>4. QED
        BY <3>1, <3>3
    <2>8. Locator!ChunkAt + off = Locator!Scanned.rva + Locator!Scanned.size - (Locator!Scanned.size % WordSize)
      BY <1>1, <1>2, <2>1, <2>4, <2>6, <2>7
    <2>9. Locator!ChunkAt + off \in Locator!RaggedEnds
      BY <1>1, <2>4, <2>7, <2>8 DEF Locator!RaggedEnds, Locator!Scanned
    <2>10. QED
      BY <1>3, <2>2, <2>9 DEF IsPlace
  <1>6. QED
    BY <1>4, <1>5

\* The pages with one more candidate.
LEMMA AddedFacts ==
  ASSUME LocType, PagesAreGenuine, NEW p \in Blobs, Locator!ChunkAt + off \in Nat,
         IsPlace(Locator!ChunkAt + off, p), pageMap' = Locator!Added(p), module' = module
  PROVE  /\ PagesAreGenuine'
         /\ \A r : Waiting(r) => Waiting(r)'
         /\ Waiting(p)'
  <1> DEFINE cand == [at |-> Locator!ChunkAt + off, to |-> p]
             dest == PageOf[p]
             grown == IF dest \in DOMAIN pageMap THEN Append(pageMap[dest], cand) ELSE <<cand>>
  <1>1. cand \in Candidates
    BY DEF Candidates
  <1>2. /\ DOMAIN pageMap' = DOMAIN pageMap \cup {dest}
        /\ pageMap'[dest] = grown
        /\ \A q \in DOMAIN pageMap : q # dest => pageMap'[q] = pageMap[q]
    BY DEF Locator!Added
  <1>3. \A a, x : IsPlace(a, x)' <=> IsPlace(a, x)
    BY LocKept
  <1>4. /\ grown \in Seq(Candidates)
        /\ \A i \in DOMAIN grown : grown[i] = cand \/ (dest \in DOMAIN pageMap /\ i \in DOMAIN pageMap[dest] /\ grown[i] = pageMap[dest][i])
        /\ \E i \in DOMAIN grown : grown[i] = cand
        /\ dest \in DOMAIN pageMap => \A i \in DOMAIN pageMap[dest] : i \in DOMAIN grown /\ grown[i] = pageMap[dest][i]
    <2>1. CASE dest \in DOMAIN pageMap
      <3>1. PICK s \in Seq(Candidates) : s = pageMap[dest]
        BY <2>1 DEF PagesAreGenuine
      <3>2. PICK c \in Candidates : c = cand
        BY <1>1
      <3>3. grown = Append(s, c)
        BY <2>1, <3>1, <3>2
      <3>4. /\ Append(s, c) \in Seq(Candidates)
            /\ \A i \in DOMAIN Append(s, c) : Append(s, c)[i] = c \/ (i \in DOMAIN s /\ Append(s, c)[i] = s[i])
            /\ Len(s) + 1 \in DOMAIN Append(s, c) /\ Append(s, c)[Len(s) + 1] = c
            /\ \A i \in DOMAIN s : i \in DOMAIN Append(s, c) /\ Append(s, c)[i] = s[i]
        OBVIOUS
      <3>5. QED
        BY <2>1, <3>1, <3>2, <3>3, <3>4
    <2>2. CASE dest \notin DOMAIN pageMap
      <3>1. PICK c \in Candidates : c = cand
        BY <1>1
      <3>2. grown = <<c>>
        BY <2>2, <3>1
      <3>3. <<c>> \in Seq(Candidates) /\ (\A i \in DOMAIN <<c>> : <<c>>[i] = c) /\ 1 \in DOMAIN <<c>>
        OBVIOUS
      <3>4. QED
        BY <2>2, <3>1, <3>2, <3>3
    <2>3. QED
      BY <2>1, <2>2
  <1>5. PagesAreGenuine'
    <2>1. SUFFICES ASSUME NEW q \in DOMAIN pageMap'
                   PROVE  /\ pageMap'[q] \in Seq(Candidates)
                          /\ \A i \in DOMAIN pageMap'[q] :
                               PageOf[pageMap'[q][i].to] = q /\ IsPlace(pageMap'[q][i].at, pageMap'[q][i].to)
      BY <1>3 DEF PagesAreGenuine
    <2>2. CASE q # dest
      BY <1>2, <2>2 DEF PagesAreGenuine
    <2>3. CASE q = dest
      <3>1. pageMap'[q] = grown
        BY <1>2, <2>3
      <3>2. cand.to = p /\ cand.at = Locator!ChunkAt + off
        OBVIOUS
      <3>3. ASSUME NEW i \in DOMAIN grown
            PROVE  PageOf[grown[i].to] = dest /\ IsPlace(grown[i].at, grown[i].to)
        <4>1. CASE grown[i] = cand
          BY <3>2, <4>1
        <4>2. CASE dest \in DOMAIN pageMap /\ i \in DOMAIN pageMap[dest] /\ grown[i] = pageMap[dest][i]
          <5> HIDE DEF grown, dest
          <5>1. PageOf[pageMap[dest][i].to] = dest /\ IsPlace(pageMap[dest][i].at, pageMap[dest][i].to)
            BY <4>2 DEF PagesAreGenuine
          <5>2. QED
            BY <4>2, <5>1
        <4>3. QED
          BY <1>4, <4>1, <4>2
      <3>4. QED
        BY <1>4, <2>3, <3>1, <3>3
    <2>4. QED
      BY <2>2, <2>3
  <1>6. ASSUME NEW r, Waiting(r) PROVE Waiting(r)'
    <2>1. PICK q \in DOMAIN pageMap : \E i \in DOMAIN pageMap[q] : pageMap[q][i].to = r
      BY <1>6 DEF Waiting
    <2>2. PICK i \in DOMAIN pageMap[q] : pageMap[q][i].to = r
      BY <2>1
    <2>3. i \in DOMAIN pageMap'[q] /\ pageMap'[q][i] = pageMap[q][i]
      <3>1. CASE q # dest
        BY <1>2, <3>1
      <3>2. CASE q = dest
        BY <1>2, <1>4, <3>2
      <3>3. QED
        BY <3>1, <3>2
    <2>4. q \in DOMAIN pageMap'
      BY <1>2
    <2>5. QED
      BY <2>2, <2>3, <2>4 DEF Waiting
  <1>7. Waiting(p)'
    <2>1. PICK i \in DOMAIN grown : grown[i] = cand
      BY <1>4
    <2>2. i \in DOMAIN pageMap'[dest] /\ pageMap'[dest][i].to = p /\ dest \in DOMAIN pageMap'
      BY <1>2, <2>1
    <2>3. QED
      BY <2>2 DEF Waiting
  <1>8. QED
    BY <1>5, <1>6, <1>7

LEMMA WordKeeps ==
  ASSUME LocInv, Locator!LookAtWord
  PROVE  LocInv'
  <1>1. /\ pc = "word" /\ off <= Locator!Limit /\ off' = off + WordSize /\ pc' \in {"page", "word"}
        /\ UNCHANGED <<module, section, offset, front, best, expired, copied, ok, missed>>
    BY DEF Locator!LookAtWord
  <1>2. PICK p \in Locator!Found : pageMap' = IF p = NoBlob THEN pageMap ELSE Locator!Added(p)
    BY DEF Locator!LookAtWord
  <1>3. LocType /\ LocModule /\ InSection /\ PagesAreGenuine /\ best = Locator!NotFound
    BY <1>1 DEF LocInv, LocType, BestInTime
  <1>4. WordSize \in Nat \ {0} /\ WordSize % WordSize = 0 /\ off \in Nat /\ off % WordSize = 0
    <2>1. WordSize \in Nat \ {0}
      BY LocConstants
    <2>2. (1 * WordSize) % WordSize = 0
      BY <2>1, ModOfTimes
    <2>3. WordSize % WordSize = 0
      BY <2>1, <2>2
    <2>4. QED
      BY <1>3, <2>1, <2>3 DEF LocType
  <1>5. /\ PagesAreGenuine'
        /\ \A r : Waiting(r) => Waiting(r)'
        /\ p # NoBlob => Waiting(p)'
    <2>1. CASE p = NoBlob
      <3>1. pageMap' = pageMap
        BY <1>2, <2>1
      <3>2. \A a, x : IsPlace(a, x)' <=> IsPlace(a, x)
        BY <1>1, LocKept
      <3>3. QED
        BY <1>3, <2>1, <3>1, <3>2 DEF PagesAreGenuine, Waiting
    <2>2. CASE p # NoBlob
      <3>1. pageMap' = Locator!Added(p)
        BY <1>2, <2>2
      <3>2. p \in Blobs /\ Locator!ChunkAt + off \in Nat /\ IsPlace(Locator!ChunkAt + off, p)
        BY <1>1, <1>3, <2>2, FoundIsPlace
      <3>3. QED
        BY <1>1, <1>3, <3>1, <3>2, AddedFacts
    <2>3. QED
      BY <2>1, <2>2
  <1>6. LocType'
    <2>1. off' \in Nat /\ off' % WordSize = 0
      <3>1. off + WordSize \in Nat /\ WordSize \in Nat
        BY <1>4
      <3>2. (off + WordSize) % WordSize = 0 <=> off % WordSize = 0
        BY ONLY <1>4, <3>1, SumOfTimes
      <3>3. QED
        BY <1>1, <1>4, <3>1, <3>2
    <2>2. QED
      BY <1>1, <1>3, <2>1, LocKept, ChunkKept DEF LocType
  <1>7. BestIsGenuine' /\ BestInTime'
    BY <1>1, <1>3 DEF BestIsGenuine, BestInTime, Locator!NotFound
  <1>8. LookedAt'
    <2>1. SUFFICES ASSUME NEW a \in Locator!WordsOf(Locator!Scanned), a >= Locator!ChunkAt,
                          a + WordSize <= Locator!ChunkAt + (off + WordSize), Locator!WordAt(a) # NoBlob
                   PROVE  \/ Locator!Score(Locator!WordAt(a)) <= best.score
                          \/ Locator!WordAt(a) \in missed
                          \/ Waiting(Locator!WordAt(a))'
      <3>1. \A a : Locator!WordAt(a)' = Locator!WordAt(a)
        BY <1>1, LocKept
      <3>2. \A a : Waiting(Locator!WordAt(a))' <=> (\E q \in DOMAIN pageMap' : \E i \in DOMAIN pageMap'[q] : pageMap'[q][i].to = Locator!WordAt(a))
        BY <3>1 DEF Waiting
      <3>3. QED
        BY <1>1, <3>1, <3>2, ChunkKept DEF LookedAt, Waiting
    <2>2. PICK d \in Nat : d = a - Locator!ChunkAt /\ d % WordSize = 0
      BY <1>3, <2>1, WordInChunk
    <2>3. a \in Nat /\ Locator!ChunkAt \in Nat
      BY <1>3, <2>1, WordInChunk, ChunkFacts
    <2>4. d <= off /\ a = Locator!ChunkAt + d
      BY <1>4, <2>1, <2>2, <2>3
    <2>5. CASE d < off
      <3>1. d + WordSize <= off
        BY <1>4, <2>2, <2>5, NextTimes
      <3>2. a + WordSize <= Locator!ChunkAt + off
        BY <1>4, <2>2, <2>3, <2>4, <3>1
      <3>3. \/ Locator!Score(Locator!WordAt(a)) <= best.score
            \/ Locator!WordAt(a) \in missed
            \/ Waiting(Locator!WordAt(a))
        BY <1>1, <2>1, <3>2 DEF LocInv, LookedAt
      <3>4. Waiting(Locator!WordAt(a)) => Waiting(Locator!WordAt(a))'
        <4>1. Locator!WordAt(a)' = Locator!WordAt(a)
          BY <1>1, LocKept
        <4>2. PICK r : r = Locator!WordAt(a)
          OBVIOUS
        <4>3. Waiting(r) => Waiting(r)'
          BY <1>5
        <4>4. QED
          BY <4>1, <4>2, <4>3 DEF Waiting
      <3>5. QED
        BY <3>3, <3>4
    <2>6. CASE d = off
      <3>1. a < Locator!ChunkAt + Locator!ToRead /\ Locator!ToRead >= WordSize
        <4>1. /\ Locator!Limit = IF Locator!ToRead >= WordSize THEN Locator!ToRead - WordSize ELSE 0
              /\ Locator!ToRead \in Nat \ {0}
          BY <1>3, ChunkFacts
        <4>2. a < Locator!ChunkAt + Locator!ToRead
          BY <1>1, <1>4, <2>2, <2>3, <2>4, <2>6, <4>1
        <4>3. QED
          BY <1>3, <2>1, <4>2, WordInChunk
      <3>2. p = Locator!WordAt(a)
        BY <2>4, <2>6, <3>1 DEF Locator!Found
      <3>3. Locator!WordAt(a)' = Locator!WordAt(a)
        BY <1>1, LocKept
      <3>4. QED
        BY <1>5, <2>1, <3>2, <3>3 DEF Waiting
    <2>7. QED
      BY <1>4, <2>2, <2>4, <2>5, <2>6
  <1>9. LeftBehind' /\ CopiedSoFar'
    BY <1>1, LeftBehindKept DEF LocInv, CopiedSoFar
  <1>10. QED
    BY <1>5, <1>6, <1>7, <1>8, <1>9 DEF LocInv

\* The pages without the one just looked at.
LEMMA WithoutFacts ==
  ASSUME PagesAreGenuine, NEW q \in DOMAIN pageMap, pageMap' = Locator!Without(q), module' = module
  PROVE  /\ PagesAreGenuine'
         /\ DOMAIN pageMap' = DOMAIN pageMap \ {q}
         /\ \A r : Waiting(r) => Waiting(r)' \/ \E i \in DOMAIN pageMap[q] : pageMap[q][i].to = r
  <1>1. DOMAIN pageMap' = DOMAIN pageMap \ {q} /\ \A x \in DOMAIN pageMap' : pageMap'[x] = pageMap[x]
    BY DEF Locator!Without
  <1>2. \A a, x : IsPlace(a, x)' <=> IsPlace(a, x)
    BY LocKept
  <1>3. PagesAreGenuine'
    BY <1>1, <1>2 DEF PagesAreGenuine
  <1>4. QED
    BY <1>1, <1>3 DEF Waiting

LEMMA PageKeeps ==
  ASSUME LocInv, Locator!ReadPage
  PROVE  LocInv'
  <1>1. PICK q \in DOMAIN pageMap :
          /\ best' = Locator!BestOf(best, pageMap[q])
          /\ pageMap' = Locator!Without(q)
          /\ IF best' = Locator!NotFound THEN pc' = pc ELSE pc' \in {pc, "found"}
    BY DEF Locator!ReadPage, Locator!NotFound
  <1>2. /\ pc = "page"
        /\ UNCHANGED <<module, section, offset, off, front, expired, copied, ok, missed>>
    BY DEF Locator!ReadPage
  <1>3. LocModule /\ InSection /\ PagesAreGenuine /\ best.score \in Nat
    <2>1. best.score \in Nat
      BY DEF LocInv, BestIsGenuine, Locator!NotFound
    <2>2. QED
      BY <1>2, <2>1 DEF LocInv, LocType
  <1>4. pageMap[q] \in Seq(Candidates)
    BY <1>3 DEF PagesAreGenuine
  <1>5. /\ \/ best' = best
           \/ \E k \in DOMAIN pageMap[q] :
                /\ best' = [at |-> pageMap[q][k].at, to |-> pageMap[q][k].to,
                            score |-> Locator!Score(pageMap[q][k].to)]
                /\ Locator!Score(pageMap[q][k].to) > best.score
        /\ best'.score \in Nat /\ best'.score >= best.score
        /\ \A k \in DOMAIN pageMap[q] : Locator!Score(pageMap[q][k].to) <= best'.score
    BY <1>1, <1>3, <1>4, BestOfFacts
  <1>6. /\ PagesAreGenuine'
        /\ DOMAIN pageMap' = DOMAIN pageMap \ {q}
        /\ \A r : Waiting(r) => Waiting(r)' \/ \E i \in DOMAIN pageMap[q] : pageMap[q][i].to = r
    BY <1>1, <1>2, <1>3, WithoutFacts
  <1>7. LocType'
    BY <1>1, <1>2, <1>3, LocKept, ChunkKept DEF LocInv, LocType
  <1>8. best' # Locator!NotFound =>
          /\ best'.to \in Blobs /\ best'.score \in Nat \ {0} /\ best'.score = Locator!Score(best'.to)
          /\ IsPlace(best'.at, best'.to) /\ PageOf[best'.to] \notin DOMAIN pageMap'
    <2>1. CASE best' = best
      <3>1. best # Locator!NotFound => PageOf[best.to] \notin DOMAIN pageMap
        BY <1>2 DEF LocInv, BestInTime
      <3>2. QED
        BY <1>6, <2>1, <3>1 DEF LocInv, BestIsGenuine
    <2>2. ASSUME NEW k \in DOMAIN pageMap[q],
                 best' = [at |-> pageMap[q][k].at, to |-> pageMap[q][k].to,
                          score |-> Locator!Score(pageMap[q][k].to)],
                 Locator!Score(pageMap[q][k].to) > best.score
          PROVE  /\ best'.to \in Blobs /\ best'.score \in Nat \ {0} /\ best'.score = Locator!Score(best'.to)
                 /\ IsPlace(best'.at, best'.to) /\ PageOf[best'.to] \notin DOMAIN pageMap'
      <3>1. pageMap[q][k] \in Candidates
        BY <1>4, SeqElement
      <3>2. pageMap[q][k].to \in Blobs
        BY <3>1 DEF Candidates
      <3>3. Locator!Score(pageMap[q][k].to) \in Nat \ {0}
        BY <1>3, <2>2, <3>2, ScoreNat
      <3>4. PageOf[pageMap[q][k].to] = q /\ IsPlace(pageMap[q][k].at, pageMap[q][k].to)
        BY <1>3 DEF PagesAreGenuine
      <3>5. PICK c : c = pageMap[q][k]
        OBVIOUS
      <3>6. best'.at = c.at /\ best'.to = c.to /\ best'.score = Locator!Score(c.to)
        BY <2>2, <3>5
      <3>7. c.to \in Blobs /\ Locator!Score(c.to) \in Nat \ {0} /\ PageOf[c.to] = q /\ IsPlace(c.at, c.to)
        BY <3>2, <3>3, <3>4, <3>5
      <3>8. QED
        BY <1>6, <3>6, <3>7
    <2>3. QED
      BY <1>5, <2>1, <2>2
  <1>9. BestIsGenuine'
    <2>1. \A a, x : IsPlace(a, x)' <=> IsPlace(a, x)
      BY <1>2, LocKept
    <2>2. PICK b : b = best'
      OBVIOUS
    <2>3. IsPlace(b.at, b.to) => IsPlace(best.at, best.to)'
      BY <2>1, <2>2 DEF IsPlace
    <2>4. QED
      BY <1>8, <2>2, <2>3 DEF BestIsGenuine, Locator!NotFound
  <1>10. BestInTime'
    BY <1>1, <1>2, <1>8 DEF BestInTime, Locator!NotFound
  <1>11. LookedAt'
    <2>1. SUFFICES ASSUME NEW a \in Locator!WordsOf(Locator!Scanned), a >= Locator!ChunkAt,
                          a + WordSize <= Locator!ChunkAt + off, Locator!WordAt(a) # NoBlob
                   PROVE  \/ Locator!Score(Locator!WordAt(a)) <= best'.score
                          \/ Locator!WordAt(a) \in missed
                          \/ Waiting(Locator!WordAt(a))'
      BY <1>2, LocKept, ChunkKept DEF LookedAt, Waiting
    <2>2. PICK r \in Blobs : r = Locator!WordAt(a)
      BY <1>3, <2>1, WordInChunk
    <2>3. Locator!Score(r) <= best.score \/ r \in missed \/ Waiting(r)
      BY <1>2, <2>1, <2>2 DEF LocInv, LookedAt
    <2>4. Locator!Score(r) \in Nat
      BY ScoreNat
    <2>5. Locator!Score(r) <= best'.score \/ r \in missed \/ Waiting(r)'
      BY <1>3, <1>5, <1>6, <2>3, <2>4
    <2>6. Waiting(r)' => Waiting(Locator!WordAt(a))'
      <3>1. Locator!WordAt(a)' = Locator!WordAt(a)
        BY <1>2, LocKept
      <3>2. QED
        BY <2>2, <3>1 DEF Waiting
    <2>7. QED
      BY <2>2, <2>5, <2>6
  <1>12. LeftBehind' /\ CopiedSoFar'
    BY <1>1, <1>2, LeftBehindKept DEF LocInv, CopiedSoFar
  <1>13. QED
    BY <1>6, <1>7, <1>9, <1>10, <1>11, <1>12 DEF LocInv

LEMMA LostPageKeeps ==
  ASSUME LocInv, Locator!PageUnreadable
  PROVE  LocInv'
  <1>1. PICK q \in DOMAIN pageMap :
          /\ pageMap' = Locator!Without(q)
          /\ missed' = missed \cup {c.to : c \in Locator!Range(pageMap[q])}
    BY DEF Locator!PageUnreadable
  <1>2. pc = "page" /\ UNCHANGED <<module, pc, section, offset, off, front, best, expired, copied, ok>>
    BY DEF Locator!PageUnreadable
  <1>3. LocModule /\ InSection /\ PagesAreGenuine
    BY <1>2 DEF LocInv, LocType
  <1>4. \A i \in DOMAIN pageMap[q] : pageMap[q][i].to \in missed'
    BY <1>1 DEF Locator!Range
  <1>5. /\ PagesAreGenuine'
        /\ DOMAIN pageMap' = DOMAIN pageMap \ {q}
        /\ \A r : Waiting(r) => Waiting(r)' \/ \E i \in DOMAIN pageMap[q] : pageMap[q][i].to = r
    BY <1>1, <1>2, <1>3, WithoutFacts
  <1>6. LocType'
    BY <1>1, <1>2, <1>3, LocKept, ChunkKept DEF LocInv, LocType
  <1>7. BestIsGenuine'
    <2>1. \A a, x : IsPlace(a, x)' <=> IsPlace(a, x)
      BY <1>2, LocKept
    <2>2. IsPlace(best.at, best.to)' <=> IsPlace(best.at, best.to)
      BY <1>2, <2>1 DEF IsPlace
    <2>3. QED
      BY <1>2, <2>2 DEF LocInv, BestIsGenuine, Locator!NotFound
  <1>8. BestInTime'
    BY <1>2, <1>5 DEF LocInv, BestInTime, Locator!NotFound
  <1>9. LookedAt'
    <2>1. SUFFICES ASSUME NEW a \in Locator!WordsOf(Locator!Scanned), a >= Locator!ChunkAt,
                          a + WordSize <= Locator!ChunkAt + off, Locator!WordAt(a) # NoBlob
                   PROVE  \/ Locator!Score(Locator!WordAt(a)) <= best.score
                          \/ Locator!WordAt(a) \in missed'
                          \/ Waiting(Locator!WordAt(a))'
      BY <1>2, LocKept, ChunkKept DEF LookedAt, Waiting
    <2>2. PICK r : r = Locator!WordAt(a)
      OBVIOUS
    <2>3. Locator!Score(r) <= best.score \/ r \in missed \/ Waiting(r)
      BY <1>2, <2>1, <2>2 DEF LocInv, LookedAt
    <2>4. Locator!Score(r) <= best.score \/ r \in missed' \/ Waiting(r)'
      BY <1>1, <1>4, <1>5, <2>3
    <2>5. Waiting(r)' => Waiting(Locator!WordAt(a))'
      <3>1. Locator!WordAt(a)' = Locator!WordAt(a)
        BY <1>2, LocKept
      <3>2. QED
        BY <2>2, <3>1 DEF Waiting
    <2>6. QED
      BY <2>2, <2>4, <2>5
  <1>10. LeftBehind' /\ CopiedSoFar'
    BY <1>1, <1>2, LeftBehindKept DEF LocInv, CopiedSoFar, Locator!NotFound, Locator!TotalSize
  <1>11. QED
    BY <1>5, <1>6, <1>7, <1>8, <1>9, <1>10 DEF LocInv

LEMMA PagesDoneKeeps ==
  ASSUME LocInv, Locator!PagesDone
  PROVE  LocInv'
  <1>1. pc = "page" /\ pageMap = <<>>
        /\ UNCHANGED <<module, section, off, front, pageMap, best, expired, copied, ok, missed>>
    BY DEF Locator!PagesDone
  <1>2. LocModule /\ InSection /\ DOMAIN pageMap = {}
    BY <1>1 DEF LocInv, LocType
  <1>3. CopiedSoFar /\ copied = 0 /\ ok = FALSE
    BY <1>1 DEF LocInv, CopiedSoFar
  <1>4. CASE best # Locator!NotFound
    <2>1. pc' = "found" /\ offset' = offset
      BY <1>4 DEF Locator!PagesDone, Locator!NotFound
    <2>2. LocType'
      BY <1>1, <1>2, <2>1, LocKept, ChunkKept DEF LocInv, LocType
    <2>3. BestIsGenuine'
      <3>1. \A a, x : IsPlace(a, x)' <=> IsPlace(a, x)
        BY <1>1, LocKept
      <3>2. IsPlace(best.at, best.to)' <=> IsPlace(best.at, best.to)
        BY <1>1, <3>1 DEF IsPlace
      <3>3. QED
        BY <1>1, <3>2 DEF LocInv, BestIsGenuine, Locator!NotFound
    <2>4. PagesAreGenuine' /\ BestInTime'
      BY <1>1, <1>2, <1>4, <2>1 DEF PagesAreGenuine, BestInTime, Locator!NotFound
    <2>5. LookedAt'
      <3>1. \A p : Waiting(p)' <=> Waiting(p)
        BY <1>1 DEF Waiting
      <3>2. QED
        BY <1>1, <2>1, <3>1, LocKept, ChunkKept DEF LocInv, LookedAt
    <2>6. LeftBehind' /\ CopiedSoFar'
      BY <1>1, <1>3, <2>1, LeftBehindKept DEF LocInv, CopiedSoFar
    <2>7. QED
      BY <2>2, <2>3, <2>4, <2>5, <2>6 DEF LocInv
  <1>5. CASE best = Locator!NotFound /\ ~ off > Locator!Limit
    <2>1. pc' = "word" /\ offset' = offset
      BY <1>5 DEF Locator!PagesDone, Locator!NotFound
    <2>2. LocType'
      BY <1>1, <1>2, <2>1, LocKept, ChunkKept DEF LocInv, LocType
    <2>3. BestIsGenuine' /\ PagesAreGenuine' /\ BestInTime'
      BY <1>1, <1>2, <1>5, <2>1 DEF PagesAreGenuine, BestInTime, BestIsGenuine, Locator!NotFound
    <2>4. LookedAt'
      <3>1. \A p : Waiting(p)' <=> Waiting(p)
        BY <1>1 DEF Waiting
      <3>2. QED
        BY <1>1, <2>1, <3>1, LocKept, ChunkKept DEF LocInv, LookedAt
    <2>5. LeftBehind' /\ CopiedSoFar'
      BY <1>1, <1>3, <2>1, LeftBehindKept DEF LocInv, CopiedSoFar
    <2>6. QED
      BY <2>2, <2>3, <2>4, <2>5 DEF LocInv
  <1>6. CASE best = Locator!NotFound /\ off > Locator!Limit
    <2>1. pc' = "chunk" /\ offset' = offset + Locator!ToRead
      BY <1>6 DEF Locator!PagesDone, Locator!NotFound
    <2>2. LocType'
      BY <1>1, <1>2, <2>1, LocKept, NextOffset DEF LocInv, LocType
    <2>3. BestIsGenuine' /\ PagesAreGenuine' /\ BestInTime' /\ LookedAt'
      BY <1>1, <1>2, <1>6, <2>1 DEF PagesAreGenuine, BestInTime, BestIsGenuine, LookedAt, Locator!NotFound
    <2>4. ASSUME NEW a \in Locator!WordsOf(Locator!Scanned), a >= Locator!ChunkAt,
                 a < Locator!ChunkAt + Locator!ToRead
          PROVE  Lost(Locator!WordAt(a))'
      <3>1. PICK d \in Nat : d = a - Locator!ChunkAt /\ d % WordSize = 0 /\ d <= Locator!ToRead - WordSize
        BY <1>2, <2>4, WordInChunk
      <3>2. /\ Locator!ChunkAt \in Nat /\ Locator!ToRead \in Nat /\ a \in Nat /\ Locator!ToRead >= WordSize
            /\ Locator!WordAt(a) \in Blobs \cup {NoBlob}
            /\ Locator!Limit = IF Locator!ToRead >= WordSize THEN Locator!ToRead - WordSize ELSE 0
        BY <1>2, <2>4, WordInChunk, ChunkFacts
      <3>3. WordSize \in Nat \ {0} /\ off \in Nat /\ off % WordSize = 0
        BY LocConstants DEF LocInv, LocType
      <3>4. d < off
        BY <1>6, <3>1, <3>2, <3>3
      <3>5. d + WordSize <= off
        BY <3>1, <3>3, <3>4, NextTimes
      <3>6. a + WordSize <= Locator!ChunkAt + off
        BY <3>1, <3>2, <3>3, <3>5
      <3>7. Locator!WordAt(a)' = Locator!WordAt(a)
        BY <1>1, LocKept
      <3>8. CASE Locator!WordAt(a) = NoBlob
        BY <3>7, <3>8 DEF Lost
      <3>9. CASE Locator!WordAt(a) # NoBlob
        <4>1. Locator!Score(Locator!WordAt(a)) <= best.score \/ Locator!WordAt(a) \in missed
          BY <1>1, <1>2, <2>4, <3>6, <3>9 DEF LocInv, LookedAt, Waiting
        <4>2. best.score = 0
          BY <1>6 DEF Locator!NotFound
        <4>3. Locator!Score(Locator!WordAt(a)) \in Nat
          BY <3>2, <3>9, ScoreNat
        <4>4. Lost(Locator!WordAt(a))
          BY <4>1, <4>2, <4>3 DEF Lost
        <4>5. QED
          BY <1>1, <3>7, <4>4 DEF Lost
      <3>10. QED
        BY <3>8, <3>9
    <2>5. LeftBehind'
      BY <1>1, <1>2, <2>1, <2>4, ChunkLeft DEF LocInv
    <2>6. CopiedSoFar'
      BY <1>1, <1>3, <2>1 DEF CopiedSoFar
    <2>7. QED
      BY <2>2, <2>3, <2>5, <2>6 DEF LocInv
  <1>7. QED
    BY <1>4, <1>5, <1>6

LEMMA LocatorStep ==
  ASSUME LocInv, Locator!Next \/ UNCHANGED vars
  PROVE  LocInv'
  BY QuietSteps, SectionKeeps, ChunkKeeps, WordKeeps, PageKeeps, LostPageKeeps, PagesDoneKeeps DEF Locator!Next

LocatorCall == world = "locator" => LocInv

LEMMA LocatorCallHolds == Spec => []LocatorCall
  <1>1. Init => LocatorCall
    <2>1. Init /\ world = "locator" => Locator!Init
      BY DEF Init, PatternInit, LocatorInit, RegistrationInit, OfflineInit, ClassInit
    <2>2. QED
      BY <2>1, LocatorStarts DEF LocatorCall
  <1>2. LocatorCall /\ [Next]_vars => LocatorCall'
    <2> SUFFICES ASSUME LocatorCall, [Next]_vars, world' = "locator"
                 PROVE  LocInv'
      BY DEF LocatorCall
    <2>1. world' = world
      BY DEF Next, PatternNext, LocatorNext, RegistrationNext, OfflineNext, ClassNext, vars
    <2>2. LocInv
      BY <2>1 DEF LocatorCall
    <2>3. Locator!Next \/ UNCHANGED vars
      <3>1. world = "locator"
        BY <2>1
      <3>2. QED
        BY <3>1 DEF Next, PatternNext, LocatorNext, RegistrationNext, OfflineNext, ClassNext
    <2>4. QED
      BY <2>2, <2>3, LocatorStep
  <1>3. QED
    BY <1>1, <1>2, PTL DEF Spec

\* What the search takes for the metadata is a header a word of a scanned
\* section leads to, and none of its page whose word came before scores better,
\* however often the candidates collected were given up in between; and with
\* time left it returns empty-handed only past headers it could not read.
THEOREM MetadataIsBest == Spec => []BestHeaderFound
  <1>1. ASSUME LocInv PROVE Locator!FoundIsGenuine
    <2>1. SUFFICES ASSUME best # Locator!NotFound PROVE
            /\ best.score = Locator!Score(best.to)
            /\ \/ best.at \in Locator!ScannedWords /\ Locator!WordAt(best.at) = best.to
               \/ best.at \in Locator!RaggedEnds
            /\ pc = "found" =>
                 \A a \in Locator!WordsOf(Locator!Scanned) :
                   /\ Locator!WordAt(a) # NoBlob /\ PageOf[Locator!WordAt(a)] = PageOf[best.to]
                   /\ a \in Locator!ChunkAt..(Locator!ChunkAt + off - WordSize)
                   => Locator!Score(Locator!WordAt(a)) <= best.score \/ Locator!WordAt(a) \in missed
      BY DEF Locator!FoundIsGenuine
    <2>2. /\ best.score = Locator!Score(best.to)
          /\ \/ best.at \in Locator!ScannedWords /\ Locator!WordAt(best.at) = best.to
             \/ best.at \in Locator!RaggedEnds
      BY <1>1, <2>1 DEF LocInv, BestIsGenuine, IsPlace
    <2>3. ASSUME pc = "found", NEW a \in Locator!WordsOf(Locator!Scanned), Locator!WordAt(a) # NoBlob,
                 PageOf[Locator!WordAt(a)] = PageOf[best.to],
                 a \in Locator!ChunkAt..(Locator!ChunkAt + off - WordSize)
          PROVE  Locator!Score(Locator!WordAt(a)) <= best.score \/ Locator!WordAt(a) \in missed
      <3>1. LocModule /\ InSection /\ off \in Nat /\ WordSize \in Nat
        BY <1>1, <2>3, LocConstants DEF LocInv, LocType
      <3>2. Locator!ChunkAt \in Nat
        BY <3>1, ChunkFacts
      <3>3. a \in Int /\ a >= Locator!ChunkAt /\ a + WordSize <= Locator!ChunkAt + off
        BY <2>3, <3>1, <3>2
      <3>4. \/ Locator!Score(Locator!WordAt(a)) <= best.score
            \/ Locator!WordAt(a) \in missed
            \/ Waiting(Locator!WordAt(a))
        BY <1>1, <2>3, <3>3 DEF LocInv, LookedAt
      <3>5. ~ Waiting(Locator!WordAt(a))
        <4>1. PageOf[best.to] \notin DOMAIN pageMap
          BY <1>1, <2>1, <2>3 DEF LocInv, BestInTime
        <4>2. Waiting(Locator!WordAt(a)) => PageOf[Locator!WordAt(a)] \in DOMAIN pageMap
          BY <1>1 DEF LocInv, PagesAreGenuine, Waiting
        <4>3. QED
          BY <2>3, <4>1, <4>2
      <3>6. QED
        BY <3>4, <3>5
    <2>4. QED
      BY <2>2, <2>3
  <1>2. ASSUME LocInv PROVE Locator!NothingPassedOver
    <2>1. SUFFICES ASSUME ~ expired, section > Len(module.sections), NEW a \in Locator!ScannedWords,
                          Locator!WordAt(a) # NoBlob, Locator!Score(Locator!WordAt(a)) > 0
                   PROVE  Locator!WordAt(a) \in missed
      BY DEF Locator!NothingPassedOver
    <2>2. PICK i \in Locator!ScanSections : a \in Locator!WordsOf(Locator!Clipped(module.sections[i]))
      BY <2>1 DEF Locator!ScannedWords
    <2>3. i \in 1..Len(module.sections) /\ section \in Nat /\ Len(module.sections) \in Nat
      BY <1>2, SectionFacts, LocatorAssumption DEF LocInv, LocType, LocModule
    <2>4. Before(i, a)
      BY <2>1, <2>3 DEF Before
    <2>5. Lost(Locator!WordAt(a))
      BY <1>2, <2>1, <2>2, <2>4 DEF LocInv, LeftBehind
    <2>6. QED
      BY <2>1, <2>5 DEF Lost
  <1>3. LocatorCall => BestHeaderFound
    BY <1>1, <1>2 DEF LocatorCall, BestHeaderFound
  <1>4. QED
    BY <1>3, LocatorCallHolds, PTL

\* ExportMetadataByScore hands out the image up to the end of its last table,
\* whatever the table is, or nothing: also when a read in the middle fails.
THEOREM WholeOrNothing == Spec => []ExportAllOrNothing
  <1>1. ASSUME LocInv PROVE Locator!ExportAllOrNothing
    <2>1. SUFFICES ASSUME pc = "returned" PROVE
            IF ok THEN /\ copied = Locator!MaxEndOf(HeaderAt[best.to])
                       /\ \A t \in Locator!Used(HeaderAt[best.to]) : Locator!EndOf(HeaderAt[best.to], t) <= copied
            ELSE copied = 0
      BY DEF Locator!ExportAllOrNothing
    <2>2. CASE ~ ok
      BY <1>1, <2>1, <2>2 DEF LocInv, CopiedSoFar
    <2>3. CASE ok
      <3>1. best # Locator!NotFound /\ copied = Locator!MaxEndOf(HeaderAt[best.to])
        BY <1>1, <2>1, <2>3 DEF LocInv, CopiedSoFar, Locator!TotalSize, Locator!CalcTotalSizeFromHeader
      <3>2. HeaderAt[best.to] \in Locator!Headers
        BY <1>1, <3>1, LocatorAssumption DEF LocInv, BestIsGenuine
      <3>3. \A t \in Locator!Used(HeaderAt[best.to]) :
              Locator!EndOf(HeaderAt[best.to], t) <= Locator!MaxEndOf(HeaderAt[best.to])
        BY <3>2, MaxEndFacts
      <3>4. QED
        BY <2>3, <3>1, <3>3
    <2>4. QED
      BY <2>2, <2>3
  <1>2. LocatorCall => ExportAllOrNothing
    BY <1>1 DEF LocatorCall, ExportAllOrNothing
  <1>3. QED
    BY <1>2, LocatorCallHolds, PTL

(***************************************************************************)
(* PatternScan.                                                            *)
(***************************************************************************)
PatArgs ==
  /\ map \in Maps /\ memory \in [Pattern!Addresses(map) -> Bytes] /\ pattern \in Patterns
  /\ chunkSize \in Nat \ {0} /\ maxHits \in HitLimits

LEMMA PatFacts ==
  ASSUME PatArgs
  PROVE  /\ Len(map) \in Nat /\ DOMAIN map = 1..Len(map)
         /\ \A r \in 1..Len(map) :
              /\ map[r].start \in Nat /\ map[r].size \in Nat
              /\ map[r].lost \subseteq Nat /\ map[r].lost \subseteq 0..(map[r].size - 1)
         /\ \A i, j \in 1..Len(map) : i < j => map[i].start + map[i].size <= map[j].start
         /\ pattern \in Seq(Bytes) /\ Len(pattern) \in Nat \ {0}
         /\ maxHits \in Nat
         /\ \A r \in 1..Len(map) : \A o \in 0..(map[r].size - 1) : memory[map[r].start + o] \in Bytes
  <1> DEFINE Region == [start : Nat, size : Nat, scanned : BOOLEAN, lost : SUBSET Nat]
  <1>1. map \in Seq(Region)
    BY PatternAssumption DEF PatArgs
  <1>2. Len(map) \in Nat /\ DOMAIN map = 1..Len(map)
    <2> HIDE DEF Region
    <2>1. QED
      BY <1>1
  <1>3. ASSUME NEW r \in 1..Len(map)
        PROVE  /\ map[r].start \in Nat /\ map[r].size \in Nat
               /\ map[r].lost \subseteq Nat /\ map[r].lost \subseteq 0..(map[r].size - 1)
    <2>1. map[r] \in Region
      <3> HIDE DEF Region
      <3>1. QED
        BY <1>1, <1>2, SeqElement
    <2>2. map[r].lost \subseteq 0..(map[r].size - 1)
      BY <1>2, PatternAssumption DEF PatArgs
    <2>3. QED
      BY <2>1, <2>2
  <1>4. \A i, j \in 1..Len(map) : i < j => map[i].start + map[i].size <= map[j].start
    BY <1>2, PatternAssumption DEF PatArgs
  <1>5. pattern \in Seq(Bytes) /\ Len(pattern) \in Nat \ {0}
    <2>1. pattern \in Seq(Bytes) /\ pattern # <<>>
      BY PatternAssumption DEF PatArgs
    <2>2. QED
      BY <2>1
  <1>6. maxHits \in Nat
    BY PatternAssumption DEF PatArgs
  <1>7. ASSUME NEW r \in 1..Len(map), NEW o \in 0..(map[r].size - 1)
        PROVE  memory[map[r].start + o] \in Bytes
    <2>1. map[r].start \in Nat /\ map[r].size \in Nat
      BY <1>3
    <2>2. map[r].start + o \in map[r].start..(map[r].start + map[r].size - 1)
      BY <2>1
    <2>3. map[r].start + o \in Pattern!Addresses(map)
      BY <1>2, <2>2 DEF Pattern!Addresses
    <2>4. QED
      BY <2>3 DEF PatArgs
  <1>8. QED
    BY <1>2, <1>3, <1>4, <1>5, <1>6, <1>7

LEMMA PatMinOfTwo ==
  ASSUME NEW a \in Int, NEW b \in Int
  PROVE  /\ Pattern!Min({a, b}) \in {a, b}
         /\ Pattern!Min({a, b}) <= a /\ Pattern!Min({a, b}) <= b
  <1>1. PICK x \in {a, b} : \A y \in {a, b} : x <= y
    OBVIOUS
  <1>2. QED
    BY <1>1 DEF Pattern!Min

\* The number of the chunk a byte is in.
LEMMA SameChunk ==
  ASSUME NEW w \in Nat \ {0}, NEW a \in Nat, NEW b \in Nat, a % w = 0, a <= b, b < a + w
  PROVE  b \div w = a \div w
  <1>1. a = w * (a \div w) + (a % w) /\ a \div w \in Int
    BY DivMod
  <1>2. b = w * (b \div w) + (b % w) /\ b \div w \in Int /\ b % w \in Int
    BY DivMod
  <1>3. b - (b % w) = a
    BY RestOf
  <1>4. PICK i \in Int, j \in Int : i = a \div w /\ j = b \div w
    BY <1>1, <1>2
  <1>5. w * j = w * i
    BY <1>1, <1>2, <1>3, <1>4
  <1>6. i = j
    BY ONLY <1>5, w \in Nat \ {0}, i \in Int, j \in Int
  <1>7. QED
    BY <1>4, <1>6

LEMMA OtherChunk ==
  ASSUME NEW w \in Nat \ {0}, NEW a \in Nat, NEW b \in Nat, a % w = 0, b \div w = a \div w
  PROVE  a <= b /\ b < a + w
  <1>1. a = w * (a \div w) + (a % w) /\ a \div w \in Int
    BY DivMod
  <1>2. b = w * (b \div w) + (b % w) /\ b % w \in 0..(w - 1)
    BY DivMod
  <1>3. PICK k \in Int : k = w * (a \div w)
    BY <1>1
  <1>4. a = k /\ b = k + (b % w)
    BY <1>1, <1>2, <1>3
  <1>5. QED
    BY <1>2, <1>4

\* The chunk about to be read.
InRegion ==
  /\ region \in 1..Len(map)
  /\ readAddr \in Nat /\ readAddr % chunkSize = 0 /\ readAddr < map[region].size

LEMMA ReadFacts ==
  ASSUME PatArgs, InRegion
  PROVE  /\ Pattern!ChunkLength \in Nat \ {0} /\ Pattern!ChunkLength <= chunkSize
         /\ readAddr + Pattern!ChunkLength <= map[region].size
         /\ Pattern!ChunkLength = chunkSize \/ readAddr + Pattern!ChunkLength = map[region].size
  <1>1. map[region].size \in Nat /\ chunkSize \in Nat \ {0} /\ readAddr \in Nat /\ readAddr < map[region].size
    BY PatFacts DEF InRegion, PatArgs
  <1>2. PICK r \in Nat \ {0} : r = map[region].size - readAddr
    BY <1>1
  <1>3. /\ Pattern!ChunkLength \in {chunkSize, r}
        /\ Pattern!ChunkLength <= chunkSize /\ Pattern!ChunkLength <= r
    <2>1. Pattern!ChunkLength = Pattern!Min({chunkSize, r})
      BY <1>2 DEF Pattern!ChunkLength
    <2>2. chunkSize \in Int /\ r \in Int
      BY <1>1, <1>2
    <2>3. QED
      BY <2>1, <2>2, PatMinOfTwo
  <1>4. QED
    BY <1>1, <1>2, <1>3

\* s holds the last bytes before offset a that can be read, as many as matter.
TailFits(s, a) ==
  /\ s \in Seq(Bytes) /\ Len(s) <= Len(pattern) - 1 /\ Len(s) <= a
  /\ \A j \in 1..Len(s) :
       /\ s[j] = memory[map[region].start + (a - Len(s) + j - 1)]
       /\ (a - Len(s) + j - 1) \div chunkSize \notin Pattern!Lost(region)
  /\ \/ Len(s) = Len(pattern) - 1
     \/ Len(s) = a
     \/ (a - Len(s) - 1) \div chunkSize \in Pattern!Lost(region)

\* A chunk can be read if none of its bytes is lost.
LEMMA ChunkLost ==
  ASSUME PatArgs, InRegion
  PROVE  /\ Pattern!ReadFails <=> readAddr \div chunkSize \in Pattern!Lost(region)
         /\ \A b \in readAddr..(readAddr + Pattern!ChunkLength - 1) : b \div chunkSize = readAddr \div chunkSize
  <1>1. /\ chunkSize \in Nat \ {0} /\ readAddr \in Nat /\ readAddr % chunkSize = 0
        /\ map[region].lost \subseteq Nat /\ map[region].lost \subseteq 0..(map[region].size - 1) /\ map[region].size \in Nat
    BY PatFacts DEF InRegion, PatArgs
  <1>2. /\ Pattern!ChunkLength \in Nat \ {0} /\ Pattern!ChunkLength <= chunkSize
        /\ Pattern!ChunkLength = chunkSize \/ readAddr + Pattern!ChunkLength = map[region].size
    BY ReadFacts
  <1>3. ASSUME NEW b \in readAddr..(readAddr + Pattern!ChunkLength - 1)
        PROVE  b \div chunkSize = readAddr \div chunkSize
    <2>1. b \in Nat /\ readAddr <= b /\ b < readAddr + chunkSize
      BY <1>1, <1>2
    <2>2. QED
      BY <1>1, <2>1, SameChunk
  <1>4. ASSUME Pattern!ReadFails PROVE readAddr \div chunkSize \in Pattern!Lost(region)
    <2>1. PICK x \in map[region].lost : x >= readAddr /\ x < readAddr + Pattern!ChunkLength
      BY <1>4 DEF Pattern!ReadFails
    <2>2. x \in readAddr..(readAddr + Pattern!ChunkLength - 1)
      BY <1>1, <1>2, <2>1
    <2>3. x \div chunkSize = readAddr \div chunkSize
      BY <1>3, <2>2
    <2>4. QED
      BY <2>3 DEF Pattern!Lost
  <1>5. ASSUME readAddr \div chunkSize \in Pattern!Lost(region) PROVE Pattern!ReadFails
    <2>1. PICK x \in map[region].lost : x \div chunkSize = readAddr \div chunkSize
      BY <1>5 DEF Pattern!Lost
    <2>2. x \in Nat /\ x < map[region].size
      BY <1>1
    <2>3. readAddr <= x /\ x < readAddr + chunkSize
      BY <1>1, <2>1, <2>2, OtherChunk
    <2>4. x < readAddr + Pattern!ChunkLength
      BY <1>1, <1>2, <2>2, <2>3
    <2>5. QED
      BY <1>1, <2>2, <2>3, <2>4 DEF Pattern!ReadFails
  <1>6. QED
    BY <1>3, <1>4, <1>5

\* The bytes compared are those from the tail on.
LEMMA WindowFacts ==
  ASSUME PatArgs, InRegion, TailFits(tail, readAddr), NEW t, t = Len(tail)
  PROVE  /\ t \in Nat
         /\ Pattern!Window \in Seq(Bytes) /\ Len(Pattern!Window) = t + Pattern!ChunkLength
         /\ \A i \in 1..(t + Pattern!ChunkLength) :
              Pattern!Window[i] = memory[map[region].start + (readAddr - t + i - 1)]
  <1> DEFINE n == Pattern!ChunkLength
             chunk == [k \in 1..n |-> memory[map[region].start + readAddr + k - 1]]
  <1>1. /\ n \in Nat \ {0} /\ readAddr + n <= map[region].size /\ readAddr \in Nat
        /\ map[region].size \in Nat /\ map[region].start \in Nat /\ region \in 1..Len(map)
    BY ReadFacts, PatFacts DEF InRegion
  <1>2. ASSUME NEW k \in 1..n
        PROVE  memory[map[region].start + readAddr + k - 1] \in Bytes
    <2>1. readAddr + k - 1 \in 0..(map[region].size - 1)
      BY <1>1
    <2>2. map[region].start + readAddr + k - 1 = map[region].start + (readAddr + k - 1)
      BY <1>1
    <2>3. QED
      BY <1>1, <2>1, <2>2, PatFacts
  <1>3. chunk \in Seq(Bytes) /\ Len(chunk) = n /\ \A k \in 1..n : chunk[k] = memory[map[region].start + readAddr + k - 1]
    <2>1. chunk \in [1..n -> Bytes]
      BY <1>2
    <2>2. QED
      BY <1>1, <2>1
  <1>4. PICK c \in Seq(Bytes) : c = chunk
    BY <1>3
  <1>5. Pattern!Window = tail \o c
    BY <1>4 DEF Pattern!Window
  <1>6. tail \in Seq(Bytes) /\ t \in Nat /\ Len(c) = n
    <2>1. tail \in Seq(Bytes)
      BY DEF TailFits
    <2>2. Len(c) = n
      <3> HIDE DEF chunk, n
      <3>1. QED
        BY <1>3, <1>4
    <2>3. QED
      BY <2>1, <2>2
  <1>7. tail \o c \in Seq(Bytes) /\ Len(tail \o c) = t + n
        /\ \A i \in 1..(t + n) : (tail \o c)[i] = IF i <= t THEN tail[i] ELSE c[i - t]
    <2> HIDE DEF n, chunk
    <2>1. QED
      BY <1>1, <1>6
  <1>8. ASSUME NEW i \in 1..(t + n)
        PROVE  (tail \o c)[i] = memory[map[region].start + (readAddr - t + i - 1)]
    <2>1. CASE i <= t
      <3>1. i \in 1..Len(tail)
        BY <1>1, <1>6, <2>1
      <3>2. tail[i] = memory[map[region].start + (readAddr - Len(tail) + i - 1)]
        BY <3>1 DEF TailFits
      <3>3. QED
        BY <1>7, <2>1, <3>2
    <2>2. CASE ~ i <= t
      <3>1. i - t \in 1..n /\ map[region].start + readAddr + (i - t) - 1 = map[region].start + (readAddr - t + i - 1)
        <4>1. PICK x \in Nat, y \in Nat, l \in Nat : x = map[region].start /\ y = readAddr /\ l = n
          BY <1>1
        <4>2. i \in Nat /\ t \in Nat /\ i > t /\ i <= t + l
          BY <1>6, <2>2, <4>1
        <4>3. i - t \in 1..l /\ x + y + (i - t) - 1 = x + (y - t + i - 1)
          BY <4>2
        <4>4. QED
          BY <4>1, <4>3
      <3>2. c[i - t] = memory[map[region].start + readAddr + (i - t) - 1]
        BY <1>3, <1>4, <3>1
      <3>3. QED
        BY <1>7, <2>2, <3>1, <3>2
    <2>3. QED
      BY <2>1, <2>2
  <1>9. QED
    BY <1>5, <1>6, <1>7, <1>8

(***************************************************************************)
(* Hits that are the least members of a set of addresses, all of them or   *)
(* as many as the limit allows.                                            *)
(***************************************************************************)
Listed(s, X) ==
  /\ s \in Seq(Int)
  /\ \A i, j \in DOMAIN s : i < j => s[i] < s[j]
  /\ Pattern!Range(s) \subseteq X
  /\ \A x \in X \ Pattern!Range(s) : Pattern!Full(s) /\ x > s[Len(s)]
  /\ maxHits # 0 => Len(s) <= maxHits

LEMMA RangeOf ==
  ASSUME NEW s \in Seq(Int)
  PROVE  /\ Len(s) \in Nat /\ DOMAIN s = 1..Len(s)
         /\ \A i \in 1..Len(s) : s[i] \in Int /\ s[i] \in Pattern!Range(s)
         /\ \A x \in Pattern!Range(s) : \E i \in 1..Len(s) : x = s[i]
  BY DEF Pattern!Range

\* The next address goes to the end, or is cut off.
LEMMA OneMoreListed ==
  ASSUME NEW X \in SUBSET Int, NEW s, Listed(s, X), NEW x \in Int, \A y \in X : y < x, maxHits \in Nat
  PROVE  Listed(IF ~ Pattern!Full(s) THEN Append(s, x) ELSE s, X \cup {x})
  <1>1. s \in Seq(Int) /\ Len(s) \in Nat /\ DOMAIN s = 1..Len(s)
    BY RangeOf DEF Listed
  <1>2. \A i \in 1..Len(s) : s[i] \in X /\ s[i] \in Int
    BY <1>1, RangeOf DEF Listed
  <1>3. CASE Pattern!Full(s)
    <2>1. Len(s) \in 1..Len(s)
      BY <1>1, <1>3 DEF Pattern!Full
    <2>2. x > s[Len(s)]
      BY <1>2, <2>1
    <2>3. QED
      BY <1>3, <2>2 DEF Listed
  <1>4. CASE ~ Pattern!Full(s)
    <2>1. PICK z : z = Append(s, x)
      OBVIOUS
    <2>2. /\ z \in Seq(Int) /\ Len(z) = Len(s) + 1
          /\ \A i \in 1..Len(s) : z[i] = s[i]
          /\ z[Len(s) + 1] = x
      BY <1>1, <2>1
    <2>3. DOMAIN z = 1..(Len(s) + 1)
      BY <2>2
    <2>4. \A i \in 1..(Len(s) + 1) : i \in 1..Len(s) \/ i = Len(s) + 1
      BY <1>1
    <2>5. Pattern!Range(z) = Pattern!Range(s) \cup {x}
      <3>1. ASSUME NEW y \in Pattern!Range(z) PROVE y \in Pattern!Range(s) \cup {x}
        <4>1. PICK i \in 1..(Len(s) + 1) : y = z[i]
          BY <2>2, RangeOf
        <4>2. QED
          BY <1>1, <2>2, <2>4, <4>1, RangeOf
      <3>2. ASSUME NEW y \in Pattern!Range(s) PROVE y \in Pattern!Range(z)
        <4>1. PICK i \in 1..Len(s) : y = s[i]
          BY <1>1, RangeOf
        <4>2. i \in 1..Len(z) /\ y = z[i]
          BY <1>1, <2>2, <4>1
        <4>3. QED
          BY <2>2, <4>2, RangeOf
      <3>3. x \in Pattern!Range(z)
        <4>1. Len(s) + 1 \in 1..Len(z)
          BY <1>1, <2>2
        <4>2. QED
          BY <2>2, <4>1, RangeOf
      <3>4. QED
        BY <3>1, <3>2, <3>3
    <2>6. ASSUME NEW i \in DOMAIN z, NEW j \in DOMAIN z, i < j PROVE z[i] < z[j]
      <3>1. i \in 1..Len(s)
        BY <1>1, <2>3, <2>6
      <3>2. CASE j \in 1..Len(s)
        BY <1>1, <2>2, <2>6, <3>1, <3>2 DEF Listed
      <3>3. CASE j = Len(s) + 1
        BY <1>2, <2>2, <3>1, <3>3
      <3>4. QED
        BY <2>3, <2>4, <3>2, <3>3
    <2>7. X \subseteq Pattern!Range(s)
      BY <1>4 DEF Listed
    <2>8. maxHits # 0 => Len(z) <= maxHits
      BY <1>1, <1>4, <2>2 DEF Pattern!Full
    <2>9. Pattern!Range(s) \subseteq X
      BY DEF Listed
    <2>10. Listed(z, X \cup {x})
      BY <2>2, <2>5, <2>6, <2>7, <2>8, <2>9 DEF Listed
    <2>11. QED
      BY <1>4, <2>1, <2>10
  <1>5. QED
    BY <1>3, <1>4

\* What comes after all that was looked at does not matter to full hits.
LEMMA FullListed ==
  ASSUME NEW X, NEW Y \in SUBSET Int, X \subseteq Y, NEW s, Listed(s, X), Pattern!Full(s), maxHits \in Nat,
         \A y \in Y \ X : \A x \in X : x < y
  PROVE  Listed(s, Y)
  <1>1. s \in Seq(Int) /\ Len(s) \in Nat /\ Len(s) # 0
    BY RangeOf DEF Listed, Pattern!Full
  <1>2. s[Len(s)] \in X
    <2>1. Len(s) \in 1..Len(s)
      BY <1>1
    <2>2. QED
      BY <1>1, <2>1, RangeOf DEF Listed
  <1>3. ASSUME NEW y \in Y \ Pattern!Range(s) PROVE y > s[Len(s)]
    <2>1. CASE y \in X
      BY <2>1, <1>3 DEF Listed
    <2>2. CASE y \notin X
      BY <1>2, <2>2
    <2>3. QED
      BY <2>1, <2>2
  <1>4. QED
    BY <1>1, <1>3 DEF Listed

(***************************************************************************)
(* The occurrences that end before offset a of region r.                   *)
(***************************************************************************)
OccIn(q, o) ==
  /\ o \in Nat /\ map[q].scanned /\ o + Len(pattern) <= map[q].size
  /\ \A k \in 1..Len(pattern) : /\ memory[map[q].start + o + k - 1] = pattern[k]
                                /\ (o + k - 1) \div chunkSize \notin Pattern!Lost(q)

EndsBefore(q, o, r, a) == q < r \/ (q = r /\ o + Len(pattern) <= a)

EndedBy(r, a) ==
  {x \in Int : \E q \in 1..Len(map), o \in Nat :
                 x = map[q].start + o /\ OccIn(q, o) /\ EndsBefore(q, o, r, a)}

LEMMA EndedByInt == EndedBy(region, readAddr) \in SUBSET Int /\ EndedBy(Len(map) + 1, 0) \in SUBSET Int
  BY DEF EndedBy

LEMMA AllBefore == ASSUME PatArgs PROVE Pattern!Occurrences = EndedBy(Len(map) + 1, 0)
  <1>1. Len(map) \in Nat /\ Len(pattern) \in Nat \ {0}
        /\ \A q \in 1..Len(map) : map[q].start \in Nat /\ map[q].size \in Nat
    BY PatFacts
  <1>2. ASSUME NEW x \in Pattern!Occurrences PROVE x \in EndedBy(Len(map) + 1, 0)
    <2>0. PICK q \in 1..Len(map) : \E o \in 0..(map[q].size - 1) :
            /\ x = map[q].start + o
            /\ map[q].scanned /\ o + Len(pattern) <= map[q].size
            /\ \A k \in 1..Len(pattern) : /\ memory[map[q].start + o + k - 1] = pattern[k]
                                          /\ (o + k - 1) \div chunkSize \notin Pattern!Lost(q)
      BY <1>2 DEF Pattern!Occurrences
    <2>1. PICK o \in 0..(map[q].size - 1) :
            /\ x = map[q].start + o
            /\ map[q].scanned /\ o + Len(pattern) <= map[q].size
            /\ \A k \in 1..Len(pattern) : /\ memory[map[q].start + o + k - 1] = pattern[k]
                                          /\ (o + k - 1) \div chunkSize \notin Pattern!Lost(q)
      BY <2>0
    <2>2. o \in Nat /\ x \in Int
      BY <1>1, <2>1
    <2>3. OccIn(q, o)
      BY <2>1, <2>2 DEF OccIn
    <2>4. EndsBefore(q, o, Len(map) + 1, 0)
      BY <1>1 DEF EndsBefore
    <2>5. QED
      BY <2>1, <2>2, <2>3, <2>4 DEF EndedBy
  <1>3. ASSUME NEW x \in EndedBy(Len(map) + 1, 0) PROVE x \in Pattern!Occurrences
    <2> DEFINE here(p) ==
          {d \in 0..(map[p].size - 1) :
             /\ map[p].scanned /\ d + Len(pattern) <= map[p].size
             /\ \A k \in 1..Len(pattern) : /\ memory[map[p].start + d + k - 1] = pattern[k]
                                           /\ (d + k - 1) \div chunkSize \notin Pattern!Lost(p)}
    <2>1. PICK q \in 1..Len(map), o \in Nat : x = map[q].start + o /\ OccIn(q, o)
      BY <1>3 DEF EndedBy
    <2>2. o \in 0..(map[q].size - 1)
      BY <1>1, <2>1 DEF OccIn
    <2>3. o \in here(q)
      BY <2>1, <2>2 DEF OccIn
    <2>4. Pattern!Occurrences = UNION {{map[p].start + d : d \in here(p)} : p \in 1..Len(map)}
      BY DEF Pattern!Occurrences
    <2>5. QED
      <3> HIDE DEF here
      <3>1. QED
        BY <2>1, <2>3, <2>4
  <1>4. QED
    BY <1>2, <1>3

\* Nothing ends before the first byte of a region, and all of it before its end.
LEMMA RegionEnds ==
  ASSUME PatArgs, NEW r \in Nat, r \in 1..Len(map) =>
           \A o \in Nat : OccIn(r, o) => o + Len(pattern) <= readAddr
  PROVE  EndedBy(r, readAddr) \subseteq EndedBy(r + 1, 0) /\ EndedBy(r + 1, 0) \subseteq EndedBy(r, readAddr)
  <1>1. Len(map) \in Nat /\ Len(pattern) \in Nat \ {0}
    BY PatFacts
  <1>2. ASSUME NEW q \in 1..Len(map), NEW o \in Nat, OccIn(q, o)
        PROVE  EndsBefore(q, o, r, readAddr) <=> EndsBefore(q, o, r + 1, 0)
    <2>1. q \in Nat /\ ~ o + Len(pattern) <= 0
      BY <1>1
    <2>2. q = r => o + Len(pattern) <= readAddr
      BY <1>2
    <2>3. QED
      BY <2>1, <2>2 DEF EndsBefore
  <1>3. QED
    BY <1>2 DEF EndedBy

\* Where one region ends the next may begin: addresses follow the order of
\* regions and offsets.
LEMMA InOrder ==
  ASSUME PatArgs, NEW q \in 1..Len(map), NEW o \in Nat, OccIn(q, o),
         NEW r \in Nat, NEW a \in Nat, ~ EndsBefore(q, o, r, a),
         NEW x \in EndedBy(r, a)
  PROVE  x < map[q].start + o
  <1>1. Len(map) \in Nat /\ Len(pattern) \in Nat \ {0}
        /\ \A p \in 1..Len(map) : map[p].start \in Nat /\ map[p].size \in Nat
    BY PatFacts
  <1>2. PICK p \in 1..Len(map), e \in Nat :
          x = map[p].start + e /\ OccIn(p, e) /\ EndsBefore(p, e, r, a)
    BY DEF EndedBy
  <1>3. p \in Nat /\ q \in Nat /\ p <= q
    BY <1>2 DEF EndsBefore
  <1>4. PICK l \in Nat : l = Len(pattern) /\ l > 0
    BY <1>1
  <1>5. CASE p = q
    <2>1. q = r /\ e + l <= a /\ ~ o + l <= a
      BY <1>2, <1>3, <1>4, <1>5 DEF EndsBefore
    <2>2. e < o
      BY <1>4, <2>1
    <2>3. map[q].start \in Nat
      BY <1>1
    <2>4. QED
      BY <1>2, <1>5, <2>2, <2>3
  <1>6. CASE p < q
    <2>1. map[p].start + map[p].size <= map[q].start
      BY <1>6, PatFacts
    <2>2. e + l <= map[p].size
      BY <1>2, <1>4 DEF OccIn
    <2>3. PICK u \in Nat, v \in Nat, w \in Nat : u = map[p].start /\ v = map[p].size /\ w = map[q].start
      BY <1>1
    <2>4. u + v <= w /\ e + l <= v
      BY <2>1, <2>2, <2>3
    <2>5. u + e < w + o
      BY <1>4, <2>4
    <2>6. QED
      BY <1>2, <2>3, <2>5
  <1>7. QED
    BY <1>3, <1>5, <1>6

(***************************************************************************)
(* A chunk that was read: the matches in the bytes compared are the        *)
(* occurrences that end in it, wherever they begin.                        *)
(***************************************************************************)
AtChunk ==
  /\ PatArgs /\ InRegion /\ map[region].scanned /\ TailFits(tail, readAddr)

LEMMA ReadBytes ==
  ASSUME AtChunk, ~ Pattern!ReadFails, NEW t \in Nat, t = Len(tail), NEW i \in 1..(t + Pattern!ChunkLength)
  PROVE  /\ readAddr - t + i - 1 \in Nat
         /\ (readAddr - t + i - 1) \div chunkSize \notin Pattern!Lost(region)
  <1>1. readAddr \in Nat /\ Pattern!ChunkLength \in Nat \ {0} /\ t <= readAddr
    BY ReadFacts DEF AtChunk, InRegion, TailFits
  <1>2. readAddr - t + i - 1 \in Nat
    BY <1>1
  <1>3. CASE i <= t
    <2>1. i \in 1..Len(tail)
      BY <1>1, <1>3
    <2>2. (readAddr - Len(tail) + i - 1) \div chunkSize \notin Pattern!Lost(region)
      BY <2>1 DEF AtChunk, TailFits
    <2>3. QED
      BY <1>2, <2>2
  <1>4. CASE ~ i <= t
    <2>1. readAddr - t + i - 1 \in readAddr..(readAddr + Pattern!ChunkLength - 1)
      BY <1>1, <1>4
    <2>2. QED
      BY <1>2, <2>1, ChunkLost DEF AtChunk
  <1>5. QED
    BY <1>3, <1>4

LEMMA MatchIsOccurrence ==
  ASSUME AtChunk, ~ Pattern!ReadFails, NEW t \in Nat, t = Len(tail),
         NEW k \in 1..(t + Pattern!ChunkLength), NEW o, o = readAddr - t + k - 1
  PROVE  /\ o \in Nat /\ readAddr < o + Len(pattern)
         /\ Pattern!AddressIn(k) = map[region].start + o
         /\ Pattern!MatchesAt(Pattern!Window, k) <=>
              OccIn(region, o) /\ o + Len(pattern) <= readAddr + Pattern!ChunkLength
  <1>1. /\ readAddr \in Nat /\ Pattern!ChunkLength \in Nat \ {0} /\ t <= readAddr /\ t <= Len(pattern) - 1
        /\ readAddr + Pattern!ChunkLength <= map[region].size
        /\ region \in 1..Len(map)
    BY ReadFacts DEF AtChunk, InRegion, TailFits
  <1>2. Len(pattern) \in Nat \ {0} /\ map[region].start \in Nat /\ map[region].size \in Nat
    BY <1>1, PatFacts DEF AtChunk
  <1>3. PICK l \in Nat, n \in Nat, s \in Nat :
          l = Len(pattern) /\ n = Pattern!ChunkLength /\ s = map[region].start /\ l > 0 /\ n > 0
    <2>1. \A x \in Nat \ {0} : x \in Nat /\ x > 0
      OBVIOUS
    <2>2. QED
      BY <1>1, <1>2, <2>1, Zenon
  <1>4. k \in 1..(t + n)
    BY <1>3
  <1>5. o \in Nat /\ readAddr < o + l /\ Pattern!AddressIn(k) = s + o
    <2>1. o \in Nat /\ readAddr < o + l
      BY <1>1, <1>3, <1>4
    <2>2. Pattern!AddressIn(k) = s + readAddr - t + k - 1
      BY <1>3 DEF Pattern!AddressIn
    <2>3. QED
      BY <1>1, <1>3, <1>4, <2>1, <2>2
  <1>6. /\ Len(Pattern!Window) = t + n
        /\ \A i \in 1..(t + n) : Pattern!Window[i] = memory[s + (readAddr - t + i - 1)]
    BY <1>3, WindowFacts DEF AtChunk
  <1>7. k + l - 1 <= Len(Pattern!Window) <=> o + l <= readAddr + n
    <2>1. k + l - 1 <= t + n <=> o + l <= readAddr + n
      BY <1>1, <1>3, <1>4, readAddr - t + k - 1 = o
    <2>2. QED
      BY <1>6, <2>1
  <1>8. ASSUME k + l - 1 <= Len(Pattern!Window), NEW j \in 1..l
        PROVE  /\ Pattern!Window[k + j - 1] = memory[s + o + j - 1]
               /\ (o + j - 1) \div chunkSize \notin Pattern!Lost(region)
    <2>1. k + j - 1 \in 1..(t + n)
      BY <1>3, <1>4, <1>6, <1>8
    <2>2. readAddr - t + (k + j - 1) - 1 = o + j - 1 /\ s + (readAddr - t + (k + j - 1) - 1) = s + o + j - 1
      <3>1. readAddr \in Int /\ t \in Int /\ k \in Int /\ j \in Int /\ s \in Int /\ o = readAddr - t + k - 1
        BY <1>1, <1>3, <1>4
      <3>2. QED
        BY ONLY <3>1
    <2>3. Pattern!Window[k + j - 1] = memory[s + (readAddr - t + (k + j - 1) - 1)]
      BY <1>6, <2>1
    <2>4. (readAddr - t + (k + j - 1) - 1) \div chunkSize \notin Pattern!Lost(region)
      BY <1>3, <2>1, ReadBytes
    <2>5. QED
      BY <2>2, <2>3, <2>4
  <1>9. ASSUME Pattern!MatchesAt(Pattern!Window, k)
        PROVE  OccIn(region, o) /\ o + l <= readAddr + n
    <2>1. k + l - 1 <= Len(Pattern!Window) /\ \A j \in 1..l : Pattern!Window[k + j - 1] = pattern[j]
      BY <1>3, <1>9 DEF Pattern!MatchesAt
    <2>2. o + l <= readAddr + n /\ o + l <= map[region].size
      <3>1. o + l <= readAddr + n
        BY <1>7, <2>1
      <3>2. PICK z \in Nat : z = map[region].size
        BY <1>2
      <3>3. readAddr + n <= z /\ readAddr \in Nat /\ o \in Nat
        BY <1>1, <1>3, <1>5, <3>2
      <3>4. o + l <= z
        BY ONLY <3>1, <3>3, l \in Nat, n \in Nat, z \in Nat
      <3>5. QED
        BY <3>1, <3>2, <3>4
    <2>3. \A j \in 1..l : /\ memory[s + o + j - 1] = pattern[j]
                          /\ (o + j - 1) \div chunkSize \notin Pattern!Lost(region)
      BY <1>8, <2>1
    <2>4. map[region].scanned
      BY DEF AtChunk
    <2>5. QED
      <3>1. \A j \in 1..Len(pattern) : /\ memory[map[region].start + o + j - 1] = pattern[j]
                                      /\ (o + j - 1) \div chunkSize \notin Pattern!Lost(region)
        BY <1>3, <2>3
      <3>2. o + Len(pattern) <= map[region].size
        BY <1>3, <2>2
      <3>3. QED
        BY <1>5, <2>2, <2>4, <3>1, <3>2, Zenon DEF OccIn
  <1>10. ASSUME OccIn(region, o), o + l <= readAddr + n
         PROVE  Pattern!MatchesAt(Pattern!Window, k)
    <2>1. k + l - 1 <= Len(Pattern!Window)
      BY <1>7, <1>10
    <2>2. \A j \in 1..l : memory[s + o + j - 1] = pattern[j]
      <3>1. \A j \in 1..Len(pattern) : memory[map[region].start + o + j - 1] = pattern[j]
        BY <1>10, Zenon DEF OccIn
      <3>2. QED
        BY <1>3, <3>1
    <2>3. \A j \in 1..l : Pattern!Window[k + j - 1] = pattern[j]
      BY <1>8, <2>1, <2>2
    <2>4. QED
      <3>1. k + Len(pattern) - 1 <= Len(Pattern!Window)
        BY <1>3, <2>1
      <3>2. \A j \in 1..Len(pattern) : Pattern!Window[k + j - 1] = pattern[j]
        BY <1>3, <2>3
      <3>3. QED
        BY <3>1, <3>2, Zenon DEF Pattern!MatchesAt
  <1>11. QED
    BY <1>3, <1>5, <1>9, <1>10

\* Such an occurrence begins in what was kept: before that there is nothing, or
\* a byte that is lost, or more than the pattern is long.
LEMMA OccurrenceIsInWindow ==
  ASSUME AtChunk, NEW t \in Nat, t = Len(tail), NEW o \in Nat, OccIn(region, o),
         readAddr < o + Len(pattern), o + Len(pattern) <= readAddr + Pattern!ChunkLength
  PROVE  o - (readAddr - t) + 1 \in 1..(t + Pattern!ChunkLength)
  <1>1. readAddr \in Nat /\ Pattern!ChunkLength \in Nat \ {0} /\ t <= readAddr
    BY ReadFacts DEF AtChunk, InRegion, TailFits
  <1>2. Len(pattern) \in Nat \ {0}
    BY PatFacts DEF AtChunk
  <1>3. o >= readAddr - t
    <2>1. CASE t = Len(pattern) - 1
      BY <1>1, <1>2, <2>1
    <2>2. CASE t = readAddr
      BY <1>1, <2>2
    <2>3. CASE (readAddr - t - 1) \div chunkSize \in Pattern!Lost(region)
      <3>1. SUFFICES ASSUME o < readAddr - t PROVE FALSE
        BY <1>1
      <3>2. readAddr - t - 1 - o + 1 \in 1..Len(pattern) /\ o + (readAddr - t - 1 - o + 1) - 1 = readAddr - t - 1
        BY <1>1, <1>2, <3>1
      <3>3. (o + (readAddr - t - 1 - o + 1) - 1) \div chunkSize \notin Pattern!Lost(region)
        BY <3>2 DEF OccIn
      <3>4. QED
        BY <2>3, <3>2, <3>3
    <2>4. QED
      BY <2>1, <2>2, <2>3 DEF AtChunk, TailFits
  <1>4. QED
    BY <1>1, <1>2, <1>3

(***************************************************************************)
(* HitsAfter, a place of the window after another.                         *)
(***************************************************************************)
NextHits(h, w, k) ==
  IF k = 0 THEN outHits
  ELSE IF Pattern!MatchesAt(w, k) /\ ~ Pattern!Full(h[k - 1]) THEN Append(h[k - 1], Pattern!AddressIn(k))
  ELSE h[k - 1]

Places(h, w, m) == h = [k \in 0..m |-> NextHits(h, w, k)]

LEMMA PlacesExist == ASSUME NEW w, NEW n \in Nat PROVE \E h : Places(h, w, n)
  <1> DEFINE without == {m \in 0..n : ~ \E h : Places(h, w, m)}
  <1>1. ASSUME without # {} PROVE FALSE
    <2>1. without \in SUBSET Nat
      OBVIOUS
    <2>2. PICK m \in without : \A y \in without : m <= y
      BY <1>1, <2>1, LeastOfNat
    <2>3. m \in 0..n /\ ~ \E h : Places(h, w, m)
      BY <2>2
    <2>4. m # 0
      <3> DEFINE g == [k \in 0..0 |-> outHits]
      <3>1. \A k \in 0..0 : NextHits(g, w, k) = outHits
        BY DEF NextHits
      <3>2. g = [k \in 0..0 |-> NextHits(g, w, k)]
        <4> HIDE DEF NextHits
        <4>1. QED
          BY <3>1
      <3>3. Places(g, w, 0)
        BY <3>2 DEF Places
      <3>4. QED
        BY <2>3, <3>3
    <2>5. m - 1 \in 0..n /\ m - 1 < m
      BY <2>3, <2>4
    <2>6. \E h : Places(h, w, m - 1)
      BY <2>2, <2>5
    <2>7. PICK h : Places(h, w, m - 1)
      BY <2>6
    <2> DEFINE g == [k \in 0..m |-> NextHits(h, w, k)]
    <2>8. \A k \in 0..(m - 1) : h[k] = NextHits(h, w, k)
      BY <2>7 DEF Places
    <2>9. \A k \in 0..(m - 1) : g[k] = h[k]
      BY <2>3, <2>8
    <2>10. \A k \in 0..m : NextHits(g, w, k) = NextHits(h, w, k)
      <3>1. ASSUME NEW k \in 0..m, k # 0 PROVE g[k - 1] = h[k - 1]
        <4>1. k - 1 \in 0..(m - 1)
          BY <2>3, <3>1
        <4>2. QED
          BY <2>9, <4>1
      <3>2. QED
        <4> HIDE DEF g
        <4>1. QED
          BY <3>1 DEF NextHits
    <2>11. g = [k \in 0..m |-> NextHits(g, w, k)]
      <3>1. g = [k \in 0..m |-> NextHits(h, w, k)]
        OBVIOUS
      <3>2. QED
        <4> HIDE DEF g
        <4>1. QED
          BY <2>10, <3>1
    <2>12. Places(g, w, m)
      <3> HIDE DEF g
      <3>1. QED
        BY <2>11 DEF Places
    <2>13. QED
      BY <2>3, <2>12
  <1>2. \E h : Places(h, w, n)
    <2>1. n \in 0..n
      OBVIOUS
    <2>2. QED
      BY <1>1, <2>1
  <1>3. QED
    BY <1>2

LEMMA HitsByPlace ==
  ASSUME NEW w, Len(w) \in Nat
  PROVE  \E h : /\ Pattern!HitsAfter(w) = h[Len(w)] /\ h[0] = outHits
                /\ \A k \in 1..Len(w) :
                     h[k] = IF Pattern!MatchesAt(w, k)
                              THEN IF ~ Pattern!Full(h[k - 1]) THEN Append(h[k - 1], Pattern!AddressIn(k)) ELSE h[k - 1]
                              ELSE h[k - 1]
  <1>1. PICK n : n = Len(w)
    OBVIOUS
  <1>2. PICK h : h = CHOOSE g : Places(g, w, n)
    OBVIOUS
  <1>3. Places(h, w, n)
    BY <1>1, <1>2, PlacesExist
  <1>4. Pattern!HitsAfter(w) = h[n]
    BY <1>1, <1>2 DEF Pattern!HitsAfter, Places, NextHits
  <1>5. \A k \in 0..n : h[k] = NextHits(h, w, k)
    BY <1>3 DEF Places
  <1>6. h[0] = outHits
    <2>1. 0 \in 0..n
      BY <1>1
    <2>2. QED
      BY <1>5, <2>1 DEF NextHits
  <1>7. ASSUME NEW k \in 1..n
        PROVE  h[k] = IF Pattern!MatchesAt(w, k)
                        THEN IF ~ Pattern!Full(h[k - 1]) THEN Append(h[k - 1], Pattern!AddressIn(k)) ELSE h[k - 1]
                        ELSE h[k - 1]
    <2>1. k \in 0..n /\ k # 0
      BY <1>1
    <2>2. h[k] = NextHits(h, w, k)
      BY <1>5, <2>1
    <2>3. QED
      BY <2>1, <2>2 DEF NextHits
  <1>8. QED
    BY <1>1, <1>4, <1>6, <1>7

LEMMA Upwards ==
  ASSUME NEW n \in Nat, NEW S, 0 \in S, \A k \in 1..n : k - 1 \in S => k \in S
  PROVE  n \in S
  <1> DEFINE out == {m \in 0..n : m \notin S}
  <1>1. ASSUME out # {} PROVE FALSE
    <2>1. out \in SUBSET Nat
      OBVIOUS
    <2>2. PICK m \in out : \A y \in out : m <= y
      BY <1>1, <2>1, LeastOfNat
    <2>3. m \in 1..n /\ m \notin S
      BY <2>2
    <2>4. m - 1 \in 0..n /\ m - 1 < m
      BY <2>3
    <2>5. m - 1 \in S
      BY <2>2, <2>4
    <2>6. QED
      BY <2>3, <2>5
  <1>2. QED
    BY <1>1

\* What has been looked at when the first m places of the window have.
UpTo(m) ==
  EndedBy(region, readAddr)
  \cup {x \in Int : \E k \in 1..m : Pattern!MatchesAt(Pattern!Window, k) /\ x = Pattern!AddressIn(k)}

LEMMA PlaceFacts ==
  ASSUME AtChunk, ~ Pattern!ReadFails, NEW k \in 1..Len(Pattern!Window), Pattern!MatchesAt(Pattern!Window, k)
  PROVE  /\ Pattern!AddressIn(k) \in Int
         /\ UpTo(k) = UpTo(k - 1) \cup {Pattern!AddressIn(k)}
         /\ \A x \in UpTo(k - 1) : x < Pattern!AddressIn(k)
  <1>1. PICK t \in Nat : t = Len(tail)
    BY WindowFacts DEF AtChunk
  <1>2. Len(Pattern!Window) = t + Pattern!ChunkLength /\ Pattern!ChunkLength \in Nat
    BY <1>1, WindowFacts, ReadFacts DEF AtChunk
  <1>3. region \in 1..Len(map) /\ readAddr \in Nat /\ map[region].start \in Nat /\ region \in Nat
    BY PatFacts DEF AtChunk, InRegion
  <1>4. ASSUME NEW j \in 1..Len(Pattern!Window)
        PROVE  /\ readAddr - t + j - 1 \in Nat
               /\ readAddr < (readAddr - t + j - 1) + Len(pattern)
               /\ Pattern!AddressIn(j) = map[region].start + (readAddr - t + j - 1)
               /\ Pattern!MatchesAt(Pattern!Window, j) => OccIn(region, readAddr - t + j - 1)
    <2>1. j \in 1..(t + Pattern!ChunkLength)
      BY <1>2
    <2>2. QED
      BY <1>1, <2>1, MatchIsOccurrence
  <1>5. k \in Nat /\ k - 1 \in Nat /\ \A j : j \in 1..k <=> j \in 1..(k - 1) \/ j = k
    BY <1>2
  <1>6. Pattern!AddressIn(k) \in Int
    BY <1>3, <1>4
  <1>7. UpTo(k) = UpTo(k - 1) \cup {Pattern!AddressIn(k)}
    BY <1>5, <1>6 DEF UpTo
  <1>8. ASSUME NEW x \in UpTo(k - 1) PROVE x < Pattern!AddressIn(k)
    <2>1. CASE x \in EndedBy(region, readAddr)
      <3>1. PICK o \in Nat : o = readAddr - t + k - 1
        BY <1>4
      <3>2. OccIn(region, o) /\ Pattern!AddressIn(k) = map[region].start + o
        BY <1>4, <3>1
      <3>3. ~ EndsBefore(region, o, region, readAddr)
        <4>1. readAddr < o + Len(pattern)
          BY <1>4, <3>1
        <4>2. Len(pattern) \in Nat
          BY PatFacts DEF AtChunk
        <4>3. QED
          BY <1>3, <4>1, <4>2 DEF EndsBefore
      <3>4. QED
        BY <1>3, <2>1, <3>2, <3>3, InOrder DEF AtChunk
    <2>2. CASE x \notin EndedBy(region, readAddr)
      <3>1. PICK j \in 1..(k - 1) : x = Pattern!AddressIn(j)
        BY <2>2 DEF UpTo
      <3>2. j \in 1..Len(Pattern!Window) /\ j < k
        BY <1>2, <1>5
      <3>3. Pattern!AddressIn(j) = map[region].start + (readAddr - t + j - 1)
        BY <1>4, <3>2
      <3>4. Pattern!AddressIn(k) = map[region].start + (readAddr - t + k - 1)
        BY <1>4
      <3>5. PICK s \in Nat : s = map[region].start
        BY <1>3
      <3>6. s + (readAddr - t + j - 1) < s + (readAddr - t + k - 1)
        <4>1. j \in Int /\ k \in Int /\ j < k /\ s \in Int /\ readAddr \in Int /\ t \in Int
          BY <1>3, <1>5, <3>1, <3>2
        <4>2. QED
          BY ONLY <4>1
      <3>7. QED
        BY <3>1, <3>3, <3>4, <3>5, <3>6
    <2>3. QED
      BY <2>1, <2>2
  <1>9. QED
    BY <1>6, <1>7, <1>8

LEMMA UpToAll ==
  ASSUME AtChunk, ~ Pattern!ReadFails
  PROVE  UpTo(Len(Pattern!Window)) = EndedBy(region, readAddr + Pattern!ChunkLength)
  <1>1. PICK t \in Nat : t = Len(tail)
    BY WindowFacts DEF AtChunk
  <1>2. Len(Pattern!Window) = t + Pattern!ChunkLength /\ Pattern!ChunkLength \in Nat
    BY <1>1, WindowFacts, ReadFacts DEF AtChunk
  <1>3. region \in 1..Len(map) /\ readAddr \in Nat /\ map[region].start \in Nat /\ region \in Nat
        /\ Len(pattern) \in Nat
    BY PatFacts DEF AtChunk, InRegion
  <1>4. \A q \in 1..Len(map), o \in Nat :
          EndsBefore(q, o, region, readAddr + Pattern!ChunkLength) <=>
            \/ EndsBefore(q, o, region, readAddr)
            \/ q = region /\ readAddr < o + Len(pattern) /\ o + Len(pattern) <= readAddr + Pattern!ChunkLength
    BY <1>2, <1>3 DEF EndsBefore
  <1>5. ASSUME NEW x \in UpTo(Len(Pattern!Window)), x \notin EndedBy(region, readAddr)
        PROVE  x \in EndedBy(region, readAddr + Pattern!ChunkLength)
    <2>1. PICK k \in 1..Len(Pattern!Window) :
            Pattern!MatchesAt(Pattern!Window, k) /\ x = Pattern!AddressIn(k) /\ x \in Int
      BY <1>5 DEF UpTo
    <2>2. k \in 1..(t + Pattern!ChunkLength)
      BY <1>2
    <2>3. PICK o : o = readAddr - t + k - 1
      OBVIOUS
    <2>4. /\ o \in Nat /\ readAddr < o + Len(pattern) /\ x = map[region].start + o
          /\ OccIn(region, o) /\ o + Len(pattern) <= readAddr + Pattern!ChunkLength
      BY <1>1, <2>1, <2>2, <2>3, MatchIsOccurrence
    <2>5. EndsBefore(region, o, region, readAddr + Pattern!ChunkLength)
      BY <1>3, <1>4, <2>4
    <2>6. QED
      BY <1>3, <2>1, <2>4, <2>5 DEF EndedBy
  <1>6. ASSUME NEW x \in EndedBy(region, readAddr + Pattern!ChunkLength), x \notin EndedBy(region, readAddr)
        PROVE  x \in UpTo(Len(Pattern!Window))
    <2>1. PICK q \in 1..Len(map), o \in Nat :
            /\ x = map[q].start + o /\ OccIn(q, o) /\ x \in Int
            /\ EndsBefore(q, o, region, readAddr + Pattern!ChunkLength)
      BY <1>6 DEF EndedBy
    <2>2. ~ EndsBefore(q, o, region, readAddr)
      BY <1>6, <2>1 DEF EndedBy
    <2>3. q = region /\ readAddr < o + Len(pattern) /\ o + Len(pattern) <= readAddr + Pattern!ChunkLength
      BY <1>4, <2>1, <2>2
    <2>4. PICK k \in 1..(t + Pattern!ChunkLength) : k = o - (readAddr - t) + 1
      BY <1>1, <2>1, <2>3, OccurrenceIsInWindow
    <2>5. o = readAddr - t + k - 1
      BY <1>3, <2>4
    <2>6. Pattern!MatchesAt(Pattern!Window, k) /\ Pattern!AddressIn(k) = map[region].start + o
      BY <1>1, <2>1, <2>3, <2>5, MatchIsOccurrence
    <2>7. k \in 1..Len(Pattern!Window)
      BY <1>2
    <2>8. QED
      BY <2>1, <2>3, <2>6, <2>7 DEF UpTo
  <1>7. EndedBy(region, readAddr) \subseteq EndedBy(region, readAddr + Pattern!ChunkLength)
    BY <1>4 DEF EndedBy
  <1>8. EndedBy(region, readAddr) \subseteq UpTo(Len(Pattern!Window))
    BY DEF UpTo
  <1>9. QED
    BY <1>5, <1>6, <1>7, <1>8

\* The hits after a chunk are those that end in it or before it.
LEMMA HitsOfChunk ==
  ASSUME AtChunk, ~ Pattern!ReadFails, Listed(outHits, EndedBy(region, readAddr))
  PROVE  Listed(Pattern!HitsAfter(Pattern!Window), EndedBy(region, readAddr + Pattern!ChunkLength))
  <1>1. Len(Pattern!Window) \in Nat
    BY WindowFacts, ReadFacts DEF AtChunk, TailFits
  <1>2. PICK n \in Nat : n = Len(Pattern!Window)
    BY <1>1
  <1>3. PICK h : /\ Pattern!HitsAfter(Pattern!Window) = h[n] /\ h[0] = outHits
                 /\ \A k \in 1..n :
                      h[k] = IF Pattern!MatchesAt(Pattern!Window, k)
                               THEN IF ~ Pattern!Full(h[k - 1]) THEN Append(h[k - 1], Pattern!AddressIn(k)) ELSE h[k - 1]
                               ELSE h[k - 1]
    BY <1>1, <1>2, HitsByPlace
  <1> DEFINE S == {k \in Nat : Listed(h[k], UpTo(k))}
  <1>4. 0 \in S
    <2>1. UpTo(0) = EndedBy(region, readAddr)
      BY DEF UpTo
    <2>2. QED
      BY <1>3, <2>1
  <1>5. ASSUME NEW k \in 1..n, k - 1 \in S PROVE k \in S
    <2>1. k \in Nat /\ Listed(h[k - 1], UpTo(k - 1))
      BY <1>2, <1>5
    <2>2. CASE Pattern!MatchesAt(Pattern!Window, k)
      <3>1. /\ Pattern!AddressIn(k) \in Int
            /\ UpTo(k) = UpTo(k - 1) \cup {Pattern!AddressIn(k)}
            /\ \A x \in UpTo(k - 1) : x < Pattern!AddressIn(k)
        BY <1>2, <2>2, PlaceFacts
      <3>2. UpTo(k - 1) \in SUBSET Int
        BY DEF UpTo, EndedBy
      <3>3. maxHits \in Nat
        BY PatFacts DEF AtChunk
      <3>4. PICK s, a : s = h[k - 1] /\ a = Pattern!AddressIn(k)
        OBVIOUS
      <3>5. Listed(IF ~ Pattern!Full(s) THEN Append(s, a) ELSE s, UpTo(k - 1) \cup {a})
        <4>1. a \in Int /\ \A y \in UpTo(k - 1) : y < a
          BY <3>1, <3>4
        <4>2. Listed(s, UpTo(k - 1))
          BY <2>1, <3>4
        <4>3. QED
          BY <3>2, <3>3, <4>1, <4>2, OneMoreListed
      <3>6. h[k] = IF ~ Pattern!Full(s) THEN Append(s, a) ELSE s
        BY <1>3, <2>2, <3>4
      <3>7. QED
        BY <2>1, <3>1, <3>4, <3>5, <3>6
    <2>3. CASE ~ Pattern!MatchesAt(Pattern!Window, k)
      <3>1. h[k] = h[k - 1]
        BY <1>3, <2>3
      <3>2. UpTo(k) = UpTo(k - 1)
        <4>1. \A j : j \in 1..k <=> j \in 1..(k - 1) \/ j = k
          BY <2>1, <1>2
        <4>2. QED
          BY <2>3, <4>1 DEF UpTo
      <3>3. QED
        BY <2>1, <3>1, <3>2
    <2>4. QED
      BY <2>2, <2>3
  <1>6. n \in S
    <2> HIDE DEF S
    <2>1. QED
      BY <1>4, <1>5, Upwards
  <1>7. QED
    BY <1>2, <1>3, <1>6, UpToAll

(***************************************************************************)
(* The tail for the next chunk.                                            *)
(***************************************************************************)
LEMMA KeepFits ==
  ASSUME AtChunk, ~ Pattern!ReadFails
  PROVE  TailFits(Pattern!Keep(Pattern!Window), readAddr + Pattern!ChunkLength)
  <1>1. PICK t \in Nat : t = Len(tail)
    BY WindowFacts DEF AtChunk
  <1>2. /\ readAddr \in Nat /\ Pattern!ChunkLength \in Nat \ {0} /\ t <= readAddr /\ t <= Len(pattern) - 1
        /\ region \in 1..Len(map) /\ map[region].start \in Nat
    BY <1>1, ReadFacts, PatFacts DEF AtChunk, InRegion, TailFits
  <1>3. Len(pattern) \in Nat \ {0}
    BY PatFacts DEF AtChunk
  <1>4. PICK l \in Nat, n \in Nat, s \in Nat : l = Len(pattern) /\ n = Pattern!ChunkLength /\ s = map[region].start
    BY <1>2, <1>3
  <1>5. l > 0 /\ n > 0
    BY <1>2, <1>3, <1>4
  <1>6. PICK w \in Seq(Bytes) :
          /\ w = Pattern!Window /\ Len(w) = t + n
          /\ \A i \in 1..(t + n) : w[i] = memory[s + (readAddr - t + i - 1)]
    BY <1>1, <1>4, WindowFacts DEF AtChunk
  <1>7. PICK m \in Nat : m = Pattern!Min({l - 1, t + n}) /\ m <= l - 1 /\ m <= t + n /\ (m = l - 1 \/ m = t + n)
    <2>1. PICK x \in Nat, y \in Nat : x = l - 1 /\ y = t + n
      BY <1>5
    <2>2. Pattern!Min({x, y}) \in {x, y} /\ Pattern!Min({x, y}) <= x /\ Pattern!Min({x, y}) <= y
      <3>1. x \in Int /\ y \in Int
        OBVIOUS
      <3>2. QED
        BY <3>1, PatMinOfTwo
    <2>3. QED
      BY <2>1, <2>2
  <1>8. Pattern!Keep(w) = SubSeq(w, t + n - m + 1, t + n)
    <2>1. Pattern!Min({Len(pattern) - 1, Len(w)}) = m
      BY <1>4, <1>6, <1>7
    <2>2. Pattern!Keep(w) = SubSeq(w, Len(w) - m + 1, Len(w))
      BY <2>1, Zenon DEF Pattern!Keep
    <2>3. QED
      BY <1>6, <2>2
  <1>9. PICK k : k = Pattern!Keep(w)
    OBVIOUS
  <1>10. t + n - m + 1 \in 1..(Len(w) + 1) /\ t + n \in 0..Len(w) /\ (t + n) - (t + n - m + 1) + 1 = m
    BY <1>6, <1>7
  <1>11. /\ k \in Seq(Bytes) /\ Len(k) = m
         /\ \A j \in 1..m : k[j] = w[t + n - m + j]
    <2>1. \A j \in 1..m : t + n - m + j \in 1..Len(w) /\ (t + n - m + 1) + j - 1 = t + n - m + j
      <3>1. \A j \in 1..m : t + n - m + j \in 1..(t + n) /\ (t + n - m + 1) + j - 1 = t + n - m + j
        BY ONLY m \in Nat, t \in Nat, n \in Nat, <1>7
      <3>2. QED
        BY <1>6, <3>1
    <2>2. PICK a \in Nat, b \in Nat : a = t + n - m + 1 /\ b = t + n /\ a \in 1..(Len(w) + 1) /\ b \in 0..Len(w) /\ b - a + 1 = m
      BY <1>10
    <2>3. k = SubSeq(w, a, b)
      BY <1>8, <1>9, <2>2
    <2>4. k \in Seq(Bytes) /\ Len(k) = m /\ \A j \in 1..m : k[j] = w[a + j - 1]
      <3>1. \A i \in a..b : w[i] \in Bytes
        <4>1. ASSUME NEW i \in a..b PROVE w[i] \in Bytes
          <5>1. i \in DOMAIN w
            BY <2>2
          <5>2. QED
            BY <5>1, SeqElement
        <4>2. QED
          BY <4>1
      <3>2. /\ SubSeq(w, a, b) \in Seq(Bytes)
            /\ Len(SubSeq(w, a, b)) = IF a <= b THEN b - a + 1 ELSE 0
            /\ \A i \in 1..(b - a + 1) : SubSeq(w, a, b)[i] = w[a + i - 1]
        BY <3>1, SubSeqProperties
      <3>3. Len(SubSeq(w, a, b)) = m
        BY <2>2, <3>2
      <3>4. QED
        BY <2>2, <2>3, <3>2, <3>3
    <2>5. QED
      BY <2>1, <2>2, <2>4
  <1>12. ASSUME NEW j \in 1..m
         PROVE  /\ k[j] = memory[s + (readAddr + n - m + j - 1)]
                /\ (readAddr + n - m + j - 1) \div chunkSize \notin Pattern!Lost(region)
    <2>1. t + n - m + j \in 1..(t + n) /\ readAddr - t + (t + n - m + j) - 1 = readAddr + n - m + j - 1
      <3>1. m \in Int /\ t \in Int /\ n \in Int /\ readAddr \in Int /\ j \in 1..m /\ m <= t + n
        BY <1>2, <1>7
      <3>2. QED
        BY ONLY <3>1
    <2>2. w[t + n - m + j] = memory[s + (readAddr - t + (t + n - m + j) - 1)]
      BY <1>6, <2>1
    <2>3. (readAddr - t + (t + n - m + j) - 1) \div chunkSize \notin Pattern!Lost(region)
      BY <1>1, <1>4, <2>1, ReadBytes
    <2>4. QED
      BY <1>11, <2>1, <2>2, <2>3
  <1>13. \/ m = l - 1
         \/ m = readAddr + n
         \/ (readAddr + n - m - 1) \div chunkSize \in Pattern!Lost(region)
    <2>1. CASE m = l - 1
      BY <2>1
    <2>2. CASE m = t + n /\ m # l - 1
      <3>1. t # l - 1
        BY <1>5, <1>7, <2>2
      <3>2. t = readAddr \/ (readAddr - t - 1) \div chunkSize \in Pattern!Lost(region)
        BY <1>1, <1>4, <3>1 DEF AtChunk, TailFits
      <3>3. readAddr + n - m - 1 = readAddr - t - 1
        BY <1>2, <2>2
      <3>4. QED
        BY <2>2, <3>2, <3>3
    <2>3. QED
      BY <1>7, <2>1, <2>2
  <1>14. m <= readAddr + n
    BY <1>1, <1>2, <1>4, <1>7
  <1>15. PICK b \in Nat : b = readAddr + n
    BY <1>2
  <1>16. TailFits(k, b)
    <2>1. k \in Seq(Bytes) /\ Len(k) <= Len(pattern) - 1 /\ Len(k) <= b
      BY <1>4, <1>7, <1>11, <1>14, <1>15
    <2>2. ASSUME NEW j \in 1..Len(k)
          PROVE  /\ k[j] = memory[map[region].start + (b - Len(k) + j - 1)]
                 /\ (b - Len(k) + j - 1) \div chunkSize \notin Pattern!Lost(region)
      <3>1. j \in 1..m /\ b - Len(k) + j - 1 = readAddr + n - m + j - 1
        BY <1>2, <1>11, <1>15
      <3>2. /\ k[j] = memory[s + (readAddr + n - m + j - 1)]
            /\ (readAddr + n - m + j - 1) \div chunkSize \notin Pattern!Lost(region)
        BY <1>12, <3>1
      <3>3. s = map[region].start
        BY <1>4
      <3>4. QED
        BY <3>1, <3>2, <3>3, Zenon
    <2>3. \/ Len(k) = Len(pattern) - 1
          \/ Len(k) = b
          \/ (b - Len(k) - 1) \div chunkSize \in Pattern!Lost(region)
      <3>1. Len(k) = m /\ Len(pattern) = l /\ b = readAddr + n /\ b - Len(k) - 1 = readAddr + n - m - 1
        BY <1>2, <1>4, <1>11, <1>15
      <3>2. QED
        BY <1>13, <3>1, Zenon
    <2>4. QED
      BY <2>1, <2>2, <2>3 DEF TailFits
  <1>17. QED
    BY <1>4, <1>6, <1>9, <1>15, <1>16

\* After a chunk that is skipped nothing is kept, and nothing is missed.
LEMMA NothingKept ==
  ASSUME AtChunk, Pattern!ReadFails
  PROVE  /\ TailFits(<<>>, readAddr + Pattern!ChunkLength)
         /\ EndedBy(region, readAddr + Pattern!ChunkLength) = EndedBy(region, readAddr)
  <1>1. /\ readAddr \in Nat /\ Pattern!ChunkLength \in Nat \ {0} /\ region \in 1..Len(map)
        /\ Len(pattern) \in Nat \ {0}
    BY ReadFacts, PatFacts DEF AtChunk, InRegion
  <1>2. \A b \in readAddr..(readAddr + Pattern!ChunkLength - 1) : b \div chunkSize \in Pattern!Lost(region)
    BY ChunkLost DEF AtChunk
  <1>3. TailFits(<<>>, readAddr + Pattern!ChunkLength)
    <2>1. readAddr + Pattern!ChunkLength - 1 \in readAddr..(readAddr + Pattern!ChunkLength - 1)
      BY <1>1
    <2>2. (readAddr + Pattern!ChunkLength - 1) \div chunkSize \in Pattern!Lost(region)
      BY <1>2, <2>1
    <2>3. PICK b \in Nat : b = readAddr + Pattern!ChunkLength
      BY <1>1
    <2>4. PICK s : s = <<>>
      OBVIOUS
    <2>5. s \in Seq(Bytes) /\ Len(s) = 0
      BY <2>4
    <2>6. s \in Seq(Bytes) /\ Len(s) <= Len(pattern) - 1 /\ Len(s) <= b
      BY <1>1, <2>3, <2>5
    <2>7. \A j \in 1..Len(s) : FALSE
      BY <2>5
    <2>8. (b - Len(s) - 1) \div chunkSize \in Pattern!Lost(region)
      <3>1. b - Len(s) - 1 = readAddr + Pattern!ChunkLength - 1
        BY <1>1, <2>3, <2>5
      <3>2. QED
        BY <2>2, <3>1, Zenon
    <2>9. TailFits(s, b)
      BY <2>6, <2>7, <2>8 DEF TailFits
    <2>10. QED
      BY <2>3, <2>4, <2>9
  <1>4. ASSUME NEW o \in Nat, OccIn(region, o), o + Len(pattern) <= readAddr + Pattern!ChunkLength
        PROVE  o + Len(pattern) <= readAddr
    <2>1. SUFFICES ASSUME ~ o + Len(pattern) <= readAddr PROVE FALSE
      OBVIOUS
    <2>2. o + Len(pattern) - 1 \in readAddr..(readAddr + Pattern!ChunkLength - 1)
      BY <1>1, <1>4, <2>1
    <2>3. Len(pattern) \in 1..Len(pattern)
      BY <1>1
    <2>4. (o + Len(pattern) - 1) \div chunkSize \notin Pattern!Lost(region)
      BY <1>4, <2>3 DEF OccIn
    <2>5. QED
      BY <1>2, <2>2, <2>4
  <1>5. ASSUME NEW q \in 1..Len(map), NEW o \in Nat, OccIn(q, o)
        PROVE  EndsBefore(q, o, region, readAddr + Pattern!ChunkLength) <=> EndsBefore(q, o, region, readAddr)
    <2>1. o + Len(pattern) <= readAddr => o + Len(pattern) <= readAddr + Pattern!ChunkLength
      BY <1>1
    <2>2. QED
      BY <1>4, <1>5, <2>1 DEF EndsBefore
  <1>6. QED
    BY <1>3, <1>5 DEF EndedBy

(***************************************************************************)
(* The invariant of a scan.                                                *)
(***************************************************************************)
PatInv ==
  /\ PatArgs
  /\ pc \in {"query", "chunk", "done"}
  /\ pc = "query" => /\ region \in 0..Len(map)
                     /\ ~ Pattern!Full(outHits) /\ Listed(outHits, EndedBy(region + 1, 0))
  /\ pc = "chunk" => /\ AtChunk
                     /\ ~ Pattern!Full(outHits) /\ Listed(outHits, EndedBy(region, readAddr))
  /\ pc = "done" => Listed(outHits, Pattern!Occurrences)

\* The arguments do not change, so neither do the occurrences.
LEMMA SamePlaces ==
  ASSUME UNCHANGED Pattern!args
  PROVE  /\ EndedBy(region + 1, 0)' = EndedBy(region' + 1, 0)
         /\ EndedBy(region, readAddr)' = EndedBy(region', readAddr')
         /\ Pattern!Occurrences' = Pattern!Occurrences
         /\ PatArgs' <=> PatArgs
  <1>1. map' = map /\ memory' = memory /\ pattern' = pattern /\ chunkSize' = chunkSize /\ maxHits' = maxHits
    BY DEF Pattern!args
  <1>2. EndedBy(region + 1, 0)' = EndedBy(region' + 1, 0)
    BY <1>1 DEF EndedBy, OccIn, EndsBefore, Pattern!Lost
  <1>3. EndedBy(region, readAddr)' = EndedBy(region', readAddr')
    BY <1>1 DEF EndedBy, OccIn, EndsBefore, Pattern!Lost
  <1>4. Pattern!Occurrences' = Pattern!Occurrences
    BY <1>1 DEF Pattern!Occurrences, Pattern!Lost
  <1>5. PatArgs' <=> PatArgs
    BY <1>1 DEF PatArgs, Pattern!Addresses
  <1>6. QED
    BY <1>2, <1>3, <1>4, <1>5

LEMMA ListedNext ==
  ASSUME UNCHANGED Pattern!args
  PROVE  /\ Pattern!Full(outHits)' <=> Pattern!Full(outHits')
         /\ Listed(outHits, EndedBy(region + 1, 0))' <=> Listed(outHits', EndedBy(region' + 1, 0))
         /\ Listed(outHits, EndedBy(region, readAddr))' <=> Listed(outHits', EndedBy(region', readAddr'))
         /\ Listed(outHits, Pattern!Occurrences)' <=> Listed(outHits', Pattern!Occurrences)
  <1>1. maxHits' = maxHits
    BY DEF Pattern!args
  <1>2. QED
    BY <1>1, SamePlaces DEF Listed, Pattern!Full, Pattern!Range

LEMMA AtChunkNext ==
  ASSUME UNCHANGED Pattern!args, PatArgs,
         region' \in 1..Len(map), map[region'].scanned,
         readAddr' \in Nat, readAddr' % chunkSize = 0, readAddr' < map[region'].size,
         \/ tail' \in Seq(Bytes) /\ Len(tail') = 0 /\ readAddr' = 0
         \/ region' = region /\ TailFits(tail', readAddr')
  PROVE  AtChunk'
  <1>1. map' = map /\ memory' = memory /\ pattern' = pattern /\ chunkSize' = chunkSize /\ maxHits' = maxHits
    BY DEF Pattern!args
  <1>2. PatArgs' /\ InRegion' /\ map'[region'].scanned
    BY <1>1, SamePlaces DEF InRegion
  <1>3. TailFits(tail, readAddr)'
    <2>1. CASE tail' \in Seq(Bytes) /\ Len(tail') = 0 /\ readAddr' = 0
      <3>2. Len(pattern') \in Nat \ {0}
        BY <1>1, PatFacts
      <3>3. /\ tail' \in Seq(Bytes) /\ Len(tail') <= Len(pattern') - 1 /\ Len(tail') <= readAddr'
            /\ Len(tail') = readAddr' /\ \A j \in 1..Len(tail') : FALSE
        BY <2>1, <3>2
      <3>4. QED
        BY <3>3 DEF TailFits
    <2>2. CASE region' = region /\ TailFits(tail', readAddr')
      BY <1>1, <2>2 DEF TailFits, Pattern!Lost
    <2>3. QED
      BY <2>1, <2>2
  <1>4. QED
    BY <1>2, <1>3 DEF AtChunk

LEMMA ScanStarts == ASSUME Pattern!Init PROVE PatInv
  <1>1. PatArgs
    <2>1. PICK asked \in ChunkSizes : chunkSize = Pattern!EffectiveChunk(asked, pattern)
      BY DEF Pattern!Init
    <2>2. chunkSize \in Nat \ {0}
      <3>1. asked \in Nat /\ MinChunk \in Nat \ {0} /\ pattern \in Seq(Bytes)
        BY PatternAssumption DEF Pattern!Init
      <3>2. PICK l \in Nat : l = Len(pattern)
        BY <3>1
      <3>3. \E x \in {asked, MinChunk, l} : \A y \in {asked, MinChunk, l} : x >= y
        BY <3>1
      <3>4. PICK x : x = CHOOSE z \in {asked, MinChunk, l} : \A y \in {asked, MinChunk, l} : z >= y
        OBVIOUS
      <3>5. x \in {asked, MinChunk, l} /\ x >= MinChunk
        BY <3>3, <3>4
      <3>6. chunkSize = x
        BY <2>1, <3>2, <3>4 DEF Pattern!EffectiveChunk, Pattern!Max
      <3>7. QED
        BY <3>1, <3>5, <3>6
    <2>3. QED
      BY <2>2 DEF Pattern!Init, PatArgs
  <1>2. region = 0 /\ pc = "query" /\ outHits = <<>>
    BY DEF Pattern!Init
  <1>3. Len(map) \in Nat /\ maxHits \in Nat /\ Len(pattern) \in Nat \ {0}
    BY <1>1, PatFacts
  <1>4. EndedBy(1, 0) = {}
    <2>1. \A q \in 1..Len(map), o \in Nat : ~ EndsBefore(q, o, 1, 0)
      BY <1>3 DEF EndsBefore
    <2>2. QED
      BY <2>1 DEF EndedBy
  <1>5. PICK s : s = <<>>
    OBVIOUS
  <1>6. s \in Seq(Int) /\ Len(s) = 0 /\ DOMAIN s = {} /\ Pattern!Range(s) = {}
    BY <1>5 DEF Pattern!Range
  <1>7. ~ Pattern!Full(s) /\ Listed(s, {})
    BY <1>3, <1>6 DEF Pattern!Full, Listed
  <1>8. QED
    BY <1>1, <1>2, <1>3, <1>4, <1>5, <1>7 DEF PatInv

LEMMA QueryKeeps == ASSUME PatInv, Pattern!QueryRegion PROVE PatInv'
  <1>1. /\ UNCHANGED Pattern!args /\ outHits' = outHits /\ region' = region + 1 /\ readAddr' = 0 /\ tail' = <<>>
        /\ pc' = IF region + 1 > Len(map) THEN "done"
                 ELSE IF map[region + 1].scanned /\ map[region + 1].size >= Len(pattern) THEN "chunk"
                 ELSE "query"
    BY DEF Pattern!QueryRegion
  <1>2. /\ region \in 0..Len(map) /\ ~ Pattern!Full(outHits) /\ Listed(outHits, EndedBy(region + 1, 0))
        /\ PatArgs /\ PatArgs' /\ Len(map) \in Nat /\ Len(pattern) \in Nat \ {0}
    BY <1>1, SamePlaces, PatFacts DEF PatInv, Pattern!QueryRegion
  <1>3. ~ Pattern!Full(outHits)'
    BY <1>1, <1>2, ListedNext
  <1>4. CASE region + 1 > Len(map)
    <2>1. region + 1 = Len(map) + 1
      BY <1>2, <1>4
    <2>2. Listed(outHits, Pattern!Occurrences)
      BY <1>2, <2>1, AllBefore
    <2>3. QED
      BY <1>1, <1>2, <1>4, <2>2, ListedNext DEF PatInv
  <1>5. CASE ~ region + 1 > Len(map) /\ map[region + 1].scanned /\ map[region + 1].size >= Len(pattern)
    <2>1. region' \in 1..Len(map) /\ map[region'].scanned
      BY <1>1, <1>2, <1>5
    <2>2. map[region'].size \in Nat /\ chunkSize \in Nat \ {0}
      BY <1>2, <2>1, PatFacts DEF PatArgs
    <2>3. readAddr' \in Nat /\ readAddr' % chunkSize = 0 /\ readAddr' < map[region'].size
      BY <1>1, <1>2, <1>5, <2>2
    <2>4. AtChunk'
      <3>0. PICK e : e = <<>>
        OBVIOUS
      <3>1. tail' \in Seq(Bytes) /\ Len(tail') = 0 /\ readAddr' = 0 /\ UNCHANGED Pattern!args /\ PatArgs
        <4>1. e \in Seq(Bytes) /\ Len(e) = 0
          BY <3>0
        <4>2. e = tail'
          BY <1>1, <3>0
        <4>3. QED
          BY <1>1, <1>2, <4>1, <4>2
      <3>2. QED
        BY <2>1, <2>3, <3>1, AtChunkNext
    <2>5. Listed(outHits', EndedBy(region', readAddr'))
      BY <1>1, <1>2
    <2>6. QED
      BY <1>1, <1>2, <1>3, <1>5, <2>4, <2>5, ListedNext DEF PatInv
  <1>6. CASE ~ region + 1 > Len(map) /\ ~ (map[region + 1].scanned /\ map[region + 1].size >= Len(pattern))
    <2>1. region' \in 1..Len(map) /\ region + 1 \in Nat
      BY <1>1, <1>2, <1>6
    <2>2. map[region'].size \in Nat
      BY <1>2, <2>1, PatFacts
    <2>3. \A o \in Nat : ~ OccIn(region', o)
      BY <1>1, <1>2, <1>6, <2>2 DEF OccIn
    <2>4. \A q \in 1..Len(map), o \in Nat :
            OccIn(q, o) => (EndsBefore(q, o, region', 0) <=> EndsBefore(q, o, region' + 1, 0))
      <3>1. \A q \in 1..Len(map) : q # region' => (q < region' <=> q < region' + 1)
        <4>1. PICK r \in Nat, l \in Nat : r = region' /\ l = Len(map)
          BY <1>2, <2>1
        <4>2. \A q \in 1..l : q # r => (q < r <=> q < r + 1)
          OBVIOUS
        <4>3. QED
          BY <4>1, <4>2
      <3>2. \A o \in Nat : ~ o + Len(pattern) <= 0
        BY <1>2
      <3>3. ASSUME NEW q \in 1..Len(map), NEW o \in Nat, OccIn(q, o)
            PROVE  EndsBefore(q, o, region', 0) <=> EndsBefore(q, o, region' + 1, 0)
        <4>1. q # region' /\ ~ o + Len(pattern) <= 0
          BY <2>3, <3>2, <3>3
        <4>2. q < region' <=> q < region' + 1
          BY <3>1, <4>1
        <4>3. QED
          BY <4>1, <4>2 DEF EndsBefore
      <3>4. QED
        BY <3>3
    <2>5. EndedBy(region', 0) = EndedBy(region' + 1, 0)
      BY <2>4 DEF EndedBy
    <2>6. Listed(outHits', EndedBy(region' + 1, 0))
      BY <1>1, <1>2, <2>5
    <2>7. region' \in 0..Len(map')
      BY <1>1, <2>1 DEF Pattern!args
    <2>8. QED
      BY <1>1, <1>2, <1>3, <1>6, <2>6, <2>7, ListedNext DEF PatInv
  <1>7. QED
    BY <1>4, <1>5, <1>6

\* To the next chunk, or past the end of the region.
LEMMA NextChunkKeeps ==
  ASSUME PatInv, pc = "chunk", NEW t, Pattern!NextChunk(t), UNCHANGED Pattern!args, region' = region,
         TailFits(t, readAddr + Pattern!ChunkLength), ~ Pattern!Full(outHits'),
         Listed(outHits', EndedBy(region, readAddr + Pattern!ChunkLength))
  PROVE  PatInv'
  <1>1. AtChunk /\ PatArgs /\ PatArgs'
    BY SamePlaces DEF PatInv
  <1>2. /\ region \in 1..Len(map) /\ Len(map) \in Nat /\ map[region].size \in Nat /\ map[region].scanned
        /\ readAddr \in Nat /\ readAddr % chunkSize = 0 /\ chunkSize \in Nat \ {0}
    BY <1>1, PatFacts DEF AtChunk, InRegion, PatArgs
  <1>3. PICK n \in Nat : n = Pattern!ChunkLength /\ (n = chunkSize \/ readAddr + n = map[region].size)
                         /\ readAddr + n <= map[region].size
    BY <1>1, ReadFacts DEF AtChunk
  <1>4. /\ tail' = t /\ readAddr' = readAddr + n
        /\ pc' = IF readAddr + n < map[region].size THEN "chunk" ELSE "query"
    BY <1>3 DEF Pattern!NextChunk
  <1>5. ~ Pattern!Full(outHits)' /\ Listed(outHits', EndedBy(region', readAddr')) /\ TailFits(tail', readAddr')
    BY <1>3, <1>4, ListedNext
  <1>6. CASE readAddr + n < map[region].size
    <2>1. readAddr' % chunkSize = 0
      <3>1. n = chunkSize
        BY <1>2, <1>3, <1>6
      <3>2. (readAddr + n) % chunkSize = 0
        <4>1. chunkSize % chunkSize = 0
          BY <1>2
        <4>2. QED
          BY <1>2, <3>1, <4>1, SumOfTimes
      <3>3. QED
        BY <1>4, <3>2
    <2>2. readAddr' \in Nat /\ readAddr' < map[region'].size
      BY <1>2, <1>3, <1>4, <1>6
    <2>3. region' \in 1..Len(map) /\ map[region'].scanned
      BY <1>2
    <2>4. AtChunk'
      BY <1>1, <1>5, <2>1, <2>2, <2>3, AtChunkNext
    <2>5. QED
      BY <1>1, <1>4, <1>5, <1>6, <2>4, ListedNext DEF PatInv
  <1>7. CASE ~ readAddr + n < map[region].size
    <2>1. readAddr + n = map[region].size
      BY <1>2, <1>3, <1>7
    <2>2. region + 1 \in Nat /\ region \in Nat /\ Len(pattern) \in Nat \ {0}
      BY <1>1, <1>2, PatFacts
    <2>3. ASSUME NEW q \in 1..Len(map), NEW o \in Nat, OccIn(q, o)
          PROVE  EndsBefore(q, o, region, readAddr + n) <=> EndsBefore(q, o, region + 1, 0)
      <3>1. q = region => o + Len(pattern) <= readAddr + n
        BY <2>1, <2>3 DEF OccIn
      <3>2. ~ o + Len(pattern) <= 0
        BY <2>2
      <3>3. q < region + 1 <=> q < region \/ q = region
        BY <2>2
      <3>4. QED
        BY <3>1, <3>2, <3>3 DEF EndsBefore
    <2>4. EndedBy(region, readAddr + n) = EndedBy(region + 1, 0)
      BY <2>3 DEF EndedBy
    <2>5. Listed(outHits', EndedBy(region' + 1, 0))
      BY <1>3, <2>4
    <2>6. region' \in 0..Len(map')
      BY <1>2 DEF Pattern!args
    <2>7. QED
      BY <1>1, <1>4, <1>5, <1>7, <2>5, <2>6, ListedNext DEF PatInv
  <1>8. QED
    BY <1>6, <1>7

LEMMA SkipKeeps == ASSUME PatInv, Pattern!SkipChunk PROVE PatInv'
  <1>1. /\ pc = "chunk" /\ Pattern!ReadFails /\ Pattern!NextChunk(<<>>)
        /\ UNCHANGED Pattern!args /\ region' = region /\ outHits' = outHits
    BY DEF Pattern!SkipChunk
  <1>2. AtChunk /\ ~ Pattern!Full(outHits) /\ Listed(outHits, EndedBy(region, readAddr))
    BY <1>1 DEF PatInv
  <1>3. /\ TailFits(<<>>, readAddr + Pattern!ChunkLength)
        /\ EndedBy(region, readAddr + Pattern!ChunkLength) = EndedBy(region, readAddr)
    BY <1>1, <1>2, NothingKept
  <1>4. ~ Pattern!Full(outHits') /\ Listed(outHits', EndedBy(region, readAddr + Pattern!ChunkLength))
    BY <1>1, <1>2, <1>3
  <1>5. PICK t : t = <<>>
    OBVIOUS
  <1>6. QED
    BY <1>1, <1>3, <1>4, <1>5, NextChunkKeeps

LEMMA ScanKeeps == ASSUME PatInv, Pattern!ScanChunk PROVE PatInv'
  <1>1. /\ pc = "chunk" /\ ~ Pattern!ReadFails /\ outHits' = Pattern!HitsAfter(Pattern!Window)
        /\ UNCHANGED Pattern!args /\ region' = region
    BY DEF Pattern!ScanChunk
  <1>2. AtChunk /\ ~ Pattern!Full(outHits) /\ Listed(outHits, EndedBy(region, readAddr))
        /\ PatArgs /\ PatArgs'
    BY <1>1, SamePlaces DEF PatInv
  <1>3. Listed(outHits', EndedBy(region, readAddr + Pattern!ChunkLength))
    BY <1>1, <1>2, HitsOfChunk
  <1>4. CASE Pattern!Full(outHits')
    <2>1. pc' = "done"
      BY <1>4, ListedNext DEF Pattern!ScanChunk
    <2>2. region \in Nat /\ readAddr + Pattern!ChunkLength \in Nat /\ Len(map) \in Nat /\ region \in 1..Len(map)
      BY <1>2, PatFacts, ReadFacts DEF AtChunk, InRegion
    <2>3. PICK a \in Nat : a = readAddr + Pattern!ChunkLength
      BY <2>2
    <2>4. EndedBy(region, a) \subseteq Pattern!Occurrences
      <3>1. \A q \in 1..Len(map), o \in Nat : EndsBefore(q, o, Len(map) + 1, 0)
        BY <2>2 DEF EndsBefore
      <3>2. EndedBy(region, a) \subseteq EndedBy(Len(map) + 1, 0)
        BY <3>1 DEF EndedBy
      <3>3. QED
        BY <1>2, <3>2, AllBefore
    <2>5. ASSUME NEW y \in Pattern!Occurrences, y \notin EndedBy(region, a), NEW x \in EndedBy(region, a)
          PROVE  x < y
      <3>1. y \in EndedBy(Len(map) + 1, 0)
        BY <1>2, <2>5, AllBefore
      <3>2. PICK q \in 1..Len(map), o \in Nat : y = map[q].start + o /\ OccIn(q, o) /\ y \in Int
        BY <3>1 DEF EndedBy
      <3>3. ~ EndsBefore(q, o, region, a)
        BY <2>5, <3>2 DEF EndedBy
      <3>4. QED
        BY <1>2, <2>2, <2>3, <2>5, <3>2, <3>3, InOrder
    <2>6. Pattern!Occurrences \in SUBSET Int /\ maxHits \in Nat
      BY <1>2, AllBefore, PatFacts DEF EndedBy
    <2>7. Listed(outHits', Pattern!Occurrences)
      <3>1. PICK s, X : s = outHits' /\ X = EndedBy(region, a)
        OBVIOUS
      <3>2. Listed(s, X) /\ Pattern!Full(s) /\ X \subseteq Pattern!Occurrences
            /\ \A y \in Pattern!Occurrences \ X : \A x \in X : x < y
        BY <1>3, <1>4, <2>3, <2>4, <2>5, <3>1
      <3>3. Listed(s, Pattern!Occurrences)
        BY <2>6, <3>2, FullListed
      <3>4. QED
        BY <3>1, <3>3
    <2>8. QED
      BY <1>1, <1>2, <2>1, <2>7, ListedNext DEF PatInv
  <1>5. CASE ~ Pattern!Full(outHits')
    <2>1. Pattern!NextChunk(Pattern!Keep(Pattern!Window))
      BY <1>5, ListedNext DEF Pattern!ScanChunk
    <2>2. TailFits(Pattern!Keep(Pattern!Window), readAddr + Pattern!ChunkLength)
      BY <1>1, <1>2, KeepFits
    <2>3. PICK t : t = Pattern!Keep(Pattern!Window)
      OBVIOUS
    <2>4. QED
      BY <1>1, <1>3, <1>5, <2>1, <2>2, <2>3, NextChunkKeeps
  <1>6. QED
    BY <1>4, <1>5

LEMMA PatStep == ASSUME PatInv, Pattern!Next \/ UNCHANGED vars PROVE PatInv'
  <1>1. ASSUME UNCHANGED <<map, memory, pattern, chunkSize, maxHits, pc, region, readAddr, tail, outHits>> PROVE PatInv'
    <2>1. UNCHANGED Pattern!args
      BY <1>1 DEF Pattern!args
    <2>2. AtChunk' <=> AtChunk
      BY <1>1 DEF AtChunk, PatArgs, Pattern!Addresses, InRegion, TailFits, Pattern!Lost
    <2>3. QED
      BY <1>1, <2>1, <2>2, SamePlaces, ListedNext DEF PatInv
  <1>2. CASE Pattern!Finished
    BY <1>1, <1>2 DEF Pattern!Finished, Pattern!vars, Pattern!args
  <1>3. CASE UNCHANGED vars
    BY <1>1, <1>3 DEF vars, patternVars
  <1>4. QED
    BY <1>2, <1>3, QueryKeeps, SkipKeeps, ScanKeeps DEF Pattern!Next

PatternCall == world = "pattern" => PatInv

LEMMA PatternCallHolds == Spec => []PatternCall
  <1>1. Init => PatternCall
    <2>1. Init /\ world = "pattern" => Pattern!Init
      BY DEF Init, PatternInit, LocatorInit, RegistrationInit, OfflineInit, ClassInit
    <2>2. QED
      BY <2>1, ScanStarts DEF PatternCall
  <1>2. PatternCall /\ [Next]_vars => PatternCall'
    <2> SUFFICES ASSUME PatternCall, [Next]_vars, world' = "pattern"
                 PROVE  PatInv'
      BY DEF PatternCall
    <2>1. world' = world
      BY DEF Next, PatternNext, LocatorNext, RegistrationNext, OfflineNext, ClassNext, vars
    <2>2. PatInv
      BY <2>1 DEF PatternCall
    <2>3. Pattern!Next \/ UNCHANGED vars
      <3>1. world = "pattern"
        BY <2>1
      <3>2. QED
        BY <3>1 DEF Next, PatternNext, LocatorNext, RegistrationNext, OfflineNext, ClassNext
    <2>4. QED
      BY <2>2, <2>3, PatStep
  <1>3. QED
    BY <1>1, <1>2, PTL DEF Spec

\* ScanProcessForPatternGlobal finds every occurrence that lies in one region
\* and in chunks that can be read, once, in the order of their addresses, up to
\* the limit, and nothing else: for any pattern, chunk size and regions.
THEOREM HitsAreExact == Spec => []HitsAreOccurrences
  <1>1. ASSUME PatInv PROVE Pattern!HitsAreOccurrences
    BY <1>1 DEF PatInv, Listed, Pattern!HitsAreOccurrences
  <1>2. PatternCall => HitsAreOccurrences
    BY <1>1 DEF PatternCall, HitsAreOccurrences
  <1>3. QED
    BY <1>2, PatternCallHolds, PTL

LEMMA BoundExists ==
  ASSUME NEW S \in SUBSET Int, IsFiniteSet(S)
  PROVE  \E high \in Int : \A y \in S : y <= high
  <1> DEFINE Can(m) == \A T \in SUBSET Int : IsFiniteSet(T) /\ Cardinality(T) = m =>
                         \E high \in Int : \A y \in T : y <= high
             Bad == {m \in Nat : ~ Can(m)}
  <1>1. ASSUME Bad # {} PROVE FALSE
    <2>1. PICK m \in Bad : \A k \in Bad : m <= k
      BY <1>1, LeastOfNat
    <2>2. PICK T \in SUBSET Int :
            IsFiniteSet(T) /\ Cardinality(T) = m /\ ~ \E high \in Int : \A y \in T : y <= high
      BY <2>1
    <2>3. T # {}
      BY <2>2
    <2>4. PICK x \in T : TRUE
      BY <2>3
    <2>5. IsFiniteSet(T \ {x}) /\ Cardinality(T \ {x}) = m - 1 /\ T \ {x} \in SUBSET Int
      BY <2>2, <2>4, FS_RemoveElement
    <2>6. m # 0
      BY <2>2, <2>3, FS_EmptySet
    <2>7. m - 1 \in Nat /\ Can(m - 1)
      BY <2>1, <2>6
    <2>8. PICK high \in Int : \A y \in T \ {x} : y <= high
      BY <2>5, <2>7
    <2>9. PICK h \in Int : h >= high /\ h >= x
      <3>1. x \in Int
        BY <2>4
      <3>2. CASE high >= x
        BY <2>8, <3>1, <3>2
      <3>3. CASE ~ high >= x
        BY <2>8, <3>1, <3>3
      <3>4. QED
        BY <3>2, <3>3
    <2>10. \A y \in T : y <= h
      <3>1. ASSUME NEW y \in T PROVE y <= h
        <4>1. y = x \/ y <= high
          BY <2>8
        <4>2. y \in Int
          OBVIOUS
        <4>3. QED
          BY <2>9, <4>1, <4>2
      <3>2. QED
        BY <3>1
    <2>11. QED
      BY <2>2, <2>10
  <1>2. Cardinality(S) \in Nat
    BY FS_CardinalityType
  <1>3. Can(Cardinality(S))
    BY <1>1, <1>2
  <1>4. QED
    BY <1>3

(***************************************************************************)
(* RegistrationScan.                                                       *)
(***************************************************************************)
LEMMA ModInChunk ==
  ASSUME NEW w \in Nat \ {0}, NEW q \in Nat, q % w = 0
  PROVE  /\ \A r \in 0..(w - 1) : (q + r) % w = r
         /\ (q + w) % w = 0
  <1>1. PICK j \in Int : q = j * w
    BY TimesOf
  <1>2. (q + w) % w = 0
    <2>1. q + w = (j + 1) * w /\ j + 1 \in Int
      BY <1>1
    <2>2. QED
      BY <2>1, ModOfTimes
  <1>3. ASSUME NEW r \in 0..(w - 1) PROVE (q + r) % w = r
    <2>1. PICK d \in Int, m \in 0..(w - 1) : q + r = w * d + m /\ m = (q + r) % w
      <3>1. q + r \in Nat
        OBVIOUS
      <3>2. QED
        BY <3>1, DivMod
    <2>2. (d - j) * w = r - m
      BY <1>1, <2>1
    <2>3. PICK e \in Int : e = d - j
      BY <1>1, <2>1
    <2>4. e * w = r - m /\ r - m < w /\ r - m > - w
      BY <2>1, <2>2, <2>3
    <2>5. ~ e >= 1
      <3>1. ASSUME e >= 1 PROVE FALSE
        <4>1. e * w >= 1 * w
          BY <3>1
        <4>2. QED
          BY <2>4, <4>1
      <3>2. QED
        BY <3>1
    <2>6. ~ e <= -1
      <3>1. ASSUME e <= -1 PROVE FALSE
        <4>1. e * w <= (-1) * w
          BY <3>1
        <4>2. QED
          BY <2>4, <4>1
      <3>2. QED
        BY <3>1
    <2>7. e = 0
      BY <2>3, <2>5, <2>6
    <2>8. QED
      BY <2>1, <2>4, <2>7
  <1>4. QED
    BY <1>2, <1>3

RegMin(S) == Registration!Min(S)

LEMMA RegMinOf ==
  /\ \A x, y \in Int : RegMin({x, y}) = IF x <= y THEN x ELSE y
  /\ \A S \in SUBSET Int : \A low \in Int :
       S # {} /\ (\A y \in S : low <= y) => RegMin(S) \in S
  <1>1. ASSUME NEW x \in Int, NEW y \in Int
        PROVE  RegMin({x, y}) = IF x <= y THEN x ELSE y
    BY <1>1 DEF RegMin, Registration!Min
  <1>2. ASSUME NEW S \in SUBSET Int, NEW low \in Int, S # {}, \A y \in S : low <= y
        PROVE  RegMin(S) \in S
    <2>1. \E x \in S : \A y \in S : x <= y
      BY <1>2, LeastOfInt
    <2>2. QED
      BY <2>1 DEF RegMin, Registration!Min
  <1>3. QED
    BY <1>1, <1>2

LEMMA RegCardinality == \A S : Registration!Cardinality(S) = Cardinality(S)
  BY Zenon DEF Registration!Cardinality, Cardinality

\* The members of a finite set of numbers can be put in order.
LEMMA OrderExists ==
  ASSUME NEW n \in Nat
  PROVE  \A S \in SUBSET Int : IsFiniteSet(S) /\ Cardinality(S) = n =>
           \E s \in [1..n -> S] : \A i, j \in 1..n : i < j => s[i] < s[j]
  <1> DEFINE Can(m) == \A S \in SUBSET Int : IsFiniteSet(S) /\ Cardinality(S) = m =>
                         \E s \in [1..m -> S] : \A i, j \in 1..m : i < j => s[i] < s[j]
             Bad == {m \in Nat : ~ Can(m)}
  <1>1. ASSUME Bad # {} PROVE FALSE
    <2>1. PICK m \in Bad : \A k \in Bad : m <= k
      BY <1>1, LeastOfNat
    <2>2. PICK S \in SUBSET Int :
            /\ IsFiniteSet(S) /\ Cardinality(S) = m
            /\ ~ \E s \in [1..m -> S] : \A i, j \in 1..m : i < j => s[i] < s[j]
      BY <2>1
    <2>3. m # 0
      <3>1. ASSUME m = 0 PROVE FALSE
        <4>1. 1..m = {}
          BY <3>1
        <4>2. [i \in 1..m |-> 0] \in [1..m -> S]
          BY <4>1
        <4>3. QED
          BY <2>2, <4>1, <4>2
      <3>2. QED
        BY <3>1
    <2>4. m - 1 \in Nat /\ m \in Nat /\ Can(m - 1)
      BY <2>1, <2>3
    <2>5. S # {}
      BY <2>2, <2>3, FS_EmptySet
    <2>6. PICK x \in S : \A y \in S : x >= y
      <3>1. PICK high \in Int : \A y \in S : y <= high
        BY <2>2, BoundExists
      <3>2. QED
        BY <2>2, <2>5, <3>1, GreatestOfInt
    <2>7. IsFiniteSet(S \ {x}) /\ Cardinality(S \ {x}) = m - 1 /\ S \ {x} \in SUBSET Int
      BY <2>2, <2>6, FS_RemoveElement
    <2>8. PICK t \in [1..(m - 1) -> S \ {x}] : \A i, j \in 1..(m - 1) : i < j => t[i] < t[j]
      BY <2>4, <2>7
    <2> DEFINE s == [i \in 1..m |-> IF i = m THEN x ELSE t[i]]
    <2>9. s \in [1..m -> S]
      <3>1. ASSUME NEW i \in 1..m, i # m PROVE t[i] \in S
        BY <2>4, <2>8, <3>1
      <3>2. QED
        BY <2>6, <3>1
    <2>10. ASSUME NEW i \in 1..m, NEW j \in 1..m, i < j PROVE s[i] < s[j]
      <3>1. i \in 1..(m - 1) /\ s[i] = t[i]
        BY <2>4, <2>10
      <3>2. CASE j = m
        <4>1. t[i] \in S \ {x} /\ s[j] = x
          BY <2>8, <3>1, <3>2
        <4>2. t[i] \in Int /\ x \in Int /\ t[i] # x /\ x >= t[i]
          BY <2>6, <4>1
        <4>3. QED
          BY <3>1, <4>1, <4>2
      <3>3. CASE j # m
        <4>1. j \in 1..(m - 1) /\ s[j] = t[j]
          BY <2>4, <3>3
        <4>2. QED
          BY <2>8, <2>10, <3>1, <4>1
      <3>4. QED
        BY <3>2, <3>3
    <2> HIDE DEF s
    <2>11. QED
      BY <2>2, <2>9, <2>10
  <1>2. Can(n)
    BY <1>1
  <1>3. QED
    BY <1>2

LEMMA AscendingFacts ==
  ASSUME NEW S \in SUBSET Int, IsFiniteSet(S)
  PROVE  /\ Cardinality(S) \in Nat
         /\ Registration!Ascending(S) \in [1..Cardinality(S) -> S]
         /\ \A i, j \in 1..Cardinality(S) : i < j => Registration!Ascending(S)[i] < Registration!Ascending(S)[j]
         /\ \A x \in S : \E i \in 1..Cardinality(S) : Registration!Ascending(S)[i] = x
  <1> DEFINE n == Cardinality(S)
             f == Registration!Ascending(S)
  <1>1. n \in Nat
    BY FS_CardinalityType
  <1>2. \E s \in [1..n -> S] : \A i, j \in 1..n : i < j => s[i] < s[j]
    BY <1>1, OrderExists
  <1>3. f \in [1..n -> S] /\ \A i, j \in 1..n : i < j => f[i] < f[j]
    <2>1. f = CHOOSE s \in [1..n -> S] : \A i, j \in 1..n : i < j => s[i] < s[j]
      BY RegCardinality DEF Registration!Ascending
    <2> HIDE DEF f
    <2>2. QED
      BY <1>2, <2>1
  <1> HIDE DEF n, f
  <1>4. \A i, j \in 1..n : f[i] = f[j] => i = j
    <2>1. ASSUME NEW i \in 1..n, NEW j \in 1..n, f[i] = f[j], i # j PROVE FALSE
      <3>1. i < j \/ j < i
        BY <1>1, <2>1
      <3>2. f[i] \in Int /\ f[j] \in Int
        BY <1>3
      <3>3. QED
        BY <1>3, <2>1, <3>1, <3>2
    <2>2. QED
      BY <2>1
  <1>5. IsFiniteSet(1..n) /\ Cardinality(1..n) = n
    BY <1>1, FS_Interval
  <1>6. f \in Injection(1..n, S)
    BY <1>3, <1>4 DEF Injection, IsInjective
  <1>7. f \in Surjection(1..n, S)
    BY <1>5, <1>6, FS_Injection DEF n
  <1>8. \A x \in S : \E i \in 1..n : f[i] = x
    BY <1>7 DEF Surjection
  <1>9. QED
    BY <1>1, <1>3, <1>8 DEF n, f

LEMMA SelectFacts ==
  ASSUME NEW s, NEW I \in SUBSET Nat, IsFiniteSet(I), \A i \in I : s[i] \in Int
  PROVE  LET t == Registration!Select(s, I)
         IN  /\ t \in Seq(Int) /\ Len(t) = Cardinality(I) /\ Len(t) \in Nat
             /\ \A k \in 1..Len(t) : \E i \in I : t[k] = s[i]
             /\ \A i \in I : \E k \in 1..Len(t) : t[k] = s[i]
             /\ \A k, l \in 1..Len(t) : k < l => \E i, j \in I : i < j /\ t[k] = s[i] /\ t[l] = s[j]
  <1> DEFINE t == Registration!Select(s, I)
             f == Registration!Ascending(I)
             n == Cardinality(I)
  <1>1. /\ n \in Nat /\ f \in [1..n -> I]
        /\ \A i, j \in 1..n : i < j => f[i] < f[j]
        /\ \A x \in I : \E i \in 1..n : f[i] = x
    <2>1. I \in SUBSET Int
      OBVIOUS
    <2>2. QED
      BY <2>1, AscendingFacts
  <1>2. t = [k \in 1..n |-> s[f[k]]]
    BY RegCardinality DEF Registration!Select
  <1> HIDE DEF t, f, n
  <1>4. \A k \in 1..n : t[k] = s[f[k]] /\ f[k] \in I
    BY <1>1, <1>2
  <1>3. t \in Seq(Int) /\ Len(t) = n
    <2>1. \A k \in 1..n : s[f[k]] \in Int
      BY <1>4
    <2>2. t \in [1..n -> Int]
      BY <1>2, <2>1
    <2>3. t \in Seq(Int) /\ Len(t) = n
      BY <1>1, <2>2
    <2>4. QED
      BY <2>3
  <1>5. ASSUME NEW k \in 1..n, NEW l \in 1..n, k < l
        PROVE  \E i, j \in I : i < j /\ t[k] = s[i] /\ t[l] = s[j]
    BY <1>1, <1>4, <1>5
  <1>6. ASSUME NEW i \in I PROVE \E k \in 1..n : t[k] = s[i]
    <2>1. PICK k \in 1..n : f[k] = i
      BY <1>1
    <2>2. QED
      BY <1>4, <2>1
  <1>7. \A k \in 1..n : \E i \in I : t[k] = s[i]
    BY <1>4
  <1>8. QED
    BY <1>1, <1>3, <1>5, <1>6, <1>7 DEF n, t

RegInput == input \in RegistrationInputs

CodeNeed == Registration!CodeOffsets(input.version).need
MetaAt == Registration!MetaOffsets(input.version)

LEMMA RegInputFacts ==
  ASSUME RegInput
  PROVE  /\ input.chunk \in Nat \ {0}
         /\ input.path \in {"none", "parsed", "broken"}
         /\ \A st : LET ss == Registration!SectionsOf(st) IN
              /\ Len(ss) \in Nat /\ DOMAIN ss = 1..Len(ss)
              /\ \A j \in 1..Len(ss) : ss[j].start \in Nat \ {0} /\ ss[j].size \in Nat
              /\ \A j \in 1..Len(ss) : ss[j].kind = "data" => ss[j].start > MetaAt.need
              /\ \A j, k \in 1..Len(ss) : j < k => ss[j].start + ss[j].size <= ss[k].start
         /\ CodeNeed \in Nat
         /\ MetaAt.fieldOffsets \in Nat \ {0} /\ MetaAt.need \in Nat /\ MetaAt.fieldOffsets < MetaAt.need
  <1>1. /\ input.chunk \in Nat \ {0} /\ input.path \in {"none", "parsed", "broken"} /\ input.version \in Nat
    BY RegistrationAssumption DEF RegInput
  <1>2. ASSUME NEW ss \in {input.file, input.memory}
        PROVE /\ Len(ss) \in Nat /\ DOMAIN ss = 1..Len(ss)
              /\ \A j \in 1..Len(ss) : ss[j].start \in Nat \ {0} /\ ss[j].size \in Nat
              /\ \A j \in 1..Len(ss) : ss[j].kind = "data" => ss[j].start > MetaAt.need
              /\ \A j, k \in 1..Len(ss) : j < k => ss[j].start + ss[j].size <= ss[k].start
    <2>1. /\ ss \in Seq([kind : STRING, start : Nat \ {0}, size : Nat])
          /\ \A j \in DOMAIN ss : ss[j].kind = "data" => ss[j].start > MetaAt.need
          /\ \A j, k \in DOMAIN ss : j < k => ss[j].start + ss[j].size <= ss[k].start
      BY <1>2, RegistrationAssumption DEF RegInput, MetaAt
    <2>2. Len(ss) \in Nat /\ DOMAIN ss = 1..Len(ss)
      BY <2>1
    <2>3. \A j \in 1..Len(ss) : ss[j].start \in Nat \ {0} /\ ss[j].size \in Nat
      <3>1. ASSUME NEW j \in 1..Len(ss) PROVE ss[j] \in [kind : STRING, start : Nat \ {0}, size : Nat]
        BY <2>1, <2>2, ElementOfSeq
      <3>2. QED
        BY <3>1
    <2>4. QED
      BY <2>1, <2>2, <2>3
  <1>3. \A st : Registration!SectionsOf(st) \in {input.file, input.memory}
    BY DEF Registration!SectionsOf
  <1>4. CodeNeed \in Nat
    <2>1. Registration!Before(31, input.version) \in Nat
      <3>1. PICK n \in Int : n = 31 - 1
        OBVIOUS
      <3>2. IsFiniteSet(1..n)
        BY FS_Interval
      <3>3. \A T \in SUBSET (1..n) : Registration!Cardinality(T) \in Nat
        BY <3>2, RegCardinality, FS_Subset, FS_CardinalityType
      <3>4. {j \in 1..n : Registration!Has(j, input.version)} \in SUBSET (1..n)
        OBVIOUS
      <3>5. Registration!Before(31, input.version) =
              Registration!Cardinality({j \in 1..n : Registration!Has(j, input.version)})
        BY <3>1 DEF Registration!Before
      <3>6. QED
        BY <3>3, <3>4, <3>5
    <2>2. QED
      BY <2>1 DEF CodeNeed, Registration!CodeOffsets
  <1>5. MetaAt.fieldOffsets \in Nat \ {0} /\ MetaAt.need \in Nat /\ MetaAt.fieldOffsets < MetaAt.need
    BY <1>1 DEF MetaAt, Registration!MetaOffsets
  <1>6. ASSUME NEW st
        PROVE LET ss == Registration!SectionsOf(st) IN
              /\ Len(ss) \in Nat /\ DOMAIN ss = 1..Len(ss)
              /\ \A j \in 1..Len(ss) : ss[j].start \in Nat \ {0} /\ ss[j].size \in Nat
              /\ \A j \in 1..Len(ss) : ss[j].kind = "data" => ss[j].start > MetaAt.need
              /\ \A j, k \in 1..Len(ss) : j < k => ss[j].start + ss[j].size <= ss[k].start
    <2>1. Registration!SectionsOf(st) \in {input.file, input.memory}
      BY <1>3
    <2>2. QED
      BY ONLY <1>2, <2>1, Zenon
  <1>7. QED
    BY <1>1, <1>4, <1>5, <1>6

Searches == {"code", "meta", "scan"}
Stages == {"disk", "memory", "sidecar"}

LeadOf(search, st) == IF st = "sidecar" THEN MetaAt.fieldOffsets - 1 ELSE 0
ReachOf(search, st) ==
  IF search = "code" THEN CodeNeed
  ELSE IF search = "meta" /\ st # "sidecar" THEN MetaAt.need ELSE 4
LeastOf(search, st) == IF st = "sidecar" THEN 5 ELSE ReachOf(search, st)
IsSought(search, st, a) ==
  IF search = "code" THEN Registration!IsCodeRegistration(Registration!SectionsOf(st), a)
  ELSE IF search = "scan" THEN Registration!IsModule(a)
  ELSE IF st = "sidecar" THEN Registration!IsSidecarRegistration(Registration!SectionsOf(st), a)
  ELSE Registration!IsMetadataRegistration(Registration!SectionsOf(st), a)

\* Section j has at place p a structure of which the words it is known by lie
\* in one chunk.
Visible(search, st, j, p) ==
  LET s == Registration!SectionsOf(st)[j]
      len == RegMin({input.chunk, s.size - (p - (p % input.chunk))})
  IN  /\ Registration!IsScanned(s, search) /\ p \in 0..(s.size - 1)
      /\ (p % input.chunk) + ReachOf(search, st) <= len /\ len >= LeastOf(search, st)
      /\ IsSought(search, st, s.start + p - LeadOf(search, st))

Searched(search, st) == search \in Searches /\ st \in Stages /\ (st = "sidecar" => search = "meta")

LEMMA FoundableIs ==
  ASSUME RegInput, NEW search, NEW st, Searched(search, st), NEW a \in Registration!Foundable(search, st)
  PROVE  \E j \in 1..Len(Registration!SectionsOf(st)) : \E p \in Nat :
           Visible(search, st, j, p) /\ a = Registration!SectionsOf(st)[j].start + p - LeadOf(search, st)
  <1> DEFINE ss == Registration!SectionsOf(st)
             lead == LeadOf(search, st)
             reach == ReachOf(search, st)
             least == LeastOf(search, st)
  <1>1. a \in Registration!InOneChunk(ss, search, lead, reach, least) /\ IsSought(search, st, a)
    <2>1. CASE search = "code"
      BY <2>1 DEF Searched, Registration!Foundable, LeadOf, ReachOf, LeastOf, IsSought, CodeNeed
    <2>2. CASE search = "scan"
      BY <2>2 DEF Searched, Registration!Foundable, LeadOf, ReachOf, LeastOf, IsSought
    <2>3. CASE search = "meta" /\ st = "sidecar"
      BY <2>3 DEF Searched, Registration!Foundable, LeadOf, ReachOf, LeastOf, IsSought, MetaAt
    <2>4. CASE search = "meta" /\ st # "sidecar"
      BY <2>4 DEF Searched, Registration!Foundable, LeadOf, ReachOf, LeastOf, IsSought, MetaAt
    <2>5. QED
      BY <2>1, <2>2, <2>3, <2>4 DEF Searched, Searches
  <1>2. /\ Len(ss) \in Nat /\ DOMAIN ss = 1..Len(ss)
        /\ \A j \in 1..Len(ss) : ss[j].start \in Nat \ {0} /\ ss[j].size \in Nat
        /\ lead \in Nat /\ input.chunk \in Nat \ {0}
    BY RegInputFacts DEF LeadOf
  <1> HIDE DEF ss, lead, reach, least
  <1> DEFINE InChunk(s, p) ==
               LET len == Registration!Min({input.chunk, s.size - (p - (p % input.chunk))})
               IN  (p % input.chunk) + reach <= len /\ len >= least
             PlacesIn(s) == {b \in (s.start - lead)..(s.start + s.size - lead - 1) : InChunk(s, b + lead - s.start)}
  <1>0. Registration!InOneChunk(ss, search, lead, reach, least) =
          UNION {PlacesIn(s) : s \in {t \in Registration!Range(ss) : Registration!IsScanned(t, search)}}
    BY DEF Registration!InOneChunk
  <1>3. PICK s \in {t \in Registration!Range(ss) : Registration!IsScanned(t, search)} : a \in PlacesIn(s)
    BY <1>0, <1>1
  <1>4. PICK j \in 1..Len(ss) : s = ss[j]
    BY <1>2, <1>3 DEF Registration!Range
  <1>5. s.start \in Nat /\ s.size \in Nat
    BY <1>2, <1>4
  <1>6. a \in (s.start - lead)..(s.start + s.size - lead - 1) /\ InChunk(s, a + lead - s.start)
    BY <1>3
  <1> HIDE DEF InChunk
  <1>7. PICK p \in Nat : p = a + lead - s.start /\ p \in 0..(s.size - 1) /\ a = s.start + p - lead
    <2>1. PICK x \in Nat, n \in Nat, l \in Nat : x = s.start /\ n = s.size /\ l = lead
      BY <1>2, <1>5
    <2>2. a \in (x - l)..(x + n - l - 1)
      BY <1>6, <2>1
    <2>3. a + l - x \in 0..(n - 1) /\ a = x + (a + l - x) - l
      BY <2>2
    <2>4. QED
      BY <2>1, <2>3
  <1>8. LET len == RegMin({input.chunk, s.size - (p - (p % input.chunk))})
        IN  (p % input.chunk) + reach <= len /\ len >= least
    BY <1>6, <1>7 DEF RegMin, InChunk
  <1>9. Visible(search, st, j, p)
    BY <1>1, <1>3, <1>4, <1>7, <1>8 DEF Visible, ss, lead, reach, least
  <1>10. QED
    BY <1>4, <1>7, <1>9 DEF ss, lead

\* Where a search is.
Here == Registration!SectionsOf(stage)[section]
SearchOK == Searched(pc, stage) /\ section \in 1..Len(Registration!SectionsOf(stage)) /\ offset \in Nat

LEMMA RegChunkFacts ==
  ASSUME RegInput, SearchOK, offset < Here.size
  PROVE  /\ Registration!ToRead \in Nat \ {0} /\ Registration!ToRead <= input.chunk
         /\ Registration!ToRead = RegMin({input.chunk, Here.size - offset})
         /\ offset + Registration!ToRead <= Here.size
         /\ Registration!ToRead = input.chunk \/ offset + Registration!ToRead = Here.size
         /\ Here.start \in Nat \ {0} /\ Here.size \in Nat
         /\ Registration!ChunkAt = Here.start + offset
         /\ Registration!Reach = ReachOf(pc, stage) /\ Registration!Lead = LeadOf(pc, stage)
         /\ LeadOf(pc, stage) \in Nat /\ ReachOf(pc, stage) \in Nat
  <1>1. Here.start \in Nat \ {0} /\ Here.size \in Nat /\ input.chunk \in Nat \ {0}
    BY RegInputFacts DEF Here, SearchOK
  <1>2. Registration!ToRead = RegMin({input.chunk, Here.size - offset}) /\ Registration!ChunkAt = Here.start + offset
    BY DEF Registration!ToRead, Registration!ChunkAt, Registration!Sections, RegMin, Here
  <1>3. Registration!ToRead = IF input.chunk <= Here.size - offset THEN input.chunk ELSE Here.size - offset
    BY <1>1, <1>2, RegMinOf DEF SearchOK
  <1>4. Registration!Reach = ReachOf(pc, stage) /\ Registration!Lead = LeadOf(pc, stage)
    BY DEF SearchOK, Searched, Searches, Registration!Reach, Registration!Lead, ReachOf, LeadOf, CodeNeed, MetaAt
  <1>5. LeadOf(pc, stage) \in Nat /\ ReachOf(pc, stage) \in Nat
    BY RegInputFacts DEF LeadOf, ReachOf
  <1> DEFINE toRead == Registration!ToRead
             rest == Here.size - offset
  <1>6. rest \in Nat \ {0} /\ toRead = IF input.chunk <= rest THEN input.chunk ELSE rest
    BY <1>1, <1>3 DEF SearchOK
  <1>7. /\ toRead \in Nat \ {0} /\ toRead <= input.chunk /\ toRead <= rest
        /\ toRead = input.chunk \/ toRead = rest
    <2> HIDE DEF toRead, rest
    <2>1. QED
      BY <1>1, <1>6
  <1>8. offset + toRead <= Here.size /\ (toRead = input.chunk \/ offset + toRead = Here.size)
    <2> HIDE DEF toRead
    <2>1. QED
      BY <1>1, <1>7 DEF SearchOK
  <1>9. QED
    BY <1>1, <1>2, <1>4, <1>5, <1>7, <1>8

\* What is visible in a chunk is a hit when that is scanned.
LEMMA VisibleIsHit ==
  ASSUME RegInput, SearchOK, offset < Here.size, offset % input.chunk = 0,
         NEW p \in Nat, Visible(pc, stage, section, p), offset <= p, p < offset + Registration!ToRead
  PROVE  Here.start + p - LeadOf(pc, stage) \in Registration!Hits
  <1> DEFINE size == Registration!ToRead
             lead == LeadOf(pc, stage)
             reach == ReachOf(pc, stage)
             c == input.chunk
  <1>1. /\ size \in Nat \ {0} /\ size <= c /\ size = RegMin({c, Here.size - offset})
        /\ Here.start \in Nat /\ Here.size \in Nat /\ Registration!ChunkAt = Here.start + offset
        /\ Registration!Reach = reach /\ Registration!Lead = lead /\ lead \in Nat /\ reach \in Nat
    BY RegChunkFacts
  <1>2. c \in Nat \ {0} /\ offset \in Nat
    BY RegInputFacts DEF SearchOK
  <1>3. p = offset + (p - offset) /\ p - offset \in 0..(c - 1)
    BY <1>1, <1>2
  <1>4. p % c = p - offset
    BY <1>2, <1>3, ModInChunk
  <1>5. p - (p % c) = offset
    BY <1>2, <1>4
  <1>6. (p - offset) + reach <= size /\ size >= LeastOf(pc, stage)
    BY <1>1, <1>4, <1>5 DEF Visible, Here
  <1>7. IsSought(pc, stage, Here.start + p - lead)
    BY DEF Visible, Here
  <1>8. Here.start + p - lead \in Registration!Positions
    <2>1. stage = "sidecar" => size # reach
      BY <1>6 DEF LeastOf, ReachOf, SearchOK, Searched
    <2>2. p - offset \in 0..(size - reach) /\ Here.start + p - lead = Registration!ChunkAt + (p - offset) - lead
      BY <1>1, <1>2, <1>3, <1>6
    <2>3. QED
      BY <1>1, <2>1, <2>2 DEF Registration!Positions
  <1>9. QED
    BY <1>7, <1>8 DEF Registration!Hits, IsSought, SearchOK, Searched, Searches, Registration!Sections

\* Hits lie in the chunk, but for what the sidecar search adds in front.
LEMMA HitFacts ==
  ASSUME RegInput, SearchOK, offset < Here.size, Registration!IsScanned(Here, pc)
  PROVE  /\ Registration!Hits \in SUBSET Int /\ IsFiniteSet(Registration!Hits)
         /\ \A a \in Registration!Hits : /\ a > 0 /\ IsSought(pc, stage, a)
                                         /\ a >= Here.start + offset - LeadOf(pc, stage)
                                         /\ a <= Here.start + offset + Registration!ToRead - ReachOf(pc, stage)
  <1>1. /\ Registration!ToRead \in Nat \ {0}
        /\ Here.start \in Nat \ {0} /\ Here.size \in Nat /\ Registration!ChunkAt = Here.start + offset
        /\ Registration!Reach = ReachOf(pc, stage) /\ Registration!Lead = LeadOf(pc, stage)
        /\ LeadOf(pc, stage) \in Nat /\ ReachOf(pc, stage) \in Nat /\ offset \in Nat
    BY RegChunkFacts DEF SearchOK
  <1>2. LeadOf(pc, stage) < Here.start
    <2>1. CASE stage = "sidecar"
      <3>1. Here.kind = "data"
        BY <2>1 DEF Registration!IsScanned, SearchOK, Searched
      <3>2. Here.start > MetaAt.need /\ MetaAt.fieldOffsets < MetaAt.need
            /\ MetaAt.fieldOffsets \in Nat /\ MetaAt.need \in Nat
        BY <3>1, RegInputFacts DEF Here, SearchOK
      <3>3. QED
        BY <1>1, <2>1, <3>2 DEF LeadOf
    <2>2. CASE stage # "sidecar"
      BY <1>1, <2>2 DEF LeadOf
    <2>3. QED
      BY <2>1, <2>2
  <1> DEFINE low == Here.start + offset - LeadOf(pc, stage)
             high == Here.start + offset + Registration!ToRead - ReachOf(pc, stage)
  <1>3. \A a \in Registration!Positions : a \in low..high
    BY <1>1 DEF Registration!Positions
  <1>4. low \in Int /\ high \in Int /\ low > 0
    BY <1>1, <1>2
  <1> HIDE DEF low, high
  <1>5. Registration!Hits \in SUBSET (low..high)
    BY <1>3 DEF Registration!Hits
  <1>6. IsFiniteSet(low..high)
    BY <1>4, FS_Interval
  <1>7. IsFiniteSet(Registration!Hits)
    BY <1>5, <1>6, FS_Subset
  <1>8. \A a \in Registration!Hits : a \in Int /\ a > 0 /\ a >= low /\ a <= high
    BY <1>4, <1>5
  <1>9. \A a \in Registration!Hits : IsSought(pc, stage, a)
    BY DEF Registration!Hits, IsSought, SearchOK, Searched, Searches, Registration!Sections
  <1>10. QED
    BY <1>7, <1>8, <1>9 DEF low, high

\* Nothing of these depends on more of the state than the input.
LEMMA RegWordsKept ==
  ASSUME input' = input
  PROVE  /\ \A a : (Registration!WordAt(a))' = Registration!WordAt(a)
         /\ \A a : (Registration!InModule(a))' <=> Registration!InModule(a)
         /\ \A st : (Registration!SectionsOf(st))' = Registration!SectionsOf(st)
         /\ RegInput' <=> RegInput
         /\ CodeNeed' = CodeNeed /\ MetaAt' = MetaAt
         /\ Registration!FirstStage' = Registration!FirstStage
  <1>1. \A a : (Registration!WordAt(a))' = Registration!WordAt(a)
    BY DEF Registration!WordAt
  <1>2. \A a : (Registration!InModule(a))' <=> Registration!InModule(a)
    BY DEF Registration!InModule
  <1>3. \A st : (Registration!SectionsOf(st))' = Registration!SectionsOf(st)
    BY DEF Registration!SectionsOf
  <1>4. RegInput' <=> RegInput
    BY DEF RegInput
  <1>5. CodeNeed' = CodeNeed /\ MetaAt' = MetaAt
    BY DEF CodeNeed, MetaAt
  <1>6. Registration!FirstStage' = Registration!FirstStage
    BY DEF Registration!FirstStage
  <1>7. QED
    BY <1>1, <1>2, <1>3, <1>4, <1>5, <1>6

LEMMA StructuresKept ==
  ASSUME input' = input
  PROVE  /\ \A ss, a : (Registration!IsCodeRegistration(ss, a))' <=> Registration!IsCodeRegistration(ss, a)
         /\ \A ss, a : (Registration!IsMetadataRegistration(ss, a))' <=> Registration!IsMetadataRegistration(ss, a)
         /\ \A ss, a : (Registration!IsSidecarRegistration(ss, a))' <=> Registration!IsSidecarRegistration(ss, a)
         /\ \A m : (Registration!IsModule(m))' <=> Registration!IsModule(m)
         /\ \A m : (Registration!NameOf(m))' = Registration!NameOf(m)
  <1>1. ASSUME NEW ss, NEW a
        PROVE  (Registration!IsCodeRegistration(ss, a))' <=> Registration!IsCodeRegistration(ss, a)
    <2>1. \A p : (Registration!IsModulesArray(p))' <=> Registration!IsModulesArray(p)
      BY RegWordsKept DEF Registration!IsModulesArray
    <2>2. \A p : (Registration!IsExecArray(ss, p))' <=> Registration!IsExecArray(ss, p)
      BY RegWordsKept DEF Registration!IsExecArray
    <2>3. QED
      BY <2>1, <2>2, RegWordsKept DEF Registration!IsCodeRegistration
  <1>2. \A a, o : (Registration!CountsAgree(a, o))' <=> Registration!CountsAgree(a, o)
    BY RegWordsKept DEF Registration!CountsAgree
  <1>3. \A ss, a, o : (Registration!PointersAreData(ss, a, o))' <=> Registration!PointersAreData(ss, a, o)
    BY RegWordsKept DEF Registration!PointersAreData
  <1>4. \A ss, a : (Registration!IsMetadataRegistration(ss, a))' <=> Registration!IsMetadataRegistration(ss, a)
    BY <1>2, <1>3, RegWordsKept DEF Registration!IsMetadataRegistration
  <1>5. \A ss, a : (Registration!IsSidecarRegistration(ss, a))' <=> Registration!IsSidecarRegistration(ss, a)
    BY <1>2, <1>3 DEF Registration!IsSidecarRegistration
  <1>6. \A m : (Registration!IsModule(m))' <=> Registration!IsModule(m)
    <2>1. \A m : (Registration!MethodCount(m))' = Registration!MethodCount(m)
      BY RegWordsKept DEF Registration!MethodCount
    <2>2. input'.memory = input.memory
      OBVIOUS
    <2>3. QED
      BY <2>1, <2>2, RegWordsKept DEF Registration!IsModule
  <1>7. \A m : (Registration!NameOf(m))' = Registration!NameOf(m)
    BY RegWordsKept DEF Registration!NameOf
  <1>8. QED
    BY <1>1, <1>4, <1>5, <1>6, <1>7

LEMMA VisibleKept ==
  ASSUME input' = input
  PROVE  /\ \A search, st, a : (IsSought(search, st, a))' <=> IsSought(search, st, a)
         /\ \A search, st, j, p : (Visible(search, st, j, p))' <=> Visible(search, st, j, p)
  <1>1. ASSUME NEW search, NEW st, NEW a PROVE (IsSought(search, st, a))' <=> IsSought(search, st, a)
    BY RegWordsKept, StructuresKept DEF IsSought
  <1>2. ASSUME NEW search, NEW st, NEW j, NEW p PROVE (Visible(search, st, j, p))' <=> Visible(search, st, j, p)
    BY <1>1, RegWordsKept DEF Visible, LeadOf, ReachOf, LeastOf
  <1>3. QED
    BY <1>1, <1>2

(***************************************************************************)
(* The invariant: while nothing hinders a search, it has seen no structure *)
(* in what lies behind it, so that one that ends without an answer has     *)
(* looked at every place.                                                  *)
(***************************************************************************)
Reached(j, p) == j < section \/ (j = section /\ p < offset)
NonePassed ==
  \A j \in 1..Len(Registration!SectionsOf(stage)) : \A p \in Nat : Reached(j, p) => ~ Visible(pc, stage, j, p)
NoneVisible(search, st) ==
  \A j \in 1..Len(Registration!SectionsOf(st)) : \A p \in Nat : ~ Visible(search, st, j, p)

InSearch ==
  /\ Searched(pc, stage) /\ section \in Nat \ {0} /\ offset \in Nat
  /\ section <= Len(Registration!SectionsOf(stage)) /\ Registration!IsScanned(Here, pc) /\ offset < Here.size =>
       offset % input.chunk = 0
  /\ pc \notin hindered => ~ expired /\ (pc # "scan" => NonePassed)

CodeDone ==
  "code" \notin hindered /\ regs.code = 0 /\ CodeNeed > 0 =>
    input.path = "broken" \/ NoneVisible("code", Registration!FirstStage)
MetaSoFar ==
  "meta" \notin hindered /\ input.typeDefs # {} =>
    /\ stage # "disk" /\ Registration!FirstStage = "disk" => NoneVisible("meta", "disk")
    /\ stage = "sidecar" => NoneVisible("meta", "memory")
MetaDone ==
  "meta" \notin hindered /\ input.typeDefs # {} /\ regs.meta = 0 =>
    \A st \in {Registration!FirstStage, "memory", "sidecar"} : NoneVisible("meta", st)

\* The modules listed lie behind the scan, in order, and none behind it is
\* left out.
ListInv ==
  /\ list \in Seq(Int)
  /\ \A i \in 1..Len(list) :
       /\ Registration!IsModule(list[i])
       /\ \A j \in 1..Len(Registration!SectionsOf("memory")) : \A p \in Nat :
            ~ Reached(j, p) => list[i] < Registration!SectionsOf("memory")[j].start + p
  /\ \A i, k \in 1..Len(list) : i < k => list[i] < list[k]
  /\ "scan" \notin hindered =>
       \A j \in 1..Len(Registration!SectionsOf("memory")) : \A p \in Nat :
         Visible("scan", "memory", j, p) /\ Reached(j, p) =>
           \E i \in 1..Len(list) : list[i] = Registration!SectionsOf("memory")[j].start + p

ListDone ==
  /\ list \in Seq(Int) /\ \A i \in 1..Len(list) : Registration!IsModule(list[i])
  /\ list # <<>> /\ array = 0 =>
       /\ \A i, k \in 1..Len(list) : i # k => Registration!NameOf(list[i]) # Registration!NameOf(list[k])
       /\ "scan" \notin hindered =>
            \A j \in 1..Len(Registration!SectionsOf("memory")) : \A p \in Nat :
              Visible("scan", "memory", j, p) =>
                \E i \in 1..Len(list) :
                  /\ list[i] <= Registration!SectionsOf("memory")[j].start + p
                  /\ Registration!NameOf(list[i]) =
                       Registration!NameOf(Registration!SectionsOf("memory")[j].start + p)

AtCode == pc = "code" /\ InSearch /\ stage = Registration!FirstStage
AtMeta == pc = "meta" /\ InSearch /\ CodeDone /\ MetaSoFar
AtModules ==
  pc = "modules" /\ stage = "memory" /\ section = 1 /\ offset = 0 /\ expired = FALSE /\ CodeDone /\ MetaDone
AtScan == pc = "scan" /\ InSearch /\ stage = "memory" /\ CodeDone /\ MetaDone /\ ListInv
AtReturned == pc = "returned" /\ CodeDone /\ MetaDone /\ ListDone

RegInv ==
  /\ RegInput /\ DOMAIN regs = {"code", "meta"}
  /\ AtCode \/ AtMeta \/ AtModules \/ AtScan \/ AtReturned

LEMMA RegistrationStarts == ASSUME Registration!Init PROVE RegInv
  <1>1. /\ RegInput /\ pc = "code" /\ stage = Registration!FirstStage /\ section = 1 /\ offset = 0
        /\ expired = FALSE /\ regs = [code |-> 0, meta |-> 0] /\ hindered = {}
    BY DEF Registration!Init, RegInput
  <1>2. DOMAIN regs = {"code", "meta"}
    BY <1>1
  <1>3. Searched(pc, stage)
    BY <1>1 DEF Searched, Searches, Stages, Registration!FirstStage
  <1>4. 0 % input.chunk = 0
    <2>1. input.chunk \in Nat \ {0}
      BY <1>1, RegInputFacts
    <2>2. QED
      BY <2>1
  <1>5. NonePassed
    BY <1>1 DEF NonePassed, Reached
  <1>6. InSearch
    BY <1>1, <1>3, <1>4, <1>5 DEF InSearch
  <1>7. QED
    BY <1>1, <1>2, <1>6 DEF RegInv, AtCode

\* A search that starts.
LEMMA SearchStarts ==
  ASSUME RegInput, input' = input, Searched(pc', stage'), section' = 1, offset' = 0, expired' = FALSE
  PROVE  InSearch'
  <1>1. 0 % input'.chunk = 0
    <2>1. input.chunk \in Nat \ {0}
      BY RegInputFacts
    <2>2. QED
      BY <2>1
  <1>2. \A j, p \in Nat : j # 0 => ~ Reached(j, p)'
    BY DEF Reached
  <1>3. NonePassed'
    <2>1. Len((Registration!SectionsOf(stage))') \in Nat
      <3>1. RegInput'
        BY RegWordsKept
      <3>2. \A st : Len((Registration!SectionsOf(st))') \in Nat
        BY RegWordsKept, RegInputFacts
      <3>3. PICK st : st = stage'
        OBVIOUS
      <3>4. Registration!SectionsOf(stage)' = Registration!SectionsOf(st)
        BY <3>3 DEF Registration!SectionsOf
      <3>5. QED
        BY <3>4, RegInputFacts
    <2>2. QED
      BY <1>2, <2>1 DEF NonePassed
  <1>4. Searched(pc, stage)'
    BY DEF Searched
  <1>5. QED
    BY <1>1, <1>3, <1>4 DEF InSearch

\* What is known of a search stays known.
LEMMA DoneKept ==
  ASSUME input' = input, hindered \subseteq hindered'
  PROVE  /\ \A search, st : (NoneVisible(search, st))' <=> NoneVisible(search, st)
         /\ regs'.code = regs.code /\ CodeDone => CodeDone'
         /\ regs'.meta = regs.meta /\ MetaDone => MetaDone'
         /\ stage' = stage /\ MetaSoFar => MetaSoFar'
  <1>1. ASSUME NEW search, NEW st PROVE (NoneVisible(search, st))' <=> NoneVisible(search, st)
    BY VisibleKept, RegWordsKept DEF NoneVisible
  <1>2. Registration!FirstStage' = Registration!FirstStage /\ CodeNeed' = CodeNeed
    BY RegWordsKept
  <1>3. ASSUME regs'.code = regs.code, CodeDone PROVE CodeDone'
    <2>1. PICK first : first = Registration!FirstStage
      OBVIOUS
    <2>2. NoneVisible("code", Registration!FirstStage)' <=> NoneVisible("code", first)
      BY <1>1, <1>2, <2>1 DEF NoneVisible
    <2>3. NoneVisible("code", Registration!FirstStage) <=> NoneVisible("code", first)
      BY <2>1
    <2>4. QED
      BY <1>2, <1>3, <2>2, <2>3 DEF CodeDone
  <1>4. ASSUME regs'.meta = regs.meta, MetaDone PROVE MetaDone'
    BY <1>1, <1>2, <1>4 DEF MetaDone
  <1>5. ASSUME stage' = stage, MetaSoFar PROVE MetaSoFar'
    BY <1>1, <1>2, <1>5 DEF MetaSoFar
  <1>6. QED
    BY <1>1, <1>3, <1>4, <1>5

\* A search for a structure that is over.
LEMMA GoOnKeeps ==
  ASSUME RegInput, input' = input, pc \in {"code", "meta"}, Registration!GoOn, DOMAIN regs' = {"code", "meta"},
         CodeDone', pc = "meta" => MetaDone'
  PROVE  RegInv'
  <1>1. RegInput'
    BY RegWordsKept
  <1>2. CASE pc = "code"
    <2>1. pc' = "meta" /\ stage' = Registration!FirstStage /\ section' = 1 /\ offset' = 0 /\ expired' = FALSE
      BY <1>2 DEF Registration!GoOn, Registration!After, Registration!Restart
    <2>2. stage' \in {"disk", "memory"}
      BY <2>1 DEF Registration!FirstStage
    <2>3. Searched(pc', stage')
      BY <2>1, <2>2 DEF Searched, Searches, Stages
    <2>4. InSearch'
      BY <2>1, <2>3, SearchStarts
    <2>5. MetaSoFar'
      <3>1. stage' = Registration!FirstStage'
        BY <2>1, RegWordsKept
      <3>2. QED
        BY <2>2, <3>1 DEF MetaSoFar
    <2>6. QED
      BY <1>1, <2>1, <2>4, <2>5 DEF RegInv, AtMeta
  <1>3. CASE pc = "meta"
    <2>1. pc' = "modules" /\ stage' = "memory" /\ section' = 1 /\ offset' = 0 /\ expired' = FALSE
      BY <1>3 DEF Registration!GoOn, Registration!After, Registration!Restart
    <2>2. QED
      BY <1>1, <1>3, <2>1 DEF RegInv, AtModules
  <1>4. QED
    BY <1>2, <1>3

LEMMA NextStageKeeps ==
  ASSUME RegInput, input' = input, Searched("meta", stage'), Registration!Restart("meta", stage'),
         DOMAIN regs' = {"code", "meta"}, CodeDone', MetaSoFar'
  PROVE  RegInv'
  <1>1. RegInput'
    BY RegWordsKept
  <1>2. pc' = "meta" /\ section' = 1 /\ offset' = 0 /\ expired' = FALSE
    BY DEF Registration!Restart
  <1>3. InSearch'
    BY <1>2, SearchStarts
  <1>4. QED
    BY <1>1, <1>2, <1>3 DEF RegInv, AtMeta

LEMMA GiveUpKeeps == ASSUME RegInv, Registration!GiveUp PROVE RegInv'
  <1>1. /\ RegInput /\ pc \in {"code", "meta"} /\ input' = input /\ regs' = regs
        /\ hindered' = IF Registration!CannotSearch THEN hindered ELSE hindered \cup {pc}
        /\ IF pc = "meta" /\ stage = "memory" THEN Registration!Restart("meta", "sidecar") ELSE Registration!GoOn
    BY DEF RegInv, Registration!GiveUp
  <1>2. DOMAIN regs' = {"code", "meta"} /\ hindered \subseteq hindered'
    BY <1>1 DEF RegInv
  <1>3. CASE pc = "code"
    <2>1. CodeDone'
      <3>1. "code" \notin hindered' => input.path = "broken" \/ CodeNeed = 0
        BY <1>1, <1>3 DEF Registration!CannotSearch, CodeNeed
      <3>2. CodeNeed' = CodeNeed /\ CodeNeed \in Nat
        BY <1>1, RegWordsKept, RegInputFacts
      <3>3. QED
        BY <1>1, <3>1, <3>2 DEF CodeDone
    <2>2. QED
      BY <1>1, <1>2, <1>3, <2>1, GoOnKeeps
  <1>4. CASE pc = "meta"
    <2>1. CodeDone /\ Searched(pc, stage)
      BY <1>4 DEF RegInv, AtCode, AtMeta, AtModules, AtScan, AtReturned, InSearch
    <2>2. CodeDone'
      BY <1>1, <1>2, <2>1, DoneKept
    <2>3. "meta" \notin hindered' => input.typeDefs = {}
      BY <1>1, <1>4 DEF Registration!CannotSearch
    <2>4. MetaDone'
      BY <1>1, <2>3 DEF MetaDone
    <2>5. MetaSoFar'
      BY <1>1, <2>3 DEF MetaSoFar
    <2>6. CASE stage = "memory"
      <3>1. Registration!Restart("meta", "sidecar") /\ stage' = "sidecar"
        BY <1>1, <1>4, <2>6 DEF Registration!Restart
      <3>2. Searched("meta", stage') /\ Registration!Restart("meta", stage')
        BY <3>1 DEF Searched, Searches, Stages
      <3>3. QED
        BY <1>1, <1>2, <2>2, <2>5, <3>2, NextStageKeeps
    <2>7. CASE stage # "memory"
      BY <1>1, <1>2, <1>4, <2>2, <2>4, <2>7, GoOnKeeps
    <2>8. QED
      BY <2>6, <2>7
  <1>5. QED
    BY <1>1, <1>3, <1>4

\* A search that was not hindered and has passed the last section.
LEMMA NothingVisible ==
  ASSUME RegInput, InSearch, pc \in {"code", "meta"}, pc \notin hindered, section > Len(Registration!Sections)
  PROVE  NoneVisible(pc, stage)
  <1>1. NonePassed
    BY DEF InSearch
  <1>2. section \in Nat /\ Len(Registration!SectionsOf(stage)) \in Nat /\ section > Len(Registration!SectionsOf(stage))
    BY RegInputFacts DEF InSearch, Registration!Sections
  <1>3. \A j \in 1..Len(Registration!SectionsOf(stage)) : \A p \in Nat : Reached(j, p)
    BY <1>2 DEF Reached
  <1>4. QED
    BY <1>1, <1>3 DEF NonePassed, NoneVisible

LEMMA NothingFoundKeeps == ASSUME RegInv, Registration!NothingFound PROVE RegInv'
  <1>1. /\ RegInput /\ pc \in {"code", "meta"} /\ input' = input /\ regs' = regs /\ hindered' = hindered
        /\ section > Len(Registration!Sections) /\ Registration!FallBack
    BY DEF RegInv, Registration!NothingFound
  <1>2. DOMAIN regs' = {"code", "meta"} /\ hindered \subseteq hindered' /\ InSearch /\ Searched(pc, stage)
    BY <1>1 DEF RegInv, AtCode, AtMeta, AtModules, AtScan, AtReturned, InSearch
  <1>3. pc \notin hindered => NoneVisible(pc, stage)
    BY <1>1, <1>2, NothingVisible
  <1>4. CASE pc = "code"
    <2>1. stage = Registration!FirstStage
      BY <1>4 DEF RegInv, AtCode, AtMeta, AtModules, AtScan, AtReturned
    <2>2. CodeDone
      BY <1>3, <1>4, <2>1 DEF CodeDone
    <2>3. CodeDone'
      BY <1>1, <1>2, <2>2, DoneKept
    <2>4. Registration!GoOn
      BY <1>1, <1>4 DEF Registration!FallBack
    <2>5. QED
      BY <1>1, <1>2, <1>4, <2>3, <2>4, GoOnKeeps
  <1>5. CASE pc = "meta"
    <2>1. CodeDone /\ MetaSoFar
      BY <1>5 DEF RegInv, AtCode, AtMeta, AtModules, AtScan, AtReturned
    <2>2. CodeDone'
      BY <1>1, <1>2, <2>1, DoneKept
    <2>3. /\ \A search, st : (NoneVisible(search, st))' <=> NoneVisible(search, st)
          /\ Registration!FirstStage' = Registration!FirstStage /\ Registration!FirstStage \in {"disk", "memory"}
      BY <1>1, <1>2, DoneKept, RegWordsKept DEF Registration!FirstStage
    <2>4. CASE stage = "disk"
      <3>1. Registration!Restart("meta", "memory") /\ stage' = "memory"
        BY <1>1, <1>5, <2>4 DEF Registration!Restart, Registration!FallBack
      <3>2. MetaSoFar'
        BY <1>1, <1>3, <1>5, <2>3, <2>4, <3>1 DEF MetaSoFar
      <3>3. Searched("meta", stage') /\ Registration!Restart("meta", stage')
        BY <3>1 DEF Searched, Searches, Stages
      <3>4. QED
        BY <1>1, <1>2, <2>2, <3>2, <3>3, NextStageKeeps
    <2>5. CASE stage = "memory"
      <3>1. Registration!Restart("meta", "sidecar") /\ stage' = "sidecar"
        BY <1>1, <1>5, <2>5 DEF Registration!Restart, Registration!FallBack
      <3>2. MetaSoFar'
        BY <1>1, <1>3, <1>5, <2>1, <2>3, <2>5, <3>1 DEF MetaSoFar
      <3>3. Searched("meta", stage') /\ Registration!Restart("meta", stage')
        BY <3>1 DEF Searched, Searches, Stages
      <3>4. QED
        BY <1>1, <1>2, <2>2, <3>2, <3>3, NextStageKeeps
    <2>6. CASE stage = "sidecar"
      <3>1. Registration!GoOn
        BY <1>1, <1>5, <2>6 DEF Registration!FallBack
      <3>2. MetaDone
        BY <1>3, <1>5, <2>1, <2>3, <2>6 DEF MetaDone, MetaSoFar
      <3>3. MetaDone'
        BY <1>1, <1>2, <3>2, DoneKept
      <3>4. QED
        BY <1>1, <1>2, <1>5, <2>2, <3>1, <3>3, GoOnKeeps
    <2>7. QED
      BY <1>2, <2>4, <2>5, <2>6 DEF Searched, Stages
  <1>6. QED
    BY <1>1, <1>4, <1>5

\* Where a search goes on in the section it is in, or in the next one.
LEMMA PositionKept ==
  ASSUME RegInv, pc \in Searches, UNCHANGED <<input, pc, stage, regs>>, hindered \subseteq hindered',
         section' \in Nat \ {0}, offset' \in Nat,
         section' <= Len(Registration!SectionsOf(stage)) /\ offset' # 0 =>
           LET s == Registration!SectionsOf(stage)[section']
           IN  Registration!IsScanned(s, pc) /\ offset' < s.size => offset' % input.chunk = 0,
         pc \notin hindered' => ~ expired' /\ (pc # "scan" => NonePassed'),
         pc = "scan" => ListInv'
  PROVE  RegInv'
  <1>1. RegInput' /\ DOMAIN regs' = {"code", "meta"} /\ RegInput /\ InSearch
    BY RegWordsKept DEF RegInv, AtCode, AtMeta, AtModules, AtScan, AtReturned, Searches
  <1>2. \A st : (Registration!SectionsOf(st))' = Registration!SectionsOf(st)
    BY RegWordsKept
  <1>3. PICK st : st = stage
    OBVIOUS
  <1>4. Registration!SectionsOf(stage)' = Registration!SectionsOf(stage)
    BY <1>2, <1>3 DEF Registration!SectionsOf
  <1>5. InSearch'
    <2>1. offset' = 0 => offset' % input.chunk = 0
      <3>1. input.chunk \in Nat \ {0}
        BY <1>1, RegInputFacts
      <3>2. QED
        BY <3>1
    <2>2. Searched(pc, stage)'
      BY <1>1 DEF InSearch, Searched
    <2>3. \A s : (Registration!IsScanned(s, pc))' <=> Registration!IsScanned(s, pc)
      BY DEF Registration!IsScanned
    <2>4. QED
      BY <1>4, <2>1, <2>2, <2>3 DEF InSearch, Here
  <1>6. CASE pc = "code"
    <2>1. stage' = Registration!FirstStage'
      BY <1>6, RegWordsKept DEF RegInv, AtCode, AtMeta, AtModules, AtScan, AtReturned
    <2>2. QED
      BY <1>1, <1>5, <1>6, <2>1 DEF RegInv, AtCode
  <1>7. CASE pc = "meta"
    <2>1. CodeDone' /\ MetaSoFar'
      BY <1>7, DoneKept DEF RegInv, AtCode, AtMeta, AtModules, AtScan, AtReturned
    <2>2. QED
      BY <1>1, <1>5, <1>7, <2>1 DEF RegInv, AtMeta
  <1>8. CASE pc = "scan"
    <2>1. CodeDone' /\ MetaDone' /\ stage = "memory"
      BY <1>8, DoneKept DEF RegInv, AtCode, AtMeta, AtModules, AtScan, AtReturned
    <2>2. QED
      BY <1>1, <1>5, <1>8, <2>1 DEF RegInv, AtScan
  <1>9. QED
    BY <1>6, <1>7, <1>8 DEF Searches

LEMMA NoneKept ==
  ASSUME NonePassed, UNCHANGED <<input, pc, stage>>,
         \A j \in 1..Len(Registration!SectionsOf(stage)) : \A p \in Nat :
           Visible(pc, stage, j, p) /\ Reached(j, p)' => Reached(j, p)
  PROVE  NonePassed'
  <1>1. PICK search, st : search = pc /\ st = stage
    OBVIOUS
  <1>2. /\ \A j, p : Visible(search, st, j, p)' <=> Visible(search, st, j, p)
        /\ Registration!SectionsOf(st)' = Registration!SectionsOf(st)
    BY VisibleKept, RegWordsKept
  <1>3. \A j \in 1..Len(Registration!SectionsOf(st)) : \A p \in Nat : Reached(j, p)' => ~ Visible(search, st, j, p)'
    BY <1>1, <1>2 DEF NonePassed
  <1>4. pc' = search /\ stage' = st
    BY <1>1
  <1>5. QED
    BY <1>2, <1>3, <1>4 DEF NonePassed, Visible, Registration!SectionsOf, IsSought, LeadOf, ReachOf, LeastOf

LEMMA ListKept ==
  ASSUME ListInv, UNCHANGED <<input, list>>, hindered \subseteq hindered',
         \A j, p \in Nat : Reached(j, p) => Reached(j, p)',
         "scan" \notin hindered' =>
           \A j \in 1..Len(Registration!SectionsOf("memory")) : \A p \in Nat :
             Visible("scan", "memory", j, p) /\ Reached(j, p)' => Reached(j, p),
         Len(Registration!SectionsOf("memory")) \in Nat
  PROVE  ListInv'
  <1>1. /\ Registration!SectionsOf("memory")' = Registration!SectionsOf("memory")
        /\ \A j, p : Visible("scan", "memory", j, p)' <=> Visible("scan", "memory", j, p)
        /\ \A m : Registration!IsModule(m)' <=> Registration!IsModule(m)
    BY RegWordsKept, VisibleKept, StructuresKept
  <1>2. ASSUME NEW i \in 1..Len(list)
        PROVE  /\ Registration!IsModule(list[i])'
               /\ \A j \in 1..Len(Registration!SectionsOf("memory")) : \A p \in Nat :
                    ~ Reached(j, p)' => list[i] < Registration!SectionsOf("memory")[j].start + p
    <2>1. PICK m : m = list[i]
      OBVIOUS
    <2>2. Registration!IsModule(m)' <=> Registration!IsModule(m)
      BY <1>1
    <2>3. list'[i] = m
      BY <2>1
    <2>4. (Registration!IsModule(list[i]))' <=> Registration!IsModule(m)'
      BY <2>3 DEF Registration!IsModule
    <2>5. Registration!IsModule(list[i])
      BY DEF ListInv
    <2>6. ASSUME NEW j \in 1..Len(Registration!SectionsOf("memory")), NEW p \in Nat, ~ Reached(j, p)'
          PROVE  list[i] < Registration!SectionsOf("memory")[j].start + p
      <3>1. ~ Reached(j, p)
        BY <2>6
      <3>2. QED
        BY <3>1 DEF ListInv
    <2>7. QED
      BY <2>1, <2>2, <2>4, <2>5, <2>6
  <1>3. "scan" \notin hindered' =>
          \A j \in 1..Len(Registration!SectionsOf("memory")) : \A p \in Nat :
            Visible("scan", "memory", j, p) /\ Reached(j, p)' =>
              \E i \in 1..Len(list) : list[i] = Registration!SectionsOf("memory")[j].start + p
    BY DEF ListInv
  <1>4. list \in Seq(Int) /\ \A i, k \in 1..Len(list) : i < k => list[i] < list[k]
    BY DEF ListInv
  <1>5. QED
    BY <1>1, <1>2, <1>3, <1>4 DEF ListInv

\* What a search that runs knows of the chunk it is at.
LEMMA AtChunkFacts ==
  ASSUME RegInv, Registration!Searching
  PROVE  /\ RegInput /\ InSearch /\ SearchOK /\ pc \in Searches /\ Registration!IsScanned(Here, pc)
         /\ offset < Here.size /\ offset % input.chunk = 0 /\ ~ expired
         /\ offset + Registration!ToRead \in Nat /\ section \in Nat \ {0}
         /\ offset + Registration!ToRead < Here.size => (offset + Registration!ToRead) % input.chunk = 0
  <1>1. /\ pc \in Searches /\ section <= Len(Registration!SectionsOf(stage)) /\ Registration!IsScanned(Here, pc)
        /\ ~ expired /\ offset < Here.size
    BY DEF Registration!Searching, Registration!Sections, Searches, Here
  <1>2. RegInput /\ InSearch
    BY <1>1 DEF RegInv, AtCode, AtMeta, AtModules, AtScan, AtReturned, Searches
  <1>3. section \in Nat \ {0} /\ Len(Registration!SectionsOf(stage)) \in Nat
          /\ input.chunk \in Nat \ {0} /\ offset \in Nat
    BY <1>2, RegInputFacts DEF InSearch
  <1>4. SearchOK
    BY <1>1, <1>2, <1>3 DEF InSearch, SearchOK
  <1>5. offset % input.chunk = 0
    BY <1>1, <1>2 DEF InSearch
  <1>6. /\ Registration!ToRead \in Nat \ {0}
        /\ Registration!ToRead = input.chunk \/ offset + Registration!ToRead = Here.size
    BY <1>1, <1>2, <1>4, RegChunkFacts
  <1>7. (offset + input.chunk) % input.chunk = 0
    BY <1>3, <1>5, ModInChunk
  <1>8. /\ offset + Registration!ToRead \in Nat
        /\ offset + Registration!ToRead < Here.size => (offset + Registration!ToRead) % input.chunk = 0
    <2>1. PICK n \in Nat \ {0} : n = Registration!ToRead
      BY <1>6
    <2>2. n = input.chunk \/ offset + n = Here.size
      BY <1>6, <2>1
    <2>3. Here.size \in Nat
      BY <1>1, <1>2, <1>4, RegChunkFacts
    <2>4. QED
      BY <1>3, <1>7, <2>1, <2>2, <2>3
  <1>9. QED
    BY <1>1, <1>2, <1>3, <1>4, <1>5, <1>8

\* A chunk is passed over or looked at: the places it has are reached.
LEMMA ChunkPassed ==
  ASSUME RegInv, Registration!Searching, UNCHANGED <<input, pc, stage, section>>,
         offset' = offset + Registration!ToRead
  PROVE  /\ \A j, p \in Nat : Reached(j, p) => Reached(j, p)'
         /\ \A j, p \in Nat : Reached(j, p)' /\ ~ Reached(j, p) => j = section /\ p >= offset /\ p < offset'
         /\ section' \in Nat \ {0} /\ offset' \in Nat
         /\ LET s == Registration!SectionsOf(stage)[section']
            IN  offset' < s.size => offset' % input.chunk = 0
         /\ Registration!IsScanned(Registration!SectionsOf(stage)[section'], pc)
  <1>1. PICK n \in Nat \ {0} : n = Registration!ToRead
    BY AtChunkFacts, RegChunkFacts
  <1>2. section \in Nat \ {0} /\ offset \in Nat
    BY AtChunkFacts DEF SearchOK
  <1>3. offset' = offset + n
    BY <1>1
  <1>4. /\ \A j, p \in Nat : Reached(j, p) => Reached(j, p)'
        /\ \A j, p \in Nat : Reached(j, p)' /\ ~ Reached(j, p) => j = section /\ p >= offset /\ p < offset'
    BY <1>2, <1>3 DEF Reached
  <1>5. offset' < Here.size => offset' % input.chunk = 0
    BY AtChunkFacts
  <1>6. QED
    BY <1>2, <1>3, <1>4, <1>5, AtChunkFacts DEF Here

LEMMA ChunkUnreadableKeeps == ASSUME RegInv, Registration!ChunkUnreadable PROVE RegInv'
  <1>1. /\ Registration!Searching /\ UNCHANGED <<input, pc, stage, regs, section, expired, array, list>>
        /\ offset' = offset + Registration!ToRead /\ hindered' = hindered \cup {pc}
    BY DEF Registration!ChunkUnreadable
  <1>2. pc = "scan" => ListInv'
    <2>1. ASSUME pc = "scan" PROVE ListInv'
      <3>1. ListInv /\ "scan" \in hindered' /\ RegInput
        BY <1>1, <2>1 DEF RegInv, AtCode, AtMeta, AtModules, AtScan, AtReturned
      <3>2. Len(Registration!SectionsOf("memory")) \in Nat
        BY <3>1, RegInputFacts
      <3>3. QED
        BY <1>1, <3>1, <3>2, ListKept, ChunkPassed
    <2>2. QED
      BY <2>1
  <1>3. QED
    BY <1>1, <1>2, ChunkPassed, AtChunkFacts, PositionKept

LEMMA DeadlineKeeps == ASSUME RegInv, Registration!Deadline PROVE RegInv'
  <1>1. /\ pc \in Searches /\ UNCHANGED <<input, pc, stage, regs, section, offset, array, list>>
        /\ hindered' = hindered \cup {pc}
    BY DEF Registration!Deadline, Searches
  <1>2. RegInput /\ InSearch
    BY <1>1 DEF RegInv, AtCode, AtMeta, AtModules, AtScan, AtReturned, Searches
  <1>3. \A j, p : Reached(j, p)' <=> Reached(j, p)
    BY <1>1 DEF Reached
  <1>4. pc = "scan" => ListInv'
    <2>1. ASSUME pc = "scan" PROVE ListInv'
      <3>1. ListInv /\ "scan" \in hindered'
        BY <1>1, <2>1 DEF RegInv, AtCode, AtMeta, AtModules, AtScan, AtReturned
      <3>2. Len(Registration!SectionsOf("memory")) \in Nat
        BY <1>2, RegInputFacts
      <3>3. QED
        BY <1>1, <1>3, <3>1, <3>2, ListKept
    <2>2. QED
      BY <2>1
  <1>5. /\ section' \in Nat \ {0} /\ offset' \in Nat
        /\ section' <= Len(Registration!SectionsOf(stage)) /\ offset' # 0 =>
             LET s == Registration!SectionsOf(stage)[section']
             IN  Registration!IsScanned(s, pc) /\ offset' < s.size => offset' % input.chunk = 0
    BY <1>1, <1>2 DEF InSearch, Here
  <1>6. QED
    BY <1>1, <1>4, <1>5, PositionKept

LEMMA NextSectionKeeps == ASSUME RegInv, Registration!NextSection PROVE RegInv'
  <1>1. /\ pc \in Searches /\ UNCHANGED <<input, pc, stage, regs, expired, array, list, hindered>>
        /\ section <= Len(Registration!SectionsOf(stage)) /\ section' = section + 1 /\ offset' = 0
        /\ expired \/ ~ Registration!IsScanned(Here, pc) \/ offset >= Here.size
    BY DEF Registration!NextSection, Registration!Sections, Searches, Here
  <1>2. RegInput /\ InSearch
    BY <1>1 DEF RegInv, AtCode, AtMeta, AtModules, AtScan, AtReturned, Searches
  <1>3. /\ section \in Nat \ {0} /\ offset \in Nat /\ Len(Registration!SectionsOf(stage)) \in Nat
        /\ section \in 1..Len(Registration!SectionsOf(stage)) /\ Here.size \in Nat
    BY <1>1, <1>2, RegInputFacts DEF InSearch, Here
  <1>4. \A j, p \in Nat : Reached(j, p) => Reached(j, p)'
    BY <1>1, <1>3 DEF Reached
  <1>5. ASSUME pc \notin hindered, NEW j \in Nat, NEW p \in Nat, Visible(pc, stage, j, p), Reached(j, p)'
        PROVE  Reached(j, p)
    <2>1. ~ expired
      BY <1>2, <1>5 DEF InSearch
    <2>2. j < section \/ j = section
      BY <1>1, <1>3, <1>5 DEF Reached
    <2>3. ASSUME j = section PROVE p < offset
      <3>1. Registration!IsScanned(Here, pc) /\ p \in 0..(Here.size - 1)
        BY <1>5, <2>3 DEF Visible, Here
      <3>2. QED
        BY <1>1, <1>3, <2>1, <3>1
    <2>4. QED
      BY <2>2, <2>3 DEF Reached
  <1>6. pc = "scan" => ListInv'
    <2>1. ASSUME pc = "scan" PROVE ListInv'
      <3>1. ListInv /\ stage = "memory"
        BY <1>1, <2>1 DEF RegInv, AtCode, AtMeta, AtModules, AtScan, AtReturned
      <3>2. QED
        BY <1>1, <1>3, <1>4, <1>5, <2>1, <3>1, ListKept
    <2>2. QED
      BY <2>1
  <1>7. pc \notin hindered' => ~ expired' /\ (pc # "scan" => NonePassed')
    <2>1. ASSUME pc \notin hindered, pc # "scan" PROVE NonePassed'
      <3>1. NonePassed
        BY <1>2, <2>1 DEF InSearch
      <3>2. QED
        BY <1>1, <1>3, <1>5, <2>1, <3>1, NoneKept
    <2>2. QED
      BY <1>1, <1>2, <2>1 DEF InSearch
  <1>8. section' \in Nat \ {0} /\ offset' \in Nat
    BY <1>1, <1>3
  <1>9. QED
    BY <1>1, <1>6, <1>7, <1>8, PositionKept

LEMMA ScanForRegistrationKeeps == ASSUME RegInv, Registration!ScanForRegistration PROVE RegInv'
  <1>1. /\ Registration!Searching /\ pc \in {"code", "meta"} /\ input' = input /\ hindered' = hindered
        /\ UNCHANGED <<array, list>>
        /\ IF Registration!Hits = {}
             THEN offset' = offset + Registration!ToRead /\ UNCHANGED <<pc, stage, section, expired, regs>>
             ELSE regs' = [regs EXCEPT ![pc] = RegMin(Registration!Hits)] /\ Registration!GoOn
    BY DEF Registration!ScanForRegistration, RegMin
  <1>2. CASE Registration!Hits = {}
    <2>1. UNCHANGED <<input, pc, stage, section, expired, regs>> /\ offset' = offset + Registration!ToRead
      BY <1>1, <1>2
    <2>2. ASSUME NEW j \in Nat, NEW p \in Nat, Visible(pc, stage, j, p), Reached(j, p)' PROVE Reached(j, p)
      <3>1. ASSUME ~ Reached(j, p) PROVE FALSE
        <4>1. j = section /\ p >= offset /\ p < offset'
          BY <1>1, <2>1, <2>2, <3>1, ChunkPassed
        <4>2. Visible(pc, stage, section, p) /\ offset <= p /\ p < offset + Registration!ToRead
          BY <2>1, <2>2, <4>1, AtChunkFacts, <1>1 DEF SearchOK
        <4>3. Here.start + p - LeadOf(pc, stage) \in Registration!Hits
          BY <1>1, <4>2, AtChunkFacts, VisibleIsHit
        <4>4. QED
          BY <1>2, <4>3
      <3>2. QED
        BY <3>1
    <2>3. pc \notin hindered' => ~ expired' /\ NonePassed'
      <3>1. ASSUME pc \notin hindered PROVE ~ expired' /\ NonePassed'
        <4>1. ~ expired /\ NonePassed /\ Len(Registration!SectionsOf(stage)) \in Nat
          BY <1>1, <3>1, AtChunkFacts, RegInputFacts DEF InSearch
        <4>2. QED
          BY <2>1, <2>2, <4>1, NoneKept
      <3>2. QED
        BY <1>1, <3>1
    <2>4. QED
      BY <1>1, <2>1, <2>3, ChunkPassed, AtChunkFacts, PositionKept
  <1>3. CASE Registration!Hits # {}
    <2>1. RegMin(Registration!Hits) # 0
      <3>1. /\ Registration!Hits \in SUBSET Int
            /\ \A a \in Registration!Hits : a > 0
        BY <1>1, AtChunkFacts, HitFacts
      <3>2. RegMin(Registration!Hits) \in Registration!Hits
        <4>1. \A a \in Registration!Hits : 0 <= a
          BY <3>1
        <4>2. QED
          BY <1>3, <3>1, <4>1, RegMinOf
      <3>3. QED
        BY <3>1, <3>2
    <2>2. regs' = [regs EXCEPT ![pc] = RegMin(Registration!Hits)] /\ Registration!GoOn
      BY <1>1, <1>3
    <2>3. DOMAIN regs = {"code", "meta"} /\ RegInput
      BY DEF RegInv
    <2>4. DOMAIN regs' = {"code", "meta"}
      BY <2>2, <2>3
    <2>5. CASE pc = "code"
      <3>1. regs'.code # 0
        BY <2>1, <2>2, <2>3, <2>5
      <3>2. CodeDone'
        BY <3>1 DEF CodeDone
      <3>3. QED
        BY <1>1, <2>2, <2>3, <2>4, <2>5, <3>2, GoOnKeeps
    <2>6. CASE pc = "meta"
      <3>1. regs'.meta # 0 /\ regs'.code = regs.code
        BY <2>1, <2>2, <2>3, <2>6
      <3>2. MetaDone'
        BY <3>1 DEF MetaDone
      <3>3. CodeDone
        BY <2>6 DEF RegInv, AtCode, AtMeta, AtModules, AtScan, AtReturned
      <3>4. CodeDone'
        BY <1>1, <3>1, <3>3, DoneKept
      <3>5. QED
        BY <1>1, <2>2, <2>3, <2>4, <2>6, <3>2, <3>4, GoOnKeeps
    <2>7. QED
      BY <1>1, <2>5, <2>6
  <1>4. QED
    BY <1>2, <1>3

LEMMA ScanForModulesKeeps == ASSUME RegInv, Registration!ScanForModules PROVE RegInv'
  <1>1. /\ Registration!Searching /\ pc = "scan"
        /\ UNCHANGED <<input, pc, stage, section, expired, regs, array, hindered>>
        /\ offset' = offset + Registration!ToRead /\ list' = list \o Registration!Ascending(Registration!Hits)
    BY DEF Registration!ScanForModules
  <1>2. /\ ListInv /\ stage = "memory" /\ LeadOf(pc, stage) = 0 /\ ReachOf(pc, stage) = 4
    BY <1>1 DEF RegInv, AtCode, AtMeta, AtModules, AtScan, AtReturned, LeadOf, ReachOf
  <1> DEFINE ss == Registration!SectionsOf("memory")
  <1>3. /\ Len(ss) \in Nat /\ section \in 1..Len(ss) /\ offset \in Nat /\ Here = ss[section]
        /\ \A j \in 1..Len(ss) : ss[j].start \in Nat /\ ss[j].size \in Nat
        /\ \A j, k \in 1..Len(ss) : j < k => ss[j].start + ss[j].size <= ss[k].start
        /\ Registration!ToRead \in Nat \ {0} /\ offset + Registration!ToRead <= Here.size
    BY <1>1, <1>2, AtChunkFacts, RegInputFacts, RegChunkFacts DEF SearchOK, Here
  <1> DEFINE low == ss[section].start + offset
             high == ss[section].start + offset + Registration!ToRead
             hits == Registration!Hits
             n == Cardinality(hits)
             f == Registration!Ascending(hits)
  <1>4. /\ hits \in SUBSET Int /\ IsFiniteSet(hits)
        /\ \A a \in hits : Registration!IsModule(a) /\ low <= a /\ a < high
    <2>1. /\ hits \in SUBSET Int /\ IsFiniteSet(hits)
          /\ \A a \in hits : IsSought(pc, stage, a) /\ a >= low - 0 /\ a <= high - 4
      BY <1>1, <1>2, <1>3, AtChunkFacts, HitFacts
    <2>2. low \in Int /\ high \in Int
      BY <1>3
    <2>3. \A a \in hits : Registration!IsModule(a)
      BY <1>1, <2>1 DEF IsSought
    <2> HIDE DEF low, high, hits
    <2>4. QED
      BY <2>1, <2>2, <2>3
  <1>5. /\ n \in Nat /\ f \in [1..n -> hits]
        /\ \A i, j \in 1..n : i < j => f[i] < f[j]
        /\ \A x \in hits : \E i \in 1..n : f[i] = x
    BY <1>4, AscendingFacts
  <1>6. list' = list \o f
    BY <1>1
  <1>7. \A j, p \in Nat : ~ Reached(j, p)' => ~ Reached(j, p) /\ (j > section \/ (j = section /\ p >= offset'))
    BY <1>1, <1>3, ChunkPassed DEF Reached
  <1>8. \A j \in 1..Len(ss) : \A p \in Nat : ~ Reached(j, p)' => high <= ss[j].start + p
    <2>1. ASSUME NEW j \in 1..Len(ss), NEW p \in Nat, ~ Reached(j, p)' PROVE high <= ss[j].start + p
      <3>1. j > section \/ (j = section /\ p >= offset + Registration!ToRead)
        BY <1>1, <1>3, <1>7, <2>1
      <3>2. CASE j = section
        BY <1>3, <3>1, <3>2
      <3>3. CASE j > section
        <4>1. ss[section].start + ss[section].size <= ss[j].start
          BY <1>3, <3>3
        <4>2. PICK s, z, u, r \in Int : s = ss[section].start /\ z = ss[section].size /\ u = ss[j].start
                                       /\ r = Registration!ToRead
          BY <1>3
        <4>3. offset \in Nat /\ offset + r <= z /\ s + z <= u
          BY <1>3, <4>1, <4>2
        <4>4. high = s + offset + r
          BY <4>2
        <4> HIDE DEF high
        <4>5. high <= u + p
          BY <4>3, <4>4
        <4>6. QED
          BY <4>2, <4>5
      <3>4. QED
        BY <3>1, <3>2, <3>3
    <2>2. QED
      BY <2>1
  <1>9. \A i \in 1..Len(list) : list[i] < low
    <2>1. ~ Reached(section, offset)
      BY <1>3 DEF Reached
    <2>2. QED
      BY <1>2, <1>3, <2>1 DEF ListInv
  <1>10. /\ list \in Seq(Int) /\ Len(list) \in Nat
         /\ \A i, k \in 1..Len(list) : i < k => list[i] < list[k]
    BY <1>2 DEF ListInv
  <1>11. ASSUME "scan" \notin hindered, NEW j \in 1..Len(ss), NEW p \in Nat,
                Visible("scan", "memory", j, p), Reached(j, p)', ~ Reached(j, p)
         PROVE  \E k \in 1..n : f[k] = ss[j].start + p
    <2>1. j = section /\ p >= offset /\ p < offset + Registration!ToRead
      BY <1>1, <1>3, <1>11, ChunkPassed
    <2>2. Here.start + p - LeadOf(pc, stage) \in Registration!Hits
      BY <1>1, <1>2, <1>11, <2>1, AtChunkFacts, VisibleIsHit
    <2>3. ss[j].start + p \in hits
      BY <1>2, <1>3, <2>1, <2>2
    <2>4. QED
      BY <1>5, <2>3
  <1>12. low \in Int /\ high \in Int
    BY <1>3
  <1> DEFINE m == Len(list)
             g == list \o f
  <1>13. /\ f \in Seq(Int) /\ Len(f) = n /\ g \in Seq(Int) /\ Len(g) = m + n
         /\ \A i \in 1..m : g[i] = list[i]
         /\ \A k \in 1..n : g[m + k] = f[k]
         /\ \A i \in 1..(m + n) : i \in 1..m \/ \E k \in 1..n : i = m + k
    <2> HIDE DEF f, n, hits
    <2>1. f \in [1..n -> Int]
      BY <1>4, <1>5
    <2>2. f \in Seq(Int) /\ Len(f) = n
      BY <1>5, <2>1
    <2>3. /\ g \in Seq(Int) /\ Len(g) = m + n
          /\ \A i \in 1..m : g[i] = list[i]
          /\ \A i \in (m + 1)..(m + n) : g[i] = f[i - m]
      <3>1. m \in Nat /\ n \in Nat /\ list \in Seq(Int)
        BY <1>5, <1>10
      <3>2. /\ g \in Seq(Int) /\ Len(g) = m + n
            /\ \A i \in 1..(m + n) : g[i] = IF i <= m THEN list[i] ELSE f[i - m]
        BY <2>2, <3>1, ConcatProperties
      <3> HIDE DEF g, m
      <3>3. QED
        BY <3>1, <3>2
    <2> HIDE DEF g
    <2>5. m \in Nat /\ n \in Nat
      BY <1>5, <1>10
    <2> HIDE DEF m
    <2>4. ASSUME NEW k \in 1..n PROVE g[m + k] = f[k]
      <3>1. m + k \in (m + 1)..(m + n) /\ (m + k) - m = k
        BY <2>5
      <3>2. QED
        BY <2>3, <3>1
    <2>6. ASSUME NEW i \in 1..(m + n), i \notin 1..m PROVE \E k \in 1..n : i = m + k
      <3>1. i - m \in 1..n /\ i = m + (i - m)
        BY <2>5, <2>6
      <3>2. QED
        BY <3>1
    <2>7. QED
      BY <2>2, <2>3, <2>4, <2>6
  <1> HIDE DEF low, high, hits, n, f, m, g
  <1>14. m \in Nat /\ n \in Nat
    BY <1>5, <1>10 DEF m
  <1>15. \A i \in 1..(m + n) : g[i] \in Int /\ g[i] < high /\ Registration!IsModule(g[i])
    <2>1. ASSUME NEW i \in 1..m PROVE g[i] \in Int /\ g[i] < high /\ Registration!IsModule(g[i])
      <3>1. g[i] = list[i] /\ list[i] \in Int /\ list[i] < low /\ Registration!IsModule(list[i])
        BY <1>2, <1>9, <1>10, <1>13 DEF ListInv, m
      <3>2. low <= high
        BY <1>3 DEF low, high
      <3>3. QED
        BY <1>12, <3>1, <3>2
    <2>2. ASSUME NEW k \in 1..n PROVE g[m + k] \in Int /\ g[m + k] < high /\ Registration!IsModule(g[m + k])
      <3>1. g[m + k] = f[k] /\ f[k] \in hits
        BY <1>5, <1>13
      <3>2. QED
        BY <1>4, <3>1
    <2>3. QED
      BY <1>13, <2>1, <2>2
  <1>16. \A i, k \in 1..(m + n) : i < k => g[i] < g[k]
    <2>1. ASSUME NEW i \in 1..(m + n), NEW k \in 1..(m + n), i < k PROVE g[i] < g[k]
      <3>1. CASE i \in 1..m /\ k \in 1..m
        BY <1>10, <1>13, <2>1, <3>1 DEF m
      <3>2. CASE i \in 1..m /\ k \notin 1..m
        <4>1. PICK l \in 1..n : k = m + l
          BY <1>13, <3>2
        <4>2. g[i] = list[i] /\ g[i] \in Int /\ list[i] < low /\ g[k] = f[l] /\ f[l] \in hits
          BY <1>5, <1>9, <1>10, <1>13, <1>15, <3>2, <4>1 DEF m
        <4>3. low <= f[l] /\ f[l] \in Int
          BY <1>4, <4>2
        <4>4. QED
          BY <1>12, <4>2, <4>3
      <3>3. CASE i \notin 1..m
        <4>1. PICK q \in 1..n : i = m + q
          BY <1>13, <3>3
        <4>2. k \notin 1..m
          BY <1>14, <2>1, <3>3
        <4>3. PICK l \in 1..n : k = m + l
          BY <1>13, <4>2
        <4>4. q < l
          BY <1>14, <2>1, <4>1, <4>3
        <4>5. QED
          BY <1>5, <1>13, <4>1, <4>3, <4>4
      <3>4. QED
        BY <3>1, <3>2, <3>3
    <2>2. QED
      BY <2>1
  <1>17. ListInv'
    <2>1. PICK t : t = list'
      OBVIOUS
    <2>2. t = g
      BY <1>6, <2>1 DEF g
    <2>3. /\ t \in Seq(Int) /\ Len(t) = m + n
          /\ \A i \in 1..Len(t) : t[i] \in Int /\ t[i] < high /\ Registration!IsModule(t[i])
          /\ \A i, k \in 1..Len(t) : i < k => t[i] < t[k]
      BY <1>13, <1>15, <1>16, <2>2
    <2>4. \A i \in 1..Len(t) : Registration!IsModule(t[i])'
      <3>1. \A x : Registration!IsModule(x)' <=> Registration!IsModule(x)
        BY <1>1, StructuresKept
      <3>2. QED
        BY <2>3, <3>1
    <2>5. ASSUME NEW i \in 1..Len(t), NEW j \in 1..Len(ss), NEW p \in Nat, ~ Reached(j, p)'
          PROVE  t[i] < ss[j].start + p
      <3>1. t[i] < high /\ high <= ss[j].start + p /\ t[i] \in Int /\ ss[j].start + p \in Int
        BY <1>3, <1>8, <2>3, <2>5
      <3>2. QED
        BY <1>12, <3>1
    <2>6. ASSUME "scan" \notin hindered, NEW j \in 1..Len(ss), NEW p \in Nat,
                 Visible("scan", "memory", j, p), Reached(j, p)'
          PROVE  \E i \in 1..Len(t) : t[i] = ss[j].start + p
      <3>1. CASE Reached(j, p)
        <4>1. PICK i \in 1..m : list[i] = ss[j].start + p
          BY <1>2, <2>6, <3>1 DEF ListInv, m
        <4>2. i \in 1..(m + n)
          BY <1>14
        <4>3. g[i] = list[i]
          BY <1>13, Zenon
        <4>4. QED
          BY <2>2, <2>3, <4>1, <4>2, <4>3
      <3>2. CASE ~ Reached(j, p)
        <4>1. PICK k \in 1..n : f[k] = ss[j].start + p
          BY <1>11, <2>6, <3>2
        <4>2. m + k \in 1..(m + n)
          BY <1>14
        <4>3. g[m + k] = f[k]
          BY <1>13, Zenon
        <4>4. QED
          BY <2>2, <2>3, <4>1, <4>2, <4>3
      <3>3. QED
        BY <3>1, <3>2
    <2>7. /\ ss' = ss /\ hindered' = hindered
          /\ \A j, p : Visible("scan", "memory", j, p)' <=> Visible("scan", "memory", j, p)
      BY <1>1, RegWordsKept, VisibleKept
    <2>8. \A i \in 1..Len(list') : Registration!IsModule(list[i])'
      BY <2>1, <2>4 DEF Registration!IsModule
    <2> HIDE DEF ss
    <2>9. QED
      BY <2>1, <2>3, <2>5, <2>6, <2>7, <2>8 DEF ListInv, ss
  <1>18. QED
    BY <1>1, <1>17, ChunkPassed, AtChunkFacts, PositionKept

LEMMA ListedFacts ==
  ASSUME RegInput, NEW t, t = Registration!ListedModules
  PROVE  /\ t \in Seq(Int) /\ \A i \in 1..Len(t) : Registration!IsModule(t[i])
         /\ Registration!ArrayOf(regs.code) = 0 => t = <<>>
  <1> DEFINE a == Registration!ArrayOf(regs.code)
             w == Registration!WordAt(regs.code + Registration!CodeOffsets(input.version).modules - 1)
             n == RegMin({w, MaxListed})
             e == Registration!Entries(a, n)
             I == {i \in DOMAIN e : Registration!IsModule(e[i])}
  <1>1. \A x : Registration!WordAt(x) \in Int
    BY RegistrationAssumption DEF RegInput, Registration!WordAt, Registration!Unread
  <1>2. t = IF a = 0 THEN <<>> ELSE Registration!Select(e, I)
    BY DEF Registration!ListedModules, RegMin
  <1>3. CASE a = 0
    <2>1. t = <<>>
      BY <1>2, <1>3
    <2>2. <<>> \in Seq(Int) /\ Len(<<>>) = 0
      BY Empty
    <2>3. QED
      BY <2>1, <2>2
  <1>4. CASE a # 0
    <2> DEFINE readable == {i \in 0..(n - 1) : \A j \in 0..i : Registration!InModule(a + j)}
               m == Registration!Cardinality(readable)
    <2>1. n \in Int
      <3>1. w \in Int /\ MaxListed \in Int
        BY <1>1, RegistrationAssumption
      <3> HIDE DEF w
      <3>2. QED
        BY <3>1, RegMinOf
    <2> HIDE DEF n
    <2>2. m \in Nat
      <3>1. PICK l \in Int : l = n - 1
        BY <2>1
      <3>2. readable \in SUBSET (0..l)
        BY <3>1
      <3> HIDE DEF readable
      <3>3. IsFiniteSet(0..l)
        BY FS_Interval
      <3>4. QED
        BY <3>2, <3>3, FS_Subset, FS_CardinalityType, RegCardinality
    <2>3. e = [i \in 1..m |-> Registration!WordAt(a + i - 1)]
      BY DEF Registration!Entries
    <2> HIDE DEF m, readable, a, e
    <2>4. DOMAIN e = 1..m /\ \A i \in 1..m : e[i] \in Int
      BY <1>1, <2>3
    <2>5. I \in SUBSET Nat /\ IsFiniteSet(I) /\ I \in SUBSET (1..m)
      <3>1. I \in SUBSET (1..m) /\ IsFiniteSet(1..m) /\ 1..m \in SUBSET Nat
        BY <2>2, <2>4, FS_Interval
      <3> HIDE DEF I
      <3>2. QED
        BY <3>1, FS_Subset
    <2>6. \A i \in I : e[i] \in Int /\ Registration!IsModule(e[i])
      BY <2>4
    <2> HIDE DEF I
    <2>7. t = Registration!Select(e, I)
      BY <1>2, <1>4
    <2>8. \A i \in I : e[i] \in Int
      BY <2>6
    <2>9. /\ t \in Seq(Int) /\ Len(t) \in Nat
          /\ \A k \in 1..Len(t) : \E i \in I : t[k] = e[i]
      <3>1. PICK s, J : s = e /\ J = I
        OBVIOUS
      <3>2. t = Registration!Select(s, J)
        BY <2>7, <3>1 DEF Registration!Select
      <3> DEFINE u == Registration!Select(s, J)
      <3>3. J \in SUBSET Nat
        BY <2>5, <3>1
      <3>4. IsFiniteSet(J)
        BY <2>5, <3>1
      <3>5. \A i \in J : s[i] \in Int
        BY <2>8, <3>1
      <3>6. /\ u \in Seq(Int) /\ Len(u) \in Nat
            /\ \A k \in 1..Len(u) : \E i \in J : u[k] = s[i]
        BY ONLY <3>3, <3>4, <3>5, SelectFacts, Zenon
      <3>7. u = t
        BY <3>2
      <3> HIDE DEF u
      <3>8. QED
        BY <3>1, <3>6, <3>7
    <2>10. \A i \in I : \A x : x = e[i] => Registration!IsModule(x)
      BY <2>6 DEF Registration!IsModule
    <2>11. \A k \in 1..Len(t) : Registration!IsModule(t[k])
      BY <2>9, <2>10
    <2>12. Registration!ArrayOf(regs.code) # 0
      BY <1>4 DEF a
    <2>13. QED
      BY <2>9, <2>11, <2>12
  <1>5. QED
    BY <1>3, <1>4

LEMMA ReadModulesKeeps == ASSUME RegInv, Registration!ReadModules PROVE RegInv'
  <1>1. /\ pc = "modules" /\ UNCHANGED <<input, stage, section, offset, expired, regs, hindered>>
        /\ array' = IF Registration!HasRanges THEN Registration!ArrayOf(regs.code) ELSE 0
        /\ list' = IF Registration!HasRanges THEN Registration!ListedModules ELSE <<>>
        /\ pc' = IF Registration!HasRanges /\ list' = <<>> THEN "scan" ELSE "returned"
    BY DEF Registration!ReadModules
  <1>2. /\ RegInput /\ stage = "memory" /\ section = 1 /\ offset = 0 /\ expired = FALSE /\ CodeDone /\ MetaDone
        /\ DOMAIN regs = {"code", "meta"}
    BY <1>1 DEF RegInv, AtCode, AtMeta, AtModules, AtScan, AtReturned
  <1>3. RegInput' /\ CodeDone' /\ MetaDone' /\ DOMAIN regs' = {"code", "meta"}
    BY <1>1, <1>2, DoneKept, RegWordsKept
  <1>4. PICK t : t = list'
    OBVIOUS
  <1>5. t \in Seq(Int) /\ (\A i \in 1..Len(t) : Registration!IsModule(t[i])) /\ (t # <<>> => array' # 0)
    <2>1. CASE Registration!HasRanges
      BY <1>1, <1>2, <1>4, <2>1, ListedFacts
    <2>2. CASE ~ Registration!HasRanges
      <3>1. t = <<>> /\ <<>> \in Seq(Int) /\ Len(<<>>) = 0
        BY <1>1, <1>4, <2>2, Empty
      <3>2. QED
        BY <3>1
    <2>3. QED
      BY <2>1, <2>2
  <1>6. \A i \in 1..Len(list') : Registration!IsModule(list[i])'
    <2>1. \A x : Registration!IsModule(x)' <=> Registration!IsModule(x)
      BY <1>1, StructuresKept
    <2>2. \A i \in 1..Len(t) : Registration!IsModule(t[i])'
      BY <1>5, <2>1
    <2>3. QED
      BY <1>4, <2>2 DEF Registration!IsModule
  <1>7. CASE pc' = "returned"
    <2>1. ListDone'
      BY <1>4, <1>5, <1>6 DEF ListDone
    <2>2. QED
      BY <1>3, <1>7, <2>1 DEF RegInv, AtReturned
  <1>8. CASE pc' = "scan"
    <2>1. t = <<>> /\ Len(t) = 0
      BY <1>1, <1>4, <1>8
    <2>2. Searched(pc', stage')
      BY <1>1, <1>2, <1>8 DEF Searched, Searches, Stages
    <2>3. InSearch'
      BY <1>1, <1>2, <2>2, SearchStarts
    <2>4. Len(Registration!SectionsOf("memory")) \in Nat
          /\ Registration!SectionsOf("memory")' = Registration!SectionsOf("memory")
      BY <1>1, <1>2, RegInputFacts, RegWordsKept
    <2>5. \A j \in 1..Len(Registration!SectionsOf("memory")) : \A p \in Nat : ~ Reached(j, p)'
      BY <1>1, <1>2, <2>4 DEF Reached
    <2>6. ListInv'
      <3>1. list' \in Seq(Int) /\ Len(list') = 0
        BY <1>4, <1>5, <2>1
      <3>2. QED
        BY <2>4, <2>5, <3>1 DEF ListInv
    <2>7. QED
      BY <1>1, <1>2, <1>3, <1>8, <2>3, <2>6 DEF RegInv, AtScan
  <1>9. QED
    BY <1>1, <1>7, <1>8

\* uniq keeps the first of each name of an ascending list.
LEMMA FirstNames ==
  ASSUME list \in Seq(Int), \A i, k \in 1..Len(list) : i < k => list[i] < list[k],
         NEW t, t = Registration!FirstOfEachName
  PROVE  /\ t \in Seq(Int) /\ (list = <<>> => t = <<>>)
         /\ \A k \in 1..Len(t) : \E i \in 1..Len(list) : t[k] = list[i]
         /\ \A k, l \in 1..Len(t) : k # l => Registration!NameOf(t[k]) # Registration!NameOf(t[l])
         /\ \A i \in 1..Len(list) : \E k \in 1..Len(t) :
              t[k] <= list[i] /\ Registration!NameOf(t[k]) = Registration!NameOf(list[i])
  <1> DEFINE m == Len(list)
             First(i) == \A j \in 1..(i - 1) : Registration!NameOf(list[j]) # Registration!NameOf(list[i])
             I == {i \in 1..m : First(i)}
  <1>1. m \in Nat /\ DOMAIN list = 1..m /\ \A i \in 1..m : list[i] \in Int
    OBVIOUS
  <1>2. t = Registration!Select(list, I)
    BY <1>1 DEF Registration!FirstOfEachName
  <1>3. I \in SUBSET Nat /\ IsFiniteSet(I) /\ I \in SUBSET (1..m)
    <2>1. I \in SUBSET (1..m) /\ IsFiniteSet(1..m) /\ 1..m \in SUBSET Nat
      BY <1>1, FS_Interval
    <2> HIDE DEF I
    <2>2. QED
      BY <2>1, FS_Subset
  <1>4. \A i \in I, j \in I : i # j => Registration!NameOf(list[i]) # Registration!NameOf(list[j])
    <2>1. ASSUME NEW i \in I, NEW j \in I, i < j
          PROVE  Registration!NameOf(list[i]) # Registration!NameOf(list[j])
      <3>1. i \in 1..(j - 1) /\ First(j)
        BY <1>1, <2>1
      <3>2. QED
        BY <3>1
    <2>2. ASSUME NEW i \in I, NEW j \in I, i # j PROVE i < j \/ j < i
      BY <1>1, <2>2
    <2> HIDE DEF I
    <2>3. QED
      BY <2>1, <2>2
  <1>5. \A i \in 1..m : \E k \in I : k <= i /\ Registration!NameOf(list[k]) = Registration!NameOf(list[i])
    <2>1. ASSUME NEW i \in 1..m
          PROVE  \E k \in I : k <= i /\ Registration!NameOf(list[k]) = Registration!NameOf(list[i])
      <3> DEFINE T == {k \in 1..i : Registration!NameOf(list[k]) = Registration!NameOf(list[i])}
      <3>1. T \in SUBSET Nat /\ T # {} /\ T \in SUBSET (1..i)
        BY <1>1
      <3>2. PICK k \in T : \A l \in T : k <= l
        BY <3>1, LeastOfNat
      <3>3. First(k)
        <4>1. ASSUME NEW j \in 1..(k - 1), Registration!NameOf(list[j]) = Registration!NameOf(list[k]) PROVE FALSE
          <5>1. j \in T /\ j < k
            BY <1>1, <3>1, <4>1
          <5>2. k <= j /\ k \in Nat /\ j \in Nat
            BY <3>1, <3>2, <5>1
          <5>3. QED
            BY <5>1, <5>2
        <4>2. QED
          BY <4>1
      <3>4. k \in I /\ k <= i
        BY <1>1, <3>1, <3>3
      <3>5. QED
        BY <3>4
    <2>2. QED
      BY <2>1
  <1> HIDE DEF I, First
  <1>6. \A i \in I : list[i] \in Int
    BY <1>1, <1>3
  <1>7. /\ t \in Seq(Int) /\ Len(t) \in Nat /\ Len(t) = Cardinality(I)
        /\ \A k \in 1..Len(t) : \E i \in I : t[k] = list[i]
        /\ \A i \in I : \E k \in 1..Len(t) : t[k] = list[i]
        /\ \A k, l \in 1..Len(t) : k < l => \E i, j \in I : i < j /\ t[k] = list[i] /\ t[l] = list[j]
    <2>1. PICK s, J : s = list /\ J = I
      OBVIOUS
    <2>2. t = Registration!Select(s, J)
      BY <1>2, <2>1 DEF Registration!Select
    <2> DEFINE u == Registration!Select(s, J)
    <2>3. J \in SUBSET Nat
      BY <1>3, <2>1
    <2>4. IsFiniteSet(J)
      BY <1>3, <2>1
    <2>5. \A i \in J : s[i] \in Int
      BY <1>6, <2>1
    <2>6. /\ u \in Seq(Int) /\ Len(u) = Cardinality(J) /\ Len(u) \in Nat
          /\ \A k \in 1..Len(u) : \E i \in J : u[k] = s[i]
          /\ \A i \in J : \E k \in 1..Len(u) : u[k] = s[i]
          /\ \A k, l \in 1..Len(u) : k < l => \E i, j \in J : i < j /\ u[k] = s[i] /\ u[l] = s[j]
      BY ONLY <2>3, <2>4, <2>5, SelectFacts, Zenon
    <2>7. u = t
      BY <2>2
    <2> HIDE DEF u
    <2>8. t \in Seq(Int) /\ Len(t) = Cardinality(J) /\ Len(t) \in Nat
      BY <2>6, <2>7
    <2>9. /\ \A k \in 1..Len(t) : \E i \in J : t[k] = s[i]
          /\ \A i \in J : \E k \in 1..Len(t) : t[k] = s[i]
      BY <2>6, <2>7
    <2>10. \A k, l \in 1..Len(t) : k < l => \E i, j \in J : i < j /\ t[k] = s[i] /\ t[l] = s[j]
      <3>1. ASSUME NEW k \in 1..Len(t), NEW l \in 1..Len(t), k < l
            PROVE  \E i, j \in J : i < j /\ t[k] = s[i] /\ t[l] = s[j]
        <4>1. k \in 1..Len(u) /\ l \in 1..Len(u)
          BY <2>7
        <4>2. PICK i \in J, j \in J : i < j /\ u[k] = s[i] /\ u[l] = s[j]
          BY <2>6, <3>1, <4>1
        <4>3. t[k] = s[i] /\ t[l] = s[j]
          BY <2>7, <4>2
        <4>4. QED
          BY <4>2, <4>3
      <3>2. QED
        BY <3>1
    <2>11. Len(t) = Cardinality(I)
      BY <2>1, <2>8
    <2>12. /\ \A k \in 1..Len(t) : \E i \in I : t[k] = list[i]
           /\ \A i \in I : \E k \in 1..Len(t) : t[k] = list[i]
      BY <2>1, <2>9
    <2>13. \A k, l \in 1..Len(t) : k < l => \E i, j \in I : i < j /\ t[k] = list[i] /\ t[l] = list[j]
      <3>1. ASSUME NEW k \in 1..Len(t), NEW l \in 1..Len(t), k < l
            PROVE  \E i, j \in I : i < j /\ t[k] = list[i] /\ t[l] = list[j]
        <4>1. PICK i \in J, j \in J : i < j /\ t[k] = s[i] /\ t[l] = s[j]
          BY <2>10, <3>1
        <4>2. i \in I /\ j \in I /\ t[k] = list[i] /\ t[l] = list[j]
          BY <2>1, <4>1
        <4>3. QED
          BY <4>1, <4>2
      <3>2. QED
        BY <3>1
    <2>14. QED
      BY <2>8, <2>11, <2>12, <2>13
  <1>8. list = <<>> => t = <<>>
    <2>1. ASSUME list = <<>> PROVE t = <<>>
      <3>1. m = 0
        BY <2>1
      <3>2. I = {}
        BY <1>3, <3>1
      <3>3. Len(t) = 0
        BY <1>7, <3>2, FS_EmptySet
      <3>4. QED
        BY <1>7, <3>3
    <2>2. QED
      BY <2>1
  <1>9. \A k, l \in 1..Len(t) : k # l => Registration!NameOf(t[k]) # Registration!NameOf(t[l])
    <2>1. ASSUME NEW k \in 1..Len(t), NEW l \in 1..Len(t), k < l
          PROVE  Registration!NameOf(t[k]) # Registration!NameOf(t[l])
      <3>1. PICK i \in I, j \in I : i < j /\ t[k] = list[i] /\ t[l] = list[j]
        BY <1>7, <2>1
      <3>2. i # j
        BY <1>3, <3>1
      <3>3. QED
        BY <1>4, <3>1, <3>2
    <2>2. ASSUME NEW k \in 1..Len(t), NEW l \in 1..Len(t), k # l PROVE k < l \/ l < k
      BY <1>7, <2>2
    <2>3. QED
      BY <2>1, <2>2
  <1>10. ASSUME NEW i \in 1..m
         PROVE  \E k \in 1..Len(t) : t[k] <= list[i] /\ Registration!NameOf(t[k]) = Registration!NameOf(list[i])
    <2>1. PICK k \in I : k <= i /\ Registration!NameOf(list[k]) = Registration!NameOf(list[i])
      BY <1>5
    <2>2. PICK l \in 1..Len(t) : t[l] = list[k]
      BY <1>7
    <2>3. list[k] <= list[i]
      <3>1. k \in 1..m /\ (k < i \/ k = i)
        BY <1>1, <1>3, <2>1
      <3>2. list[k] < list[i] \/ k = i
        BY <3>1
      <3>3. list[k] \in Int /\ list[i] \in Int
        BY <1>1, <3>1
      <3>4. QED
        BY <3>2, <3>3
    <2>4. QED
      BY <2>1, <2>2, <2>3
  <1>11. QED
    BY <1>3, <1>7, <1>7, <1>8, <1>9, <1>10

LEMMA ModulesDoneKeeps == ASSUME RegInv, Registration!ModulesDone PROVE RegInv'
  <1>1. /\ pc = "scan" /\ section > Len(Registration!SectionsOf(stage)) /\ pc' = "returned"
        /\ list' = Registration!FirstOfEachName /\ array' = IF list = <<>> THEN array ELSE 0
        /\ UNCHANGED <<input, stage, section, offset, expired, regs, hindered>>
    BY DEF Registration!ModulesDone, Registration!Sections
  <1>2. /\ RegInput /\ stage = "memory" /\ InSearch /\ CodeDone /\ MetaDone /\ ListInv
        /\ DOMAIN regs = {"code", "meta"}
    BY <1>1 DEF RegInv, AtCode, AtMeta, AtModules, AtScan, AtReturned
  <1>3. RegInput' /\ CodeDone' /\ MetaDone' /\ DOMAIN regs' = {"code", "meta"}
    BY <1>1, <1>2, DoneKept, RegWordsKept
  <1>4. PICK t : t = list'
    OBVIOUS
  <1>5. /\ t \in Seq(Int) /\ (list = <<>> => t = <<>>)
        /\ \A k \in 1..Len(t) : \E i \in 1..Len(list) : t[k] = list[i]
        /\ \A k, l \in 1..Len(t) : k # l => Registration!NameOf(t[k]) # Registration!NameOf(t[l])
        /\ \A i \in 1..Len(list) : \E k \in 1..Len(t) :
             t[k] <= list[i] /\ Registration!NameOf(t[k]) = Registration!NameOf(list[i])
    <2>1. list \in Seq(Int) /\ \A i, k \in 1..Len(list) : i < k => list[i] < list[k]
      BY <1>2 DEF ListInv
    <2>2. QED
      BY <1>1, <1>4, <2>1, FirstNames
  <1>6. \A k \in 1..Len(t) : Registration!IsModule(t[k])
    BY <1>2, <1>5 DEF ListInv
  <1> DEFINE ss == Registration!SectionsOf("memory")
  <1>7. ASSUME "scan" \notin hindered, NEW j \in 1..Len(ss), NEW p \in Nat, Visible("scan", "memory", j, p)
        PROVE  \E k \in 1..Len(t) :
                 t[k] <= ss[j].start + p /\ Registration!NameOf(t[k]) = Registration!NameOf(ss[j].start + p)
    <2>1. Reached(j, p)
      <3>1. Len(ss) \in Nat /\ section \in Nat /\ section > Len(ss)
        BY <1>1, <1>2, RegInputFacts DEF InSearch
      <3>2. QED
        BY <3>1 DEF Reached
    <2>2. PICK i \in 1..Len(list) : list[i] = ss[j].start + p
      BY <1>2, <1>7, <2>1 DEF ListInv
    <2>3. QED
      BY <1>5, <2>2
  <1>8. /\ \A x : Registration!IsModule(x)' <=> Registration!IsModule(x)
        /\ \A x : Registration!NameOf(x)' = Registration!NameOf(x)
        /\ ss' = ss /\ \A j, p : Visible("scan", "memory", j, p)' <=> Visible("scan", "memory", j, p)
    BY <1>1, StructuresKept, RegWordsKept, VisibleKept
  <1>9. \A i \in 1..Len(t) : Registration!IsModule(t[i])'
    BY <1>6, <1>8
  <1>10. \A i, k \in 1..Len(t) : i # k => Registration!NameOf(t[i])' # Registration!NameOf(t[k])'
    BY <1>5, <1>8
  <1>11. "scan" \notin hindered' =>
           \A j \in 1..Len(ss') : \A p \in Nat : Visible("scan", "memory", j, p)' =>
             \E k \in 1..Len(t) :
               t[k] <= ss'[j].start + p /\ Registration!NameOf(t[k])' = (Registration!NameOf(ss[j].start + p))'
    <2>1. ASSUME "scan" \notin hindered, NEW j \in 1..Len(ss), NEW p \in Nat, Visible("scan", "memory", j, p)
          PROVE  \E k \in 1..Len(t) :
                   t[k] <= ss[j].start + p /\ Registration!NameOf(t[k])' = (Registration!NameOf(ss[j].start + p))'
      <3>1. PICK x : x = ss[j].start + p
        OBVIOUS
      <3>2. PICK k \in 1..Len(t) : t[k] <= x /\ Registration!NameOf(t[k]) = Registration!NameOf(x)
        BY <1>7, <2>1, <3>1
      <3>3. Registration!NameOf(t[k])' = Registration!NameOf(x)'
        BY <1>8, <3>2
      <3>4. x = (ss[j].start + p)'
        BY <1>8, <3>1
      <3>5. Registration!NameOf(x)' = (Registration!NameOf(ss[j].start + p))'
        BY <3>4 DEF Registration!NameOf
      <3>6. QED
        BY <3>1, <3>2, <3>3, <3>5
    <2> HIDE DEF ss
    <2>2. QED
      BY <1>1, <1>8, <2>1
  <1>12. ListDone'
    <2>1. list' = t /\ t \in Seq(Int)
      BY <1>4, <1>5
    <2>2. \A i \in 1..Len(list') : Registration!IsModule(list[i])'
      BY <1>9, <2>1 DEF Registration!IsModule
    <2>3. \A i \in 1..Len(t) : (Registration!NameOf(list[i]))' = Registration!NameOf(t[i])'
      BY <2>1 DEF Registration!NameOf
    <2>4. list' # <<>> /\ array' = 0 =>
            /\ \A i, k \in 1..Len(list') : i # k => (Registration!NameOf(list[i]))' # (Registration!NameOf(list[k]))'
            /\ "scan" \notin hindered' =>
                 \A j \in 1..Len(ss') : \A p \in Nat : Visible("scan", "memory", j, p)' =>
                   \E k \in 1..Len(list') :
                     /\ list'[k] <= ss'[j].start + p
                     /\ (Registration!NameOf(list[k]))' = (Registration!NameOf(ss[j].start + p))'
      <3> HIDE DEF ss
      <3>1. QED
        BY <1>10, <1>11, <2>1, <2>3
    <2>5. QED
      BY <2>1, <2>2, <2>4 DEF ListDone
  <1>13. QED
    BY <1>1, <1>3, <1>12 DEF RegInv, AtReturned

LEMMA RegistrationStep == ASSUME RegInv, Registration!Next \/ UNCHANGED vars PROVE RegInv'
  <1>1. ASSUME UNCHANGED <<input, pc, stage, section, offset, expired, regs, array, list, hindered>> PROVE RegInv'
    <2>1. \A j, p : Reached(j, p)' <=> Reached(j, p)
      BY <1>1 DEF Reached
    <2>2. RegInput /\ RegInput' /\ DOMAIN regs' = {"code", "meta"} /\ DOMAIN regs = {"code", "meta"}
      BY <1>1, RegWordsKept DEF RegInv
    <2>3. CASE pc \in Searches
      <3>1. InSearch
        BY <2>3 DEF RegInv, AtCode, AtMeta, AtModules, AtScan, AtReturned, Searches
      <3>2. pc \notin hindered => ~ expired /\ (pc # "scan" => NonePassed')
        BY <1>1, <2>1, <3>1, NoneKept DEF InSearch
      <3>3. pc = "scan" => ListInv'
        <4>1. ASSUME pc = "scan" PROVE ListInv'
          <5>1. ListInv /\ Len(Registration!SectionsOf("memory")) \in Nat
            BY <2>2, <4>1, RegInputFacts DEF RegInv, AtCode, AtMeta, AtModules, AtScan, AtReturned
          <5>2. QED
            BY <1>1, <2>1, <5>1, ListKept
        <4>2. QED
          BY <4>1
      <3>4. /\ section' \in Nat \ {0} /\ offset' \in Nat
            /\ section' <= Len(Registration!SectionsOf(stage)) /\ offset' # 0 =>
                 LET s == Registration!SectionsOf(stage)[section']
                 IN  Registration!IsScanned(s, pc) /\ offset' < s.size => offset' % input.chunk = 0
        BY <1>1, <3>1 DEF InSearch, Here
      <3>5. QED
        BY <1>1, <2>3, <3>2, <3>3, <3>4, PositionKept
    <2>4. CASE pc = "modules"
      <3>1. AtModules
        BY <2>4 DEF RegInv, AtCode, AtMeta, AtModules, AtScan, AtReturned
      <3>2. AtModules'
        BY <1>1, <3>1, DoneKept DEF AtModules
      <3>3. QED
        BY <2>2, <3>2 DEF RegInv
    <2>5. CASE pc = "returned"
      <3>1. AtReturned
        BY <2>5 DEF RegInv, AtCode, AtMeta, AtModules, AtScan, AtReturned
      <3>2. CodeDone' /\ MetaDone'
        BY <1>1, <3>1, DoneKept DEF AtReturned
      <3>3. ListDone'
        <4>1. /\ \A m : Registration!IsModule(m)' <=> Registration!IsModule(m)
              /\ Registration!SectionsOf("memory")' = Registration!SectionsOf("memory")
              /\ \A j, p : Visible("scan", "memory", j, p)' <=> Visible("scan", "memory", j, p)
          BY <1>1, StructuresKept, RegWordsKept, VisibleKept
        <4>2. \A i \in 1..Len(list) : (Registration!IsModule(list[i]))' <=> Registration!IsModule(list[i])
          <5>1. ASSUME NEW i \in 1..Len(list)
                PROVE  (Registration!IsModule(list[i]))' <=> Registration!IsModule(list[i])
            <6>1. PICK m : m = list[i]
              OBVIOUS
            <6>2. list'[i] = m
              BY <1>1, <6>1
            <6>3. (Registration!IsModule(list[i]))' <=> Registration!IsModule(m)'
              BY <6>2 DEF Registration!IsModule
            <6>4. Registration!IsModule(list[i]) <=> Registration!IsModule(m)
              BY <6>1 DEF Registration!IsModule
            <6>5. QED
              BY <4>1, <6>3, <6>4
          <5>2. QED
            BY <5>1
        <4>3. \A i : (Registration!NameOf(list[i]))' = Registration!NameOf(list[i])
          BY <1>1 DEF Registration!NameOf, Registration!WordAt
        <4>4. \A j, p : (Registration!NameOf(Registration!SectionsOf("memory")[j].start + p))' =
                          Registration!NameOf(Registration!SectionsOf("memory")[j].start + p)
          BY <1>1, <4>1 DEF Registration!NameOf, Registration!WordAt
        <4>5. QED
          BY <1>1, <3>1, <4>1, <4>2, <4>3, <4>4 DEF AtReturned, ListDone
      <3>4. QED
        BY <1>1, <2>2, <2>5, <3>2, <3>3 DEF RegInv, AtReturned
    <2>6. QED
      BY <2>3, <2>4, <2>5 DEF RegInv, AtCode, AtMeta, AtModules, AtScan, AtReturned, Searches
  <1>2. CASE Registration!Returned
    BY <1>1, <1>2 DEF Registration!Returned, Registration!vars
  <1>3. CASE UNCHANGED vars
    BY <1>1, <1>3 DEF vars, registrationVars, scanVars
  <1>4. QED
    BY <1>2, <1>3, GiveUpKeeps, NothingFoundKeeps, NextSectionKeeps, ChunkUnreadableKeeps, ScanForRegistrationKeeps,
       DeadlineKeeps, ReadModulesKeeps, ScanForModulesKeeps, ModulesDoneKeeps DEF Registration!Next

RegistrationCall == world = "registration" => RegInv

LEMMA RegistrationCallHolds == Spec => []RegistrationCall
  <1>1. Init => RegistrationCall
    <2>1. Init /\ world = "registration" => Registration!Init
      BY DEF Init, PatternInit, LocatorInit, RegistrationInit, OfflineInit, ClassInit
    <2>2. QED
      BY <2>1, RegistrationStarts DEF RegistrationCall
  <1>2. RegistrationCall /\ [Next]_vars => RegistrationCall'
    <2> SUFFICES ASSUME RegistrationCall, [Next]_vars, world' = "registration"
                 PROVE  RegInv'
      BY DEF RegistrationCall
    <2>1. world' = world
      BY DEF Next, PatternNext, LocatorNext, RegistrationNext, OfflineNext, ClassNext, vars
    <2>2. RegInv
      BY <2>1 DEF RegistrationCall
    <2>3. Registration!Next \/ UNCHANGED vars
      <3>1. world = "registration"
        BY <2>1
      <3>2. QED
        BY <3>1 DEF Next, PatternNext, LocatorNext, RegistrationNext, OfflineNext, ClassNext
    <2>4. QED
      BY <2>2, <2>3, RegistrationStep
  <1>3. QED
    BY <1>1, <1>2, PTL DEF Spec

\* What cannot be seen by a search cannot be found by it.
LEMMA NoneFoundable ==
  ASSUME RegInput, NEW search, NEW st, Searched(search, st), NoneVisible(search, st)
  PROVE  Registration!Foundable(search, st) = {}
  <1>1. ASSUME NEW a \in Registration!Foundable(search, st) PROVE FALSE
    BY FoundableIs DEF NoneVisible
  <1>2. QED
    BY <1>1

\* FindIl2CppRegistrations and CollectCodeGenModules: a search that no chunk
\* and no deadline hindered comes back empty only when no chunk of any of the
\* searches that are to run holds what it is known by; the modules listed are
\* modules, and those of the scan are the first of each name.
THEOREM UncutIsFound == Spec => []FoundUnlessCut
  <1>1. ASSUME RegInv
         PROVE Registration!MetaFoundUnlessCut /\ Registration!CodeFoundUnlessCut /\ Registration!ModulesOnce
    <2> SUFFICES ASSUME pc = "returned"
                 PROVE  Registration!MetaFoundUnlessCut /\ Registration!CodeFoundUnlessCut /\ Registration!ModulesOnce
      BY DEF Registration!MetaFoundUnlessCut, Registration!CodeFoundUnlessCut, Registration!ModulesOnce
    <2>1. RegInput /\ CodeDone /\ MetaDone /\ ListDone
      BY <1>1 DEF RegInv, AtCode, AtMeta, AtModules, AtScan, AtReturned
    <2>2. Registration!FirstStage \in {"disk", "memory"}
      BY DEF Registration!FirstStage
    <2>3. Registration!MetaFoundUnlessCut
      <3>1. ASSUME NEW st \in {Registration!FirstStage, "memory", "sidecar"}, NoneVisible("meta", st)
            PROVE  Registration!Foundable("meta", st) = {}
        BY <2>1, <2>2, <3>1, NoneFoundable DEF Searched, Searches, Stages
      <3>2. QED
        BY <2>1, <3>1 DEF MetaDone, Registration!MetaFoundUnlessCut
    <2>4. Registration!CodeFoundUnlessCut
      <3>1. PICK st : st = Registration!FirstStage
        OBVIOUS
      <3>2. NoneVisible("code", st) => Registration!Foundable("code", st) = {}
        BY <2>1, <2>2, <3>1, NoneFoundable DEF Searched, Searches, Stages
      <3>3. QED
        BY <2>1, <3>1, <3>2 DEF CodeDone, CodeNeed, Registration!CodeFoundUnlessCut
    <2>5. Registration!ModulesOnce
      <3>1. list \in Seq(Int) /\ DOMAIN list = 1..Len(list)
        BY <2>1 DEF ListDone
      <3>2. \A m \in Registration!Range(list) : Registration!IsModule(m)
        <4>1. ASSUME NEW m \in Registration!Range(list) PROVE Registration!IsModule(m)
          <5>1. PICK i \in 1..Len(list) : list[i] = m
            BY <3>1 DEF Registration!Range
          <5>2. Registration!IsModule(list[i])
            BY <2>1 DEF ListDone
          <5>3. QED
            BY <5>1, <5>2 DEF Registration!IsModule
        <4>2. QED
          BY <4>1
      <3>3. ASSUME list # <<>>, array = 0, "scan" \notin hindered, NEW n \in Registration!Foundable("scan", "memory")
            PROVE  \E m \in Registration!Range(list) : m <= n /\ Registration!NameOf(m) = Registration!NameOf(n)
        <4>1. Searched("scan", "memory") /\ LeadOf("scan", "memory") = 0
          BY DEF Searched, Searches, Stages, LeadOf
        <4>2. PICK j \in 1..Len(Registration!SectionsOf("memory")), p \in Nat :
                Visible("scan", "memory", j, p) /\ n = Registration!SectionsOf("memory")[j].start + p - 0
          BY <2>1, <3>3, <4>1, FoundableIs
        <4>3. PICK x \in Int : x = Registration!SectionsOf("memory")[j].start + p /\ n = x
          BY <2>1, <4>2, RegInputFacts
        <4>4. PICK i \in 1..Len(list) :
                /\ list[i] <= Registration!SectionsOf("memory")[j].start + p
                /\ Registration!NameOf(list[i]) = Registration!NameOf(Registration!SectionsOf("memory")[j].start + p)
          BY <2>1, <3>3, <4>2 DEF ListDone
        <4>5. PICK m : m = list[i]
          OBVIOUS
        <4>6. m \in Registration!Range(list) /\ m <= n
          BY <3>1, <4>3, <4>4, <4>5 DEF Registration!Range
        <4>7. Registration!NameOf(m) = Registration!NameOf(n)
          BY <4>3, <4>4, <4>5 DEF Registration!NameOf
        <4>8. QED
          BY <4>6, <4>7
      <3>4. list # <<>> /\ array = 0 =>
              \A i, j \in DOMAIN list : i # j => Registration!NameOf(list[i]) # Registration!NameOf(list[j])
        BY <2>1, <3>1 DEF ListDone
      <3>5. QED
        BY <3>2, <3>3, <3>4 DEF Registration!ModulesOnce
    <2>6. QED
      BY <2>3, <2>4, <2>5
  <1>2. RegistrationCall => FoundUnlessCut
    BY <1>1 DEF RegistrationCall, FoundUnlessCut
  <1>3. QED
    BY <1>2, RegistrationCallHolds, PTL
==============================================================================
