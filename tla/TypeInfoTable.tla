---------------------------- MODULE TypeInfoTable ----------------------------
(***************************************************************************)
(* The search for the table of classes in GameAssembly.dll (init/classmap): *)
(* the data section, then the module, is read in chunks, or word by word   *)
(* where a chunk cannot be read, and every word taken for the address of a *)
(* table whose entries are compared with a sample of the type names of the *)
(* metadata.  The target fills in an entry when it first uses a class.     *)
(***************************************************************************)
EXTENDS Integers, Sequences, SequencesExt, FiniteSets, FiniteSetsExt, TLC

CONSTANTS
  Targets,     \* see TargetType
  Anchors,     \* the four names looked for first, as a sequence
  ClassName,   \* classes to their names
  MaxSamples,  \* 8
  ChunkSize    \* in words (0x40000)

\* names: the metadata's byval indices to names.  word: the module.  data: the
\* part of it that is the data section, empty if there is none.  heap: 0 is an
\* entry to come, and later what it will be.
TargetType ==
  [names : UNION {[s -> STRING] : s \in SUBSET Nat}, word : UNION {[s -> Nat] : s \in SUBSET Nat},
   data : SUBSET Nat, heap : UNION {[s -> Nat] : s \in SUBSET Nat}, later : UNION {[s -> Nat] : s \in SUBSET Nat}]

VARIABLES
  target,
  heap,
  pc,        \* "chunk", "word", "sample", "found", "missing"
  range,     \* what is searched, "data" or "module"
  cur,       \* the first word of the chunk
  read,      \* whether it could be read
  word,      \* the word looked at, and its value
  table,
  sample,    \* the sample to come
  matched,   \* samples that are classes, with the right names
  anchored,  \* one of them has the name of an anchor
  hindered   \* history: words of this range that could not be read, or a
             \* sample of whose table could not be

scanVars == <<range, cur, read, word>>
checkVars == <<table, sample, matched, anchored>>
vars == <<target, heap, pc, scanVars, checkVars, hindered>>

(***************************************************************************)
(* The sample: the anchors, and types at equal distances.                  *)
(***************************************************************************)
IndexOf(name) == {b \in DOMAIN target.names : target.names[b] = name}
AnchorIndices == FlattenSeq([i \in DOMAIN Anchors |-> SetToSeq(IndexOf(Anchors[i]))])

InOrder(s) == [i \in 1..Cardinality(s) |-> CHOOSE x \in s : Cardinality({y \in s : y <= x}) = i]

Spread(all, n) ==
  [i \in 1..n |-> all[1 + (IF n = 1 THEN Len(all) \div 2 ELSE ((i - 1) * (Len(all) - 1)) \div (n - 1))]]

Samples ==
  LET all    == InOrder(DOMAIN target.names)
      spread == Spread(all, Min({Len(all), MaxSamples - Len(AnchorIndices)}))
  IN  FoldLeft(LAMBDA s, b : IF b \in {s[i] : i \in DOMAIN s} THEN s ELSE Append(s, b), AnchorIndices, spread)

(***************************************************************************)
(* The scan.                                                               *)
(***************************************************************************)
WordsOf(r) == IF r = "data" /\ target.data # {} THEN target.data ELSE DOMAIN target.word

Init ==
  /\ target \in Targets
  /\ heap = target.heap
  /\ pc = "chunk"
  /\ range = "data" /\ cur = Min(WordsOf("data"))
  /\ read = FALSE /\ word = 0
  /\ table = 0 /\ sample = 1 /\ matched = 0 /\ anchored = FALSE
  /\ hindered = {}

InChunk == cur..Min({cur + ChunkSize - 1, Max(WordsOf(range))})

\* Mutant: what cannot be read at once is passed over.
PassOver == cur' = cur + ChunkSize /\ UNCHANGED <<pc, word>>
WordByWord == pc' = "word" /\ word' = cur /\ UNCHANGED cur

ReadChunk ==
  /\ pc = "chunk"
  /\ cur \in WordsOf(range)
  /\ \/ read' = TRUE /\ pc' = "word" /\ word' = cur /\ UNCHANGED cur
     \/ read' = FALSE /\ WordByWord
  /\ UNCHANGED <<target, heap, range, checkVars, hindered>>

NextRange ==
  /\ pc = "chunk"
  /\ cur \notin WordsOf(range)
  /\ IF range = "data" THEN range' = "module" /\ cur' = Min(WordsOf("module")) /\ UNCHANGED pc
     ELSE pc' = "missing" /\ UNCHANGED <<range, cur>>
  /\ hindered' = IF range = "data" THEN {} ELSE hindered
  /\ UNCHANGED <<target, heap, read, word, checkVars>>

\* The rest of a chunk is not looked at once a table is found.
LookAtWord ==
  /\ pc = "word"
  /\ word \in InChunk
  /\ \/ /\ table' = target.word[word] /\ sample' = 1 /\ matched' = 0 /\ anchored' = FALSE
        /\ IF target.word[word] > 0 /\ target.word[word] % 2 = 0
             THEN pc' = "sample" /\ UNCHANGED word ELSE word' = word + 1 /\ UNCHANGED pc
        /\ UNCHANGED hindered
     \/ /\ ~ read
        /\ hindered' = hindered \cup {word} /\ word' = word + 1 /\ UNCHANGED <<pc, checkVars>>
  /\ UNCHANGED <<target, heap, range, cur, read>>

ChunkDone ==
  /\ pc = "word"
  /\ word \notin InChunk
  /\ cur' = cur + ChunkSize
  /\ pc' = "chunk"
  /\ UNCHANGED <<target, heap, range, read, word, checkVars, hindered>>

(***************************************************************************)
(* IsTypeInfoTableCandidate.                                               *)
(***************************************************************************)
\* Mutant: any two names will do.
TwoNames == matched >= 2
Convincing == matched >= 2 /\ anchored

Rejected == pc' = "word" /\ word' = word + 1

\* An entry, or the name of a class, that cannot be read refutes the table; so
\* does a namespace that cannot, the name without it being another one.
SampleUnread ==
  Rejected /\ hindered' = hindered \cup {word} /\ UNCHANGED <<sample, matched, anchored>>

CompareSample ==
  /\ LET b     == Samples[sample]
         a     == table + b
         right == heap[a] \in DOMAIN ClassName /\ ClassName[heap[a]] = target.names[b]
     IN  IF a \in DOMAIN heap /\ (heap[a] = 0 \/ right)
           THEN /\ sample' = sample + 1
                /\ matched' = matched + (IF heap[a] = 0 THEN 0 ELSE 1)
                /\ anchored' = (anchored \/ (heap[a] # 0 /\ target.names[b] \in Range(Anchors)))
                /\ UNCHANGED <<pc, word>>
         ELSE Rejected /\ UNCHANGED <<sample, matched, anchored>>
  /\ UNCHANGED hindered

ReadSample ==
  /\ pc = "sample"
  /\ sample \in DOMAIN Samples
  /\ CompareSample \/ SampleUnread
  /\ UNCHANGED <<target, heap, range, cur, read, table>>

SamplesDone ==
  /\ pc = "sample"
  /\ sample \notin DOMAIN Samples
  /\ IF Convincing THEN pc' = "found" /\ UNCHANGED word ELSE Rejected
  /\ UNCHANGED <<target, heap, range, cur, read, checkVars, hindered>>

\* The target uses a class.
UseClass ==
  /\ pc \notin {"found", "missing"}
  /\ \E a \in DOMAIN target.later : heap[a] = 0 /\ heap' = [heap EXCEPT ![a] = target.later[a]]
  /\ UNCHANGED <<target, pc, scanVars, checkVars, hindered>>

Ended == pc \in {"found", "missing"} /\ UNCHANGED vars

Next ==
  \/ ReadChunk \/ NextRange \/ LookAtWord \/ ChunkDone \/ ReadSample \/ SamplesDone
  \/ UseClass \/ Ended

Spec == Init /\ [][Next]_vars

(***************************************************************************)
(* Properties.                                                             *)
(***************************************************************************)

\* Few entries of the table are looked at: the classes of all the others, too,
\* have the names FindClass will give them out under.
ClassesHaveTheirNames ==
  pc = "found" =>
    \A b \in DOMAIN target.names :
      table + b \in DOMAIN heap /\ heap[table + b] # 0 =>
        heap[table + b] \in DOMAIN ClassName /\ ClassName[heap[table + b]] = target.names[b]

\* The search comes back with nothing only if for every word that leads to the
\* table either the word or a sample could not be read when the module was
\* looked through, or the table had too few classes when the search began.
Leads(a) ==
  LET t     == target.word[a]
      names == target.names
      in    == {b \in DOMAIN names : t + b \in DOMAIN target.heap /\ target.heap[t + b] # 0}
      ever(x) == IF x \in DOMAIN target.later THEN target.later[x] ELSE target.heap[x]
  IN  /\ t > 0 /\ t % 2 = 0
      /\ \A b \in DOMAIN names :
           /\ t + b \in DOMAIN target.heap
           /\ ever(t + b) \in DOMAIN ClassName /\ ClassName[ever(t + b)] = names[b]
      /\ Cardinality({b \in in : names[b] \in Range(Anchors)}) >= 2
TableNotMissed == pc = "missing" => \A a \in DOMAIN target.word : Leads(a) => a \in hindered
=============================================================================
