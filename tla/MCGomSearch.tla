----------------------------- MODULE MCGomSearch -----------------------------
(***************************************************************************)
(* The ways to a GameObjectManager and through it, each with its own       *)
(* inputs.  A behaviour is one of them: world says which.  Variables of    *)
(* the others keep the value Idle.                                         *)
(***************************************************************************)
EXTENDS Integers, Sequences, FiniteSets, TLC

CONSTANTS
  \* the target's lists (GomTarget) and the candidate check (GomCandidate)
  Objects, Heads, Leaves, Null, LocalHead, Slots, MaxBuckets, HeadWord, ScanCount, ScoreCap, LenBound,
  \* GomTag
  Tags, Hash, TagObjects, TagOf, Lists, SlotCount, Deleted,
  \* GomLocate
  Inputs, Seed, Ones, Stride, HeadAt, Preferred, Likely, High,
  SeedLimit, CandidateLimit, SlotLimit, MaxUp, MaxScore, Writes,
  \* members of those sets
  o1, o2, tagHead, localHead, t1

VARIABLES
  world, pc,
  \* the target's lists
  next, prev, linked, unmapped, pending,
  \* GomWalk
  base, count, freed, rBase, rCount, slot, buckets, phase, list, node, steps, visited,
  out, seen, kept, quiet,
  \* GomCandidate
  headPrev, headNext, slow, fast, meet, cycleLen, i, cur, curPrev, curNext, outSteps,
  bi, validBuckets, result, ring, still,
  \* GomTag
  slots, members, asked, mask, bucket, head, first, erased, empty, unread,
  \* GomLocate
  word, parts, score, value, at, hits, bestSeed, up, cands, bestScore, way,
  calm

Idle == "idle"

listVars == <<next, prev, linked, unmapped, pending>>
walkVars == <<base, count, freed, rBase, rCount, buckets, phase, list, node, steps, visited,
              out, seen, kept, quiet>>
candidateVars == <<headPrev, headNext, slow, fast, meet, cycleLen, i, cur, curPrev, curNext,
                   outSteps, validBuckets, ring, still>>
tagVars == <<slots, members, asked, mask, bucket, head, first, erased, empty, unread>>
locateVars == <<word, parts, score, value, at, hits, bestSeed, up, cands, bestScore, way>>
vars == <<world, pc, listVars, walkVars, candidateVars, tagVars, locateVars, slot, bi, result, calm>>

ListIdle == next = Idle /\ prev = Idle /\ linked = Idle /\ unmapped = Idle /\ pending = Idle
WalkIdle ==
  /\ base = Idle /\ count = Idle /\ freed = Idle /\ rBase = Idle /\ rCount = Idle
  /\ buckets = Idle /\ phase = Idle /\ list = Idle /\ node = Idle /\ steps = Idle
  /\ visited = Idle /\ out = Idle /\ seen = Idle /\ kept = Idle /\ quiet = Idle
CandidateIdle ==
  /\ headPrev = Idle /\ headNext = Idle /\ slow = Idle /\ fast = Idle /\ meet = Idle
  /\ cycleLen = Idle /\ i = Idle /\ cur = Idle /\ curPrev = Idle /\ curNext = Idle
  /\ outSteps = Idle /\ validBuckets = Idle /\ ring = Idle /\ still = Idle
TagIdle ==
  /\ slots = Idle /\ members = Idle /\ asked = Idle /\ mask = Idle /\ bucket = Idle
  /\ head = Idle /\ first = Idle /\ erased = Idle /\ empty = Idle /\ unread = Idle
LocateIdle ==
  /\ word = Idle /\ parts = Idle /\ score = Idle /\ value = Idle /\ at = Idle /\ hits = Idle
  /\ bestSeed = Idle /\ up = Idle /\ cands = Idle /\ bestScore = Idle /\ way = Idle

MCObjects == {o1, o2}
MCHeads == {tagHead, localHead}
MCSlots == <<tagHead, localHead>>
MCHeadWord == tagHead :> Null @@ localHead :> localHead

(***************************************************************************)
(* GomWalk with one table, under fairness.                                 *)
(***************************************************************************)
Walk == INSTANCE GomWalk WITH
  Leaves <- {"stale", "self"}, Nothing <- Null, Tables <- {t1}, Layout <- t1 :> <<tagHead>>,
  MaxNodes <- 10

WalkInit ==
  /\ world = "walk" /\ Walk!Init
  /\ CandidateIdle /\ TagIdle /\ LocateIdle /\ bi = Idle /\ result = Idle /\ calm = Idle

WalkOthers == UNCHANGED <<world, candidateVars, tagVars, locateVars, bi, result, calm>>
WalkNext == world = "walk" /\ Walk!Next /\ WalkOthers

\* A call ends, even if the target keeps relinking nodes forever.
CallEnds == (world = "walk" /\ pc = "base") ~> (pc = "done")

(***************************************************************************)
(* GomCandidate on the real manager of a target that moves.                *)
(***************************************************************************)
Candidate == INSTANCE GomCandidate WITH Head0 <- LocalHead, Gone <- {}, TableLikely <- TRUE

ASSUME ListAssumption ==
  /\ Objects \cap Heads = {} /\ Null \notin Objects \cup Heads
  /\ Leaves \subseteq {"stale", "zero", "self"}
  /\ LocalHead \in Heads
  /\ Slots \in Seq(Heads \cup {Null}) /\ MaxBuckets \in Nat
  /\ HeadWord \in [Heads -> Objects \cup Heads \cup {Null}]
  /\ ScanCount \in Nat /\ ScoreCap \in Nat \ {0} /\ LenBound \in Nat \ {0}

\* Where the model stops counting lies beyond every list.
ASSUME BoundAssumption == Candidate!BoundHolds

CandidateInit ==
  /\ world = "candidate" /\ Candidate!LiveInit
  /\ WalkIdle /\ TagIdle /\ LocateIdle /\ slot = Idle /\ calm = Idle

CandidateNext ==
  world = "candidate" /\ Candidate!Next
  /\ UNCHANGED <<world, walkVars, tagVars, locateVars, slot, calm>>

\* On the manager of a running target the verdict is right if no list changes.
VerdictCorrect == world = "candidate" => Candidate!VerdictCorrect

(***************************************************************************)
(* GomTag with three tags, two of one hash, two lists and two slots.       *)
(***************************************************************************)
MCTags == {5, 6, 7}
MCHash == 5 :> 50 @@ 6 :> 60 @@ 7 :> 60
MCTagObjects == {11, 12, 13}
MCTagOf == 11 :> 5 @@ 12 :> 5 @@ 13 :> 6

Tag == INSTANCE GomTag WITH Objects <- TagObjects

\* The zero word is no tag, no list and no object, and an erased slot's mask is no hash.
ASSUME TagAssumption ==
  /\ Null \notin Tags \cup Lists \cup TagObjects
  /\ Lists \cap TagObjects = {}
  /\ DOMAIN TagOf = TagObjects
  /\ SlotCount \in Nat \ {0}
  /\ \A t \in Tags : Hash[t] # Deleted

TagInit ==
  /\ world = "tag" /\ Tag!Init
  /\ ListIdle /\ WalkIdle /\ CandidateIdle /\ LocateIdle /\ slot = Idle

TagNext ==
  world = "tag" /\ Tag!Next
  /\ UNCHANGED <<world, listVars, walkVars, candidateVars, locateVars, slot>>

\* A search for a tag, by its key or by its mask and key, finds the first
\* object of it, and anything else only through an erased slot or an empty list,
\* whichever of its reads fail.
TagAnswered ==
  world = "tag" => Tag!TagFound /\ Tag!WrongOnlyFromErasedOrEmpty /\ Tag!MaskFound

(***************************************************************************)
(* GomLocate.  In the run, over twenty words: two data sections, a heap    *)
(* with a table of two buckets and a manager, and words that only look     *)
(* like one of them.                                                       *)
(***************************************************************************)
MCSeed == 101
MCOnes == 102
LowHead == 111
HeapHead == 112
HighHead == 113

P(k, a, b, l) == [kind |-> k, first |-> a, last |-> b, lost |-> l]

\* Place 16 is the manager of the table at 10; place 17 may be another word
\* that holds 10.  The bucket at 13 has the known mask, and so may the word at
\* 18, whose list head would be at 20.
MemoryWith(a, b, c, before, head1, copy, stray, head2) ==
  <<a, b, c, 0>> \o <<0, 0>> \o <<before, 0, 0>> \o <<MCOnes, 0, LowHead>>
  \o <<MCSeed, 0, head1>> \o <<10, copy>> \o <<stray, 0, head2>>

PartsWith(d, r, h) == <<P("data", 1, 3, d), P("rdata", 4, 4, r), P("text", 5, 6, FALSE), P("heap", 7, 20, h)>>

Scores == {[p \in 1..20 |-> IF p = 16 THEN 7 ELSE IF p = 17 THEN x ELSE 0] : x \in {0, 7, 9}}

MCInputs ==
  {[word |-> MemoryWith(a, b, c, before, h, copy, MCSeed, h2), parts |-> PartsWith(d, FALSE, FALSE), score |-> s] :
     a \in {0, 17}, b \in {0, 16}, c \in {0, 16}, before \in {0, 5}, h \in {LowHead, HighHead},
     copy \in {0, 10, 16}, h2 \in {0, HeapHead}, d \in BOOLEAN, s \in Scores}
  \cup
  {[word |-> MemoryWith(a, 16, 17, 0, h, copy, stray, HeapHead), parts |-> PartsWith(FALSE, r, hl), score |-> s] :
     a \in {16, 17, HighHead}, h \in {0, HeapHead}, copy \in {0, 10}, stray \in {0, MCSeed},
     r \in BOOLEAN, hl \in BOOLEAN, s \in Scores}

MCPreferred == {LowHead}
MCLikely == (1..20) \cup {HeapHead}
MCHigh == {HighHead}
MCWrites == [at : {2, 16}, to : {0, 17}]

Locate == INSTANCE GomLocate

ASSUME LocateAssumption ==
  /\ \A input \in Inputs :
       /\ input.word \in Seq(Nat)
       /\ \A p \in 1..Len(input.word) : input.score[p] \in 0..MaxScore
  /\ Stride \in Nat \ {0} /\ HeadAt \in Nat
  /\ SeedLimit \in Nat \ {0} /\ CandidateLimit \in Nat \ {0} /\ SlotLimit \in Nat \ {0}
  /\ MaxUp \in Nat /\ MaxScore \in Nat

LocateInit ==
  /\ world = "locate" /\ Locate!Init
  /\ ListIdle /\ WalkIdle /\ CandidateIdle /\ TagIdle /\ bi = Idle /\ result = Idle

LocateNext ==
  world = "locate" /\ Locate!Next
  /\ UNCHANGED <<world, listVars, walkVars, candidateVars, tagVars, bi, result>>

\* What the chain of scans returns holds the manager, and it returns nothing
\* only if there was nothing it could see.
ChainFound == world = "locate" => Locate!ChainSound /\ Locate!ChainComplete

\* The heuristic takes the first of the words with the best score.
BestOfSections == world = "locate" => Locate!BestOfSections

Init == WalkInit \/ CandidateInit \/ TagInit \/ LocateInit
Next == WalkNext \/ CandidateNext \/ TagNext \/ LocateNext

\* The enumerating thread keeps running; nothing is assumed of the target.
Spec == Init /\ [][Next]_vars /\ WF_vars(world = "walk" /\ Walk!Reader /\ WalkOthers)
==============================================================================
