------------------------------ MODULE GomLocate ------------------------------
(***************************************************************************)
(* Finding the global word that points to the GameObjectManager when its   *)
(* place is not known (gom_scan.hpp): by a chain of scans from a bucket    *)
(* with a known hash mask to the table, the manager and the word           *)
(* (scan_chain.hpp), else by trying every word of the module's data        *)
(* sections as a manager (scan_heuristic.hpp).                             *)
(*                                                                         *)
(* Memory is a sequence of words; a word that is the place of another is a *)
(* pointer to it.  A bucket is Stride words, its mask first and its list   *)
(* head at HeadAt.  The scans are those of PatternScan without chunks; the *)
(* target may write between two words of a scan.  ScoreOf stands for       *)
(* CheckGameObjectManagerCandidateBlindScan (GomCandidate), 0 when it      *)
(* says no.                                                                *)
(***************************************************************************)
EXTENDS Integers, Sequences, FiniteSets

CONSTANTS
  Inputs,     \* [word, parts, score]: memory, what it is made of, the score of each place
  Seed, Ones, \* kSeedHashMask, kHeadHashMask
  Stride, HeadAt,
  Preferred,  \* words IsPreferredLowGomPointer accepts
  Likely,     \* words IsLikelyPtr accepts and IsHighModuleLikePointer does not
  High,       \* words both accept
  SeedLimit, CandidateLimit, SlotLimit,  \* 64, 16, 4 hits
  MaxUp,      \* kMaxUpSearchSteps
  MaxScore,
  Writes      \* [at, to]: what the target may write once during the search

VARIABLES
  pc, word, parts, score,
  value, at, hits,     \* a scan for a word: how far it is, what it has found
  bestSeed, up, cands, \* bestSeed, i of the search upwards, scan1Hits left
  bestScore, slot,     \* bestScore; gomSlot, bestGomGlobal or 0
  \* history of the call, not in the code
  way, calm            \* which of the two searches slot is from; nobody has written

scan == <<value, at, hits>>
locals == <<scan, bestSeed, up, cands, bestScore, slot, way>>
vars == <<pc, word, parts, score, locals, calm>>

Places == 1..Len(word)
PartOf(p) == CHOOSE q \in {parts[k] : k \in 1..Len(parts)} : p \in q.first..q.last
Readable(p) == p \in Places /\ ~ PartOf(p).lost
InModule(p) == p \in Places /\ PartOf(p).kind # "heap"

\* IsSectionWantedForGomScan; a section is read whole or not at all.
Wanted(p) == Readable(p) /\ PartOf(p).kind \in {"data", "rdata"}

Init ==
  /\ \E input \in Inputs : word = input.word /\ parts = input.parts /\ score = input.score
  /\ pc = "seeds"
  /\ value = Seed /\ at = 1 /\ hits = <<>>
  /\ bestSeed = 0 /\ up = 0 /\ cands = <<>> /\ bestScore = 0 /\ slot = 0
  /\ way = "none" /\ calm = TRUE

Memory == UNCHANGED <<word, parts, score, calm>>

\* ScanProcessForPatternGlobal and ScanModuleSectionsForPointer for v.
StartScan(p, v) == pc' = p /\ value' = v /\ at' = 1 /\ hits' = <<>>
EndScan == value' = 0 /\ at' = 1

\* FindGomGlobalSlotBySectionHeuristicInternal, after anything has failed.
GoToSections == StartScan("sections", 0) /\ cands' = <<>> /\ UNCHANGED <<bestScore, slot, way>>

\* The limit on the hits of the scan under way.
Limit == CASE pc = "seeds" -> SeedLimit [] pc = "tables" -> CandidateLimit [] OTHER -> SlotLimit

ScanIsOver == at > Len(word) \/ Len(hits) >= Limit

\* Mutant: the module's sections are all that is searched.
CoveredInModule(p) == Wanted(p)

\* Does the scan under way look at p?
Covered(p) == IF pc = "slots" THEN Wanted(p) ELSE Readable(p)

ScanWord ==
  /\ pc \in {"seeds", "tables", "slots", "anyslots"}
  /\ ~ ScanIsOver
  /\ hits' = IF Covered(at) /\ word[at] = value THEN Append(hits, at) ELSE hits
  /\ at' = at + 1
  /\ Memory /\ UNCHANGED <<pc, value, bestSeed, up, cands, bestScore, slot, way>>

(***************************************************************************)
(* The chain: the seed,                                                    *)
(***************************************************************************)
SeedsFound ==
  /\ pc = "seeds" /\ ScanIsOver
  /\ IF hits = <<>> THEN GoToSections
                    ELSE pc' = "select" /\ EndScan /\ UNCHANGED <<hits, cands, bestScore, slot, way>>
  /\ Memory /\ UNCHANGED <<bestSeed, up>>

HeadOf(p) == IF Readable(p + HeadAt) THEN word[p + HeadAt] ELSE 0

\* SelectBestSeedAddr, one hit.
SelectSeed ==
  /\ pc = "select" /\ hits # <<>>
  /\ LET h == HeadOf(Head(hits)) IN
     /\ bestSeed' = IF h \in Preferred \/ (h \in Likely /\ bestSeed = 0) THEN Head(hits) ELSE bestSeed
     /\ hits' = IF h \in Preferred THEN <<>> ELSE Tail(hits)
  /\ Memory /\ UNCHANGED <<pc, value, at, up, cands, bestScore, slot, way>>

SeedSelected ==
  /\ pc = "select" /\ hits = <<>>
  /\ IF bestSeed = 0 THEN GoToSections /\ UNCHANGED up
                     ELSE pc' = "up" /\ up' = 0 /\ UNCHANGED <<scan, cands, bestScore, slot, way>>
  /\ Memory /\ UNCHANGED bestSeed

\* Mutant: the word before the table is not looked at.
StartsTableAnyhow(p) == Readable(p) /\ word[p] = Ones

\* FindGomBucketsTableHeadFromSeed: is this the table's first bucket?
StartsTable(p) ==
  Readable(p) /\ word[p] = Ones /\ Readable(p - Stride) /\ word[p - Stride] = 0

GoUp ==
  /\ pc = "up"
  /\ LET p == bestSeed - up * Stride IN
     IF p < 1 \/ up > MaxUp
       THEN GoToSections /\ up' = 0 /\ bestSeed' = 0
       ELSE IF StartsTable(p)
         THEN StartScan("tables", p) /\ up' = 0 /\ bestSeed' = 0 /\ UNCHANGED <<cands, bestScore, slot, way>>
         ELSE up' = up + 1 /\ UNCHANGED <<pc, scan, bestSeed, cands, bestScore, slot, way>>
  /\ Memory

(***************************************************************************)
(* the words that hold the table's address, which may be managers,         *)
(***************************************************************************)
TablesFound ==
  /\ pc = "tables" /\ ScanIsOver
  /\ IF hits = <<>> THEN GoToSections
                    ELSE /\ StartScan("slots", Head(hits)) /\ cands' = hits
                         /\ UNCHANGED <<bestScore, slot, way>>
  /\ Memory /\ UNCHANGED <<bestSeed, up>>

(***************************************************************************)
(* and for each the words that hold its address, in the module or else     *)
(* anywhere, the first that still does when it is read back.               *)
(***************************************************************************)
NextCandidate ==
  IF Len(cands) = 1
    THEN GoToSections
    ELSE StartScan("slots", cands[2]) /\ cands' = Tail(cands) /\ UNCHANGED <<bestScore, slot, way>>

SlotsFound ==
  /\ pc \in {"slots", "anyslots"} /\ ScanIsOver
  /\ IF hits # <<>>
       THEN pc' = "readback" /\ EndScan /\ UNCHANGED <<hits, cands, bestScore, slot, way>>
       ELSE IF pc = "slots"
         THEN StartScan("anyslots", Head(cands)) /\ UNCHANGED <<cands, bestScore, slot, way>>
         ELSE NextCandidate
  /\ Memory /\ UNCHANGED <<bestSeed, up>>

ReadBack ==
  /\ pc = "readback"
  /\ IF hits = <<>>
       THEN NextCandidate
       ELSE IF Readable(Head(hits)) /\ word[Head(hits)] = Head(cands)
         THEN pc' = "done" /\ slot' = Head(hits) /\ way' = "chain" /\ UNCHANGED <<scan, cands, bestScore>>
         ELSE hits' = Tail(hits) /\ UNCHANGED <<pc, value, at, cands, bestScore, slot, way>>
  /\ Memory /\ UNCHANGED <<bestSeed, up>>

(***************************************************************************)
(* The section heuristic.                                                  *)
(***************************************************************************)

\* A word it takes for a manager; pointers from read-only data into the module
\* are left out.
MayBeManager(p) ==
  /\ Wanted(p)
  /\ word[p] \in Preferred \cup Likely \cup High
  /\ ~ (PartOf(p).kind = "rdata" /\ InModule(word[p]))

\* Mutant: the last of several managers with one score is taken.
NotWorse(s) == s > 0 /\ s >= bestScore

\* r.ok && r.score > bestScore
Better(s) == s > bestScore

ScoreOf(p) == IF word[p] \in Places THEN score[word[p]] ELSE 0

TryWord ==
  /\ pc = "sections" /\ at <= Len(word)
  /\ IF MayBeManager(at) /\ Better(ScoreOf(at))
       THEN /\ bestScore' = ScoreOf(at) /\ slot' = at /\ way' = "sections"
            /\ pc' = IF ScoreOf(at) >= MaxScore THEN "done" ELSE "sections"
       ELSE UNCHANGED <<bestScore, slot, way, pc>>
  /\ at' = at + 1
  /\ Memory /\ UNCHANGED <<value, hits, bestSeed, up, cands>>

SectionsDone ==
  /\ pc = "sections" /\ at > Len(word)
  /\ pc' = "done"
  /\ Memory /\ UNCHANGED locals

Search ==
  \/ ScanWord \/ SeedsFound \/ SelectSeed \/ SeedSelected \/ GoUp \/ TablesFound
  \/ SlotsFound \/ ReadBack \/ TryWord \/ SectionsDone

Write ==
  /\ pc # "done" /\ calm
  /\ \E w \in Writes : word[w.at] # w.to /\ word' = [word EXCEPT ![w.at] = w.to]
  /\ calm' = FALSE
  /\ UNCHANGED <<pc, parts, score, locals>>

Next == Search \/ Write

(***************************************************************************)
(* Properties.                                                             *)
(***************************************************************************)

IsTable(t) ==
  Readable(t) /\ word[t] = Ones /\ Readable(t - Stride) /\ word[t - Stride] = 0

IsChain(s, m, t) == Readable(s) /\ word[s] = m /\ Readable(m) /\ word[m] = t /\ IsTable(t)

\* In a target that stands still the chain ends at a word that points to a
\* word that points to a bucket table, and one with the known bucket in it.
ChainSound ==
  (pc = "done" /\ calm /\ way = "chain") =>
    \E m, t \in Places :
      /\ IsChain(slot, m, t)
      /\ \E k \in 0..MaxUp : Readable(t + k * Stride) /\ word[t + k * Stride] = Seed

\* If every bucket with the known mask lies in one table, and their list heads
\* are pointers, and no more words than the limit hold its address, nothing
\* that leads to the table is passed over, wherever it lies; and a word of the
\* module's data goes before any other that leads to the same manager.
ChainComplete ==
  (pc = "done" /\ calm) =>
    LET seeds == {p \in Places : Readable(p) /\ word[p] = Seed} IN
    \A t \in Places :
      /\ IsTable(t) /\ seeds # {}
      /\ Cardinality({p \in Places : Readable(p) /\ word[p] = t}) <= CandidateLimit
      /\ \A p \in seeds :
           /\ HeadOf(p) \in Likely \cup Preferred
           /\ \E k \in 0..MaxUp : p = t + k * Stride
           /\ \A q \in (t + 1)..p : ~ IsTable(q)
      => /\ (\E s, m \in Places : IsChain(s, m, t)) => way = "chain"
         /\ (way = "chain" /\ ~ Wanted(slot)) =>
              \A s \in Places : Wanted(s) => word[s] # word[slot]

\* The heuristic takes the first of the data words with the highest score.
BestOfSections ==
  (pc = "done" /\ calm /\ way # "chain") =>
    LET tried == {p \in Places : MayBeManager(p) /\ ScoreOf(p) > 0} IN
    IF tried = {} THEN slot = 0
    ELSE /\ slot \in tried
         /\ \A p \in tried : ScoreOf(p) <= ScoreOf(slot) /\ (ScoreOf(p) = ScoreOf(slot) => slot <= p)
==============================================================================
