----------------------------- MODULE GomCandidate -----------------------------
(***************************************************************************)
(* CheckGameObjectManagerCandidateBlindScan (manager_score.hpp): does the  *)
(* memory at some address look like a GameObjectManager?  The check walks  *)
(* the would-be local list (ValidateCircularDList, validate_dlist.hpp)     *)
(* and then looks for buckets that are in use.                             *)
(*                                                                         *)
(* The address may be anything, so the memory behind it may be anything:   *)
(* AnyInit.  Or it may be the real manager, and then the target goes on    *)
(* moving list nodes during the check: LiveInit and ListStep.  One action  *)
(* is one read of target memory and the code up to the next one.           *)
(*                                                                         *)
(* A word that fails IsLikelyPtr is Null; a pointer to a page that is not  *)
(* there is a member of unmapped.                                          *)
(***************************************************************************)
EXTENDS GomTarget, Sequences

CONSTANTS
  Head0,      \* the word at manager + 0x28, taken for the local list's head
  TableLikely,\* whether what is taken for the bucket table's address IsLikelyPtr
  Slots,      \* that table: per slot a list head, or Null when unused
  MaxBuckets, \* the most slots a table may have (0x100000)
  HeadWord,   \* what lies where a head would have its native_object
  ScanCount,  \* buckets looked at (1000)
  ScoreCap,   \* where a count stops adding to the score (64)
  LenBound,   \* where the model stops counting a cycle
  Gone        \* pages that may be missing in arbitrary memory

ASSUME CandidateAssumption ==
  /\ Head0 \in Heads
  /\ TableLikely \in BOOLEAN /\ Slots \in Seq(Heads \cup {Null}) /\ MaxBuckets \in Nat
  /\ HeadWord \in [Heads -> Words]
  /\ ScanCount \in Nat /\ ScoreCap \in Nat \ {0} /\ LenBound \in Nat \ {0}
  /\ Gone \subseteq Nodes

VARIABLES
  pc,
  headPrev, headNext,      \* locals of ValidateCircularDList
  slow, fast, meet,
  cycleLen, i, cur,
  curPrev, curNext,
  outSteps,                \* counted up to ScoreCap, where the score stops
  bi, validBuckets,        \* idx, validBucketCount
  result,                  \* the {ok, score} returned
  \* history of the check, not in the code
  ring,                    \* nodes whose neighbours have been compared
  still                    \* lists were whole when it began and have not changed

listLocals == <<headPrev, headNext, slow, fast, meet, cycleLen, i, cur, curPrev, curNext, outSteps>>
callVars == <<pc, listLocals, bi, validBuckets, result, ring>>
vars == <<targetVars, callVars, still>>

Fail == [ok |-> FALSE, score |-> 0]

\* No check is running.
CallInit ==
  /\ pc = "idle"
  /\ headPrev = Null /\ headNext = Null
  /\ slow = Null /\ fast = Null /\ meet = Null
  /\ cycleLen = 0 /\ i = 0 /\ cur = Null /\ curPrev = Null /\ curNext = Null
  /\ outSteps = 0
  /\ bi = 1 /\ validBuckets = 0
  /\ result = Fail
  /\ ring = {}
  /\ still = FALSE

\* Memory that is no manager: any words, some pages missing (what they would
\* hold is of no account), and nobody writes.
AnyInit ==
  /\ unmapped \in SUBSET Gone
  /\ next \in {f \in [Nodes -> Words] : \A n \in unmapped : f[n] = Null}
  /\ prev \in {f \in [Nodes -> Words] : \A n \in unmapped : f[n] = Null}
  /\ linked = Heads
  /\ pending = NoWrite
  /\ CallInit

\* The manager of a target that has just started.
LiveInit ==
  /\ TargetInit
  /\ CallInit

Begin ==
  /\ pc = "idle"
  /\ pc' = "hprev"
  /\ still' = (pending = NoWrite)
  /\ UNCHANGED <<targetVars, listLocals, bi, validBuckets, result, ring>>

\* ValidateCircularDList has returned: its locals are gone.
LocalsGone ==
  /\ headPrev' = Null /\ headNext' = Null
  /\ slow' = Null /\ fast' = Null /\ meet' = Null
  /\ cycleLen' = 0 /\ i' = 0 /\ cur' = Null /\ curPrev' = Null /\ curNext' = Null

\* The caller has the result.
Return ==
  /\ pc = "done"
  /\ pc' = "idle"
  /\ LocalsGone
  /\ outSteps' = 0
  /\ bi' = 1 /\ validBuckets' = 0
  /\ result' = Fail
  /\ ring' = {}
  /\ still' = FALSE
  /\ UNCHANGED targetVars

Reject ==
  /\ pc' = "done"
  /\ LocalsGone
  /\ UNCHANGED <<outSteps, bi, validBuckets, result, ring>>

Reader == UNCHANGED <<targetVars, still>>

\* A step of ValidateCircularDList that goes on to p.
GoOn(p) == pc' = p /\ UNCHANGED <<bi, validBuckets, result>>

(***************************************************************************)
(* ValidateCircularDList: the head's own words and its two neighbours.     *)
(***************************************************************************)
ReadHeadPrev ==
  /\ pc = "hprev"
  /\ IF Readable(Head0)
       THEN headPrev' = prev[Head0] /\ GoOn("hnext")
            /\ UNCHANGED <<headNext, slow, fast, meet, cycleLen, i, cur, curPrev, curNext, outSteps, ring>>
       ELSE Reject
  /\ Reader

ReadHeadNext ==
  /\ pc = "hnext"
  /\ IF Readable(Head0) /\ next[Head0] # Null /\ headPrev # Null
       THEN headNext' = next[Head0] /\ GoOn("nextprev")
            /\ UNCHANGED <<headPrev, slow, fast, meet, cycleLen, i, cur, curPrev, curNext, outSteps, ring>>
       ELSE Reject
  /\ Reader

CheckNextPrev ==
  /\ pc = "nextprev"
  /\ IF Readable(headNext) /\ prev[headNext] = Head0
       THEN GoOn("prevnext") /\ UNCHANGED <<listLocals, ring>>
       ELSE Reject
  /\ Reader

CheckPrevNext ==
  /\ pc = "prevnext"
  /\ IF Readable(headPrev) /\ next[headPrev] = Head0
       THEN slow' = Head0 /\ fast' = Head0 /\ headPrev' = Null /\ GoOn("slow")
            /\ UNCHANGED <<headNext, meet, cycleLen, i, cur, curPrev, curNext, outSteps, ring>>
       ELSE Reject
  /\ Reader

(***************************************************************************)
(* Two pointers at different speeds until they meet; while (true).         *)
(***************************************************************************)

\* Mutant: the word read is not looked at.
FollowAnything(n) == Readable(n)

\* The lambda Next: both ends must look like pointers.
CanFollow(n) == Readable(n) /\ next[n] # Null

MoveSlow ==
  /\ pc = "slow"
  /\ IF CanFollow(slow)
       THEN slow' = next[slow] /\ GoOn("fast1")
            /\ UNCHANGED <<headPrev, headNext, fast, meet, cycleLen, i, cur, curPrev, curNext, outSteps, ring>>
       ELSE Reject
  /\ Reader

MoveFast ==
  /\ pc \in {"fast1", "fast2"}
  /\ IF CanFollow(fast)
       THEN /\ fast' = next[fast]
            /\ meet' = IF pc = "fast2" /\ next[fast] = slow THEN slow ELSE meet
            /\ GoOn(IF pc = "fast1" THEN "fast2" ELSE IF next[fast] = slow THEN "cycle0" ELSE "slow")
            /\ UNCHANGED <<headPrev, headNext, slow, cycleLen, i, cur, curPrev, curNext, outSteps, ring>>
       ELSE Reject
  /\ Reader

(***************************************************************************)
(* The length of the cycle they met on; while (cycleCur != meet).          *)
(***************************************************************************)
Counted(n) == IF n < LenBound THEN n + 1 ELSE n

MeasureFirst ==
  /\ pc = "cycle0"
  /\ IF CanFollow(meet)
       THEN /\ cycleLen' = 1
            /\ i' = 0
            /\ cur' = next[meet]
            /\ GoOn(IF next[meet] = meet THEN "member" ELSE "cycle")
            /\ UNCHANGED <<headPrev, headNext, slow, fast, meet, curPrev, curNext, outSteps, ring>>
       ELSE Reject
  /\ Reader

\* Mutant: the cycle is measured until the head turns up.
MeasureToHead ==
  /\ pc = "cycle"
  /\ IF CanFollow(cur)
       THEN /\ cycleLen' = Counted(cycleLen)
            /\ cur' = next[cur]
            /\ GoOn(IF next[cur] = Head0 THEN "member" ELSE "cycle")
            /\ UNCHANGED <<headPrev, headNext, slow, fast, meet, i, curPrev, curNext, outSteps, ring>>
       ELSE Reject
  /\ Reader

Measure ==
  /\ pc = "cycle"
  /\ IF CanFollow(cur)
       THEN /\ cycleLen' = Counted(cycleLen)
            /\ cur' = next[cur]
            /\ GoOn(IF next[cur] = meet THEN "member" ELSE "cycle")
            /\ UNCHANGED <<headPrev, headNext, slow, fast, meet, i, curPrev, curNext, outSteps, ring>>
       ELSE Reject
  /\ Reader

\* Is the head on that cycle?  At most cycleLen turns, from meet on.
FindHead ==
  /\ pc = "member"
  /\ IF cur = Head0
       THEN /\ cur' = headNext
            /\ headNext' = Null /\ slow' = Null /\ fast' = Null /\ meet' = Null
            /\ cycleLen' = 0 /\ i' = 0
            /\ ring' = {Head0} /\ GoOn(IF headNext = Head0 THEN "steps" ELSE "cprev")
            /\ UNCHANGED <<headPrev, curPrev, curNext, outSteps>>
       ELSE IF CanFollow(cur) /\ i + 1 < cycleLen
         THEN cur' = next[cur] /\ i' = i + 1 /\ GoOn("member")
              /\ UNCHANGED <<headPrev, headNext, slow, fast, meet, cycleLen, curPrev, curNext, outSteps, ring>>
         ELSE Reject
  /\ Reader

(***************************************************************************)
(* Round the list once more, comparing each node with its neighbours;      *)
(* for (;;) until cur is the head again.                                   *)
(***************************************************************************)
ReadCurPrev ==
  /\ pc = "cprev"
  /\ IF Readable(cur)
       THEN curPrev' = prev[cur] /\ GoOn("cnext")
            /\ UNCHANGED <<headPrev, headNext, slow, fast, meet, cycleLen, i, cur, curNext, outSteps, ring>>
       ELSE Reject
  /\ Reader

ReadCurNext ==
  /\ pc = "cnext"
  /\ IF Readable(cur) /\ next[cur] # Null /\ curPrev # Null
       THEN curNext' = next[cur] /\ GoOn("cnextprev")
            /\ UNCHANGED <<headPrev, headNext, slow, fast, meet, cycleLen, i, cur, curPrev, outSteps, ring>>
       ELSE Reject
  /\ Reader

\* Mutant: the next node need only have some prev.
CheckAnyNextPrev ==
  /\ pc = "cnextprev"
  /\ IF Readable(curNext) /\ prev[curNext] # Null
       THEN GoOn("cprevnext") /\ UNCHANGED <<listLocals, ring>>
       ELSE Reject
  /\ Reader

CheckCurNextPrev ==
  /\ pc = "cnextprev"
  /\ IF Readable(curNext) /\ prev[curNext] = cur
       THEN GoOn("cprevnext") /\ UNCHANGED <<listLocals, ring>>
       ELSE Reject
  /\ Reader

CheckCurPrevNext ==
  /\ pc = "cprevnext"
  /\ IF Readable(curPrev) /\ next[curPrev] = cur
       THEN /\ cur' = curNext /\ curPrev' = Null /\ curNext' = Null
            /\ outSteps' = IF outSteps < ScoreCap THEN outSteps + 1 ELSE outSteps
            /\ ring' = ring \cup {cur}
            /\ GoOn(IF curNext = Head0 THEN "steps" ELSE "cprev")
            /\ UNCHANGED <<headPrev, headNext, slow, fast, meet, cycleLen, i>>
       ELSE Reject
  /\ Reader

(***************************************************************************)
(* The rest of the candidate check.                                        *)
(***************************************************************************)

\* The address and bucketCount are taken for those of a table.
HasTable == TableLikely /\ Len(Slots) \in 1..MaxBuckets

\* listSteps must not be zero; then the table's address and the count.
EnterTable ==
  /\ pc = "steps"
  /\ IF outSteps = 0 \/ ~ HasTable
       THEN Reject
       ELSE GoOn("slot") /\ UNCHANGED <<listLocals, ring>>
  /\ Reader

\* IsListNonEmpty: the native_object word of the head itself.
IsListNonEmpty(h) == Readable(h) /\ HeadWord[h] # Null

\* Mutant: the last slot is left out.
CountSlotButLast ==
  /\ pc = "slot"
  /\ bi <= Len(Slots) /\ bi <= ScanCount
  /\ bi' = bi + 1
  /\ validBuckets' =
       IF Slots[bi] # Null /\ IsListNonEmpty(Slots[bi]) /\ bi # Len(Slots) THEN validBuckets + 1
                                                                         ELSE validBuckets
  /\ UNCHANGED <<pc, listLocals, result, ring>>
  /\ Reader

CountSlot ==
  /\ pc = "slot"
  /\ bi <= Len(Slots) /\ bi <= ScanCount
  /\ bi' = bi + 1
  /\ validBuckets' = IF Slots[bi] # Null /\ IsListNonEmpty(Slots[bi]) THEN validBuckets + 1
                                                                    ELSE validBuckets
  /\ UNCHANGED <<pc, listLocals, result, ring>>
  /\ Reader

Capped(n) == IF n > ScoreCap THEN ScoreCap ELSE n

Score ==
  /\ pc = "slot"
  /\ bi > Len(Slots) \/ bi > ScanCount
  /\ IF validBuckets = 0
       THEN Reject
       ELSE /\ result' = [ok |-> TRUE, score |-> 20 + 80 + Capped(outSteps) + Capped(validBuckets) + 20]
            /\ pc' = "done"
            /\ UNCHANGED <<listLocals, bi, validBuckets, ring>>
  /\ Reader

Check ==
  \/ ReadHeadPrev \/ ReadHeadNext \/ CheckNextPrev \/ CheckPrevNext
  \/ MoveSlow \/ MoveFast \/ MeasureFirst \/ Measure \/ FindHead
  \/ ReadCurPrev \/ ReadCurNext \/ CheckCurNextPrev \/ CheckCurPrevNext
  \/ EnterTable \/ CountSlot \/ Score

Call == Begin \/ Check \/ Return

ListStep ==
  /\ pc # "done"
  /\ \/ \E o \in Objects : \/ \E p \in linked : Link(o, p)
                           \/ Unlink(o)
                           \/ Unmap(o)
     \/ WriteBack
  /\ still' = FALSE
  /\ UNCHANGED callVars

Next == Call \/ ListStep

\* The checking thread keeps running; nothing is assumed of the target.
AnySpec == AnyInit /\ [][Call]_vars /\ WF_vars(Check)

LiveSpec == LiveInit /\ [][Next]_vars /\ WF_vars(Check)

(***************************************************************************)
(* Properties.                                                             *)
(***************************************************************************)
Pcs == {"idle", "hprev", "hnext", "nextprev", "prevnext", "slow", "fast1", "fast2", "cycle0",
        "cycle", "member", "cprev", "cnext", "cnextprev", "cprevnext", "steps", "slot", "done"}

\* Type invariant of the check's locals; what the loops follow is never zero.
TypeOK ==
  /\ next \in [Nodes -> Words] /\ prev \in [Nodes -> Words] /\ unmapped \in SUBSET Nodes
  /\ pc \in Pcs
  /\ {headPrev, headNext, slow, fast, meet, cur, curPrev, curNext} \subseteq Words
  /\ pc \in {"slow", "fast1", "fast2"} => {slow, fast} \subseteq Nodes
  /\ pc \in {"cycle", "member", "cprev", "cnext", "cnextprev", "cprevnext"} => cur \in Nodes
  /\ cycleLen \in 0..LenBound /\ i \in Nat /\ outSteps \in 0..ScoreCap
  /\ bi \in Nat \ {0} /\ validBuckets \in Nat
  /\ result.ok \in BOOLEAN /\ result.score \in Nat
  /\ ring \in SUBSET Nodes
  /\ still \in BOOLEAN

\* The reference: S is closed under both words, and they undo each other.
ClosedRing(S) ==
  /\ Head0 \in S
  /\ \A n \in S : Readable(n) /\ next[n] \in S /\ prev[n] \in S
                  /\ prev[next[n]] = n /\ next[prev[n]] = n

HeadRing(S) == ClosedRing(S) /\ \A T \in SUBSET S : ClosedRing(T) => T = S

UsedSlots ==
  {k \in 1..Len(Slots) : HasTable /\ k <= ScanCount /\ Slots[k] # Null /\ Readable(Slots[k])
                         /\ HeadWord[Slots[k]] # Null}

Expected(r) ==
  IF \E S \in SUBSET Nodes : HeadRing(S) /\ S # {Head0} /\ UsedSlots # {}
    THEN \E S \in SUBSET Nodes :
           /\ HeadRing(S)
           /\ r = [ok |-> TRUE,
                   score |-> 120 + Capped(Cardinality(S) - 1) + Capped(Cardinality(UsedSlots))]
    ELSE r = Fail

\* Over memory that does not change during the check, whatever it holds, the
\* check accepts exactly the heads of non-empty circular lists with a bucket
\* in use, and scores them by their lengths: Floyd's meeting point, the cycle
\* measured from it and the last round agree with what a ring is.
VerdictCorrect == (pc = "done" /\ still) => Expected(result)

\* What that takes of the model: LenBound, which the code does not have, is
\* never reached.
BoundHolds == IsFiniteSet(Nodes) /\ Cardinality(Nodes) <= LenBound

\* Each check returns.  True of memory that does not change, whatever it
\* holds.  The repository's README.md:124 says of CheckGomManagerCandidate()
\* that it returns {ok, score}, also when the target is running.
CheckEnds == (pc = "hprev") ~> (pc = "done")
==============================================================================
