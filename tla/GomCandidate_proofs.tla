-------------------------- MODULE GomCandidate_proofs --------------------------
(***************************************************************************)
(* What an accepted candidate is, whatever the memory at the candidate's   *)
(* address holds and however much of it there is: the runs try every       *)
(* memory of four nodes, the theorem is about any number.                  *)
(*                                                                         *)
(* That what is accepted is a ring rests on the last round of              *)
(* ValidateCircularDList: it keeps the set of the nodes it has compared    *)
(* (ring) closed under both words except for the node it is about to look  *)
(* at.  That no ring is refused rests on Floyd's loop and the measured     *)
(* cycle, followed along stretches of the ring.                            *)
(***************************************************************************)
EXTENDS GomCandidate, FiniteSetTheorems, TLAPS

Memory == next \in [Nodes -> Words] /\ prev \in [Nodes -> Words]

\* The head's own words undo each other.
HeadChecked == Readable(Head0) /\ next[Head0] \in Nodes
               /\ prev[next[Head0]] = Head0 /\ next[prev[Head0]] = Head0

\* What the walk knows at each point of ValidateCircularDList.
HeadInv ==
  /\ pc \in {"hnext", "nextprev", "prevnext"} => Readable(Head0) /\ headPrev = prev[Head0]
  /\ pc \in {"nextprev", "prevnext"} => headNext = next[Head0] /\ headNext \in Nodes \cup Words
  /\ pc = "prevnext" => Readable(headNext) /\ prev[headNext] = Head0
  /\ pc \in {"slow", "fast1", "fast2", "cycle0", "cycle", "member"} =>
       HeadChecked /\ headNext = next[Head0]

Compared(n) == Readable(n) /\ prev[next[n]] = n /\ next[prev[n]] = n

RoundInv ==
  /\ pc \in {"cprev", "cnext", "cnextprev", "cprevnext"} =>
       /\ Head0 \in ring /\ ring \subseteq Nodes /\ cur # Head0 /\ prev[cur] \in ring
       /\ \A n \in ring : Compared(n) /\ next[n] \in ring \cup {cur}
       /\ \A n \in ring \ {Head0} : prev[n] \in ring
  /\ pc \in {"cnext", "cnextprev", "cprevnext"} => Readable(cur) /\ curPrev = prev[cur]
  /\ pc \in {"cnextprev", "cprevnext"} => curNext = next[cur]
  /\ pc = "cprevnext" => Readable(curNext) /\ prev[curNext] = cur
  /\ pc \in {"steps", "slot"} \/ result.ok => ring \in SUBSET Nodes /\ ClosedRing(ring)

ListInv ==
  /\ Memory /\ HeadInv /\ RoundInv
  /\ pc # "done" => result = Fail

LEMMA ListInit == AnyInit => ListInv
  BY DEF AnyInit, CallInit, ListInv, Memory, HeadInv, RoundInv, Fail

\* A rejection and a return forget everything.
LEMMA RejectKeeps ==
  ASSUME ListInv, pc' = "done", result' = Fail, UNCHANGED <<next, prev, unmapped>>
  PROVE  ListInv'
  BY DEF ListInv, Memory, HeadInv, RoundInv, Fail

LEMMA HeadPart ==
  ASSUME ListInv, ReadHeadPrev \/ ReadHeadNext \/ CheckNextPrev \/ CheckPrevNext
  PROVE  ListInv'
  <1>1. CASE pc' = "done" /\ result' = Fail /\ UNCHANGED <<next, prev, unmapped>>
    BY <1>1, RejectKeeps
  <1>2. CASE ReadHeadPrev /\ pc' = "hnext"
    BY <1>2 DEF ReadHeadPrev, GoOn, Reader, Reject, targetVars, ListInv, Memory, HeadInv, RoundInv, Fail,
      Readable
  <1>3. CASE ReadHeadNext /\ pc' = "nextprev"
    BY <1>3 DEF ReadHeadNext, GoOn, Reader, Reject, targetVars, ListInv, Memory, HeadInv, RoundInv, Fail,
      Readable
  <1>4. CASE CheckNextPrev /\ pc' = "prevnext"
    BY <1>4 DEF CheckNextPrev, GoOn, Reader, Reject, targetVars, listLocals, ListInv, Memory, HeadInv,
      RoundInv, Fail, Readable
  <1>5. CASE CheckPrevNext /\ pc' = "slow"
    BY <1>5 DEF CheckPrevNext, GoOn, Reader, Reject, targetVars, ListInv, Memory, HeadInv, RoundInv,
      HeadChecked, Fail, Readable
  <1>6. QED
    BY <1>1, <1>2, <1>3, <1>4, <1>5 DEF ReadHeadPrev, ReadHeadNext, CheckNextPrev, CheckPrevNext,
      Reject, GoOn, Reader, targetVars, ListInv

\* Floyd's loop, the measuring and the search for the head only move locals
\* that the result does not depend on.
LEMMA FloydPart ==
  ASSUME ListInv, MoveSlow \/ MoveFast \/ MeasureFirst \/ Measure \/ FindHead
  PROVE  ListInv'
  <1>1. CASE pc' = "done"
    <2>1. result' = Fail /\ UNCHANGED <<next, prev, unmapped>>
      BY <1>1 DEF MoveSlow, MoveFast, MeasureFirst, Measure, FindHead, Reject, GoOn, Reader,
        targetVars, ListInv
    <2>2. QED
      BY <1>1, <2>1, RejectKeeps
  <1>2. CASE /\ pc \in {"slow", "fast1", "fast2", "cycle0", "cycle", "member"}
             /\ pc' \in {"slow", "fast1", "fast2", "cycle0", "cycle", "member"}
             /\ UNCHANGED <<next, prev, unmapped, headNext, result>>
    BY <1>2 DEF ListInv, Memory, HeadInv, HeadChecked, RoundInv, Readable, Fail
  <1>3. CASE FindHead /\ cur = Head0
    <2>1. /\ pc' = IF headNext = Head0 THEN "steps" ELSE "cprev"
          /\ cur' = headNext /\ ring' = {Head0} /\ UNCHANGED <<next, prev, unmapped, result>>
      BY <1>3 DEF FindHead, GoOn, Reader, targetVars
    <2>2. HeadChecked /\ headNext = next[Head0] /\ result = Fail
      BY <1>3 DEF FindHead, ListInv, HeadInv
    <2>3. Head0 \in Nodes /\ Compared(Head0)
      BY <2>2 DEF HeadChecked, Compared, Readable
    <2>4. CASE headNext = Head0
      <3>1. ClosedRing({Head0})
        BY <2>2, <2>3, <2>4 DEF HeadChecked, ClosedRing, Readable
      <3>2. ClosedRing(ring)' /\ ring' \in SUBSET Nodes
        BY <2>1, <2>3, <3>1 DEF ClosedRing, Readable
      <3>3. QED
        BY <2>1, <2>2, <2>4, <3>2 DEF ListInv, Memory, HeadInv, RoundInv, Fail
    <2>5. CASE headNext # Head0
      BY <2>1, <2>2, <2>3, <2>5 DEF HeadChecked, ListInv, Memory, HeadInv, RoundInv, Compared,
        Readable, Fail
    <2>6. QED
      BY <2>4, <2>5
  <1>4. QED
    BY <1>1, <1>2, <1>3 DEF MoveSlow, MoveFast, MeasureFirst, Measure, FindHead, Reject, GoOn,
      Reader, targetVars

\* The last round: cur joins the compared nodes, and the next of cur is the
\* only word that may lead out of them.
LEMMA RoundPart ==
  ASSUME ListInv, ReadCurPrev \/ ReadCurNext \/ CheckCurNextPrev \/ CheckCurPrevNext
  PROVE  ListInv'
  <1>1. CASE pc' = "done"
    <2>1. result' = Fail /\ UNCHANGED <<next, prev, unmapped>>
      BY <1>1 DEF ReadCurPrev, ReadCurNext, CheckCurNextPrev, CheckCurPrevNext, Reject, GoOn,
        Reader, targetVars, ListInv
    <2>2. QED
      BY <1>1, <2>1, RejectKeeps
  <1>2. CASE pc' # "done" /\ (ReadCurPrev \/ ReadCurNext \/ CheckCurNextPrev)
    <2>1. /\ UNCHANGED <<next, prev, unmapped, ring, cur, result>>
          /\ \/ pc = "cprev" /\ pc' = "cnext" /\ Readable(cur) /\ curPrev' = prev[cur]
             \/ pc = "cnext" /\ pc' = "cnextprev" /\ curNext' = next[cur] /\ curPrev' = curPrev
             \/ /\ pc = "cnextprev" /\ pc' = "cprevnext" /\ Readable(curNext) /\ prev[curNext] = cur
                /\ UNCHANGED <<curPrev, curNext>>
      BY <1>2 DEF ReadCurPrev, ReadCurNext, CheckCurNextPrev, Reject, GoOn, Reader, targetVars,
        listLocals
    <2>2. QED
      BY <2>1 DEF ListInv, Memory, HeadInv, RoundInv, Compared, Readable, Fail
  <1>3. CASE pc' # "done" /\ CheckCurPrevNext
    <2>1. /\ pc = "cprevnext" /\ pc' = (IF curNext = Head0 THEN "steps" ELSE "cprev")
          /\ cur' = curNext /\ ring' = ring \cup {cur} /\ next[curPrev] = cur
          /\ UNCHANGED <<next, prev, unmapped, result>>
      BY <1>3 DEF CheckCurPrevNext, Reject, GoOn, Reader, targetVars
    <2>2. /\ Head0 \in ring /\ ring \subseteq Nodes /\ cur # Head0 /\ prev[cur] \in ring
          /\ \A n \in ring : Compared(n) /\ next[n] \in ring \cup {cur}
          /\ \A n \in ring \ {Head0} : prev[n] \in ring
          /\ Readable(cur) /\ curPrev = prev[cur] /\ curNext = next[cur]
          /\ Readable(curNext) /\ prev[curNext] = cur /\ result = Fail
      BY <2>1 DEF ListInv, RoundInv
    <2>3. Compared(cur)
      BY <2>1, <2>2 DEF Compared
    <2>4. CASE curNext = Head0
      <3>1. ClosedRing(ring \cup {cur})
        BY <2>2, <2>3, <2>4 DEF ClosedRing, Compared
      <3>2. ClosedRing(ring)' /\ ring' \in SUBSET Nodes
        BY <2>1, <2>2, <3>1 DEF ClosedRing, Readable
      <3>3. QED
        BY <2>1, <2>2, <2>4, <3>2 DEF ListInv, Memory, HeadInv, RoundInv, Fail
    <2>5. CASE curNext # Head0
      <3>1. \A n \in ring' : Compared(n)' /\ next'[n] \in ring' \cup {cur'}
        BY <2>1, <2>2, <2>3 DEF Compared, Readable
      <3>2. \A n \in ring' \ {Head0} : prev'[n] \in ring'
        BY <2>1, <2>2
      <3>3. ring' \subseteq Nodes /\ Head0 \in ring' /\ prev'[cur'] \in ring'
        BY <2>1, <2>2 DEF Readable
      <3>4. QED
        BY <2>1, <2>2, <2>5, <3>1, <3>2, <3>3 DEF ListInv, Memory, HeadInv, RoundInv, Fail
    <2>6. QED
      BY <2>4, <2>5
  <1>4. QED
    BY <1>1, <1>2, <1>3

LEMMA TablePart ==
  ASSUME ListInv, EnterTable \/ CountSlot \/ Score \/ Begin \/ Return
  PROVE  ListInv'
  <1>1. CASE (EnterTable \/ Score) /\ pc' = "done" /\ result' = Fail
    BY <1>1, RejectKeeps DEF EnterTable, Score, Reader, targetVars
  <1>2. CASE /\ pc \in {"steps", "slot"} /\ pc' \in {"slot", "done"}
             /\ UNCHANGED <<next, prev, unmapped, ring>> /\ (pc' = "slot" => result' = result)
    <2>1. ring \in SUBSET Nodes /\ ClosedRing(ring) /\ result = Fail
      BY <1>2 DEF ListInv, RoundInv
    <2>2. ring' \in SUBSET Nodes /\ ClosedRing(ring)'
      BY <1>2, <2>1 DEF ClosedRing, Readable
    <2>3. QED
      BY <1>2, <2>1, <2>2 DEF ListInv, Memory, HeadInv, RoundInv
  <1>3. CASE Begin
    BY <1>3 DEF Begin, targetVars, ListInv, Memory, HeadInv, RoundInv, Fail
  <1>4. CASE Return
    BY <1>4 DEF Return, targetVars, ListInv, Memory, HeadInv, RoundInv, Fail
  <1>5. QED
    BY <1>1, <1>2, <1>3, <1>4 DEF EnterTable, CountSlot, Score, Reject, GoOn, Reader, targetVars,
      listLocals, ListInv

LEMMA ListNext == ListInv /\ [Call]_vars => ListInv'
  <1> SUFFICES ASSUME ListInv, [Call]_vars PROVE ListInv'
    OBVIOUS
  <1>1. CASE UNCHANGED vars
    BY <1>1 DEF vars, targetVars, callVars, listLocals, ListInv, Memory, HeadInv, HeadChecked, RoundInv,
      Compared, ClosedRing, Readable
  <1>2. CASE Call
    BY <1>2, HeadPart, FloydPart, RoundPart, TablePart DEF Call, Check
  <1>3. QED
    BY <1>1, <1>2

(***************************************************************************)
(* Of memory nobody writes, whatever it holds: an accepted candidate's     *)
(* list is a set of readable nodes with the head among them, closed under  *)
(* next and prev, on which the two undo each other.                        *)
(***************************************************************************)
THEOREM AcceptedIsRing ==
  AnySpec => [](result.ok => \E S \in SUBSET Nodes : ClosedRing(S))
  <1>1. ListInv => (result.ok => \E S \in SUBSET Nodes : ClosedRing(S))
    BY DEF ListInv, RoundInv
  <1>2. QED
    BY <1>1, ListInit, ListNext, PTL DEF AnySpec

(***************************************************************************)
(* The length of the list.  ring grows along next from the head, so it     *)
(* lies in every closed ring, and a node that joins it was not in it:      *)
(* what outSteps counts are the nodes of the smallest ring but the head.   *)
(***************************************************************************)
InRound == pc \in {"cprev", "cnext", "cnextprev", "cprevnext"}

Least(R) == \A T \in SUBSET Nodes : ClosedRing(T) => R \subseteq T

Counts(R) == IsFiniteSet(R) /\ outSteps = Capped(Cardinality(R) - 1)

\* Buckets found so far.
Seen(k) == {j \in UsedSlots : j < k}

CountInv ==
  /\ ~ InRound /\ pc \notin {"steps", "slot", "done"} => outSteps = 0
  /\ InRound => cur \in Nodes \ ring /\ Least(ring \cup {cur}) /\ Counts(ring)
  /\ pc \in {"steps", "slot"} => Least(ring) /\ Counts(ring)
  /\ pc \notin {"slot", "done"} => bi = 1 /\ validBuckets = 0
  /\ pc = "slot" => /\ bi \in Nat \ {0} /\ validBuckets = Cardinality(Seen(bi))
                    /\ outSteps # 0 /\ HasTable
  /\ result = Fail \/
       /\ result = [ok |-> TRUE, score |-> 120 + Capped(Cardinality(ring) - 1)
                                                + Capped(Cardinality(UsedSlots))]
       /\ IsFiniteSet(ring) /\ Least(ring) /\ ring # {Head0} /\ UsedSlots # {}

SoundInv == ListInv /\ CountInv

\* A rejection and a return forget everything.
LEMMA SoundEnds ==
  ASSUME CountInv, result' = Fail,
         \/ pc' = "done"
         \/ pc' = "idle" /\ outSteps' = 0 /\ bi' = 1 /\ validBuckets' = 0
  PROVE  CountInv'
  BY DEF CountInv, InRound

LEMMA UsedFinite ==
  /\ IsFiniteSet(UsedSlots) /\ Cardinality(UsedSlots) \in Nat
  /\ UsedSlots \subseteq 1..Len(Slots)
  /\ Len(Slots) \in Nat
  <1>1. Len(Slots) \in Nat
    BY CandidateAssumption
  <1>2. UsedSlots \in SUBSET (1..Len(Slots)) /\ IsFiniteSet(1..Len(Slots))
    BY <1>1, FS_Interval DEF UsedSlots
  <1>3. QED
    BY <1>1, <1>2, FS_Subset, FS_CardinalityType

LEMMA CountInit == AnyInit => CountInv
  BY DEF AnyInit, CallInit, CountInv, InRound, Fail

\* Nothing is counted before the last round.
LEMMA CountEarly ==
  ASSUME CountInv, result = Fail, UNCHANGED <<outSteps, bi, validBuckets, result>>,
         ~ InRound, ~ InRound', pc \notin {"steps", "slot", "done"},
         pc' \notin {"steps", "slot", "done"}
  PROVE  CountInv'
  BY DEF CountInv

LEMMA CountHead ==
  ASSUME SoundInv, ReadHeadPrev \/ ReadHeadNext \/ CheckNextPrev \/ CheckPrevNext \/ Begin \/ Return
  PROVE  CountInv'
  <1>1. result = Fail \/ Return
    BY DEF SoundInv, ListInv, ReadHeadPrev, ReadHeadNext, CheckNextPrev, CheckPrevNext, Begin
  <1>2. CASE Return
    BY <1>2, SoundEnds DEF SoundInv, Return
  <1>3. CASE pc' = "done" /\ ~ Return
    <2>1. result' = Fail
      BY <1>1, <1>3 DEF ReadHeadPrev, ReadHeadNext, CheckNextPrev, CheckPrevNext, Begin, Reject, GoOn
    <2>2. QED
      BY <1>3, <2>1, SoundEnds DEF SoundInv
  <1>4. CASE pc' # "done" /\ ~ Return
    <2>1. UNCHANGED <<outSteps, bi, validBuckets, result>>
      BY <1>4 DEF ReadHeadPrev, ReadHeadNext, CheckNextPrev, CheckPrevNext, Begin, Reject, GoOn, listLocals
    <2>2. /\ pc \in {"idle", "hprev", "hnext", "nextprev", "prevnext"}
          /\ pc' \in {"hprev", "hnext", "nextprev", "prevnext", "slow"}
      BY <1>4 DEF ReadHeadPrev, ReadHeadNext, CheckNextPrev, CheckPrevNext, Begin, Reject, GoOn
    <2>3. QED
      BY <1>1, <1>4, <2>1, <2>2, CountEarly DEF SoundInv, InRound
  <1>5. QED
    BY <1>2, <1>3, <1>4

LEMMA CountFloyd ==
  ASSUME SoundInv, MoveSlow \/ MoveFast \/ MeasureFirst \/ Measure \/ FindHead
  PROVE  CountInv'
  <1>1. result = Fail /\ pc \in {"slow", "fast1", "fast2", "cycle0", "cycle", "member"}
    BY DEF SoundInv, ListInv, MoveSlow, MoveFast, MeasureFirst, Measure, FindHead
  <1>2. CASE pc' = "done"
    <2>1. result' = Fail
      BY <1>1, <1>2 DEF MoveSlow, MoveFast, MeasureFirst, Measure, FindHead, Reject, GoOn
    <2>2. QED
      BY <1>2, <2>1, SoundEnds DEF SoundInv
  <1>3. CASE pc' \in {"slow", "fast1", "fast2", "cycle0", "cycle", "member"}
    <2>1. UNCHANGED <<outSteps, bi, validBuckets, result>>
      BY <1>3 DEF MoveSlow, MoveFast, MeasureFirst, Measure, FindHead, Reject, GoOn
    <2>2. QED
      BY <1>1, <1>3, <2>1, CountEarly DEF SoundInv, InRound
  <1>4. CASE FindHead /\ cur = Head0
    <2>1. /\ pc' = IF headNext = Head0 THEN "steps" ELSE "cprev"
          /\ cur' = headNext /\ ring' = {Head0}
          /\ UNCHANGED <<next, prev, unmapped, result, outSteps, bi, validBuckets>>
      BY <1>4 DEF FindHead, GoOn, Reader, targetVars
    <2>2. HeadChecked /\ headNext = next[Head0] /\ outSteps = 0 /\ bi = 1 /\ validBuckets = 0
      BY <1>4 DEF FindHead, SoundInv, ListInv, HeadInv, CountInv, InRound
    <2>3. Counts(ring)'
      <3>1. IsFiniteSet({Head0}) /\ Cardinality({Head0}) = 1
        BY FS_Singleton
      <3>2. Capped(Cardinality({Head0}) - 1) = 0
        BY <3>1, CandidateAssumption DEF Capped
      <3>3. QED
        BY <2>1, <2>2, <3>1, <3>2 DEF Counts
    <2>4. \A T \in SUBSET Nodes : ClosedRing(T)' => {Head0, headNext} \subseteq T
      BY <2>1, <2>2 DEF ClosedRing, Readable
    <2>5. QED
      BY <1>1, <2>1, <2>2, <2>3, <2>4 DEF CountInv, InRound, Least, HeadChecked
  <1>5. QED
    BY <1>2, <1>3, <1>4 DEF MoveSlow, MoveFast, MeasureFirst, Measure, FindHead, Reject, GoOn

LEMMA CountRound ==
  ASSUME SoundInv, ReadCurPrev \/ ReadCurNext \/ CheckCurNextPrev \/ CheckCurPrevNext
  PROVE  CountInv'
  <1>1. /\ result = Fail /\ InRound /\ cur \in Nodes \ ring /\ Least(ring \cup {cur}) /\ Counts(ring)
        /\ bi = 1 /\ validBuckets = 0
    BY DEF SoundInv, ListInv, CountInv, InRound, ReadCurPrev, ReadCurNext, CheckCurNextPrev,
      CheckCurPrevNext
  <1>2. CASE pc' = "done"
    <2>1. result' = Fail
      BY <1>1, <1>2 DEF ReadCurPrev, ReadCurNext, CheckCurNextPrev, CheckCurPrevNext, Reject, GoOn
    <2>2. QED
      BY <1>2, <2>1, SoundEnds DEF SoundInv
  <1>3. CASE pc' # "done" /\ (ReadCurPrev \/ ReadCurNext \/ CheckCurNextPrev)
    <2>1. /\ pc' \in {"cnext", "cnextprev", "cprevnext"}
          /\ UNCHANGED <<next, prev, unmapped, ring, cur, result, outSteps, bi, validBuckets>>
      BY <1>3 DEF ReadCurPrev, ReadCurNext, CheckCurNextPrev, Reject, GoOn, Reader, targetVars,
        listLocals
    <2>2. Least(ring \cup {cur})' /\ Counts(ring)'
      BY <1>1, <2>1 DEF Least, Counts, ClosedRing, Readable
    <2>3. QED
      BY <1>1, <2>1, <2>2 DEF CountInv, InRound
  <1>4. CASE pc' # "done" /\ CheckCurPrevNext
    <2>1. /\ pc = "cprevnext" /\ pc' = (IF curNext = Head0 THEN "steps" ELSE "cprev")
          /\ cur' = curNext /\ ring' = ring \cup {cur}
          /\ outSteps' = (IF outSteps < ScoreCap THEN outSteps + 1 ELSE outSteps)
          /\ UNCHANGED <<next, prev, unmapped, result, bi, validBuckets>>
      BY <1>4 DEF CheckCurPrevNext, Reject, GoOn, Reader, targetVars
    <2>2. /\ Head0 \in ring /\ ring \subseteq Nodes /\ prev[cur] \in ring
          /\ \A n \in ring \ {Head0} : prev[n] \in ring
          /\ curNext = next[cur] /\ Readable(curNext) /\ prev[curNext] = cur
      BY <2>1 DEF SoundInv, ListInv, RoundInv
    <2>3. Counts(ring)'
      <3>1. /\ IsFiniteSet(ring \cup {cur}) /\ Cardinality(ring \cup {cur}) = Cardinality(ring) + 1
            /\ Cardinality(ring) \in Nat /\ outSteps = Capped(Cardinality(ring) - 1)
        BY <1>1, FS_AddElement, FS_CardinalityType DEF Counts
      <3>2. ring # {} /\ Cardinality(ring) # 0
        BY <1>1, <2>2, FS_EmptySet DEF Counts
      <3>3. outSteps' = Capped(Cardinality(ring) + 1 - 1)
        BY <2>1, <3>1, <3>2, CandidateAssumption DEF Capped
      <3>4. QED
        BY <2>1, <3>1, <3>3 DEF Counts
    <2>4. Least(ring)' /\ Least(ring \cup {cur})'
      <3>1. ASSUME NEW T \in SUBSET Nodes, ClosedRing(T)'
            PROVE  ring \cup {cur} \subseteq T /\ next[cur] \in T
        <4>1. ClosedRing(T)
          BY <2>1, <3>1 DEF ClosedRing, Readable
        <4>2. QED
          BY <1>1, <4>1 DEF Least, ClosedRing
      <3>2. QED
        BY <2>1, <2>2, <3>1 DEF Least
    <2>5. curNext # Head0 => curNext \in Nodes \ (ring \cup {cur})
      BY <1>1, <2>2 DEF Readable
    <2>6. QED
      BY <1>1, <2>1, <2>3, <2>4, <2>5 DEF CountInv, InRound
  <1>5. QED
    BY <1>2, <1>3, <1>4

LEMMA CountEnter ==
  ASSUME SoundInv, EnterTable
  PROVE  CountInv'
  <1>1. CASE pc' = "done"
    <2>1. result' = Fail
      BY <1>1 DEF EnterTable, Reject, GoOn, SoundInv, ListInv
    <2>2. QED
      BY <1>1, <2>1, SoundEnds DEF SoundInv
  <1>2. CASE pc' # "done"
    <2>1. /\ pc = "steps" /\ pc' = "slot" /\ outSteps # 0 /\ HasTable
          /\ UNCHANGED <<next, prev, unmapped, ring, cur, result, outSteps, bi, validBuckets>>
      BY <1>2 DEF EnterTable, Reject, GoOn, Reader, targetVars, listLocals
    <2>2. bi = 1 /\ validBuckets = 0 /\ Least(ring) /\ Counts(ring) /\ result = Fail
      BY <2>1 DEF SoundInv, ListInv, CountInv
    <2>3. Least(ring)' /\ Counts(ring)'
      BY <2>1, <2>2 DEF Least, Counts, ClosedRing, Readable
    <2>4. Seen(1) = {} /\ UsedSlots' = UsedSlots
      BY <2>1, UsedFinite DEF Seen, UsedSlots, Readable
    <2>5. validBuckets' = Cardinality(Seen(bi))'
      BY <2>1, <2>2, <2>4, FS_EmptySet DEF Seen
    <2>6. QED
      BY <2>1, <2>2, <2>3, <2>5 DEF CountInv, InRound
  <1>3. QED
    BY <1>1, <1>2

LEMMA CountTable ==
  ASSUME SoundInv, CountSlot
  PROVE  CountInv'
  <1>1. /\ pc = "slot" /\ pc' = "slot" /\ bi <= Len(Slots) /\ bi <= ScanCount /\ bi' = bi + 1
        /\ UNCHANGED <<next, prev, unmapped, ring, cur, result, outSteps>>
    BY DEF CountSlot, Reader, targetVars, listLocals
  <1>2. /\ bi \in Nat \ {0} /\ validBuckets = Cardinality(Seen(bi)) /\ outSteps # 0 /\ HasTable
        /\ Least(ring) /\ Counts(ring) /\ result = Fail
    BY <1>1 DEF SoundInv, ListInv, CountInv
  <1>3. Least(ring)' /\ Counts(ring)'
    BY <1>1, <1>2 DEF Least, Counts, ClosedRing, Readable
  <1>4. UsedSlots' = UsedSlots /\ IsFiniteSet(Seen(bi)) /\ bi \notin Seen(bi) /\ UsedSlots \subseteq Nat
    BY <1>1, <1>2, UsedFinite, FS_Subset DEF Seen, UsedSlots, Readable
  <1>5. validBuckets' = IF bi \in UsedSlots THEN validBuckets + 1 ELSE validBuckets
    BY <1>1, <1>2 DEF CountSlot, UsedSlots, IsListNonEmpty
  <1>6. Seen(bi + 1) = IF bi \in UsedSlots THEN Seen(bi) \cup {bi} ELSE Seen(bi)
    <2>1. \A j \in UsedSlots : j < bi + 1 <=> j < bi \/ j = bi
      BY <1>2, <1>4
    <2>2. Seen(bi + 1) = {j \in UsedSlots : j < bi \/ j = bi}
      BY <2>1 DEF Seen
    <2>3. QED
      BY <2>2 DEF Seen
  <1>7. validBuckets' = Cardinality(Seen(bi + 1))
    BY <1>2, <1>4, <1>5, <1>6, FS_AddElement
  <1>8. validBuckets' = Cardinality(Seen(bi))'
    BY <1>1, <1>4, <1>7 DEF Seen
  <1>9. QED
    BY <1>1, <1>2, <1>3, <1>8 DEF CountInv, InRound

LEMMA CountScore ==
  ASSUME SoundInv, Score
  PROVE  CountInv'
  <1>1. /\ pc = "slot"
        /\ bi > Len(Slots) \/ bi > ScanCount
        /\ UNCHANGED <<next, prev, unmapped, ring>> /\ pc' = "done"
    BY DEF Score, Reject, Reader, targetVars, listLocals
  <1>2. /\ bi \in Nat \ {0} /\ validBuckets = Cardinality(Seen(bi)) /\ outSteps # 0
        /\ Least(ring) /\ Counts(ring) /\ result = Fail
    BY <1>1 DEF SoundInv, ListInv, CountInv, Score
  <1>3. CASE result' = Fail
    BY <1>1, <1>3, SoundEnds DEF SoundInv
  <1>4. CASE result' # Fail
    <2>1. result' = [ok |-> TRUE, score |-> 20 + 80 + Capped(outSteps) + Capped(validBuckets) + 20]
          /\ validBuckets # 0
      BY <1>2, <1>4 DEF Score, Reject
    <2>2. Seen(bi) = UsedSlots
      BY <1>1, <1>2, UsedFinite, CandidateAssumption DEF Seen, UsedSlots
    <2>3. UsedSlots # {} /\ UsedSlots' = UsedSlots /\ validBuckets = Cardinality(UsedSlots)
      BY <1>1, <1>2, <2>1, <2>2, FS_EmptySet DEF UsedSlots, Readable
    <2>4. Cardinality(ring) \in Nat /\ Cardinality(UsedSlots) \in Nat /\ IsFiniteSet(ring)
      BY <1>2, UsedFinite, FS_CardinalityType DEF Counts
    <2>5. /\ Cardinality(ring) # 1
          /\ Capped(outSteps) = Capped(Cardinality(ring) - 1)
      BY <1>2, <2>4, CandidateAssumption DEF Counts, Capped
    <2>6. ring # {Head0}
      BY <2>5, FS_Singleton
    <2>7. Capped(outSteps) \in Int /\ Capped(validBuckets) \in Int
      BY <2>3, <2>4, <2>5, CandidateAssumption DEF Capped
    <2>8. result'.score = 120 + Capped(Cardinality(ring) - 1) + Capped(Cardinality(UsedSlots))
      BY <2>1, <2>3, <2>5, <2>7
    <2>9. Least(ring)'
      BY <1>1, <1>2 DEF Least, ClosedRing, Readable
    <2>10. QED
      BY <1>1, <2>1, <2>3, <2>4, <2>6, <2>8, <2>9 DEF CountInv, InRound
  <1>5. QED
    BY <1>3, <1>4

LEMMA SoundNext == SoundInv /\ [Call]_vars => SoundInv'
  <1> SUFFICES ASSUME SoundInv, [Call]_vars PROVE SoundInv'
    OBVIOUS
  <1>1. CASE UNCHANGED vars
    <2>1. UNCHANGED <<next, prev, unmapped, pc, cur, ring, outSteps, bi, validBuckets, result>>
      BY <1>1 DEF vars, targetVars, callVars, listLocals
    <2>2. UsedSlots' = UsedSlots
      BY <2>1 DEF UsedSlots, Readable
    <2>3. \A R : Least(R)' <=> Least(R)
      BY <2>1 DEF Least, ClosedRing, Readable
    <2>4. CountInv'
      BY <2>1, <2>2, <2>3 DEF SoundInv, CountInv, InRound, Least, ClosedRing, Readable, Counts, Seen
    <2>5. QED
      BY <2>4, ListNext DEF SoundInv
  <1>2. CASE Call
    BY <1>2, ListNext, CountHead, CountFloyd, CountRound, CountEnter, CountTable, CountScore
      DEF Call, Check, SoundInv
  <1>3. QED
    BY <1>1, <1>2

(***************************************************************************)
(* The other half: no ring is refused.  Floyd's two pointers stay on the   *)
(* ring, wherever they meet; from there the cycle is measured along        *)
(* stretches of it (Stretch), and a stretch that comes back to where it    *)
(* began is the whole ring.                                                *)
(***************************************************************************)
Stretch(S, V, a, c) ==
  /\ V \subseteq S /\ IsFiniteSet(V)
  /\ a \in S /\ c \in S \ V
  /\ IF V = {} THEN c = a ELSE a \in V /\ prev[c] \in V
  /\ \A n \in V : next[n] \in V \cup {c}
  /\ \A n \in V \ {a} : prev[n] \in V

Along(S) ==
  /\ pc \in {"slow", "fast1", "fast2"} => slow \in S /\ fast \in S
  /\ pc = "cycle0" => meet \in S
  /\ pc = "cycle" =>
       i = 0 /\ \E V \in SUBSET S : V # {} /\ Stretch(S, V, meet, cur) /\ cycleLen = Cardinality(V)
  /\ pc = "member" =>
       /\ IsFiniteSet(S) /\ cycleLen = Cardinality(S)
       /\ \E V \in SUBSET S : Stretch(S, V, meet, cur) /\ i = Cardinality(V) /\ Head0 \notin V
  /\ InRound => cur \in S
  /\ pc = "done" /\ result = Fail => S = {Head0} \/ UsedSlots = {}

RingsKept == \A S \in SUBSET Nodes : HeadRing(S) => Along(S)

\* A part of the ring that no word leads out of is the ring.
LEMMA WholeRing ==
  ASSUME NEW S \in SUBSET Nodes, HeadRing(S), NEW W \in SUBSET S, W # {},
         \A n \in W : next[n] \in W /\ prev[n] \in W
  PROVE  W = S
  <1>1. CASE Head0 \in W
    <2>1. ClosedRing(W)
      BY <1>1 DEF HeadRing, ClosedRing
    <2>2. QED
      BY <2>1 DEF HeadRing
  <1>2. CASE Head0 \notin W
    <2>1. \A n \in S \ W : next[n] \in S \ W /\ prev[n] \in S \ W
      BY DEF HeadRing, ClosedRing
    <2>2. ClosedRing(S \ W)
      BY <1>2, <2>1 DEF HeadRing, ClosedRing
    <2>3. S \ W = S
      BY <2>2 DEF HeadRing
    <2>4. QED
      BY <2>3
  <1>3. QED
    BY <1>1, <1>2

\* A stretch goes on by one node, or it has come round.
LEMMA OneMore ==
  ASSUME NEW S \in SUBSET Nodes, NEW V \in SUBSET S, NEW a \in S, NEW c \in S, Stretch(S, V, a, c)
  PROVE  /\ V \cup {c} \in SUBSET S
         /\ Cardinality(V \cup {c}) = Cardinality(V) + 1 /\ Cardinality(V) \in Nat
  BY FS_AddElement, FS_CardinalityType DEF Stretch

LEMMA GoesOn ==
  ASSUME NEW S \in SUBSET Nodes, HeadRing(S), NEW V \in SUBSET S,
         NEW a \in S, NEW c \in S, Stretch(S, V, a, c), next[c] # a
  PROVE  Stretch(S, V \cup {c}, a, next[c])
  <1>1. c \in S /\ next[c] \in S /\ prev[next[c]] = c /\ IsFiniteSet(V \cup {c})
    BY FS_AddElement DEF Stretch, HeadRing, ClosedRing
  <1>2. next[c] \notin V \cup {c}
    BY <1>1 DEF Stretch
  <1>3. QED
    BY <1>1, <1>2 DEF Stretch

LEMMA ComesRound ==
  ASSUME NEW S \in SUBSET Nodes, HeadRing(S), NEW V \in SUBSET S,
         NEW a \in S, NEW c \in S, Stretch(S, V, a, c), next[c] = a
  PROVE  V \cup {c} = S
  <1>1. next[c] \in S /\ prev[next[c]] = c
    BY DEF HeadRing, ClosedRing
  <1>2. V \cup {c} \in SUBSET S /\ \A n \in V \cup {c} : next[n] \in V \cup {c} /\ prev[n] \in V \cup {c}
    BY <1>1 DEF Stretch
  <1>3. QED
    BY <1>2, WholeRing

\* What a ring is does not change.
LEMMA MemoryStill ==
  ASSUME UNCHANGED <<next, prev, unmapped>>
  PROVE  /\ UsedSlots' = UsedSlots
         /\ \A S : HeadRing(S)' <=> HeadRing(S)
         /\ \A S, V, a, c : Stretch(S, V, a, c)' <=> Stretch(S, V, a, c)
  <1>1. UsedSlots' = UsedSlots
    BY DEF UsedSlots, Readable
  <1>2. \A S : ClosedRing(S)' <=> ClosedRing(S)
    BY DEF ClosedRing, Readable
  <1>3. \A S : HeadRing(S)' <=> HeadRing(S)
    BY <1>2 DEF HeadRing
  <1>4. \A S, V, a, c : Stretch(S, V, a, c)' <=> Stretch(S, V, a, c)
    BY DEF Stretch
  <1>5. QED
    BY <1>1, <1>3, <1>4

\* Every node of a ring can be read, and its words lead to the ring.
LEMMA OnRing ==
  ASSUME NEW S \in SUBSET Nodes, HeadRing(S), NEW n \in S
  PROVE  /\ CanFollow(n) /\ Readable(n) /\ next[n] \in S /\ prev[n] \in S
         /\ next[n] # Null /\ prev[n] # Null
         /\ prev[next[n]] = n /\ next[prev[n]] = n
  <1>1. Null \notin Nodes
    BY TargetAssumption DEF Nodes
  <1>2. QED
    BY <1>1 DEF HeadRing, ClosedRing, CanFollow

LEMMA AlongHead ==
  ASSUME NEW S \in SUBSET Nodes, HeadRing(S), Along(S), SoundInv,
         ReadHeadPrev \/ ReadHeadNext \/ CheckNextPrev \/ CheckPrevNext \/ Begin \/ Return
  PROVE  Along(S)'
  <1>1. Head0 \in S
    BY DEF HeadRing, ClosedRing
  <1>2. pc \in {"hnext", "nextprev", "prevnext"} => headPrev = prev[Head0]
    BY DEF SoundInv, ListInv, HeadInv
  <1>3. pc \in {"nextprev", "prevnext"} => headNext = next[Head0]
    BY DEF SoundInv, ListInv, HeadInv
  <1>4. /\ Readable(Head0) /\ next[Head0] # Null /\ prev[Head0] # Null
        /\ Readable(next[Head0]) /\ Readable(prev[Head0])
        /\ prev[next[Head0]] = Head0 /\ next[prev[Head0]] = Head0
    BY <1>1, OnRing
  <1>5. \/ pc' \in {"idle", "hprev", "hnext", "nextprev", "prevnext"}
        \/ pc' = "slow" /\ slow' = Head0 /\ fast' = Head0
    BY <1>2, <1>3, <1>4 DEF ReadHeadPrev, ReadHeadNext, CheckNextPrev, CheckPrevNext, Begin, Return, GoOn
  <1>6. QED
    BY <1>1, <1>5 DEF Along, InRound

LEMMA AlongFloyd ==
  ASSUME NEW S \in SUBSET Nodes, HeadRing(S), Along(S), MoveSlow \/ MoveFast
  PROVE  Along(S)'
  <1>1. pc \in {"slow", "fast1", "fast2"} /\ slow \in S /\ fast \in S
    BY DEF MoveSlow, MoveFast, Along
  <1>2. CanFollow(slow) /\ CanFollow(fast) /\ next[slow] \in S /\ next[fast] \in S
    BY <1>1, OnRing
  <1>3. CASE MoveSlow
    BY <1>1, <1>2, <1>3 DEF MoveSlow, GoOn, Along, InRound
  <1>4. CASE MoveFast
    BY <1>1, <1>2, <1>4 DEF MoveFast, GoOn, Along, InRound
  <1>5. QED
    BY <1>3, <1>4

LEMMA EmptyStretch == ASSUME NEW S, NEW a \in S PROVE Stretch(S, {}, a, a) /\ Cardinality({}) = 0
  BY FS_EmptySet DEF Stretch

LEMMA AlongMeasure ==
  ASSUME BoundHolds, NEW S \in SUBSET Nodes, HeadRing(S), Along(S), MeasureFirst \/ Measure
  PROVE  Along(S)'
  <1>1. UNCHANGED <<next, prev, unmapped>>
    BY DEF MeasureFirst, Measure, Reader, targetVars
  <1>2. IsFiniteSet(S)
    BY FS_Subset DEF BoundHolds
  <1>3. CASE MeasureFirst
    <2>1. meet \in S /\ CanFollow(meet)
      BY <1>3, OnRing DEF MeasureFirst, Along
    <2>2. /\ cycleLen' = 1 /\ i' = 0 /\ cur' = next[meet] /\ meet' = meet
          /\ pc' = IF next[meet] = meet THEN "member" ELSE "cycle"
      BY <1>3, <2>1 DEF MeasureFirst, GoOn
    <2>3. Stretch(S, {}, meet, meet) /\ Cardinality({}) = 0 /\ {} \in SUBSET S /\ {} \cup {meet} = {meet}
      BY <2>1, EmptyStretch
    <2>4. {meet} \in SUBSET S /\ Cardinality({meet}) = 1
      BY <2>1, FS_Singleton
    <2>5. CASE next[meet] = meet
      <3>1. {} \cup {meet} = S
        BY <2>1, <2>3, <2>5, ComesRound
      <3>2. QED
        BY <1>1, <1>2, <2>2, <2>3, <2>4, <2>5, <3>1, MemoryStill DEF Along, InRound
    <2>6. CASE next[meet] # meet
      <3>1. Stretch(S, {} \cup {meet}, meet, next[meet])
        BY <2>1, <2>3, <2>6, GoesOn
      <3>2. Stretch(S, {meet}, meet, cur)'
        BY <1>1, <2>2, <2>3, <3>1 DEF Stretch
      <3>3. QED
        BY <1>1, <2>2, <2>4, <2>6, <3>2 DEF Along, InRound
    <2>7. QED
      BY <2>5, <2>6
  <1>4. CASE Measure
    <2>1. PICK V \in SUBSET S : V # {} /\ Stretch(S, V, meet, cur) /\ cycleLen = Cardinality(V)
      BY <1>4 DEF Measure, Along
    <2>2. i = 0 /\ cur \in S /\ meet \in S /\ CanFollow(cur)
      BY <1>4, <2>1, OnRing DEF Measure, Along, Stretch
    <2>3. /\ cycleLen' = Counted(cycleLen) /\ i' = 0 /\ cur' = next[cur] /\ meet' = meet
          /\ pc' = IF next[cur] = meet THEN "member" ELSE "cycle"
      BY <1>4, <2>2 DEF Measure, GoOn
    <2>0. PICK W \in SUBSET S : W = V \cup {cur}
      BY <2>2
    <2>4. /\ W \in SUBSET S /\ Cardinality(W) = Cardinality(V) + 1 /\ Cardinality(V) \in Nat
          /\ next[cur] = meet => W = S
          /\ next[cur] # meet => Stretch(S, W, meet, next[cur])
      BY <2>0, <2>1, <2>2, OneMore, GoesOn, ComesRound
    <2>5. Cardinality(W) <= LenBound
      <3>1. W \in SUBSET Nodes /\ IsFiniteSet(Nodes) /\ Cardinality(Nodes) <= LenBound
        BY DEF BoundHolds
      <3>2. Cardinality(W) <= Cardinality(Nodes) /\ Cardinality(Nodes) \in Nat
        BY <3>1, FS_Subset, FS_CardinalityType
      <3>3. QED
        BY <2>4, <3>1, <3>2, CandidateAssumption
    <2>6. cycleLen' = Cardinality(W)
      BY <2>1, <2>3, <2>4, <2>5, CandidateAssumption DEF Counted
    <2>7. CASE next[cur] = meet
      <3>1. Stretch(S, {}, meet, meet) /\ Cardinality({}) = 0
        BY <2>2, EmptyStretch
      <3>2. Stretch(S, {}, meet, cur)'
        BY <1>1, <2>3, <2>7, <3>1 DEF Stretch
      <3>3. QED
        BY <1>1, <1>2, <2>3, <2>4, <2>6, <2>7, <3>1, <3>2 DEF Along, InRound
    <2>8. CASE next[cur] # meet
      <3>1. W # {} /\ Stretch(S, W, meet, cur)'
        BY <2>0, <1>1, <2>3, <2>4, <2>8 DEF Stretch
      <3>2. QED
        BY <1>1, <2>3, <2>4, <2>6, <2>8, <3>1 DEF Along, InRound
    <2>9. QED
      BY <2>7, <2>8
  <1>5. QED
    BY <1>3, <1>4

LEMMA AlongFind ==
  ASSUME NEW S \in SUBSET Nodes, HeadRing(S), Along(S), SoundInv, FindHead
  PROVE  Along(S)'
  <1>1. pc = "member" /\ UNCHANGED <<next, prev, unmapped>>
    BY DEF FindHead, Reader, targetVars
  <1>2. PICK V \in SUBSET S : Stretch(S, V, meet, cur) /\ i = Cardinality(V) /\ Head0 \notin V
    BY <1>1 DEF Along
  <1>3. IsFiniteSet(S) /\ cycleLen = Cardinality(S) /\ headNext = next[Head0] /\ Head0 \in S
    BY <1>1 DEF Along, SoundInv, ListInv, HeadInv, HeadRing, ClosedRing
  <1>4. cur \in S /\ CanFollow(cur) /\ headNext \in S
    BY <1>2, <1>3, OnRing DEF Stretch
  <1>5. CASE cur = Head0
    BY <1>1, <1>4, <1>5 DEF FindHead, GoOn, Along, InRound
  <1>6. CASE cur # Head0
    <2>0. meet \in S /\ cur \in S
      BY <1>2 DEF Stretch
    <2>1. PICK W \in SUBSET S : W = V \cup {cur}
      BY <2>0
    <2>2. /\ W \in SUBSET S /\ Cardinality(W) = i + 1 /\ i \in Nat /\ Head0 \notin W
          /\ next[cur] # meet /\ Stretch(S, W, meet, next[cur])
      <3>1. Cardinality(W) = i + 1 /\ i \in Nat /\ Head0 \notin W
        BY <1>2, <1>6, <2>0, <2>1, OneMore
      <3>2. next[cur] # meet
        BY <1>2, <1>3, <2>0, <2>1, <3>1, ComesRound
      <3>3. QED
        BY <1>2, <2>0, <2>1, <3>1, <3>2, GoesOn
    <2>3. i + 1 < cycleLen
      <3>1. Cardinality(W) <= Cardinality(S) /\ Cardinality(W) # Cardinality(S)
        BY <1>3, <2>2, FS_Subset
      <3>2. QED
        BY <1>3, <2>2, <3>1, FS_CardinalityType
    <2>4. /\ cur' = next[cur] /\ i' = i + 1 /\ pc' = "member"
          /\ UNCHANGED <<meet, cycleLen>>
      BY <1>1, <1>4, <1>6, <2>3 DEF FindHead, GoOn
    <2>5. Stretch(S, W, meet, cur)'
      BY <1>1, <2>2, <2>4 DEF Stretch
    <2>6. QED
      BY <1>3, <2>2, <2>4, <2>5 DEF Along, InRound
  <1>7. QED
    BY <1>5, <1>6

LEMMA AlongRound ==
  ASSUME NEW S \in SUBSET Nodes, HeadRing(S), Along(S), SoundInv,
         ReadCurPrev \/ ReadCurNext \/ CheckCurNextPrev \/ CheckCurPrevNext
  PROVE  Along(S)'
  <1>1. InRound /\ cur \in S
    BY DEF ReadCurPrev, ReadCurNext, CheckCurNextPrev, CheckCurPrevNext, InRound, Along
  <1>2. /\ pc \in {"cnext", "cnextprev", "cprevnext"} => curPrev = prev[cur]
        /\ pc \in {"cnextprev", "cprevnext"} => curNext = next[cur]
    BY DEF SoundInv, ListInv, RoundInv
  <1>3. /\ Readable(cur) /\ next[cur] \in S /\ prev[cur] \in S /\ next[cur] # Null /\ prev[cur] # Null
        /\ prev[next[cur]] = cur /\ next[prev[cur]] = cur
        /\ Readable(next[cur]) /\ Readable(prev[cur])
    BY <1>1, OnRing
  <1>4. pc' \in {"cprev", "cnext", "cnextprev", "cprevnext", "steps"} /\ cur' \in S
    BY <1>1, <1>2, <1>3 DEF ReadCurPrev, ReadCurNext, CheckCurNextPrev, CheckCurPrevNext, GoOn, listLocals
  <1>5. QED
    BY <1>4 DEF Along, InRound

LEMMA AlongTable ==
  ASSUME NEW S \in SUBSET Nodes, HeadRing(S), Along(S), SoundInv, EnterTable \/ CountSlot \/ Score
  PROVE  Along(S)'
  <1>1. pc' \in {"slot", "done"} /\ UNCHANGED <<next, prev, unmapped>>
    BY DEF EnterTable, CountSlot, Score, Reject, GoOn, Reader, targetVars
  <1>2. UsedSlots' = UsedSlots
    BY <1>1, MemoryStill
  <1>3. CASE pc' # "done"
    BY <1>1, <1>3 DEF Along, InRound
  <1>4. CASE EnterTable /\ pc' = "done"
    <2>1. pc = "steps" /\ (outSteps = 0 \/ ~ HasTable)
      BY <1>4 DEF EnterTable, GoOn
    <2>2. CASE ~ HasTable
      <3>1. UsedSlots = {}
        BY <2>2 DEF UsedSlots
      <3>2. QED
        BY <1>2, <1>4, <3>1 DEF Along, InRound
    <2>3. CASE outSteps = 0
      <3>1. ClosedRing(ring) /\ ring \in SUBSET Nodes /\ Counts(ring)
        BY <2>1 DEF SoundInv, ListInv, RoundInv, CountInv
      <3>2. Least(ring) /\ ClosedRing(S)
        BY <2>1 DEF SoundInv, CountInv, HeadRing
      <3>3. ring = S
        BY <3>1, <3>2 DEF Least, HeadRing
      <3>4. Cardinality(ring) \in Nat /\ IsFiniteSet(ring) /\ Head0 \in ring
        BY <3>1, FS_CardinalityType DEF Counts, ClosedRing
      <3>5. Cardinality(ring) # 0
        BY <3>4, FS_EmptySet
      <3>6. Cardinality(ring) = 1
        BY <2>3, <3>1, <3>4, <3>5, CandidateAssumption DEF Counts, Capped
      <3>7. ring = {Head0}
        BY <3>4, <3>6, FS_Singleton
      <3>8. QED
        BY <1>4, <3>3, <3>7 DEF Along, InRound
    <2>4. QED
      BY <2>1, <2>2, <2>3
  <1>5. CASE Score
    <2>1. pc' = "done" /\ pc = "slot" /\ (bi > Len(Slots) \/ bi > ScanCount) /\ (result' = Fail => validBuckets = 0)
      BY <1>5 DEF Score, Reject, Fail
    <2>2. bi \in Nat \ {0} /\ validBuckets = Cardinality(Seen(bi))
      BY <2>1 DEF SoundInv, CountInv
    <2>3. Seen(bi) = UsedSlots
      BY <2>1, <2>2, UsedFinite, CandidateAssumption DEF Seen, UsedSlots
    <2>4. result' = Fail => UsedSlots = {}
      BY <2>1, <2>2, <2>3, UsedFinite, FS_EmptySet
    <2>5. QED
      BY <1>2, <2>1, <2>4 DEF Along, InRound
  <1>6. QED
    BY <1>1, <1>3, <1>4, <1>5 DEF CountSlot

LEMMA RingsInit == AnyInit => RingsKept
  BY DEF AnyInit, CallInit, RingsKept, Along, InRound

LEMMA RingsNext == ASSUME BoundHolds, SoundInv, RingsKept, [Call]_vars PROVE RingsKept'
  <1> SUFFICES ASSUME NEW S \in SUBSET Nodes, HeadRing(S)' PROVE Along(S)'
    BY DEF RingsKept
  <1>1. UNCHANGED <<next, prev, unmapped>>
    BY DEF Call, Check, Begin, Return, ReadHeadPrev, ReadHeadNext, CheckNextPrev, CheckPrevNext,
      MoveSlow, MoveFast, MeasureFirst, Measure, FindHead, ReadCurPrev, ReadCurNext,
      CheckCurNextPrev, CheckCurPrevNext, EnterTable, CountSlot, Score, Reader, targetVars, vars
  <1>2. HeadRing(S) /\ Along(S)
    BY <1>1, MemoryStill DEF RingsKept
  <1>3. CASE UNCHANGED vars
    <2>1. UNCHANGED <<pc, slow, fast, meet, cur, i, cycleLen, result>> /\ UsedSlots' = UsedSlots
      BY <1>1, <1>3, MemoryStill DEF vars, callVars, listLocals
    <2>2. QED
      BY <1>1, <1>2, <2>1 DEF Along, Stretch, InRound
  <1>4. CASE Call
    BY <1>2, <1>4, AlongHead, AlongFloyd, AlongMeasure, AlongFind, AlongRound, AlongTable
      DEF Call, Check
  <1>5. QED
    BY <1>3, <1>4

LEMMA VerdictFromInv == SoundInv /\ RingsKept => VerdictCorrect
  <1> SUFFICES ASSUME SoundInv, RingsKept, pc = "done" PROVE Expected(result)
    BY DEF VerdictCorrect
  <1>1. CASE result = Fail
    <2>1. \A S \in SUBSET Nodes : HeadRing(S) => S = {Head0} \/ UsedSlots = {}
      BY <1>1 DEF RingsKept, Along
    <2>2. QED
      BY <1>1, <2>1 DEF Expected
  <1>2. CASE result # Fail
    <2>1. /\ result = [ok |-> TRUE, score |-> 120 + Capped(Cardinality(ring) - 1)
                                                 + Capped(Cardinality(UsedSlots))]
          /\ Least(ring) /\ ring # {Head0} /\ UsedSlots # {}
      BY <1>2 DEF SoundInv, CountInv
    <2>2. ring \in SUBSET Nodes /\ ClosedRing(ring)
      BY <2>1 DEF SoundInv, ListInv, RoundInv
    <2>3. HeadRing(ring)
      <3>1. ASSUME NEW T \in SUBSET ring, ClosedRing(T) PROVE T = ring
        BY <2>1, <2>2, <3>1 DEF Least
      <3>2. QED
        BY <2>2, <3>1 DEF HeadRing
    <2>4. QED
      BY <2>1, <2>2, <2>3 DEF Expected
  <1>3. QED
    BY <1>1, <1>2

(***************************************************************************)
(* A target that goes on: as long as it has not written since the check    *)
(* began, what the check knows is still so; between checks it knows        *)
(* nothing.                                                                *)
(***************************************************************************)
Fresh == result = Fail /\ outSteps = 0 /\ bi = 1 /\ validBuckets = 0

RunInv ==
  /\ Memory /\ linked \subseteq Nodes /\ pending.word \in Words
  /\ pc = "idle" => Fresh
  /\ still => SoundInv /\ RingsKept

LEMMA FreshKnows == ASSUME Memory, Fresh, pc \in {"idle", "hprev"} PROVE SoundInv /\ RingsKept
  <1>1. ListInv
    BY DEF Fresh, ListInv, HeadInv, RoundInv, Fail
  <1>2. CountInv
    BY DEF Fresh, CountInv, InRound
  <1>3. RingsKept
    BY DEF RingsKept, Along, InRound
  <1>4. QED
    BY <1>1, <1>2, <1>3 DEF SoundInv

LEMMA RunInit == AnyInit \/ LiveInit => RunInv
  <1>1. AnyInit \/ LiveInit => Memory
    BY TargetAssumption DEF AnyInit, LiveInit, TargetInit, Memory, Words
  <1>2. AnyInit \/ LiveInit => linked \subseteq Nodes /\ pending.word \in Words
    BY DEF Nodes, AnyInit, LiveInit, TargetInit, NoWrite, Words
  <1>3. AnyInit \/ LiveInit => Fresh /\ ~ still
    BY DEF AnyInit, LiveInit, CallInit, Fresh
  <1>4. QED
    BY <1>1, <1>2, <1>3 DEF RunInv

\* A list step writes words to nodes.
LEMMA WritesWords ==
  ASSUME Memory, linked \subseteq Nodes, pending.word \in Words, ListStep
  PROVE  Memory' /\ linked' \subseteq Nodes /\ pending'.word \in Words
  <1>1. CASE \E o \in Objects, p \in linked : Link(o, p)
    <2>1. PICK o \in Objects, p \in linked : Link(o, p)
      BY <1>1
    <2>2. o \in Nodes /\ p \in Nodes /\ next[p] \in Words /\ Nodes \subseteq Words
      BY DEF Words, Nodes, Memory
    <2>3. QED
      BY <2>1, <2>2 DEF Link, Memory
  <1>2. CASE \E o \in Objects : Unlink(o)
    <2>1. PICK o \in Objects : Unlink(o)
      BY <1>2
    <2>2. o \in Nodes /\ next[o] \in Words /\ prev[o] \in Words
      BY DEF Memory, Nodes
    <2>3. \A kind \in Leaves : Leave(o, kind, next[o]) \in Words /\ Leave(o, kind, prev[o]) \in Words
      BY <2>2, TargetAssumption DEF Leave, Words
    <2>4. QED
      BY <2>1, <2>2, <2>3 DEF Unlink, Memory
  <1>3. CASE \E o \in Objects : Unmap(o)
    BY <1>3 DEF Unmap, Memory
  <1>4. CASE WriteBack
    BY <1>4 DEF WriteBack, Memory, NoWrite, Words
  <1>5. QED
    BY <1>1, <1>2, <1>3, <1>4 DEF ListStep

LEMMA RunNext == ASSUME BoundHolds, RunInv, [Next]_vars PROVE RunInv'
  <1>1. CASE ListStep
    <2>1. Memory' /\ linked' \subseteq Nodes /\ pending'.word \in Words
      BY <1>1, WritesWords DEF RunInv
    <2>2. UNCHANGED <<pc, result, outSteps, bi, validBuckets>> /\ ~ still'
      BY <1>1 DEF ListStep, callVars, listLocals
    <2>3. QED
      BY <2>1, <2>2 DEF RunInv, Fresh
  <1>2. CASE [Call]_vars
    <2>1. UNCHANGED targetVars
      BY <1>2 DEF Call, Check, Begin, Return, ReadHeadPrev, ReadHeadNext, CheckNextPrev, CheckPrevNext,
        MoveSlow, MoveFast, MeasureFirst, Measure, FindHead, ReadCurPrev, ReadCurNext,
        CheckCurNextPrev, CheckCurPrevNext, EnterTable, CountSlot, Score, Reader, vars
    <2>2. Memory' /\ linked' \subseteq Nodes /\ pending'.word \in Words
      BY <2>1 DEF targetVars, RunInv, Memory
    <2>3. pc' = "idle" => Fresh'
      <3>1. CASE Return
        BY <3>1 DEF Return, Fresh
      <3>2. CASE UNCHANGED vars
        BY <3>2 DEF vars, callVars, listLocals, RunInv, Fresh
      <3>3. CASE Begin \/ Check
        BY <3>3 DEF Begin, Check, ReadHeadPrev, ReadHeadNext, CheckNextPrev, CheckPrevNext,
          MoveSlow, MoveFast, MeasureFirst, Measure, FindHead, ReadCurPrev, ReadCurNext,
          CheckCurNextPrev, CheckCurPrevNext, EnterTable, CountSlot, Score, GoOn, Reject
      <3>4. QED
        BY <1>2, <3>1, <3>2, <3>3 DEF Call
    <2>4. still' => SoundInv' /\ RingsKept'
      <3>1. CASE still
        BY <1>2, <3>1, SoundNext, RingsNext DEF RunInv
      <3>2. CASE Begin
        <4>1. Fresh /\ Memory /\ pc = "idle"
          BY <3>2 DEF Begin, RunInv
        <4>2. SoundInv /\ RingsKept
          BY <4>1, FreshKnows
        <4>3. QED
          BY <1>2, <4>2, SoundNext, RingsNext
      <3>3. CASE ~ still /\ ~ Begin
        <4>1. ~ still'
          BY <1>2, <3>3 DEF Call, Check, Return, ReadHeadPrev, ReadHeadNext, CheckNextPrev, CheckPrevNext,
            MoveSlow, MoveFast, MeasureFirst, Measure, FindHead, ReadCurPrev, ReadCurNext,
            CheckCurNextPrev, CheckCurPrevNext, EnterTable, CountSlot, Score, Reader, vars
        <4>2. QED
          BY <4>1
      <3>4. QED
        BY <3>1, <3>2, <3>3
    <2>5. QED
      BY <2>2, <2>3, <2>4 DEF RunInv
  <1>3. QED
    BY <1>1, <1>2 DEF Next

(***************************************************************************)
(* Of memory nobody writes, whatever it holds and however much there is: a *)
(* check accepts a candidate exactly when its list is a ring of more than  *)
(* the head and some bucket is in use, and the score is what the length of *)
(* the ring and the number of the buckets say.  The same of a target that  *)
(* goes on, for each check during which its lists did not change.          *)
(***************************************************************************)
THEOREM VerdictIsExact ==
  ASSUME BoundHolds
  PROVE  /\ AnySpec => []VerdictCorrect
         /\ LiveSpec => []VerdictCorrect
  <1>1. AnyInit \/ LiveInit => RunInv
    BY RunInit
  <1>2. RunInv /\ [Next]_vars => RunInv'
    BY RunNext
  <1>3. RunInv => VerdictCorrect
    BY VerdictFromInv DEF RunInv, VerdictCorrect
  <1>4. [Call]_vars => [Next]_vars
    BY DEF Next
  <1>5. QED
    BY <1>1, <1>2, <1>3, <1>4, PTL DEF AnySpec, LiveSpec
==============================================================================
