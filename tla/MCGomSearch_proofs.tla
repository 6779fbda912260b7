-------------------------- MODULE MCGomSearch_proofs --------------------------
(***************************************************************************)
(* Theorems about the ways to a GameObjectManager and through it, each in  *)
(* its world of MCGomSearch, for any values of the constants.              *)
(***************************************************************************)
EXTENDS MCGomSearch, FiniteSetTheorems, SequenceTheorems, TLAPS

(***************************************************************************)
(* GomCandidate: what is proved of it in a module of its own, for the      *)
(* lists of this one.                                                      *)
(***************************************************************************)
CandP == INSTANCE GomCandidate_proofs WITH Head0 <- LocalHead, Gone <- {}, TableLikely <- TRUE

LEMMA CandAssumptions == CandP!TargetAssumption /\ CandP!CandidateAssumption /\ CandP!BoundHolds
  <1>1. CandP!TargetAssumption
    BY ListAssumption DEF CandP!TargetAssumption
  <1>2. CandP!CandidateAssumption
    BY ListAssumption DEF CandP!CandidateAssumption, CandP!Words, CandP!Nodes
  <1>3. CandP!BoundHolds
    BY Zenon, BoundAssumption DEF Candidate!BoundHolds, CandP!BoundHolds, Candidate!Nodes, CandP!Nodes,
      Candidate!IsFiniteSet, CandP!IsFiniteSet, Candidate!Cardinality, CandP!Cardinality, IsFiniteSet
  <1>4. QED
    BY <1>1, <1>2, <1>3

\* The two instances are of one module.
LEMMA CandSame ==
  /\ Candidate!LiveInit => CandP!LiveInit
  /\ Candidate!Next => CandP!Next
  /\ UNCHANGED Candidate!vars => UNCHANGED CandP!vars
  /\ CandP!VerdictCorrect => Candidate!VerdictCorrect
  <1>1. Candidate!LiveInit => CandP!LiveInit
    BY DEF Candidate!LiveInit, CandP!LiveInit, Candidate!TargetInit, CandP!TargetInit, Candidate!CallInit,
      CandP!CallInit, Candidate!Fail, CandP!Fail, Candidate!NoWrite, CandP!NoWrite, Candidate!Nodes,
      CandP!Nodes
  <1>2. Candidate!Begin => CandP!Begin
    BY DEF Candidate!Begin, CandP!Begin, Candidate!NoWrite, CandP!NoWrite, Candidate!targetVars,
      CandP!targetVars, Candidate!listLocals, CandP!listLocals
  <1>3. Candidate!Return => CandP!Return
    BY DEF Candidate!Return, CandP!Return, Candidate!LocalsGone, CandP!LocalsGone, Candidate!Fail,
      CandP!Fail, Candidate!targetVars, CandP!targetVars
  <1>4. Candidate!ReadHeadPrev => CandP!ReadHeadPrev
    BY DEF Candidate!ReadHeadPrev, CandP!ReadHeadPrev, Candidate!Readable, CandP!Readable, Candidate!Nodes,
      CandP!Nodes, Candidate!Reject, CandP!Reject, Candidate!LocalsGone, CandP!LocalsGone, Candidate!GoOn,
      CandP!GoOn, Candidate!Reader, CandP!Reader, Candidate!targetVars, CandP!targetVars
  <1>5. Candidate!ReadHeadNext => CandP!ReadHeadNext
    BY DEF Candidate!ReadHeadNext, CandP!ReadHeadNext, Candidate!Readable, CandP!Readable, Candidate!Nodes,
      CandP!Nodes, Candidate!Reject, CandP!Reject, Candidate!LocalsGone, CandP!LocalsGone, Candidate!GoOn,
      CandP!GoOn, Candidate!Reader, CandP!Reader, Candidate!targetVars, CandP!targetVars
  <1>6. Candidate!CheckNextPrev => CandP!CheckNextPrev
    BY DEF Candidate!CheckNextPrev, CandP!CheckNextPrev, Candidate!Readable, CandP!Readable, Candidate!Nodes,
      CandP!Nodes, Candidate!Reject, CandP!Reject, Candidate!LocalsGone, CandP!LocalsGone, Candidate!GoOn,
      CandP!GoOn, Candidate!Reader, CandP!Reader, Candidate!targetVars, CandP!targetVars,
      Candidate!listLocals, CandP!listLocals
  <1>7. Candidate!CheckPrevNext => CandP!CheckPrevNext
    BY DEF Candidate!CheckPrevNext, CandP!CheckPrevNext, Candidate!Readable, CandP!Readable, Candidate!Nodes,
      CandP!Nodes, Candidate!Reject, CandP!Reject, Candidate!LocalsGone, CandP!LocalsGone, Candidate!GoOn,
      CandP!GoOn, Candidate!Reader, CandP!Reader, Candidate!targetVars, CandP!targetVars,
      Candidate!listLocals, CandP!listLocals
  <1>8. Candidate!MoveSlow => CandP!MoveSlow
    BY DEF Candidate!MoveSlow, CandP!MoveSlow, Candidate!Readable, CandP!Readable, Candidate!Nodes,
      CandP!Nodes, Candidate!Reject, CandP!Reject, Candidate!LocalsGone, CandP!LocalsGone, Candidate!GoOn,
      CandP!GoOn, Candidate!Reader, CandP!Reader, Candidate!targetVars, CandP!targetVars,
      Candidate!CanFollow, CandP!CanFollow
  <1>9. Candidate!MoveFast => CandP!MoveFast
    BY DEF Candidate!MoveFast, CandP!MoveFast, Candidate!Readable, CandP!Readable, Candidate!Nodes,
      CandP!Nodes, Candidate!Reject, CandP!Reject, Candidate!LocalsGone, CandP!LocalsGone, Candidate!GoOn,
      CandP!GoOn, Candidate!Reader, CandP!Reader, Candidate!targetVars, CandP!targetVars,
      Candidate!CanFollow, CandP!CanFollow
  <1>10. Candidate!MeasureFirst => CandP!MeasureFirst
    BY DEF Candidate!MeasureFirst, CandP!MeasureFirst, Candidate!Readable, CandP!Readable, Candidate!Nodes,
      CandP!Nodes, Candidate!Reject, CandP!Reject, Candidate!LocalsGone, CandP!LocalsGone, Candidate!GoOn,
      CandP!GoOn, Candidate!Reader, CandP!Reader, Candidate!targetVars, CandP!targetVars,
      Candidate!CanFollow, CandP!CanFollow
  <1>11. Candidate!Measure => CandP!Measure
    BY DEF Candidate!Measure, CandP!Measure, Candidate!Readable, CandP!Readable, Candidate!Nodes,
      CandP!Nodes, Candidate!Reject, CandP!Reject, Candidate!LocalsGone, CandP!LocalsGone, Candidate!GoOn,
      CandP!GoOn, Candidate!Reader, CandP!Reader, Candidate!targetVars, CandP!targetVars,
      Candidate!CanFollow, CandP!CanFollow, Candidate!Counted, CandP!Counted
  <1>12. Candidate!FindHead => CandP!FindHead
    BY DEF Candidate!FindHead, CandP!FindHead, Candidate!Readable, CandP!Readable, Candidate!Nodes,
      CandP!Nodes, Candidate!Reject, CandP!Reject, Candidate!LocalsGone, CandP!LocalsGone, Candidate!GoOn,
      CandP!GoOn, Candidate!Reader, CandP!Reader, Candidate!targetVars, CandP!targetVars,
      Candidate!CanFollow, CandP!CanFollow
  <1>13. Candidate!ReadCurPrev => CandP!ReadCurPrev
    BY DEF Candidate!ReadCurPrev, CandP!ReadCurPrev, Candidate!Readable, CandP!Readable, Candidate!Nodes,
      CandP!Nodes, Candidate!Reject, CandP!Reject, Candidate!LocalsGone, CandP!LocalsGone, Candidate!GoOn,
      CandP!GoOn, Candidate!Reader, CandP!Reader, Candidate!targetVars, CandP!targetVars
  <1>14. Candidate!ReadCurNext => CandP!ReadCurNext
    BY DEF Candidate!ReadCurNext, CandP!ReadCurNext, Candidate!Readable, CandP!Readable, Candidate!Nodes,
      CandP!Nodes, Candidate!Reject, CandP!Reject, Candidate!LocalsGone, CandP!LocalsGone, Candidate!GoOn,
      CandP!GoOn, Candidate!Reader, CandP!Reader, Candidate!targetVars, CandP!targetVars
  <1>15. Candidate!CheckCurNextPrev => CandP!CheckCurNextPrev
    BY DEF Candidate!CheckCurNextPrev, CandP!CheckCurNextPrev, Candidate!Readable, CandP!Readable,
      Candidate!Nodes, CandP!Nodes, Candidate!Reject, CandP!Reject, Candidate!LocalsGone, CandP!LocalsGone,
      Candidate!GoOn, CandP!GoOn, Candidate!Reader, CandP!Reader, Candidate!targetVars, CandP!targetVars,
      Candidate!listLocals, CandP!listLocals
  <1>16. Candidate!CheckCurPrevNext => CandP!CheckCurPrevNext
    BY DEF Candidate!CheckCurPrevNext, CandP!CheckCurPrevNext, Candidate!Readable, CandP!Readable,
      Candidate!Nodes, CandP!Nodes, Candidate!Reject, CandP!Reject, Candidate!LocalsGone, CandP!LocalsGone,
      Candidate!GoOn, CandP!GoOn, Candidate!Reader, CandP!Reader, Candidate!targetVars, CandP!targetVars
  <1>17. Candidate!EnterTable => CandP!EnterTable
    BY DEF Candidate!EnterTable, CandP!EnterTable, Candidate!HasTable, CandP!HasTable, Candidate!Readable, CandP!Readable, Candidate!Nodes,
      CandP!Nodes, Candidate!Reject, CandP!Reject, Candidate!LocalsGone, CandP!LocalsGone, Candidate!GoOn,
      CandP!GoOn, Candidate!Reader, CandP!Reader, Candidate!targetVars, CandP!targetVars,
      Candidate!listLocals, CandP!listLocals
  <1>18. Candidate!CountSlot => CandP!CountSlot
    BY DEF Candidate!CountSlot, CandP!CountSlot, Candidate!Readable, CandP!Readable, Candidate!Nodes,
      CandP!Nodes, Candidate!Reject, CandP!Reject, Candidate!LocalsGone, CandP!LocalsGone, Candidate!GoOn,
      CandP!GoOn, Candidate!Reader, CandP!Reader, Candidate!targetVars, CandP!targetVars,
      Candidate!listLocals, CandP!listLocals, Candidate!IsListNonEmpty, CandP!IsListNonEmpty
  <1>19. Candidate!Score => CandP!Score
    BY DEF Candidate!Score, CandP!Score, Candidate!Readable, CandP!Readable, Candidate!Nodes, CandP!Nodes,
      Candidate!Reject, CandP!Reject, Candidate!LocalsGone, CandP!LocalsGone, Candidate!GoOn, CandP!GoOn,
      Candidate!Reader, CandP!Reader, Candidate!targetVars, CandP!targetVars, Candidate!listLocals,
      CandP!listLocals, Candidate!Capped, CandP!Capped
  <1>20. Candidate!ListStep => CandP!ListStep
    BY DEF Candidate!ListStep, CandP!ListStep, Candidate!Link, CandP!Link, Candidate!Unlink, CandP!Unlink,
      Candidate!Unmap, CandP!Unmap, Candidate!WriteBack, CandP!WriteBack, Candidate!Leave, CandP!Leave,
      Candidate!NoWrite, CandP!NoWrite, Candidate!callVars, CandP!callVars, Candidate!listLocals,
      CandP!listLocals
  <1>21. Candidate!Next => CandP!Next
    BY <1>2, <1>3, <1>4, <1>5, <1>6, <1>7, <1>8, <1>9, <1>10, <1>11, <1>12, <1>13, <1>14, <1>15, <1>16, <1>17, <1>18, <1>19, <1>20
      DEF Candidate!Next, CandP!Next, Candidate!Call, CandP!Call, Candidate!Check, CandP!Check
  <1>22. UNCHANGED Candidate!vars => UNCHANGED CandP!vars
    BY DEF Candidate!vars, CandP!vars, Candidate!targetVars, CandP!targetVars, Candidate!callVars,
      CandP!callVars, Candidate!listLocals, CandP!listLocals
  <1>23. CandP!VerdictCorrect => Candidate!VerdictCorrect
    BY Zenon DEF Candidate!VerdictCorrect, CandP!VerdictCorrect, Candidate!Expected, CandP!Expected,
      Candidate!HeadRing, CandP!HeadRing, Candidate!ClosedRing, CandP!ClosedRing, Candidate!Readable,
      CandP!Readable, Candidate!Nodes, CandP!Nodes, Candidate!UsedSlots, CandP!UsedSlots, Candidate!HasTable,
      CandP!HasTable, Candidate!Capped,
      CandP!Capped, Candidate!Fail, CandP!Fail, Candidate!Cardinality, CandP!Cardinality
  <1>24. QED
    BY <1>1, <1>21, <1>22, <1>23

(***************************************************************************)
(* On the manager of a target that goes on, among whatever nodes and       *)
(* buckets: a check during which no list changed has the right verdict.    *)
(***************************************************************************)
THEOREM VerdictIsCorrect == Spec => []VerdictCorrect
  <1> DEFINE IInv == world = "candidate" => CandP!RunInv
  <1>1. Init => IInv
    <2>1. Candidate!LiveInit => CandP!RunInv
      BY CandSame, CandAssumptions, CandP!RunInit
    <2>2. QED
      BY <2>1 DEF Init, WalkInit, CandidateInit, TagInit, LocateInit
  <1>2. IInv /\ [Next]_vars => IInv'
    <2> SUFFICES ASSUME IInv, [Next]_vars, world' = "candidate" PROVE CandP!RunInv'
      OBVIOUS
    <2>1. world = "candidate" /\ [Candidate!Next]_(Candidate!vars)
      BY DEF Next, WalkNext, WalkOthers, CandidateNext, TagNext, LocateNext, vars, listVars, candidateVars,
        Candidate!vars, Candidate!targetVars, Candidate!callVars, Candidate!listLocals
    <2>2. [CandP!Next]_(CandP!vars)
      BY <2>1, CandSame
    <2>3. QED
      BY <2>1, <2>2, CandAssumptions, CandP!RunNext
  <1>3. IInv => VerdictCorrect
    <2> SUFFICES ASSUME IInv, world = "candidate" PROVE Candidate!VerdictCorrect
      BY DEF VerdictCorrect
    <2>1. CandP!RunInv
      OBVIOUS
    <2>2. CandP!VerdictCorrect
      BY <2>1, CandAssumptions, CandP!VerdictFromInv DEF CandP!RunInv, CandP!VerdictCorrect
    <2>3. QED
      BY <2>2, CandSame
  <1>4. QED
    BY <1>1, <1>2, <1>3, PTL DEF Spec

(***************************************************************************)
(* GomTag: the table and its lists, whoever reads them.                    *)
(***************************************************************************)
Masks == {Hash[t] : t \in Tags}
Bucket == [mask : Masks \cup {Deleted}, key : Tags \cup {Null}, head : Lists \cup {Null}]

\* A slot in use has a list of its own with nothing but objects of its tag;
\* one that is not has kept its list head if it has kept its key.
TableSound ==
  /\ slots \in [1..SlotCount -> Bucket]
  /\ members \in [Lists -> Seq(TagObjects)]
  /\ \A j \in 1..SlotCount :
       /\ slots[j].key # Null => slots[j].head \in Lists
       /\ Tag!InUse(slots[j]) =>
            /\ slots[j].key \in Tags /\ slots[j].mask = Hash[slots[j].key]
            /\ \A k \in 1..Len(members[slots[j].head]) : TagOf[members[slots[j].head][k]] = slots[j].key
  /\ \A j, k \in 1..SlotCount :
       Tag!InUse(slots[j]) /\ Tag!InUse(slots[k]) /\ j # k => slots[j].head # slots[k].head

LEMMA TableInit == Tag!Init => TableSound
  <1> SUFFICES ASSUME Tag!Init PROVE TableSound
    OBVIOUS
  <1>1. slots = [k \in 1..SlotCount |-> Tag!Unused] /\ members = [l \in Lists |-> <<>>]
    BY DEF Tag!Init
  <1>2. Tag!Unused \in Bucket /\ Tag!Unused.key = Null /\ ~ Tag!InUse(Tag!Unused)
    BY DEF Tag!Unused, Bucket, Tag!InUse
  <1>3. <<>> \in Seq(TagObjects)
    OBVIOUS
  <1>4. QED
    BY <1>1, <1>2, <1>3 DEF TableSound

LEMMA InsertKeeps ==
  ASSUME TableSound, NEW t \in Tags, NEW k \in 1..SlotCount, NEW l \in Lists, Tag!InsertTag(t, k, l)
  PROVE  TableSound'
  <1> DEFINE new == [mask |-> Hash[t], key |-> t, head |-> l]
  <1>1. slots' = [slots EXCEPT ![k] = new] /\ members' = members /\ members[l] = <<>>
        /\ \A j \in 1..SlotCount : Tag!InUse(slots[j]) => slots[j].head # l
    BY DEF Tag!InsertTag
  <1>2. new \in Bucket /\ new.key = t /\ new.mask = Hash[t] /\ new.head = l /\ t # Null
    BY TagAssumption DEF Bucket, Masks
  <1> HIDE DEF new
  <1>3. slots' \in [1..SlotCount -> Bucket] /\ slots'[k] = new
        /\ \A j \in 1..SlotCount : j # k => slots'[j] = slots[j]
    BY <1>1, <1>2 DEF TableSound
  <1>4. Len(members[l]) = 0
    BY <1>1
  <1>5. ASSUME NEW j \in 1..SlotCount
        PROVE  /\ slots'[j].key # Null => slots'[j].head \in Lists
               /\ Tag!InUse(slots'[j]) =>
                    /\ slots'[j].key \in Tags /\ slots'[j].mask = Hash[slots'[j].key]
                    /\ \A n \in 1..Len(members[slots'[j].head]) :
                         TagOf[members[slots'[j].head][n]] = slots'[j].key
    <2>1. CASE j = k
      BY <2>1, <1>2, <1>3, <1>4
    <2>2. CASE j # k
      <3>1. slots'[j] = slots[j]
        BY <1>3, <2>2
      <3>2. /\ slots[j].key # Null => slots[j].head \in Lists
            /\ Tag!InUse(slots[j]) =>
                 /\ slots[j].key \in Tags /\ slots[j].mask = Hash[slots[j].key]
                 /\ \A n \in 1..Len(members[slots[j].head]) :
                      TagOf[members[slots[j].head][n]] = slots[j].key
        BY DEF TableSound
      <3>3. QED
        BY <3>1, <3>2
    <2>3. QED
      BY <2>1, <2>2
  <1>6. ASSUME NEW j \in 1..SlotCount, NEW n \in 1..SlotCount,
               Tag!InUse(slots'[j]), Tag!InUse(slots'[n]), j # n
        PROVE  slots'[j].head # slots'[n].head
    BY <1>6, <1>1, <1>2, <1>3 DEF TableSound
  <1>7. QED
    BY <1>1, <1>3, <1>5, <1>6 DEF TableSound, Tag!InUse

LEMMA EraseKeeps ==
  ASSUME TableSound, NEW k \in 1..SlotCount, Tag!EraseTag(k)
  PROVE  /\ TableSound' /\ members' = members
         /\ \A j \in 1..SlotCount : slots'[j].key = slots[j].key /\ slots'[j].head = slots[j].head
         /\ \A j \in 1..SlotCount : j # k => slots'[j] = slots[j]
  <1>1. slots' = [slots EXCEPT ![k].mask = Deleted] /\ members' = members
    BY DEF Tag!EraseTag
  <1>2. slots[k] \in Bucket
    BY DEF TableSound
  <1> DEFINE new == [slots[k] EXCEPT !.mask = Deleted]
  <1>3. new \in Bucket /\ new.key = slots[k].key /\ new.head = slots[k].head /\ new.mask = Deleted
    BY <1>2 DEF Bucket
  <1> HIDE DEF new
  <1>4. slots' \in [1..SlotCount -> Bucket] /\ slots'[k] = new
        /\ \A j \in 1..SlotCount : j # k => slots'[j] = slots[j]
    BY <1>1, <1>3 DEF TableSound, new
  <1>5. ~ Tag!InUse(slots'[k])
    BY <1>3, <1>4 DEF Tag!InUse
  <1>6. QED
    BY <1>1, <1>3, <1>4, <1>5 DEF TableSound, Tag!InUse

LEMMA AddKeeps ==
  ASSUME TableSound, NEW o \in TagObjects, Tag!AddObject(o)
  PROVE  TableSound' /\ slots' = slots
  <1>1. PICK k \in 1..SlotCount : /\ Tag!InUse(slots[k]) /\ slots[k].key = TagOf[o]
                                  /\ members' = [members EXCEPT ![slots[k].head] = <<o>> \o @]
                                  /\ slots' = slots
    BY DEF Tag!AddObject, Tag!Holders
  <1> DEFINE l == slots[k].head
  <1>2. l \in Lists
    BY <1>1, TagAssumption DEF TableSound
  <1> DEFINE new == <<o>> \o members[l]
  <1>3. members[l] \in Seq(TagObjects)
    BY <1>2 DEF TableSound
  <1>4. new \in Seq(TagObjects)
        /\ \A n \in 1..Len(new) : new[n] = o \/ (\E m \in 1..Len(members[l]) : new[n] = members[l][m])
    <2>1. <<o>> \in Seq(TagObjects) /\ Len(<<o>>) = 1 /\ <<o>>[1] = o
      OBVIOUS
    <2>2. /\ new \in Seq(TagObjects) /\ Len(new) = 1 + Len(members[l])
          /\ \A n \in 1..Len(new) : new[n] = IF n <= 1 THEN <<o>>[n] ELSE members[l][n - 1]
      BY <2>1, <1>3, ConcatProperties
    <2>3. Len(members[l]) \in Nat
      BY <1>3
    <2>4. QED
      BY <2>1, <2>2, <2>3
  <1>5. members' \in [Lists -> Seq(TagObjects)] /\ members'[l] = new
        /\ \A n \in Lists : n # l => members'[n] = members[n]
    <2> HIDE DEF l
    <2>1. members' = [members EXCEPT ![l] = new]
      BY <1>1 DEF l
    <2> HIDE DEF new
    <2>2. QED
      BY <2>1, <1>2, <1>4 DEF TableSound
  <1>6. ASSUME NEW j \in 1..SlotCount, Tag!InUse(slots[j])
        PROVE  \A n \in 1..Len(members'[slots[j].head]) : TagOf[members'[slots[j].head][n]] = slots[j].key
    <2>1. slots[j].head \in Lists
      BY <1>6, TagAssumption DEF TableSound
    <2>2. CASE j = k
      BY <2>2, <1>1, <1>4, <1>5 DEF TableSound
    <2>3. CASE j # k
      BY <2>1, <2>3, <1>1, <1>5, <1>6 DEF TableSound
    <2>4. QED
      BY <2>2, <2>3
  <1>7. QED
    BY <1>1, <1>5, <1>6 DEF TableSound, Tag!InUse

LEMMA RemoveKeeps ==
  ASSUME TableSound, NEW l \in Lists, Tag!RemoveFirst(l)
  PROVE  TableSound' /\ slots' = slots
  <1>1. members[l] # <<>> /\ members' = [members EXCEPT ![l] = Tail(members[l])] /\ slots' = slots
    BY DEF Tag!RemoveFirst
  <1> DEFINE new == Tail(members[l])
  <1>2. members[l] \in Seq(TagObjects)
    BY DEF TableSound
  <1>3. new \in Seq(TagObjects) /\ \A n \in 1..Len(new) : \E m \in 1..Len(members[l]) : new[n] = members[l][m]
    BY <1>1, <1>2
  <1>4. members' \in [Lists -> Seq(TagObjects)] /\ members'[l] = new
        /\ \A n \in Lists : n # l => members'[n] = members[n]
    <2> HIDE DEF new
    <2>1. QED
      BY <1>1, <1>3 DEF TableSound, new
  <1>5. ASSUME NEW j \in 1..SlotCount, Tag!InUse(slots[j])
        PROVE  \A n \in 1..Len(members'[slots[j].head]) : TagOf[members'[slots[j].head][n]] = slots[j].key
    <2>1. slots[j].head \in Lists
      BY <1>5, TagAssumption DEF TableSound
    <2>2. CASE slots[j].head = l
      <3> HIDE DEF new
      <3>1. QED
        BY <2>2, <1>3, <1>4, <1>5 DEF TableSound
    <2>3. CASE slots[j].head # l
      BY <2>1, <2>3, <1>4, <1>5 DEF TableSound
    <2>4. QED
      BY <2>2, <2>3
  <1> HIDE DEF new
  <1>6. slots' = slots
    BY <1>1
  <1>7. QED
    BY <1>4, <1>5, <1>6 DEF TableSound, Tag!InUse

LEMMA TargetKeeps ==
  ASSUME TableSound, Tag!TargetStep
  PROVE  /\ TableSound'
         /\ \A j \in 1..SlotCount :
              Tag!InUse(slots[j]) => /\ slots'[j].key = slots[j].key /\ slots'[j].head = slots[j].head
                                     /\ Tag!InUse(slots'[j]) \/ (j = bucket => erased')
         /\ erased => erased'
  <1>1. CASE \E t \in Tags, k \in 1..SlotCount, l \in Lists : Tag!InsertTag(t, k, l)
    <2>1. PICK t \in Tags, k \in 1..SlotCount, l \in Lists : Tag!InsertTag(t, k, l)
      BY <1>1
    <2>2. TableSound'
      BY <2>1, InsertKeeps
    <2>3. ~ Tag!InUse(slots[k]) /\ erased' = erased
          /\ slots' = [slots EXCEPT ![k] = [mask |-> Hash[t], key |-> t, head |-> l]]
      BY <2>1 DEF Tag!InsertTag
    <2>4. \A j \in 1..SlotCount : Tag!InUse(slots[j]) => slots'[j] = slots[j]
      BY <2>3 DEF TableSound
    <2>5. QED
      BY <2>2, <2>3, <2>4
  <1>2. CASE \E k \in 1..SlotCount : Tag!EraseTag(k)
    <2>1. PICK k \in 1..SlotCount : Tag!EraseTag(k)
      BY <1>2
    <2>2. erased' = (erased \/ k = bucket)
      BY <2>1 DEF Tag!EraseTag
    <2>3. QED
      BY <2>1, <2>2, EraseKeeps
  <1>3. CASE \E o \in TagObjects : Tag!AddObject(o)
    <2>1. PICK o \in TagObjects : Tag!AddObject(o)
      BY <1>3
    <2>2. erased' = erased
      BY <2>1 DEF Tag!AddObject
    <2>3. QED
      BY <2>1, <2>2, AddKeeps
  <1>4. CASE \E l \in Lists : Tag!RemoveFirst(l)
    <2>1. PICK l \in Lists : Tag!RemoveFirst(l)
      BY <1>4
    <2>2. erased' = erased
      BY <2>1 DEF Tag!RemoveFirst
    <2>3. QED
      BY <2>1, <2>2, RemoveKeeps
  <1>5. QED
    BY <1>1, <1>2, <1>3, <1>4 DEF Tag!TargetStep

(***************************************************************************)
(* GomTag: the call.                                                       *)
(***************************************************************************)
ByTag == asked.by = "tag" /\ asked.what \in Tags
ByMask == asked.by = "mask" /\ asked.what \in Masks

\* Whatever the target does: where the call is in the table, and what holds
\* of the slot it took as long as nobody has erased it.
TagTypes ==
  /\ pc \in {"idle", "key", "mask", "maskkey", "head", "first", "native", "done"}
  /\ pc \in {"key", "head", "first", "native"} => ByTag
  /\ pc \in {"mask", "maskkey"} => ByMask
  /\ pc = "done" => ByTag \/ ByMask
  /\ pc = "idle" => bi = 1 /\ bucket = 0
  /\ pc \in {"key", "mask", "maskkey"} => bi \in 1..SlotCount
  /\ pc \in {"key", "mask", "maskkey"} => bucket = 0
  /\ pc \in {"head", "first", "native"} => bucket \in 1..SlotCount
  /\ pc # "done" \/ asked.by = "mask" => result = Null

TagTaken ==
  /\ pc \in {"head", "first", "native"} =>
       erased \/ (Tag!InUse(slots[bucket]) /\ slots[bucket].key = asked.what)
  /\ pc \in {"first", "native"} => erased \/ (head = slots[bucket].head /\ head \in Lists)
  /\ pc = "native" => erased \/ empty \/ (first \in TagObjects /\ TagOf[first] = asked.what)
  /\ pc = "done" /\ result # Null =>
       erased \/ empty \/ (result \in TagObjects /\ TagOf[result] = asked.what)

\* What a search by the key knows of a target that stands still,
FirstAt(j) == /\ j \in 1..SlotCount /\ slots[j].key = asked.what
              /\ \A k \in 1..(j - 1) : slots[k].key # asked.what

FirstOf(l) == IF members[l] = <<>> THEN HeadWord[l] ELSE members[l][1]

KeyKnows ==
  /\ pc = "key" => \A k \in 1..(bi - 1) : slots[k].key # asked.what
  /\ pc \in {"head", "first", "native"} => FirstAt(bucket)
  /\ pc \in {"first", "native"} => head = slots[bucket].head /\ head \in Lists
  /\ pc = "native" => first = Tag!NextOf(head)
  /\ pc = "done" /\ asked.by = "tag" =>
       \/ result = Null /\ \A k \in 1..SlotCount : slots[k].key # asked.what
       \/ FirstAt(bucket) /\ result = FirstOf(slots[bucket].head)

\* and one by the mask;
MaskKnows ==
  /\ pc \in {"mask", "maskkey"} => \A k \in 1..(bi - 1) : slots[k].mask # asked.what
  /\ pc = "done" /\ asked.by = "mask" =>
       \/ bucket = 0 /\ \A k \in 1..SlotCount : slots[k].mask # asked.what
       \/ bucket \in 1..SlotCount /\ \A k \in 1..(bucket - 1) : slots[k].mask # asked.what

\* what the latter has in hand, whether or not it has read every slot before.
MaskTaken ==
  /\ pc = "maskkey" => mask = asked.what /\ slots[bi].mask = asked.what
  /\ pc = "done" /\ asked.by = "mask" =>
       bucket = 0 \/ (bucket \in 1..SlotCount /\ slots[bucket].mask = asked.what)

TagInv ==
  /\ TableSound /\ TagTypes /\ TagTaken
  /\ calm => MaskTaken
  /\ calm /\ ~ unread => KeyKnows /\ MaskKnows

LEMMA TagStarts == Tag!Init => TagInv
  BY TableInit, TagAssumption DEF Tag!Init, TagInv, TagTypes, TagTaken, Tag!NoCall, Tag!Nobody

LEMMA TagTargetStep == ASSUME TagInv, Tag!TargetStep PROVE TagInv'
  <1>1. TableSound'
    BY TargetKeeps DEF TagInv
  <1>2. ~ calm' /\ UNCHANGED <<pc, asked, bi, mask, bucket, head, first, result, empty>>
    BY DEF Tag!TargetStep, Tag!locals
  <1>3. TagTypes'
    BY <1>2 DEF TagInv, TagTypes, ByTag, ByMask
  <1>4. TagTaken'
    BY <1>2, TargetKeeps DEF TagInv, TagTypes, TagTaken
  <1>5. QED
    BY <1>1, <1>2, <1>3, <1>4 DEF TagInv

\* A slot in use whose key is asked for is none of those without a key.
LEMMA SlotFacts ==
  ASSUME TableSound, NEW j \in 1..SlotCount
  PROVE  /\ slots[j].key \in Tags => slots[j].key # Null /\ slots[j].head \in Lists
         /\ slots[j].mask \in Masks =>
              /\ Tag!InUse(slots[j]) /\ slots[j].key \in Tags /\ slots[j].key # Null
              /\ Hash[slots[j].key] = slots[j].mask
  BY TagAssumption DEF TableSound, Masks, Tag!InUse

LEMMA TableStays ==
  ASSUME TableSound, UNCHANGED <<slots, members>> PROVE TableSound'
  BY DEF TableSound, Tag!InUse

LEMMA TagBegin == ASSUME TagInv, Tag!Begin PROVE TagInv'
  <1>1. TableSound'
    BY TableStays DEF TagInv, Tag!Begin
  <1>2. PICK good \in BOOLEAN :
          /\ unread' = (unread \/ ~ good)
          /\ pc' = IF ~ good THEN "done" ELSE IF asked'.by = "tag" THEN "key" ELSE "mask"
    BY DEF Tag!Begin, Tag!After
  <1>3. /\ pc = "idle" /\ UNCHANGED <<slots, members, bi, bucket, result>>
        /\ asked' \in [by : {"tag"}, what : Tags] \cup [by : {"mask"}, what : {Hash[t] : t \in Tags}]
    BY DEF Tag!Begin
  <1>4. (ByTag' /\ asked'.by = "tag") \/ (ByMask' /\ asked'.by = "mask")
    BY <1>3 DEF ByTag, ByMask, Masks
  <1>5. bi' = 1 /\ bucket' = 0 /\ result' = Null /\ 1 \in 1..SlotCount
    BY <1>3, TagAssumption DEF TagInv, TagTypes
  <1>6. ~ good => pc' = "done" /\ unread'
    BY <1>2
  <1>7. good => pc' = IF asked'.by = "tag" THEN "key" ELSE "mask"
    BY <1>2
  <1>8. TagTypes' /\ TagTaken' /\ MaskTaken'
    BY <1>4, <1>5, <1>6, <1>7 DEF TagTypes, TagTaken, MaskTaken, ByTag, ByMask
  <1>9. good => KeyKnows' /\ MaskKnows'
    BY <1>4, <1>5, <1>7 DEF KeyKnows, MaskKnows
  <1>10. QED
    BY <1>1, <1>6, <1>8, <1>9 DEF TagInv

LEMMA TagReturn == ASSUME TagInv, Tag!Return PROVE TagInv'
  <1>1. TableSound'
    BY TableStays DEF TagInv, Tag!Return
  <1>2. pc' = "idle" /\ bi' = 1 /\ bucket' = 0 /\ result' = Null /\ ~ calm'
    BY DEF Tag!Return
  <1>3. QED
    BY <1>1, <1>2 DEF TagInv, TagTypes, TagTaken

\* A step of the search changes nothing of the target.
LEMMA ReaderLeaves ==
  ASSUME TableSound, Tag!Reader
  PROVE  TableSound' /\ UNCHANGED <<slots, members, calm, asked>>
  <1>1. UNCHANGED <<slots, members, calm, asked>>
    BY DEF Tag!Reader, Tag!LookAtKey, Tag!LookAtMask, Tag!LookAtMaskKey, Tag!ReadHead, Tag!ReadFirst,
      Tag!ReadNative, Tag!Target
  <1>2. QED
    BY <1>1, TableStays

LEMMA TagLookAtKey == ASSUME TagInv, Tag!LookAtKey PROVE TagInv'
  <1>1. TableSound' /\ UNCHANGED <<slots, members, calm, asked>>
    BY ReaderLeaves DEF TagInv, Tag!Reader
  <1>2. pc = "key" /\ ByTag /\ bi \in 1..SlotCount /\ bucket = 0 /\ result = Null /\ ByTag'
    BY <1>1 DEF TagInv, TagTypes, Tag!LookAtKey, ByTag
  <1>3. UNCHANGED <<mask, head, first, result, empty>>
    BY DEF Tag!LookAtKey
  <1>4. PICK good \in BOOLEAN :
          /\ unread' = (unread \/ ~ good)
          /\ \/ /\ good /\ slots[bi].key = asked.what
                /\ bucket' = bi /\ erased' = ~ Tag!InUse(slots[bi]) /\ pc' = "head" /\ bi' = bi
             \/ /\ ~ (good /\ slots[bi].key = asked.what)
                /\ bi' = bi + 1 /\ pc' = (IF bi < SlotCount THEN "key" ELSE "done")
                /\ UNCHANGED <<bucket, erased>>
    BY DEF Tag!LookAtKey, Tag!After, Tag!HasKey, Tag!NextSlot
  <1>5. ~ unread' => ~ unread /\ good
    BY <1>4
  <1>6. CASE good /\ slots[bi].key = asked.what
    <2>1. bucket' = bi /\ erased' = ~ Tag!InUse(slots[bi]) /\ pc' = "head" /\ bi' = bi
      BY <1>4, <1>6
    <2>2. calm /\ ~ unread => FirstAt(bi)
      BY <1>2, <1>6 DEF TagInv, KeyKnows, FirstAt
    <2>3. FirstAt(bi) => FirstAt(bucket)'
      BY <1>1, <2>1 DEF FirstAt
    <2>4. TagTypes' /\ TagTaken' /\ MaskTaken'
      BY <1>1, <1>2, <1>3, <1>6, <2>1 DEF TagTypes, TagTaken, MaskTaken
    <2>5. calm' /\ ~ unread' => KeyKnows' /\ MaskKnows'
      BY <1>1, <1>5, <2>1, <2>2, <2>3 DEF KeyKnows, MaskKnows
    <2>6. QED
      BY <1>1, <2>4, <2>5 DEF TagInv
  <1>7. CASE ~ (good /\ slots[bi].key = asked.what)
    <2>1. bi' = bi + 1 /\ pc' = (IF bi < SlotCount THEN "key" ELSE "done") /\ UNCHANGED <<bucket, erased>>
      BY <1>4, <1>7
    <2>2. calm /\ ~ unread /\ good => \A k \in 1..(bi' - 1) : slots[k].key # asked.what
      BY <1>2, <1>7, <2>1 DEF TagInv, KeyKnows
    <2>3. /\ pc' = "key" => bi' \in 1..SlotCount
          /\ pc' = "done" => bi' - 1 = SlotCount
      BY <1>2, <2>1, TagAssumption
    <2>4. TagTypes' /\ TagTaken' /\ MaskTaken'
      BY <1>1, <1>2, <1>3, <2>1, <2>3 DEF TagTypes, TagTaken, MaskTaken, ByTag
    <2>5. calm' /\ ~ unread' => KeyKnows' /\ MaskKnows'
      BY <1>1, <1>2, <1>3, <1>5, <2>1, <2>2, <2>3 DEF KeyKnows, MaskKnows, ByTag
    <2>6. QED
      BY <1>1, <2>4, <2>5 DEF TagInv
  <1>8. QED
    BY <1>6, <1>7

LEMMA TagLookAtMask == ASSUME TagInv, Tag!LookAtMask PROVE TagInv'
  <1>1. TableSound' /\ UNCHANGED <<slots, members, calm, asked>>
    BY ReaderLeaves DEF TagInv, Tag!Reader
  <1>2. pc = "mask" /\ ByMask /\ bi \in 1..SlotCount /\ bucket = 0 /\ result = Null /\ ByMask'
    BY <1>1 DEF TagInv, TagTypes, Tag!LookAtMask, ByMask
  <1>3. UNCHANGED <<bucket, head, first, result, erased, empty>>
    BY DEF Tag!LookAtMask
  <1>4. PICK good \in BOOLEAN :
          /\ unread' = (unread \/ ~ good)
          /\ \/ /\ good /\ slots[bi].mask = asked.what
                /\ mask' = asked.what /\ pc' = "maskkey" /\ bi' = bi
             \/ /\ ~ (good /\ slots[bi].mask = asked.what)
                /\ bi' = bi + 1 /\ pc' = (IF bi < SlotCount THEN "mask" ELSE "done") /\ mask' = mask
    BY DEF Tag!LookAtMask, Tag!After, Tag!HasMask, Tag!NextSlot
  <1>5. ~ unread' => ~ unread /\ good
    BY <1>4
  <1>6. CASE good /\ slots[bi].mask = asked.what
    <2>1. mask' = asked.what /\ pc' = "maskkey" /\ bi' = bi
      BY <1>4, <1>6
    <2>2. TagTypes' /\ TagTaken' /\ MaskTaken'
      BY <1>1, <1>2, <1>3, <1>6, <2>1 DEF TagTypes, TagTaken, MaskTaken
    <2>3. calm' /\ ~ unread' => KeyKnows' /\ MaskKnows'
      BY <1>1, <1>2, <1>5, <2>1 DEF TagInv, KeyKnows, MaskKnows
    <2>4. QED
      BY <1>1, <2>2, <2>3 DEF TagInv
  <1>7. CASE ~ (good /\ slots[bi].mask = asked.what)
    <2>1. bi' = bi + 1 /\ pc' = (IF bi < SlotCount THEN "mask" ELSE "done") /\ mask' = mask
      BY <1>4, <1>7
    <2>2. calm /\ ~ unread /\ good => \A k \in 1..(bi' - 1) : slots[k].mask # asked.what
      BY <1>2, <1>7, <2>1 DEF TagInv, MaskKnows
    <2>3. /\ pc' = "mask" => bi' \in 1..SlotCount
          /\ pc' = "done" => bi' - 1 = SlotCount
      BY <1>2, <2>1, TagAssumption
    <2>4. TagTypes' /\ TagTaken' /\ MaskTaken'
      BY <1>1, <1>2, <1>3, <2>1, <2>3 DEF TagTypes, TagTaken, MaskTaken, ByMask
    <2>5. calm' /\ ~ unread' => KeyKnows' /\ MaskKnows'
      BY <1>1, <1>2, <1>3, <1>5, <2>1, <2>2, <2>3 DEF KeyKnows, MaskKnows, ByMask
    <2>6. QED
      BY <1>1, <2>4, <2>5 DEF TagInv
  <1>8. QED
    BY <1>6, <1>7

LEMMA TagLookAtMaskKey == ASSUME TagInv, Tag!LookAtMaskKey PROVE TagInv'
  <1>1. TableSound' /\ UNCHANGED <<slots, members, calm, asked>>
    BY ReaderLeaves DEF TagInv, Tag!Reader
  <1>2. pc = "maskkey" /\ ByMask /\ bi \in 1..SlotCount /\ bucket = 0 /\ result = Null /\ ByMask'
    BY <1>1 DEF TagInv, TagTypes, Tag!LookAtMaskKey, ByMask
  <1>3. UNCHANGED <<head, first, result, empty>>
    BY DEF Tag!LookAtMaskKey
  <1>4. calm => mask = asked.what /\ slots[bi].mask = asked.what
    BY <1>2 DEF TagInv, MaskTaken
  <1>5. calm /\ ~ unread => \A k \in 1..(bi - 1) : slots[k].mask # asked.what
    BY <1>2 DEF TagInv, MaskKnows
  <1>6. PICK good \in BOOLEAN :
          /\ unread' = (unread \/ ~ good)
          /\ \/ /\ good /\ slots[bi].key # Null /\ Hash[slots[bi].key] = mask
                /\ bucket' = bi /\ pc' = "done" /\ bi' = bi
             \/ /\ ~ (good /\ slots[bi].key # Null /\ Hash[slots[bi].key] = mask)
                /\ bi' = bi + 1 /\ pc' = (IF bi < SlotCount THEN "mask" ELSE "done") /\ bucket' = bucket
    BY DEF Tag!LookAtMaskKey, Tag!After, Tag!NextSlot
  <1>7. ~ unread' => ~ unread /\ good
    BY <1>6
  <1>8. CASE good /\ slots[bi].key # Null /\ Hash[slots[bi].key] = mask
    <2>1. bucket' = bi /\ pc' = "done" /\ bi' = bi
      BY <1>6, <1>8
    <2>2. TagTypes' /\ TagTaken' /\ (calm' => MaskTaken')
      BY <1>1, <1>2, <1>3, <1>4, <2>1 DEF TagTypes, TagTaken, MaskTaken, ByMask
    <2>3. calm' /\ ~ unread' => KeyKnows' /\ MaskKnows'
      BY <1>1, <1>2, <1>5, <1>7, <2>1 DEF KeyKnows, MaskKnows, ByMask
    <2>4. QED
      BY <1>1, <2>2, <2>3 DEF TagInv
  <1>9. CASE ~ (good /\ slots[bi].key # Null /\ Hash[slots[bi].key] = mask)
    <2>1. ~ (calm' /\ ~ unread')
      BY <1>1, <1>2, <1>4, <1>7, <1>9, SlotFacts DEF TagInv, ByMask
    <2>2. bi' = bi + 1 /\ pc' = (IF bi < SlotCount THEN "mask" ELSE "done") /\ bucket' = bucket
      BY <1>6, <1>9
    <2>3. pc' = "mask" => bi' \in 1..SlotCount
      BY <1>2, <2>2, TagAssumption
    <2>4. TagTypes' /\ TagTaken' /\ MaskTaken'
      BY <1>1, <1>2, <1>3, <2>2, <2>3 DEF TagTypes, TagTaken, MaskTaken, ByMask
    <2>5. QED
      BY <1>1, <2>1, <2>4 DEF TagInv
  <1>10. QED
    BY <1>8, <1>9

LEMMA TagReadHead == ASSUME TagInv, Tag!ReadHead PROVE TagInv'
  <1>1. TableSound' /\ UNCHANGED <<slots, members, calm, asked>>
    BY ReaderLeaves DEF TagInv, Tag!Reader
  <1>2. pc = "head" /\ ByTag /\ bucket \in 1..SlotCount /\ result = Null /\ ByTag'
    BY <1>1 DEF TagInv, TagTypes, Tag!ReadHead, ByTag
  <1>3. PICK good \in BOOLEAN :
          /\ unread' = (unread \/ ~ good)
          /\ head' = (IF good THEN slots[bucket].head ELSE Null)
    BY DEF Tag!ReadHead, Tag!After
  <1>4. /\ pc' = (IF head' = Null THEN "done" ELSE "first")
        /\ UNCHANGED <<bi, bucket, first, result, erased, empty>>
    BY DEF Tag!ReadHead
  <1>5. ~ unread' => ~ unread /\ good
    BY <1>3
  <1>6. slots[bucket].head \in Lists \/ slots[bucket].head = Null
    BY <1>2 DEF TagInv, TableSound, Bucket
  <1>7. Null \notin Lists
    BY TagAssumption
  <1>8. TagTypes' /\ MaskTaken'
    BY <1>1, <1>2, <1>4 DEF TagTypes, MaskTaken, ByTag
  <1>9. TagTaken'
    BY <1>1, <1>2, <1>3, <1>4, <1>6, <1>7 DEF TagInv, TagTypes, TagTaken
  <1>10. ASSUME calm, ~ unread' PROVE KeyKnows' /\ MaskKnows'
    <2>1. FirstAt(bucket) /\ FirstAt(bucket)'
      BY <1>1, <1>2, <1>4, <1>5, <1>10 DEF TagInv, KeyKnows, FirstAt
    <2>2. slots[bucket].head \in Lists
      BY <1>2, <2>1, SlotFacts DEF FirstAt, TagInv, ByTag
    <2>3. head' = slots[bucket].head /\ pc' = "first"
      BY <1>3, <1>4, <1>5, <1>7, <1>10, <2>2
    <2>4. QED
      BY <1>1, <1>4, <2>1, <2>2, <2>3 DEF KeyKnows, MaskKnows
  <1>11. QED
    BY <1>1, <1>8, <1>9, <1>10 DEF TagInv

LEMMA TagReadFirst == ASSUME TagInv, Tag!ReadFirst PROVE TagInv'
  <1>1. TableSound' /\ UNCHANGED <<slots, members, calm, asked>>
    BY ReaderLeaves DEF TagInv, Tag!Reader
  <1>2. pc = "first" /\ ByTag /\ bucket \in 1..SlotCount /\ result = Null /\ ByTag'
    BY <1>1 DEF TagInv, TagTypes, Tag!ReadFirst, ByTag
  <1>3. PICK good \in BOOLEAN :
          /\ unread' = (unread \/ ~ good)
          /\ first' = (IF good THEN Tag!NextOf(head) ELSE Null)
    BY DEF Tag!ReadFirst, Tag!After
  <1>4. /\ empty' = (first' = head) /\ pc' = (IF first' = Null THEN "done" ELSE "native")
        /\ UNCHANGED <<bi, bucket, head, result, erased>>
    BY DEF Tag!ReadFirst
  <1>5. ~ unread' => ~ unread /\ good
    BY <1>3
  <1>6. TagTypes' /\ MaskTaken'
    BY <1>1, <1>2, <1>4 DEF TagTypes, MaskTaken, ByTag
  <1>7. TagTaken'
    <2>1. CASE erased \/ pc' = "done"
      BY <1>2, <1>4, <2>1 DEF TagTaken
    <2>2. CASE ~ erased /\ pc' # "done"
      <3>1. /\ Tag!InUse(slots[bucket]) /\ slots[bucket].key = asked.what
            /\ head = slots[bucket].head /\ head \in Lists
        BY <1>2, <2>2 DEF TagInv, TagTaken
      <3>2. first' = Tag!NextOf(head) /\ pc' = "native"
        BY <1>3, <1>4, <2>2
      <3>3. CASE members[head] = <<>>
        BY <1>1, <1>2, <1>4, <3>1, <3>2, <3>3 DEF TagTaken, Tag!NextOf, Tag!InUse
      <3>4. CASE members[head] # <<>>
        <4>1. members[head] \in Seq(TagObjects)
          BY <3>1 DEF TagInv, TableSound
        <4>2. 1 \in 1..Len(members[head]) /\ members[head][1] \in TagObjects
              /\ Head(members[head]) = members[head][1]
          BY <3>4, <4>1
        <4>3. TagOf[members[head][1]] = asked.what
          BY <1>2, <3>1, <4>2 DEF TagInv, TableSound
        <4>4. first' \in TagObjects /\ TagOf[first'] = asked.what
          BY <3>2, <3>4, <4>2, <4>3 DEF Tag!NextOf
        <4>5. QED
          BY <1>1, <1>2, <1>4, <3>1, <3>2, <4>4 DEF TagTaken, Tag!InUse
      <3>5. QED
        BY <3>3, <3>4
    <2>3. QED
      BY <2>1, <2>2
  <1>8. ASSUME calm, ~ unread' PROVE KeyKnows' /\ MaskKnows'
    <2>1. /\ FirstAt(bucket) /\ FirstAt(bucket)' /\ head = slots[bucket].head /\ head \in Lists
          /\ first' = Tag!NextOf(head) /\ Tag!NextOf(head)' = Tag!NextOf(head)
      BY <1>1, <1>2, <1>3, <1>4, <1>5, <1>8 DEF TagInv, KeyKnows, FirstAt, Tag!NextOf
    <2>2. first' # Null
      <3>1. CASE members[head] = <<>>
        BY <2>1, <3>1, TagAssumption DEF Tag!NextOf
      <3>2. CASE members[head] # <<>>
        <4>1. members[head] \in Seq(TagObjects)
          BY <2>1 DEF TagInv, TableSound
        <4>2. first' \in TagObjects
          BY <2>1, <3>2, <4>1 DEF Tag!NextOf
        <4>3. QED
          BY <4>2, TagAssumption
      <3>3. QED
        BY <3>1, <3>2
    <2>3. pc' = "native"
      BY <1>4, <2>2
    <2>4. QED
      BY <1>1, <1>4, <2>1, <2>3 DEF KeyKnows, MaskKnows
  <1>9. QED
    BY <1>1, <1>6, <1>7, <1>8 DEF TagInv

LEMMA TagReadNative == ASSUME TagInv, Tag!ReadNative PROVE TagInv'
  <1>1. TableSound' /\ UNCHANGED <<slots, members, calm, asked>>
    BY ReaderLeaves DEF TagInv, Tag!Reader
  <1>2. pc = "native" /\ ByTag /\ bucket \in 1..SlotCount /\ result = Null /\ ByTag'
    BY <1>1 DEF TagInv, TagTypes, Tag!ReadNative, ByTag
  <1>3. PICK good \in BOOLEAN :
          /\ unread' = (unread \/ ~ good)
          /\ result' = IF ~ good THEN Null ELSE IF first \in Lists THEN HeadWord[first] ELSE first
    BY DEF Tag!ReadNative, Tag!After
  <1>4. pc' = "done" /\ UNCHANGED <<bi, bucket, head, first, erased, empty>>
    BY DEF Tag!ReadNative
  <1>5. ~ unread' => ~ unread /\ good
    BY <1>3
  <1>6. TagTypes' /\ MaskTaken'
    BY <1>1, <1>2, <1>4 DEF TagTypes, MaskTaken, ByTag
  <1>7. TagTaken'
    BY <1>1, <1>2, <1>3, <1>4, TagAssumption DEF TagInv, TagTaken
  <1>8. ASSUME calm, ~ unread' PROVE KeyKnows' /\ MaskKnows'
    <2>1. /\ FirstAt(bucket) /\ head = slots[bucket].head /\ head \in Lists
          /\ first = Tag!NextOf(head)
          /\ result' = IF first \in Lists THEN HeadWord[first] ELSE first
      BY <1>2, <1>3, <1>5, <1>8 DEF TagInv, KeyKnows
    <2>2. result' = FirstOf(head)
      <3>1. CASE members[head] = <<>>
        BY <2>1, <3>1 DEF FirstOf, Tag!NextOf
      <3>2. CASE members[head] # <<>>
        <4>1. members[head] \in Seq(TagObjects)
          BY <2>1 DEF TagInv, TableSound
        <4>2. members[head][1] \in TagObjects /\ Head(members[head]) = members[head][1]
          BY <3>2, <4>1
        <4>3. QED
          BY <2>1, <3>2, <4>2, TagAssumption DEF FirstOf, Tag!NextOf
      <3>3. QED
        BY <3>1, <3>2
    <2>3. QED
      BY <1>1, <1>2, <1>4, <2>1, <2>2 DEF KeyKnows, MaskKnows, FirstAt, FirstOf, ByTag
  <1>9. QED
    BY <1>1, <1>6, <1>7, <1>8 DEF TagInv

LEMMA TagNextKeeps == TagInv /\ [Tag!Next]_(Tag!vars) => TagInv'
  <1> SUFFICES ASSUME TagInv, [Tag!Next]_(Tag!vars) PROVE TagInv'
    OBVIOUS
  <1>1. CASE UNCHANGED Tag!vars
    <2>1. TableSound'
      BY <1>1, TableStays DEF TagInv, Tag!vars
    <2>2. QED
      BY <1>1, <2>1 DEF TagInv, Tag!vars, Tag!locals, TagTypes, TagTaken, KeyKnows, MaskKnows, MaskTaken, ByTag,
        ByMask, FirstAt, FirstOf, Tag!InUse, Tag!NextOf
  <1>2. QED
    BY <1>1, TagTargetStep, TagBegin, TagReturn, TagLookAtKey, TagLookAtMask, TagLookAtMaskKey, TagReadHead,
      TagReadFirst, TagReadNative DEF Tag!Next, Tag!Reader

LEMMA TagAnswers == TagInv => Tag!TagFound /\ Tag!WrongOnlyFromErasedOrEmpty /\ Tag!MaskFound
  <1> SUFFICES ASSUME TagInv PROVE Tag!TagFound /\ Tag!WrongOnlyFromErasedOrEmpty /\ Tag!MaskFound
    OBVIOUS
  <1>1. ASSUME pc = "done", calm, ~ unread, asked.by = "tag"
        PROVE  /\ \A k \in 1..SlotCount :
                    Tag!TaggedBy(k, asked.what) /\ members[slots[k].head] # <<>> =>
                      result = members[slots[k].head][1]
               /\ (\A k \in 1..SlotCount : slots[k].key # asked.what) => result = Null
    <2>1. \/ result = Null /\ \A k \in 1..SlotCount : slots[k].key # asked.what
          \/ FirstAt(bucket) /\ result = FirstOf(slots[bucket].head)
      BY <1>1 DEF TagInv, KeyKnows
    <2>2. ASSUME FirstAt(bucket), NEW k \in 1..SlotCount, Tag!TaggedBy(k, asked.what)
          PROVE  k = bucket
      <3>1. k \in Int /\ bucket \in Int /\ 1 <= k /\ 1 <= bucket
        BY <2>2, TagAssumption DEF FirstAt
      <3>2. ~ (k < bucket) /\ ~ (bucket < k)
        BY <2>2, <3>1 DEF FirstAt, Tag!TaggedBy
      <3>3. QED
        BY <3>1, <3>2
    <2>3. QED
      BY <2>1, <2>2 DEF Tag!TaggedBy, FirstAt, FirstOf
  <1>2. Tag!TagFound
    BY <1>1 DEF Tag!TagFound
  <1>3. Tag!WrongOnlyFromErasedOrEmpty
    BY DEF TagInv, TagTaken, Tag!WrongOnlyFromErasedOrEmpty
  <1>4. Tag!MaskFound
    <2> SUFFICES ASSUME pc = "done", calm, asked.by = "mask",
                        NEW found, found = {k \in 1..SlotCount : slots[k].mask = asked.what}
                 PROVE  /\ bucket = 0 \/ bucket \in found
                        /\ ~ unread => IF found = {} THEN bucket = 0 ELSE \A k \in found : bucket \in 1..k
      BY DEF Tag!MaskFound
    <2>1. bucket = 0 \/ bucket \in found
      BY DEF TagInv, MaskTaken
    <2>2. ASSUME ~ unread PROVE IF found = {} THEN bucket = 0 ELSE \A k \in found : bucket \in 1..k
      <3>1. \/ bucket = 0 /\ found = {}
            \/ bucket \in 1..SlotCount /\ \A k \in 1..(bucket - 1) : slots[k].mask # asked.what
        BY <2>2 DEF TagInv, MaskKnows
      <3>2. ASSUME bucket \in 1..SlotCount, \A k \in 1..(bucket - 1) : slots[k].mask # asked.what,
                   NEW k \in found
            PROVE  bucket \in 1..k
        <4>1. k \in Int /\ bucket \in Int /\ 1 <= bucket /\ 1 <= k /\ slots[k].mask = asked.what
          BY <3>2, TagAssumption
        <4>2. ~ (k < bucket)
          BY <3>2, <4>1
        <4>3. QED
          BY <4>1, <4>2
      <3>3. found = {} => bucket = 0
        BY <2>1
      <3>4. QED
        BY <3>1, <3>2, <3>3
    <2>3. QED
      BY <2>1, <2>2
  <1>5. QED
    BY <1>2, <1>3, <1>4

(***************************************************************************)
(* However many tags, objects and slots there are: a search for a tag      *)
(* whose reads are all good, in a table that stands still, finds the first *)
(* object of the first slot with its key if that slot is in use and has    *)
(* one, a search for a mask the first slot in use with a tag of that hash; *)
(* and whatever the target does meanwhile and whichever reads fail, what   *)
(* is not an object of the tag comes from an erased slot or an empty list. *)
(***************************************************************************)
THEOREM TagIsAnswered == Spec => []TagAnswered
  <1> DEFINE IInv == world = "tag" => TagInv
  <1>1. Init => IInv
    BY TagStarts DEF Init, WalkInit, CandidateInit, TagInit, LocateInit
  <1>2. IInv /\ [Next]_vars => IInv'
    <2> SUFFICES ASSUME IInv, [Next]_vars, world' = "tag" PROVE TagInv'
      OBVIOUS
    <2>1. world = "tag" /\ [Tag!Next]_(Tag!vars)
      BY DEF Next, WalkNext, WalkOthers, CandidateNext, TagNext, LocateNext, vars, tagVars, Tag!vars, Tag!locals
    <2>2. QED
      BY <2>1, TagNextKeeps
  <1>3. IInv => TagAnswered
    BY TagAnswers DEF TagAnswered
  <1>4. QED
    BY <1>1, <1>2, <1>3, PTL DEF Spec

(***************************************************************************)
(* GomLocate: what memory holds.                                           *)
(***************************************************************************)
Holding(v) == {p \in Locate!Places : Locate!Readable(p) /\ word[p] = v}
WantedHolding(v) == {p \in Locate!Places : Locate!Wanted(p) /\ word[p] = v}

\* A table with the known bucket in it, and one with every such bucket that
\* the search upwards from each of them ends at.
SeededTable(t) ==
  /\ t \in Locate!Places /\ Locate!IsTable(t)
  /\ \E k \in 0..MaxUp : (t + k * Stride) \in Holding(Seed)

LoneTable(t) ==
  /\ t \in Locate!Places /\ Locate!IsTable(t) /\ Holding(Seed) # {}
  /\ Locate!Cardinality(Holding(t)) <= CandidateLimit
  /\ \A p \in Holding(Seed) :
       /\ Locate!HeadOf(p) \in Likely \cup Preferred
       /\ \E k \in 0..MaxUp : p = t + k * Stride
       /\ \A q \in (t + 1)..p : ~ Locate!IsTable(q)

\* No word leads to a manager of the only table.
NoChain == \A t \in Locate!Places : LoneTable(t) => \A m \in Holding(t) : Holding(m) = {}

Tried(p) == Locate!MayBeManager(p) /\ Locate!ScoreOf(p) > 0

\* The best of the words before p.
BestBefore(p) ==
  \/ bestScore = 0 /\ slot = 0 /\ \A q \in 1..(p - 1) : ~ Tried(q)
  \/ /\ slot \in 1..(p - 1) /\ Tried(slot) /\ bestScore = Locate!ScoreOf(slot)
     /\ \A q \in 1..(p - 1) :
          Tried(q) => /\ Locate!ScoreOf(q) <= bestScore
                      /\ Locate!ScoreOf(q) = bestScore => slot <= q

MemoryTyped == word \in Seq(Nat) /\ \A p \in 1..Len(word) : score[p] \in 0..MaxScore

SameMemory == UNCHANGED <<word, parts, score>>

LEMMA MemoryStays ==
  ASSUME SameMemory
  PROVE  /\ MemoryTyped' = MemoryTyped /\ Locate!Places' = Locate!Places
         /\ \A p : Locate!Readable(p)' = Locate!Readable(p) /\ Locate!Wanted(p)' = Locate!Wanted(p)
         /\ \A p : Locate!IsTable(p)' = Locate!IsTable(p) /\ Locate!HeadOf(p)' = Locate!HeadOf(p)
         /\ \A p : Locate!MayBeManager(p)' = Locate!MayBeManager(p) /\ Locate!ScoreOf(p)' = Locate!ScoreOf(p)
  <1>1. word' = word /\ parts' = parts /\ score' = score
    BY DEF SameMemory
  <1>2. Locate!Places' = Locate!Places
    BY <1>1 DEF Locate!Places
  <1>3. \A p : Locate!PartOf(p)' = Locate!PartOf(p)
    BY <1>1 DEF Locate!PartOf
  <1>4. \A p : Locate!Readable(p)' = Locate!Readable(p)
    BY <1>2, <1>3 DEF Locate!Readable
  <1>5. \A p : Locate!Wanted(p)' = Locate!Wanted(p)
    BY <1>3, <1>4 DEF Locate!Wanted
  <1>6. \A p : Locate!InModule(p)' = Locate!InModule(p)
    BY <1>2, <1>3 DEF Locate!InModule
  <1>7. \A p : Locate!IsTable(p)' = Locate!IsTable(p) /\ Locate!HeadOf(p)' = Locate!HeadOf(p)
    BY <1>1, <1>4 DEF Locate!IsTable, Locate!HeadOf
  <1>8. \A p : Locate!MayBeManager(p)' = Locate!MayBeManager(p) /\ Locate!ScoreOf(p)' = Locate!ScoreOf(p)
    BY <1>1, <1>2, <1>3, <1>5, <1>6 DEF Locate!MayBeManager, Locate!ScoreOf
  <1>9. MemoryTyped' = MemoryTyped
    BY <1>1 DEF MemoryTyped
  <1>10. QED
    BY <1>2, <1>4, <1>5, <1>7, <1>8, <1>9

LEMMA HoldingStays ==
  ASSUME SameMemory
  PROVE  /\ \A v : Holding(v)' = Holding(v) /\ WantedHolding(v)' = WantedHolding(v)
         /\ \A t : SeededTable(t)' = SeededTable(t) /\ LoneTable(t)' = LoneTable(t)
         /\ NoChain' = NoChain
         /\ \A p : Tried(p)' = Tried(p)
  <1>1. word' = word
    BY DEF SameMemory
  <1>2. \A v : Holding(v)' = Holding(v) /\ WantedHolding(v)' = WantedHolding(v)
    BY <1>1, MemoryStays DEF Holding, WantedHolding
  <1>3. \A v : Locate!Cardinality(Holding(v))' = Locate!Cardinality(Holding(v))
    BY <1>2
  <1>4. \A t : SeededTable(t)' = SeededTable(t)
    BY <1>2, MemoryStays DEF SeededTable
  <1>5. \A t : LoneTable(t)' = LoneTable(t)
    BY <1>2, <1>3, MemoryStays DEF LoneTable
  <1>6. NoChain' = NoChain
    BY <1>2, <1>5, MemoryStays DEF NoChain
  <1>7. \A p : Tried(p)' = Tried(p)
    BY MemoryStays DEF Tried
  <1>8. QED
    BY <1>2, <1>4, <1>5, <1>6, <1>7

LEMMA HoldingFacts ==
  ASSUME MemoryTyped, NEW v
  PROVE  /\ Holding(v) \subseteq 1..Len(word) /\ Len(word) \in Nat /\ Locate!Places = 1..Len(word)
         /\ WantedHolding(v) \subseteq Holding(v)
         /\ \A p \in Holding(v) : word[p] = v /\ p \in Nat /\ p # 0
         /\ \A p \in Locate!Places : word[p] \in Nat
         /\ \A p \in Locate!Places : Locate!Wanted(p) => Locate!Readable(p)
  BY DEF MemoryTyped, Holding, WantedHolding, Locate!Places, Locate!Wanted

(***************************************************************************)
(* A scan for a word.                                                      *)
(***************************************************************************)
Scans == {"seeds", "tables", "slots", "anyslots"}

ScanSet == IF pc = "slots" THEN WantedHolding(value) ELSE Holding(value)

\* hits are the places passed that hold the value, in order.
ScanKnows ==
  /\ at \in 1..(Len(word) + 1) /\ hits \in Seq(Nat)
  /\ \A k \in 1..Len(hits) : hits[k] \in ScanSet /\ hits[k] < at
  /\ \A p \in ScanSet : p < at => \E k \in 1..Len(hits) : hits[k] = p
  /\ \A j, k \in 1..Len(hits) : j < k => hits[j] < hits[k]

LEMMA LimitFacts == Locate!Limit \in Nat \ {0} /\ (pc = "tables" => Locate!Limit = CandidateLimit)
  BY LocateAssumption DEF Locate!Limit

NoWordYet == at = 1 /\ hits = <<>>

LEMMA ScanStarts == MemoryTyped /\ NoWordYet => ScanKnows
  <1> SUFFICES ASSUME MemoryTyped, at = 1, hits = <<>> PROVE ScanKnows
    BY DEF NoWordYet
  <1>1. Len(word) \in Nat
    BY DEF MemoryTyped
  <1>2. ScanSet \subseteq 1..Len(word)
    BY HoldingFacts DEF ScanSet
  <1>3. hits \in Seq(Nat) /\ Len(hits) = 0
    OBVIOUS
  <1>4. \A p \in ScanSet : ~ (p < at)
    BY <1>1, <1>2
  <1>5. QED
    BY <1>1, <1>3, <1>4 DEF ScanKnows

LEMMA ScanGoesOn ==
  ASSUME MemoryTyped, ScanKnows, Locate!ScanWord PROVE ScanKnows' /\ UNCHANGED <<pc, value, cands>>
  <1>1. /\ pc \in Scans /\ at' = at + 1 /\ SameMemory /\ UNCHANGED <<pc, value, cands>>
        /\ ~ (at > Len(word))
        /\ hits' = IF Locate!Covered(at) /\ word[at] = value THEN Append(hits, at) ELSE hits
    BY DEF Locate!ScanWord, Locate!ScanIsOver, Locate!Memory, SameMemory, Scans
  <1>2. Len(word) \in Nat /\ at \in 1..Len(word) /\ word' = word /\ Len(hits) \in Nat
    BY <1>1 DEF MemoryTyped, ScanKnows, SameMemory
  <1>3. ScanSet' = ScanSet
    BY <1>1, HoldingStays DEF ScanSet
  <1>4. at \in ScanSet <=> Locate!Covered(at) /\ word[at] = value
    BY <1>1, <1>2 DEF ScanSet, Holding, WantedHolding, Locate!Covered, Locate!Places
  <1>5. ScanSet \subseteq 1..Len(word)
    BY HoldingFacts DEF ScanSet
  <1>6. CASE at \in ScanSet
    <2>0. \A k \in 1..Len(hits) : hits[k] \in Nat
      BY DEF ScanKnows
    <2>1. hits' = Append(hits, at)
      BY <1>1, <1>4, <1>6
    <2>2. /\ hits' \in Seq(Nat) /\ Len(hits') = Len(hits) + 1 /\ hits'[Len(hits) + 1] = at
          /\ \A k \in 1..Len(hits) : hits'[k] = hits[k]
      BY <1>2, <2>1 DEF ScanKnows
    <2>3. ASSUME NEW k \in 1..Len(hits') PROVE hits'[k] \in ScanSet /\ hits'[k] < at + 1
      <3>1. k \in 1..Len(hits) \/ k = Len(hits) + 1
        BY <1>2, <2>2
      <3>2. CASE k \in 1..Len(hits)
        <4>1. hits'[k] = hits[k] /\ hits[k] \in ScanSet /\ hits[k] < at
          BY <3>2, <2>2 DEF ScanKnows
        <4>2. hits[k] \in Nat
          BY <3>2, <2>0
        <4>3. QED
          BY <4>1, <4>2, <1>2
      <3>3. CASE k = Len(hits) + 1
        BY <3>3, <2>2, <1>2, <1>6
      <3>4. QED
        BY <3>1, <3>2, <3>3
    <2>4. ASSUME NEW p \in ScanSet, p < at + 1 PROVE \E k \in 1..Len(hits') : hits'[k] = p
      <3>1. p = at \/ p < at
        BY <2>4, <1>2, <1>5
      <3>2. CASE p = at
        BY <3>2, <2>2, <1>2
      <3>3. CASE p < at
        <4>1. PICK k \in 1..Len(hits) : hits[k] = p
          BY <3>3 DEF ScanKnows
        <4>2. k \in 1..Len(hits') /\ hits'[k] = p
          BY <4>1, <2>2, <1>2
        <4>3. QED
          BY <4>2
      <3>4. QED
        BY <3>1, <3>2, <3>3
    <2>5. ASSUME NEW j \in 1..Len(hits'), NEW k \in 1..Len(hits'), j < k PROVE hits'[j] < hits'[k]
      <3>1. j \in 1..Len(hits) /\ (k \in 1..Len(hits) \/ k = Len(hits) + 1)
        BY <1>2, <2>2, <2>5
      <3>2. hits'[j] = hits[j] /\ hits[j] < at
        BY <3>1, <2>2 DEF ScanKnows
      <3>3. CASE k \in 1..Len(hits)
        BY <2>5, <3>1, <3>2, <3>3, <2>2 DEF ScanKnows
      <3>4. CASE k = Len(hits) + 1
        BY <3>2, <3>4, <2>2
      <3>5. QED
        BY <3>1, <3>3, <3>4
    <2>6. QED
      BY <1>1, <1>2, <1>3, <2>2, <2>3, <2>4, <2>5 DEF ScanKnows
  <1>7. CASE at \notin ScanSet
    <2>1. hits' = hits
      BY <1>1, <1>4, <1>7
    <2>2. \A p \in ScanSet : p < at + 1 => p < at
      BY <1>2, <1>5, <1>7
    <2>3. \A k \in 1..Len(hits) : hits[k] \in ScanSet /\ hits[k] < at + 1
      <3>1. \A k \in 1..Len(hits) : hits[k] \in ScanSet /\ hits[k] < at /\ hits[k] \in Nat
        BY DEF ScanKnows
      <3>2. QED
        BY <3>1, <1>2
    <2>4. QED
      BY <1>1, <1>2, <1>3, <2>1, <2>2, <2>3 DEF ScanKnows
  <1>8. QED
    BY <1>1, <1>6, <1>7

LEMMA ScanEnds ==
  ASSUME MemoryTyped, ScanKnows, Locate!ScanIsOver
  PROVE  /\ hits = <<>> => ScanSet = {}
         /\ hits # <<>> => Head(hits) = hits[1] /\ hits[1] \in ScanSet /\ 1 \in 1..Len(hits)
  <1>1. Len(word) \in Nat /\ at \in 1..(Len(word) + 1) /\ ScanSet \subseteq 1..Len(word)
    BY HoldingFacts DEF ScanSet, MemoryTyped, ScanKnows
  <1>2. ASSUME hits = <<>> PROVE ScanSet = {}
    <2>1. Len(hits) = 0
      BY <1>2
    <2>2. at > Len(word)
      BY <1>1, <2>1, LimitFacts DEF Locate!ScanIsOver
    <2>3. \A p \in ScanSet : FALSE
      BY <1>1, <2>1, <2>2 DEF ScanKnows
    <2>4. QED
      BY <2>3
  <1>3. ASSUME hits # <<>> PROVE Head(hits) = hits[1] /\ hits[1] \in ScanSet /\ 1 \in 1..Len(hits)
    <2>1. 1 \in 1..Len(hits) /\ Head(hits) = hits[1]
      BY <1>3 DEF ScanKnows
    <2>2. QED
      BY <2>1 DEF ScanKnows
  <1>4. QED
    BY <1>2, <1>3

LEMMA CardinalityIs == \A S : Locate!Cardinality(S) = Cardinality(S)
  BY Zenon DEF Locate!Cardinality, Cardinality

\* A scan whose limit is not below the number of places finds all of them.
LEMMA ScanComplete ==
  ASSUME MemoryTyped, ScanKnows, Locate!ScanIsOver, Locate!Cardinality(ScanSet) <= Locate!Limit
  PROVE  \A p \in ScanSet : \E k \in 1..Len(hits) : hits[k] = p
  <1>1. Len(word) \in Nat /\ at \in 1..(Len(word) + 1) /\ ScanSet \subseteq 1..Len(word) /\ Len(hits) \in Nat
    BY HoldingFacts DEF ScanSet, MemoryTyped, ScanKnows
  <1>2. CASE at > Len(word)
    BY <1>1, <1>2 DEF ScanKnows
  <1>3. CASE Len(hits) >= Locate!Limit
    <2> DEFINE S == ScanSet
               n == Len(hits)
    <2>1. IsFiniteSet(1..Len(word))
      BY <1>1, FS_Interval
    <2>2. IsFiniteSet(S) /\ Cardinality(S) \in Nat
      BY <1>1, <2>1, FS_Subset, FS_CardinalityType
    <2>3. hits \in [1..n -> S]
      BY DEF ScanKnows
    <2>4. \A j, k \in 1..n : hits[j] = hits[k] => j = k
      <3>1. SUFFICES ASSUME NEW j \in 1..n, NEW k \in 1..n, hits[j] = hits[k] PROVE j = k
        OBVIOUS
      <3>2. hits[j] \in Nat /\ hits[k] \in Nat
        BY DEF ScanKnows
      <3>3. ~ (j < k) /\ ~ (k < j)
        BY <3>1, <3>2 DEF ScanKnows
      <3>4. QED
        BY <3>3, <1>1
    <2>5. hits \in Injection(1..n, S)
      <3>1. DOMAIN hits = 1..n
        BY <2>3
      <3>2. IsInjective(hits)
        BY <2>4, <3>1 DEF IsInjective
      <3>3. QED
        BY <2>3, <3>2 DEF Injection
    <2>6. Cardinality(1..n) = n
      <3>1. 1 \in Int /\ n \in Int /\ n \in Nat
        BY <1>1
      <3> HIDE DEF n
      <3>2. Cardinality(1..n) = IF 1 > n THEN 0 ELSE n - 1 + 1
        BY <3>1, FS_Interval
      <3>3. QED
        BY <3>1, <3>2
    <2>7. Cardinality(S) <= n
      BY <1>1, <1>3, <2>2, LimitFacts, CardinalityIs
    <2>8. Cardinality(1..n) <= Cardinality(S) /\ (Cardinality(1..n) = Cardinality(S) <=> hits \in Surjection(1..n, S))
      BY <2>2, <2>5, FS_Injection
    <2>9. hits \in Surjection(1..n, S)
      BY <1>1, <2>2, <2>6, <2>7, <2>8
    <2>10. QED
      BY <2>9 DEF Surjection
  <1>4. QED
    BY <1>2, <1>3 DEF Locate!ScanIsOver

(***************************************************************************)
(* GomLocate: what the search knows of a target that stands still, stage   *)
(* by stage.                                                               *)
(***************************************************************************)
NothingYet == bestScore = 0 /\ slot = 0 /\ way = "none"

SelectKnows ==
  /\ hits \in Seq(Nat) /\ \A k \in 1..Len(hits) : hits[k] \in Holding(Seed)
  /\ bestSeed = 0 \/ bestSeed \in Holding(Seed)
  /\ hits = <<>> /\ bestSeed = 0 => NoChain

UpKnows ==
  /\ bestSeed \in Holding(Seed) /\ up \in Nat
  /\ \A t \in Locate!Places :
       LoneTable(t) => \E k \in 0..MaxUp : bestSeed = t + k * Stride /\ up <= k

TablesKnows ==
  /\ SeededTable(value)
  /\ \A t \in Locate!Places : LoneTable(t) => t = value

CandsKnow ==
  /\ cands \in Seq(Nat) /\ cands # <<>>
  /\ \E t \in Locate!Places : SeededTable(t) /\ \A k \in 1..Len(cands) : cands[k] \in Holding(t)
  /\ \A t \in Locate!Places : LoneTable(t) =>
       \A m \in Holding(t) : (\E k \in 1..Len(cands) : cands[k] = m) \/ Holding(m) = {}

ReadKnows ==
  /\ hits \in Seq(Nat) /\ hits # <<>>
  /\ \A k \in 1..Len(hits) : /\ hits[k] \in Holding(cands[1])
                             /\ Locate!Wanted(hits[k]) \/ WantedHolding(cands[1]) = {}

SectionsKnow == NoChain /\ way # "chain" /\ at \in 1..(Len(word) + 1) /\ BestBefore(at)

DoneKnows ==
  \/ /\ way = "chain"
     /\ \E m, t \in Locate!Places : slot \in Holding(m) /\ m \in Holding(t) /\ SeededTable(t)
     /\ Locate!Wanted(slot) \/ WantedHolding(word[slot]) = {}
  \/ way # "chain" /\ NoChain /\ BestBefore(Len(word) + 1)

Stages == {"seeds", "select", "up", "tables", "slots", "anyslots", "readback", "sections", "done"}

StageKnows ==
  /\ MemoryTyped /\ pc \in Stages
  /\ pc \notin {"sections", "done"} => NothingYet
  /\ pc \in Scans => ScanKnows
  /\ pc = "seeds" => value = Seed /\ bestSeed = 0
  /\ pc = "select" => SelectKnows
  /\ pc = "up" => UpKnows
  /\ pc = "tables" => TablesKnows
  /\ pc \in {"slots", "anyslots", "readback"} => CandsKnow
  /\ pc \in {"slots", "anyslots"} => value = cands[1]
  /\ pc = "anyslots" => WantedHolding(cands[1]) = {}
  /\ pc = "readback" => ReadKnows
  /\ pc = "sections" => SectionsKnow
  /\ pc = "done" => DoneKnows

LocateInv == calm => StageKnows

LEMMA LocateStarts == Locate!Init => LocateInv
  <1> SUFFICES ASSUME Locate!Init PROVE StageKnows
    BY DEF LocateInv
  <1>1. /\ pc = "seeds" /\ value = Seed /\ at = 1 /\ hits = <<>> /\ bestSeed = 0 /\ NothingYet
        /\ \E input \in Inputs : word = input.word /\ score = input.score
    BY DEF Locate!Init, NothingYet
  <1>2. MemoryTyped
    BY <1>1, LocateAssumption DEF MemoryTyped
  <1>3. ScanKnows
    BY <1>1, <1>2, ScanStarts DEF NoWordYet
  <1>4. QED
    BY <1>1, <1>2, <1>3 DEF StageKnows, Stages

\* A scan has started; the section heuristic has.
LEMMA ScanStartsThen == MemoryTyped' /\ NoWordYet' => ScanKnows'
  <1>1. MemoryTyped /\ NoWordYet => ScanKnows
    BY ScanStarts
  <1>2. QED
    BY <1>1, PTL

LEMMA ScanStarted ==
  ASSUME MemoryTyped, SameMemory, NEW p, NEW v, Locate!StartScan(p, v)
  PROVE  MemoryTyped' /\ pc' = p /\ value' = v /\ ScanKnows'
  <1>1. pc' = p /\ value' = v /\ at' = 1 /\ hits' = <<>>
    BY DEF Locate!StartScan
  <1>2. MemoryTyped'
    BY MemoryStays
  <1>3. QED
    BY <1>1, <1>2, ScanStartsThen DEF NoWordYet

LEMMA SectionsEntered ==
  ASSUME StageKnows, pc \notin {"sections", "done"}, NoChain, SameMemory, Locate!GoToSections
  PROVE  StageKnows'
  <1>1. /\ pc' = "sections" /\ at' = 1 /\ UNCHANGED <<bestScore, slot, way>>
    BY DEF Locate!GoToSections, Locate!StartScan
  <1>2. MemoryTyped' /\ NoChain' /\ Len(word') \in Nat
    BY MemoryStays, HoldingStays DEF StageKnows, MemoryTyped
  <1>3. bestScore' = 0 /\ slot' = 0 /\ way' = "none"
    BY <1>1 DEF StageKnows, NothingYet
  <1>4. BestBefore(at)'
    BY <1>1, <1>3 DEF BestBefore
  <1>5. SectionsKnow'
    BY <1>1, <1>2, <1>3, <1>4 DEF SectionsKnow
  <1>6. QED
    BY <1>1, <1>2, <1>5 DEF StageKnows, Stages, Scans

LEMMA KnowsScanWord == ASSUME StageKnows, Locate!ScanWord PROVE StageKnows'
  <1>1. pc \in Scans /\ SameMemory /\ UNCHANGED <<bestSeed, bestScore, slot, way>>
    BY DEF Locate!ScanWord, Locate!Memory, SameMemory, Scans
  <1>2. ScanKnows' /\ UNCHANGED <<pc, value, cands>>
    BY <1>1, ScanGoesOn DEF StageKnows
  <1>3. MemoryTyped'
    BY <1>1, MemoryStays DEF StageKnows
  <1>4. TablesKnows' = TablesKnows /\ CandsKnow' = CandsKnow /\ NothingYet' = NothingYet
    <2>1. cands' = cands /\ value' = value
      BY <1>2
    <2>2. QED
      BY <1>1, <2>1, MemoryStays, HoldingStays DEF TablesKnows, CandsKnow, NothingYet
  <1>5. WantedHolding(cands[1])' = WantedHolding(cands[1])
    BY <1>1, <1>2, HoldingStays DEF WantedHolding
  <1>6. QED
    BY <1>1, <1>2, <1>3, <1>4, <1>5 DEF StageKnows, Scans

LEMMA KnowsSeedsFound == ASSUME StageKnows, Locate!SeedsFound PROVE StageKnows'
  <1>1. pc = "seeds" /\ SameMemory /\ Locate!ScanIsOver /\ bestSeed' = bestSeed
    BY DEF Locate!SeedsFound, Locate!Memory, SameMemory
  <1>2. MemoryTyped /\ ScanKnows /\ value = Seed /\ bestSeed = 0 /\ NothingYet /\ ScanSet = Holding(Seed)
    BY <1>1 DEF StageKnows, Scans, ScanSet
  <1>3. CASE hits = <<>>
    <2>1. Holding(Seed) = {}
      BY <1>1, <1>2, <1>3, ScanEnds
    <2>2. NoChain
      BY <2>1 DEF NoChain, LoneTable
    <2>3. Locate!GoToSections
      BY <1>3 DEF Locate!SeedsFound
    <2>4. QED
      BY <1>1, <2>2, <2>3, SectionsEntered
  <1>4. CASE hits # <<>>
    <2>1. pc' = "select" /\ UNCHANGED <<hits, bestScore, slot, way>>
      BY <1>4 DEF Locate!SeedsFound
    <2>2. MemoryTyped' /\ NothingYet'
      BY <1>1, <1>2, <2>1, MemoryStays DEF NothingYet
    <2>3. Holding(Seed)' = Holding(Seed)
      BY <1>1, HoldingStays
    <2>4. SelectKnows'
      BY <1>1, <1>2, <1>4, <2>1, <2>3 DEF SelectKnows, ScanKnows
    <2>5. QED
      BY <2>1, <2>2, <2>4 DEF StageKnows, Stages, Scans
  <1>5. QED
    BY <1>3, <1>4

LEMMA KnowsSelectSeed == ASSUME StageKnows, Locate!SelectSeed PROVE StageKnows'
  <1> DEFINE h == Locate!HeadOf(Head(hits))
  <1>1. /\ pc = "select" /\ hits # <<>> /\ SameMemory /\ UNCHANGED <<pc, bestScore, slot, way>>
        /\ bestSeed' = IF h \in Preferred \/ (h \in Likely /\ bestSeed = 0) THEN Head(hits) ELSE bestSeed
        /\ hits' = IF h \in Preferred THEN <<>> ELSE Tail(hits)
    BY DEF Locate!SelectSeed, Locate!Memory, SameMemory
  <1>2. MemoryTyped /\ SelectKnows /\ NothingYet
    BY <1>1 DEF StageKnows
  <1>3. MemoryTyped' /\ NothingYet' /\ Holding(Seed)' = Holding(Seed) /\ NoChain' = NoChain
    BY <1>1, <1>2, MemoryStays, HoldingStays DEF NothingYet
  <1>4. Head(hits) = hits[1] /\ Head(hits) \in Holding(Seed) /\ Head(hits) # 0
    <2>1. 1 \in 1..Len(hits) /\ Head(hits) = hits[1]
      BY <1>1, <1>2 DEF SelectKnows
    <2>2. QED
      BY <2>1, <1>2, HoldingFacts DEF SelectKnows
  <1>5. hits' \in Seq(Nat) /\ \A k \in 1..Len(hits') : hits'[k] \in Holding(Seed)
    <2>1. CASE hits' = <<>>
      BY <2>1
    <2>2. CASE hits' = Tail(hits)
      <3>1. /\ Tail(hits) \in Seq(Nat) /\ Len(Tail(hits)) = Len(hits) - 1 /\ Len(hits) \in Nat
            /\ \A k \in 1..Len(Tail(hits)) : Tail(hits)[k] = hits[k + 1] /\ k + 1 \in 1..Len(hits)
        BY <1>1, <1>2 DEF SelectKnows
      <3>2. QED
        BY <2>2, <3>1, <1>2 DEF SelectKnows
    <2>3. QED
      BY <1>1, <2>1, <2>2
  <1>6. bestSeed' = 0 \/ bestSeed' \in Holding(Seed)
    BY <1>1, <1>2, <1>4 DEF SelectKnows
  <1>7. ASSUME bestSeed' = 0 PROVE NoChain
    <2>1. h \notin Preferred \cup Likely
      <3>1. ~ (h \in Preferred \/ (h \in Likely /\ bestSeed = 0)) /\ bestSeed = 0
        BY <1>1, <1>4, <1>7
      <3>2. QED
        BY <3>1
    <2>2. QED
      BY <2>1, <1>4 DEF NoChain, LoneTable
  <1>8. SelectKnows'
    BY <1>3, <1>5, <1>6, <1>7 DEF SelectKnows
  <1>9. QED
    BY <1>1, <1>3, <1>8 DEF StageKnows, Stages, Scans

LEMMA KnowsSeedSelected == ASSUME StageKnows, Locate!SeedSelected PROVE StageKnows'
  <1>1. pc = "select" /\ hits = <<>> /\ SameMemory /\ bestSeed' = bestSeed
    BY DEF Locate!SeedSelected, Locate!Memory, SameMemory
  <1>2. MemoryTyped /\ SelectKnows /\ NothingYet
    BY <1>1 DEF StageKnows
  <1>3. CASE bestSeed = 0
    <2>1. NoChain /\ Locate!GoToSections
      BY <1>1, <1>2, <1>3 DEF SelectKnows, Locate!SeedSelected
    <2>2. QED
      BY <1>1, <2>1, SectionsEntered
  <1>4. CASE bestSeed # 0
    <2>1. pc' = "up" /\ up' = 0 /\ UNCHANGED <<bestScore, slot, way>>
      BY <1>4 DEF Locate!SeedSelected
    <2>2. bestSeed \in Holding(Seed)
      BY <1>2, <1>4 DEF SelectKnows
    <2>3. ASSUME NEW t \in Locate!Places, LoneTable(t)
          PROVE  \E k \in 0..MaxUp : bestSeed = t + k * Stride /\ 0 <= k
      <3>1. PICK k \in 0..MaxUp : bestSeed = t + k * Stride
        BY <2>2, <2>3 DEF LoneTable
      <3>2. 0 <= k
        BY LocateAssumption
      <3>3. QED
        BY <3>1, <3>2
    <2>4. MemoryTyped' /\ NothingYet' /\ Holding(Seed)' = Holding(Seed)
      BY <1>1, <1>2, <2>1, MemoryStays, HoldingStays DEF NothingYet
    <2>5. UpKnows'
      BY <1>1, <2>1, <2>2, <2>3, <2>4, MemoryStays, HoldingStays DEF UpKnows
    <2>6. QED
      BY <2>1, <2>4, <2>5 DEF StageKnows, Stages, Scans
  <1>5. QED
    BY <1>3, <1>4

LEMMA Multiples ==
  /\ \A k \in Nat : k * Stride \in Nat
  /\ \A k, n \in Nat : k < n => k * Stride < n * Stride
  <1>1. Stride \in Nat /\ Stride > 0
    BY LocateAssumption
  <1>2. ASSUME NEW k \in Nat PROVE k * Stride \in Nat
    BY <1>1
  <1>3. ASSUME NEW k \in Nat, NEW n \in Nat, k < n PROVE k * Stride < n * Stride
    <2>1. PICK d \in Nat : n = k + d /\ d > 0
      <3>1. n = k + (n - k) /\ n - k \in Nat /\ n - k > 0
        BY <1>3
      <3>2. QED
        BY <3>1
    <2>2. n * Stride = k * Stride + d * Stride
      BY <1>1, <2>1
    <2>3. d * Stride > 0 /\ d * Stride \in Nat /\ k * Stride \in Nat
      BY <1>1, <1>2, <2>1
    <2>4. QED
      BY <2>2, <2>3
  <1>4. QED
    BY <1>2, <1>3

LEMMA KnowsGoUp == ASSUME StageKnows, Locate!GoUp PROVE StageKnows'
  <1> DEFINE p == bestSeed - up * Stride
  <1>1. /\ pc = "up" /\ SameMemory
        /\ IF p < 1 \/ up > MaxUp
             THEN Locate!GoToSections /\ up' = 0 /\ bestSeed' = 0
             ELSE IF Locate!StartsTable(p)
               THEN Locate!StartScan("tables", p) /\ UNCHANGED <<cands, bestScore, slot, way>>
               ELSE up' = up + 1 /\ UNCHANGED <<pc, bestSeed, cands, bestScore, slot, way>>
    BY DEF Locate!GoUp, Locate!Memory, SameMemory
  <1>2. MemoryTyped /\ UpKnows /\ NothingYet
    BY <1>1 DEF StageKnows
  <1>3. bestSeed \in Nat /\ up \in Nat /\ up * Stride \in Nat /\ p \in Int
    BY <1>2, HoldingFacts, Multiples DEF UpKnows
  <1>4. Locate!StartsTable(p) <=> Locate!IsTable(p)
    BY DEF Locate!StartsTable, Locate!IsTable
  <1>5. MemoryTyped' /\ Holding(Seed)' = Holding(Seed)
    BY <1>1, <1>2, MemoryStays, HoldingStays
  <1>6. ASSUME NEW t \in Locate!Places, LoneTable(t)
        PROVE  /\ ~ (p < 1) /\ ~ (up > MaxUp)
               /\ Locate!StartsTable(p) => p = t
               /\ ~ Locate!StartsTable(p) => \E k \in 0..MaxUp : bestSeed = t + k * Stride /\ up + 1 <= k
    <2>1. PICK k \in 0..MaxUp : bestSeed = t + k * Stride /\ up <= k
      BY <1>2, <1>6 DEF UpKnows
    <2>2. k \in Nat /\ k * Stride \in Nat /\ t \in Nat /\ t >= 1 /\ MaxUp \in Nat /\ k <= MaxUp
      BY <1>2, <2>1, HoldingFacts, Multiples, LocateAssumption
    <2>3. CASE up = k
      <3>1. p = t
        BY <2>1, <2>2, <2>3, <1>3
      <3>2. Locate!StartsTable(p)
        BY <1>4, <1>6, <3>1 DEF LoneTable
      <3>3. QED
        BY <2>2, <2>3, <3>1, <3>2
    <2>4. CASE up < k
      <3>1. up * Stride < k * Stride
        BY <1>3, <2>2, <2>4, Multiples
      <3>2. t < p /\ p <= bestSeed
        BY <3>1, <2>1, <2>2, <1>3
      <3>3. ~ Locate!IsTable(p)
        <4>1. bestSeed \in Holding(Seed) /\ p \in (t + 1)..bestSeed
          BY <3>2, <1>2, <1>3, <2>2 DEF UpKnows
        <4>2. QED
          BY <4>1, <1>6 DEF LoneTable
      <3>4. up + 1 <= k
        BY <1>3, <2>2, <2>4
      <3>5. QED
        BY <1>3, <1>4, <2>1, <2>2, <2>4, <3>2, <3>3, <3>4
    <2>5. QED
      BY <2>1, <2>2, <2>3, <2>4, <1>3
  <1>7. CASE p < 1 \/ up > MaxUp
    <2>1. NoChain
      BY <1>6, <1>7 DEF NoChain
    <2>2. QED
      BY <1>1, <1>7, <2>1, SectionsEntered
  <1>8. CASE ~ (p < 1 \/ up > MaxUp) /\ Locate!StartsTable(p)
    <2>1. Locate!StartScan("tables", p) /\ UNCHANGED <<bestScore, slot, way>>
      BY <1>1, <1>8
    <2>2. pc' = "tables" /\ value' = p /\ ScanKnows'
      BY <1>1, <1>2, <2>1, ScanStarted
    <2>3. SeededTable(p)
      <3>1. p \in Locate!Places /\ Locate!IsTable(p)
        BY <1>4, <1>8 DEF Locate!IsTable, Locate!Readable
      <3>2. p + up * Stride = bestSeed /\ up \in 0..MaxUp
        BY <1>3, <1>8, LocateAssumption
      <3>3. bestSeed \in Holding(Seed)
        BY <1>2 DEF UpKnows
      <3> HIDE DEF p
      <3>4. QED
        BY <3>1, <3>2, <3>3 DEF SeededTable
    <2>4. TablesKnows'
      <3> HIDE DEF p
      <3>1. QED
        BY <1>1, <1>6, <1>8, <2>2, <2>3, MemoryStays, HoldingStays DEF TablesKnows
    <2>5. NothingYet'
      BY <1>2, <2>1 DEF NothingYet
    <2>6. QED
      BY <1>5, <2>2, <2>4, <2>5 DEF StageKnows, Stages, Scans
  <1>9. CASE ~ (p < 1 \/ up > MaxUp) /\ ~ Locate!StartsTable(p)
    <2>1. up' = up + 1 /\ UNCHANGED <<pc, bestSeed, bestScore, slot, way>>
      BY <1>1, <1>9
    <2>2. ASSUME NEW t \in Locate!Places, LoneTable(t)
          PROVE  \E k \in 0..MaxUp : bestSeed = t + k * Stride /\ up + 1 <= k
      BY <1>6, <1>9, <2>2
    <2>3. UpKnows'
      <3> HIDE DEF p
      <3>1. up' \in Nat /\ bestSeed' \in Holding(Seed)'
        BY <1>2, <1>3, <1>5, <2>1 DEF UpKnows
      <3>2. QED
        BY <1>1, <2>1, <2>2, <3>1, MemoryStays, HoldingStays DEF UpKnows
    <2>4. NothingYet'
      BY <1>2, <2>1 DEF NothingYet
    <2>5. QED
      BY <1>1, <1>5, <2>1, <2>3, <2>4 DEF StageKnows, Stages, Scans
  <1>10. QED
    BY <1>7, <1>8, <1>9

LEMMA SlotsStarted ==
  ASSUME MemoryTyped, SameMemory, NothingYet, NEW p, p = cands'[1], CandsKnow', p \in Nat,
         Locate!StartScan("slots", p), UNCHANGED <<bestScore, slot, way>>
  PROVE  StageKnows'
  <1>1. MemoryTyped' /\ pc' = "slots" /\ value' = p /\ ScanKnows'
    BY ScanStarted
  <1>2. NothingYet'
    BY DEF NothingYet
  <1>3. QED
    BY <1>1, <1>2 DEF StageKnows, Stages, Scans

LEMMA KnowsTablesFound == ASSUME StageKnows, Locate!TablesFound PROVE StageKnows'
  <1>1. pc = "tables" /\ SameMemory /\ Locate!ScanIsOver
    BY DEF Locate!TablesFound, Locate!Memory, SameMemory
  <1>2. MemoryTyped /\ ScanKnows /\ TablesKnows /\ NothingYet /\ ScanSet = Holding(value)
    BY <1>1 DEF StageKnows, Scans, ScanSet
  <1>3. CASE hits = <<>>
    <2>1. Holding(value) = {}
      BY <1>1, <1>2, <1>3, ScanEnds
    <2>2. NoChain
      BY <1>2, <2>1 DEF NoChain, TablesKnows
    <2>3. Locate!GoToSections
      BY <1>3 DEF Locate!TablesFound
    <2>4. QED
      BY <1>1, <2>2, <2>3, SectionsEntered
  <1>4. CASE hits # <<>>
    <2>1. /\ Locate!StartScan("slots", Head(hits)) /\ cands' = hits
          /\ UNCHANGED <<bestScore, slot, way>>
      BY <1>4 DEF Locate!TablesFound
    <2>2. Head(hits) = hits[1] /\ hits[1] \in Nat
      <3>1. Head(hits) = hits[1] /\ 1 \in 1..Len(hits)
        BY <1>1, <1>2, <1>4, ScanEnds
      <3>2. QED
        BY <1>2, <3>1 DEF ScanKnows
    <2>3. SeededTable(value) /\ value \in Locate!Places /\ hits \in Seq(Nat)
          /\ \A k \in 1..Len(hits) : hits[k] \in Holding(value)
      BY <1>2 DEF TablesKnows, SeededTable, ScanKnows
    <2>4. ASSUME NEW t \in Locate!Places, LoneTable(t), NEW m \in Holding(t)
          PROVE  \E k \in 1..Len(hits) : hits[k] = m
      <3>1. t = value
        BY <1>2, <2>4 DEF TablesKnows
      <3>2. Locate!Cardinality(ScanSet) <= Locate!Limit
        BY <1>1, <1>2, <2>4, <3>1, LimitFacts DEF LoneTable
      <3>3. QED
        BY <1>1, <1>2, <2>4, <3>1, <3>2, ScanComplete
    <2>5. CandsKnow'
      BY <1>1, <1>4, <2>1, <2>3, <2>4, MemoryStays, HoldingStays DEF CandsKnow
    <2>6. QED
      BY <1>1, <1>2, <2>1, <2>2, <2>5, SlotsStarted
  <1>5. QED
    BY <1>3, <1>4

\* A candidate nothing points to is left for the next one.
LEMMA KnowsNext ==
  ASSUME StageKnows, pc \in {"slots", "anyslots", "readback"}, SameMemory, Holding(cands[1]) = {},
         Locate!NextCandidate
  PROVE  StageKnows'
  <1>1. MemoryTyped /\ CandsKnow /\ NothingYet
    BY DEF StageKnows
  <1>2. cands \in Seq(Nat) /\ cands # <<>> /\ Len(cands) \in Nat /\ Len(cands) >= 1
    BY <1>1 DEF CandsKnow
  <1>3. CASE Len(cands) = 1
    <2>1. NoChain
      <3>1. SUFFICES ASSUME NEW t \in Locate!Places, LoneTable(t), NEW m \in Holding(t) PROVE Holding(m) = {}
        BY DEF NoChain
      <3>2. (\E k \in 1..1 : cands[k] = m) \/ Holding(m) = {}
        BY <1>1, <1>3, <3>1 DEF CandsKnow
      <3>3. QED
        BY <3>2
    <2>2. Locate!GoToSections
      BY <1>3 DEF Locate!NextCandidate
    <2>3. QED
      BY <2>1, <2>2, SectionsEntered
  <1>4. CASE Len(cands) # 1
    <2>1. Locate!StartScan("slots", cands[2]) /\ cands' = Tail(cands) /\ UNCHANGED <<bestScore, slot, way>>
      BY <1>4 DEF Locate!NextCandidate
    <2>2. /\ Tail(cands) \in Seq(Nat) /\ Len(Tail(cands)) = Len(cands) - 1
          /\ \A k \in 1..Len(Tail(cands)) : Tail(cands)[k] = cands[k + 1] /\ k + 1 \in 1..Len(cands)
      BY <1>2
    <2>3. Tail(cands) # <<>> /\ Tail(cands)[1] = cands[2] /\ cands[2] \in Nat
      <3>1. 1 \in 1..Len(Tail(cands)) /\ 2 \in 1..Len(cands)
        BY <1>2, <1>4, <2>2
      <3>2. Tail(cands) # <<>>
        <4>1. Len(Tail(cands)) \in Int /\ Len(Tail(cands)) # 0
          BY <1>2, <2>2, <3>1
        <4>2. QED
          BY <4>1, EmptySeq
      <3>3. Tail(cands)[1] = cands[1 + 1]
        BY <2>2, <3>1
      <3>4. cands[2] \in Nat
        BY <1>2, <3>1
      <3>5. QED
        BY <3>2, <3>3, <3>4
    <2>4. ASSUME NEW t \in Locate!Places, LoneTable(t), NEW m \in Holding(t), Holding(m) # {}
          PROVE  \E k \in 1..Len(Tail(cands)) : Tail(cands)[k] = m
      <3>1. PICK k \in 1..Len(cands) : cands[k] = m
        BY <1>1, <2>4 DEF CandsKnow
      <3>2. k # 1
        BY <2>4, <3>1
      <3>3. k - 1 \in 1..Len(Tail(cands)) /\ (k - 1) + 1 = k
        BY <1>2, <2>2, <3>1, <3>2
      <3>4. Tail(cands)[k - 1] = m
        BY <2>2, <3>1, <3>3
      <3>5. QED
        BY <3>3, <3>4
    <2>5. \E t \in Locate!Places : SeededTable(t) /\ \A k \in 1..Len(Tail(cands)) : Tail(cands)[k] \in Holding(t)
      BY <1>1, <2>2 DEF CandsKnow
    <2>6. CandsKnow'
      BY <2>1, <2>2, <2>3, <2>4, <2>5, MemoryStays, HoldingStays DEF CandsKnow
    <2>7. QED
      BY <1>1, <2>1, <2>3, <2>6, SlotsStarted
  <1>5. QED
    BY <1>3, <1>4

LEMMA KnowsSlotsFound == ASSUME StageKnows, Locate!SlotsFound PROVE StageKnows'
  <1>1. pc \in {"slots", "anyslots"} /\ SameMemory /\ Locate!ScanIsOver
    BY DEF Locate!SlotsFound, Locate!Memory, SameMemory
  <1>2. /\ MemoryTyped /\ ScanKnows /\ CandsKnow /\ NothingYet /\ value = cands[1]
        /\ pc = "slots" => ScanSet = WantedHolding(cands[1])
        /\ pc = "anyslots" => ScanSet = Holding(cands[1]) /\ WantedHolding(cands[1]) = {}
    BY <1>1 DEF StageKnows, Scans, ScanSet
  <1>3. cands[1] \in Nat /\ Head(cands) = cands[1]
    BY <1>2 DEF CandsKnow
  <1>4. MemoryTyped' /\ (cands' = cands => CandsKnow')
    BY <1>1, <1>2, MemoryStays, HoldingStays DEF CandsKnow
  <1>5. CASE hits # <<>>
    <2>1. pc' = "readback" /\ UNCHANGED <<hits, cands, bestScore, slot, way>>
      BY <1>5 DEF Locate!SlotsFound
    <2>2. ASSUME NEW k \in 1..Len(hits)
          PROVE  hits[k] \in Holding(cands[1]) /\ (Locate!Wanted(hits[k]) \/ WantedHolding(cands[1]) = {})
      <3>1. hits[k] \in ScanSet
        BY <1>2 DEF ScanKnows
      <3>2. QED
        BY <1>1, <1>2, <3>1, HoldingFacts DEF WantedHolding
    <2>3. ReadKnows'
      <3>1. hits \in Seq(Nat)
        BY <1>2 DEF ScanKnows
      <3>2. QED
        BY <1>1, <1>5, <2>1, <2>2, <3>1, MemoryStays, HoldingStays DEF ReadKnows
    <2>4. NothingYet'
      BY <1>2, <2>1 DEF NothingYet
    <2>5. QED
      BY <1>4, <2>1, <2>3, <2>4 DEF StageKnows, Stages, Scans
  <1>6. CASE hits = <<>> /\ pc = "slots"
    <2>1. Locate!StartScan("anyslots", cands[1]) /\ UNCHANGED <<cands, bestScore, slot, way>>
      BY <1>3, <1>6 DEF Locate!SlotsFound
    <2>2. WantedHolding(cands[1]) = {}
      BY <1>1, <1>2, <1>6, ScanEnds
    <2>3. MemoryTyped' /\ pc' = "anyslots" /\ value' = cands[1] /\ ScanKnows'
      BY <1>1, <1>2, <1>3, <2>1, ScanStarted
    <2>4. NothingYet' /\ (WantedHolding(cands[1]) = {})'
      BY <1>1, <1>2, <2>1, <2>2, HoldingStays DEF NothingYet
    <2>5. QED
      BY <1>4, <2>1, <2>3, <2>4 DEF StageKnows, Stages, Scans
  <1>7. CASE hits = <<>> /\ pc = "anyslots"
    <2>1. Locate!NextCandidate
      BY <1>7 DEF Locate!SlotsFound
    <2>2. Holding(cands[1]) = {}
      BY <1>1, <1>2, <1>7, ScanEnds
    <2>3. QED
      BY <1>1, <2>1, <2>2, KnowsNext
  <1>8. QED
    BY <1>1, <1>5, <1>6, <1>7

LEMMA KnowsReadBack == ASSUME StageKnows, Locate!ReadBack PROVE StageKnows'
  <1>1. pc = "readback" /\ SameMemory
    BY DEF Locate!ReadBack, Locate!Memory, SameMemory
  <1>2. MemoryTyped /\ CandsKnow /\ ReadKnows
    BY <1>1 DEF StageKnows
  <1>3. PICK s, m : s = hits[1] /\ m = cands[1]
    OBVIOUS
  <1>4. Head(cands) = m /\ Head(hits) = s /\ 1 \in 1..Len(hits) /\ 1 \in 1..Len(cands) /\ hits # <<>>
    BY <1>2, <1>3 DEF CandsKnow, ReadKnows
  <1>5. s \in Holding(m) /\ (Locate!Wanted(s) \/ WantedHolding(m) = {})
    BY <1>2, <1>3, <1>4 DEF ReadKnows
  <1>6. Locate!Readable(s) /\ word[s] = m
    BY <1>5 DEF Holding
  <1>7. pc' = "done" /\ slot' = s /\ way' = "chain"
    BY <1>4, <1>6 DEF Locate!ReadBack
  <1>8. PICK t \in Locate!Places : SeededTable(t) /\ m \in Holding(t)
    BY <1>2, <1>3, <1>4 DEF CandsKnow
  <1>9. m \in Locate!Places /\ word'[s] = m
    BY <1>1, <1>6, <1>8 DEF Holding, SameMemory
  <1>10. Holding(m)' = Holding(m) /\ Holding(t)' = Holding(t) /\ SeededTable(t)' = SeededTable(t)
         /\ Locate!Wanted(s)' = Locate!Wanted(s) /\ Locate!Places' = Locate!Places
         /\ WantedHolding(m)' = WantedHolding(m)
    BY <1>1, MemoryStays, HoldingStays
  <1>11. DoneKnows'
    BY <1>5, <1>7, <1>8, <1>9, <1>10 DEF DoneKnows
  <1>12. MemoryTyped'
    BY <1>1, <1>2, MemoryStays
  <1>13. QED
    BY <1>7, <1>11, <1>12 DEF StageKnows, Stages, Scans

LEMMA ScoreTyped ==
  ASSUME MemoryTyped, NEW p PROVE Locate!ScoreOf(p) \in 0..MaxScore /\ Locate!ScoreOf(p) \in Int
  BY LocateAssumption DEF MemoryTyped, Locate!ScoreOf, Locate!Places

\* The best of the words before p is the best of those up to p, or p is.
LEMMA BestGoesOn ==
  ASSUME MemoryTyped, NEW p \in Nat \ {0}, BestBefore(p), SameMemory,
         \/ /\ Locate!MayBeManager(p) /\ Locate!ScoreOf(p) > bestScore
            /\ bestScore' = Locate!ScoreOf(p) /\ slot' = p
         \/ /\ ~ (Locate!MayBeManager(p) /\ Locate!ScoreOf(p) > bestScore)
            /\ UNCHANGED <<bestScore, slot>>
  PROVE  BestBefore(p + 1)'
  <1>1. \A q : Locate!ScoreOf(q) \in Int /\ Locate!ScoreOf(q) >= 0
    BY ScoreTyped, LocateAssumption
  <1>2. \A q : Tried(q)' = Tried(q) /\ Locate!ScoreOf(q)' = Locate!ScoreOf(q)
    BY MemoryStays, HoldingStays
  <1>3. (p + 1) - 1 = p /\ \A q \in 1..p : q = p \/ q \in 1..(p - 1)
    OBVIOUS
  <1>4. bestScore \in Int /\ bestScore >= 0
    BY <1>1 DEF BestBefore
  <1>5. CASE Locate!MayBeManager(p) /\ Locate!ScoreOf(p) > bestScore
    <2>1. bestScore' = Locate!ScoreOf(p) /\ slot' = p
      BY <1>5
    <2>2. Tried(p)
      BY <1>1, <1>4, <1>5 DEF Tried
    <2>3. \A q \in 1..(p - 1) : Tried(q) => Locate!ScoreOf(q) < Locate!ScoreOf(p)
      <3>1. SUFFICES ASSUME NEW q \in 1..(p - 1), Tried(q) PROVE Locate!ScoreOf(q) < Locate!ScoreOf(p)
        OBVIOUS
      <3>2. Locate!ScoreOf(q) <= bestScore
        BY <3>1 DEF BestBefore
      <3>3. QED
        BY <3>2, <1>1, <1>4, <1>5
    <2>4. \A q \in 1..p : Tried(q) => /\ Locate!ScoreOf(q) <= Locate!ScoreOf(p)
                                      /\ Locate!ScoreOf(q) = Locate!ScoreOf(p) => p <= q
      BY <2>3, <1>1, <1>3
    <2>5. p \in 1..((p + 1) - 1)
      BY <1>3
    <2>6. QED
      BY <1>2, <1>3, <2>1, <2>2, <2>4, <2>5 DEF BestBefore
  <1>6. CASE ~ (Locate!MayBeManager(p) /\ Locate!ScoreOf(p) > bestScore)
    <2>1. bestScore' = bestScore /\ slot' = slot
      BY <1>6
    <2>2. Tried(p) => bestScore # 0 /\ Locate!ScoreOf(p) <= bestScore
      BY <1>1, <1>4, <1>6 DEF Tried
    <2>3. CASE bestScore = 0 /\ slot = 0 /\ \A q \in 1..(p - 1) : ~ Tried(q)
      <3>1. \A q \in 1..p : ~ Tried(q)
        BY <1>3, <2>2, <2>3
      <3>2. QED
        BY <1>2, <1>3, <2>1, <2>3, <3>1 DEF BestBefore
    <2>4. CASE /\ slot \in 1..(p - 1) /\ Tried(slot) /\ bestScore = Locate!ScoreOf(slot)
               /\ \A q \in 1..(p - 1) :
                    Tried(q) => /\ Locate!ScoreOf(q) <= bestScore
                                /\ Locate!ScoreOf(q) = bestScore => slot <= q
      <3>1. PICK n \in 1..(p - 1) : n = slot
        BY <2>4
      <3>2. \A q \in 1..p : Tried(q) => /\ Locate!ScoreOf(q) <= bestScore
                                        /\ Locate!ScoreOf(q) = bestScore => n <= q
        BY <1>3, <2>2, <2>4, <3>1
      <3>3. n \in 1..p /\ Tried(n)' /\ bestScore' = Locate!ScoreOf(n)'
        BY <1>2, <2>1, <2>4, <3>1
      <3>4. QED
        BY <1>2, <1>3, <2>1, <3>1, <3>2, <3>3 DEF BestBefore
    <2>5. QED
      BY <2>3, <2>4 DEF BestBefore
  <1>7. QED
    BY <1>5, <1>6

LEMMA KnowsTryWord == ASSUME StageKnows, Locate!TryWord PROVE StageKnows'
  <1>1. pc = "sections" /\ SameMemory /\ at <= Len(word) /\ at' = at + 1
    BY DEF Locate!TryWord, Locate!Memory, SameMemory
  <1>2. MemoryTyped /\ SectionsKnow /\ BestBefore(at)
    BY <1>1 DEF StageKnows, SectionsKnow
  <1>3. PICK p, n : p = at /\ n = Len(word)
    OBVIOUS
  <1>4. n \in Nat /\ p \in 1..n /\ word' = word /\ at' = p + 1 /\ p \in Nat \ {0} /\ BestBefore(p)
    BY <1>1, <1>2, <1>3 DEF MemoryTyped, SectionsKnow, SameMemory
  <1>5. MemoryTyped' /\ NoChain'
    BY <1>1, <1>2, MemoryStays, HoldingStays DEF SectionsKnow
  <1>6. PICK e : e = Locate!ScoreOf(p)
    OBVIOUS
  <1>7. \/ /\ Locate!MayBeManager(p) /\ e > bestScore
           /\ bestScore' = e /\ slot' = p /\ way' = "sections"
           /\ pc' = IF e >= MaxScore THEN "done" ELSE "sections"
        \/ /\ ~ (Locate!MayBeManager(p) /\ e > bestScore)
           /\ UNCHANGED <<bestScore, slot, way, pc>>
    BY <1>3, <1>6 DEF Locate!TryWord, Locate!Better
  <1>8. BestBefore(p + 1)'
    BY <1>1, <1>2, <1>4, <1>6, <1>7, BestGoesOn
  <1>9. way' # "chain"
    BY <1>2, <1>7 DEF SectionsKnow
  <1>10. CASE pc' = "sections"
    <2>1. at' \in 1..(Len(word') + 1)
      BY <1>3, <1>4
    <2>2. SectionsKnow'
      BY <1>4, <1>5, <1>8, <1>9, <2>1 DEF SectionsKnow
    <2>3. QED
      BY <1>5, <1>10, <2>2 DEF StageKnows, Stages, Scans
  <1>11. CASE pc' # "sections"
    <2>1. pc' = "done" /\ bestScore' = e /\ slot' = p /\ e >= MaxScore /\ Locate!MayBeManager(p) /\ e > bestScore
      BY <1>1, <1>7, <1>11
    <2>2. \A q : Locate!ScoreOf(q) \in Int /\ Locate!ScoreOf(q) <= MaxScore /\ MaxScore \in Int
      BY <1>2, ScoreTyped, LocateAssumption
    <2>3. \A q : Tried(q)' = Tried(q) /\ Locate!ScoreOf(q)' = Locate!ScoreOf(q)
      BY <1>1, MemoryStays, HoldingStays
    <2>4. /\ Tried(p)' /\ e = Locate!ScoreOf(p)'
          /\ \A q \in 1..p : Tried(q)' => /\ Locate!ScoreOf(q)' <= e
                                          /\ Locate!ScoreOf(q)' = e => p <= q
      <3>1. (p + 1) - 1 = p
        BY <1>4
      <3>2. p # 0
        BY <1>4
      <3>3. QED
        BY <1>6, <1>8, <2>1, <2>3, <3>1, <3>2 DEF BestBefore
    <2>5. \A q \in 1..n : Tried(q)' => /\ Locate!ScoreOf(q)' <= e
                                       /\ Locate!ScoreOf(q)' = e => p <= q
      <3>1. SUFFICES ASSUME NEW q \in 1..n, Tried(q)'
                     PROVE  Locate!ScoreOf(q)' <= e /\ (Locate!ScoreOf(q)' = e => p <= q)
        OBVIOUS
      <3>2. CASE q \in 1..p
        BY <2>4, <3>1, <3>2
      <3>3. CASE q \notin 1..p
        <4>1. p <= q
          BY <1>4, <3>1, <3>3
        <4>2. Locate!ScoreOf(q)' <= e
          BY <1>6, <2>1, <2>2, <2>3
        <4>3. QED
          BY <4>1, <4>2
      <3>4. QED
        BY <3>2, <3>3
    <2>6. BestBefore(n + 1)'
      <3>1. (n + 1) - 1 = n
        BY <1>4
      <3>2. QED
        BY <1>4, <2>1, <2>4, <2>5, <3>1 DEF BestBefore
    <2>7. DoneKnows'
      BY <1>3, <1>4, <1>5, <1>9, <2>6 DEF DoneKnows
    <2>8. QED
      BY <1>5, <2>1, <2>7 DEF StageKnows, Stages, Scans
  <1>12. QED
    BY <1>10, <1>11

LEMMA KnowsSectionsDone == ASSUME StageKnows, Locate!SectionsDone PROVE StageKnows'
  <1>1. pc = "sections" /\ SameMemory /\ at > Len(word) /\ pc' = "done" /\ UNCHANGED <<bestScore, slot, way>>
    BY DEF Locate!SectionsDone, Locate!Memory, SameMemory, Locate!locals
  <1>2. MemoryTyped /\ SectionsKnow
    BY <1>1 DEF StageKnows
  <1>3. PICK n : n = Len(word) + 1
    OBVIOUS
  <1>4. BestBefore(n) /\ Len(word') + 1 = n
    <2>1. at = Len(word) + 1 /\ word' = word
      BY <1>1, <1>2 DEF MemoryTyped, SectionsKnow, SameMemory
    <2>2. QED
      BY <1>2, <1>3, <2>1 DEF SectionsKnow
  <1>5. MemoryTyped' /\ NoChain' /\ way' # "chain"
    BY <1>1, <1>2, MemoryStays, HoldingStays DEF SectionsKnow
  <1>6. BestBefore(n)'
    <2>1. \A q : Tried(q)' = Tried(q) /\ Locate!ScoreOf(q)' = Locate!ScoreOf(q)
      BY <1>1, MemoryStays, HoldingStays
    <2>2. PICK p : p = slot
      OBVIOUS
    <2>3. QED
      BY <1>1, <1>4, <2>1, <2>2 DEF BestBefore
  <1>7. DoneKnows'
    BY <1>4, <1>5, <1>6 DEF DoneKnows
  <1>8. QED
    BY <1>1, <1>5, <1>7 DEF StageKnows, Stages, Scans

LEMMA LocateNextKeeps == LocateInv /\ [Locate!Next]_(Locate!vars) => LocateInv'
  <1> SUFFICES ASSUME LocateInv, [Locate!Next]_(Locate!vars), calm' PROVE StageKnows'
    BY DEF LocateInv
  <1>1. CASE UNCHANGED Locate!vars
    <2>1. StageKnows /\ SameMemory
          /\ UNCHANGED <<pc, value, at, hits, bestSeed, up, cands, bestScore, slot, way>>
      BY <1>1 DEF LocateInv, Locate!vars, Locate!locals, Locate!scan, SameMemory
    <2>2. /\ word' = word /\ ScanSet' = ScanSet
          /\ \A p : BestBefore(p)' = BestBefore(p)
      BY <2>1, MemoryStays, HoldingStays DEF ScanSet, SameMemory, BestBefore
    <2>3. UNCHANGED <<ScanKnows, NothingYet>>
      BY <2>1, <2>2 DEF ScanKnows, NothingYet
    <2>4. UNCHANGED <<SelectKnows, UpKnows, TablesKnows, CandsKnow>>
      BY <2>1, <2>2, MemoryStays, HoldingStays DEF SelectKnows, UpKnows, TablesKnows, CandsKnow
    <2>5. UNCHANGED <<ReadKnows, SectionsKnow, DoneKnows>>
      BY <2>1, <2>2, MemoryStays, HoldingStays DEF ReadKnows, SectionsKnow, DoneKnows
    <2>6. WantedHolding(cands[1])' = WantedHolding(cands[1]) /\ MemoryTyped' = MemoryTyped
      BY <2>1, MemoryStays, HoldingStays
    <2>7. QED
      BY <2>1, <2>3, <2>4, <2>5, <2>6 DEF StageKnows
  <1>2. CASE Locate!Search
    <2>1. calm
      BY <1>2 DEF Locate!Search, Locate!ScanWord, Locate!SeedsFound, Locate!SelectSeed, Locate!SeedSelected,
        Locate!GoUp, Locate!TablesFound, Locate!SlotsFound, Locate!ReadBack, Locate!TryWord,
        Locate!SectionsDone, Locate!Memory
    <2>2. StageKnows
      BY <2>1 DEF LocateInv
    <2>3. QED
      BY <1>2, <2>2, KnowsScanWord, KnowsSeedsFound, KnowsSelectSeed, KnowsSeedSelected, KnowsGoUp,
        KnowsTablesFound, KnowsSlotsFound, KnowsReadBack, KnowsTryWord, KnowsSectionsDone DEF Locate!Search
  <1>3. CASE Locate!Write
    BY <1>3 DEF Locate!Write
  <1>4. QED
    BY <1>1, <1>2, <1>3 DEF Locate!Next

LEMMA ChainIs ==
  ASSUME NEW s \in Locate!Places, NEW m \in Locate!Places, NEW t \in Locate!Places
  PROVE  Locate!IsChain(s, m, t) <=> s \in Holding(m) /\ m \in Holding(t) /\ Locate!IsTable(t)
  BY DEF Locate!IsChain, Holding

LEMMA LocateAnswers == LocateInv => Locate!ChainSound /\ Locate!ChainComplete /\ Locate!BestOfSections
  <1> SUFFICES ASSUME LocateInv, pc = "done", calm
               PROVE  Locate!ChainSound /\ Locate!ChainComplete /\ Locate!BestOfSections
    BY DEF Locate!ChainSound, Locate!ChainComplete, Locate!BestOfSections
  <1>1. DoneKnows /\ MemoryTyped
    BY DEF LocateInv, StageKnows
  <1>2. Locate!ChainSound
    <2>1. SUFFICES ASSUME way = "chain"
                   PROVE  \E m, t \in Locate!Places :
                            /\ Locate!IsChain(slot, m, t)
                            /\ \E k \in 0..MaxUp : Locate!Readable(t + k * Stride) /\ word[t + k * Stride] = Seed
      BY DEF Locate!ChainSound
    <2>2. PICK m \in Locate!Places, t \in Locate!Places :
            slot \in Holding(m) /\ m \in Holding(t) /\ SeededTable(t)
      BY <1>1, <2>1 DEF DoneKnows
    <2>3. slot \in Locate!Places /\ Locate!IsTable(t)
      BY <2>2 DEF Holding, SeededTable
    <2>4. Locate!IsChain(slot, m, t)
      BY <2>2, <2>3, ChainIs
    <2>5. \E k \in 0..MaxUp : Locate!Readable(t + k * Stride) /\ word[t + k * Stride] = Seed
      BY <2>2 DEF SeededTable, Holding
    <2>6. QED
      BY <2>4, <2>5
  <1>3. Locate!ChainComplete
    <2>1. ASSUME NEW t \in Locate!Places, LoneTable(t), NEW s \in Locate!Places, NEW m \in Locate!Places,
                 Locate!IsChain(s, m, t)
          PROVE  way = "chain"
      <3>1. s \in Holding(m) /\ m \in Holding(t)
        BY <2>1, ChainIs
      <3>2. ~ NoChain
        BY <2>1, <3>1 DEF NoChain
      <3>3. QED
        BY <1>1, <3>2 DEF DoneKnows
    <2>2. ASSUME way = "chain", ~ Locate!Wanted(slot), NEW s \in Locate!Places, Locate!Wanted(s)
          PROVE  word[s] # word[slot]
      <3>1. WantedHolding(word[slot]) = {}
        BY <1>1, <2>2 DEF DoneKnows
      <3>2. QED
        BY <2>2, <3>1 DEF WantedHolding
    <2>3. QED
      BY <2>1, <2>2 DEF Locate!ChainComplete, LoneTable, Holding
  <1>4. Locate!BestOfSections
    <2>1. SUFFICES ASSUME way # "chain",
                          NEW tried, tried = {p \in Locate!Places : Locate!MayBeManager(p) /\ Locate!ScoreOf(p) > 0}
                   PROVE  IF tried = {} THEN slot = 0
                          ELSE /\ slot \in tried
                               /\ \A p \in tried : /\ Locate!ScoreOf(p) <= Locate!ScoreOf(slot)
                                                   /\ Locate!ScoreOf(p) = Locate!ScoreOf(slot) => slot <= p
      BY DEF Locate!BestOfSections
    <2>2. BestBefore(Len(word) + 1) /\ Len(word) \in Nat /\ (Len(word) + 1) - 1 = Len(word)
      BY <1>1, <2>1 DEF DoneKnows, MemoryTyped
    <2>3. tried = {p \in 1..Len(word) : Tried(p)}
      BY <2>1 DEF Tried, Locate!Places
    <2>4. QED
      BY <2>2, <2>3 DEF BestBefore
  <1>5. QED
    BY <1>2, <1>3, <1>4

LEMMA LocateInvariant == Spec => [](world = "locate" => LocateInv)
  <1> DEFINE IInv == world = "locate" => LocateInv
  <1>1. Init => IInv
    BY LocateStarts DEF Init, WalkInit, CandidateInit, TagInit, LocateInit
  <1>2. IInv /\ [Next]_vars => IInv'
    <2> SUFFICES ASSUME IInv, [Next]_vars, world' = "locate" PROVE LocateInv'
      OBVIOUS
    <2>1. world = "locate" /\ [Locate!Next]_(Locate!vars)
      BY DEF Next, WalkNext, WalkOthers, CandidateNext, TagNext, LocateNext, vars, locateVars,
        Locate!vars, Locate!locals, Locate!scan
    <2>2. QED
      BY <2>1, LocateNextKeeps
  <1>3. QED
    BY <1>1, <1>2, PTL DEF Spec

(***************************************************************************)
(* Whatever is in memory and however much of it there is, in a target that *)
(* stands still: the word the chain of scans returns points to a word that *)
(* points to a bucket table with the known bucket above it; if the known   *)
(* bucket is in one table only, and the hits on it fit, a word that leads  *)
(* there is found whenever there is one, one of the module's data first.   *)
(***************************************************************************)
THEOREM ChainIsFound == Spec => []ChainFound
  <1>1. (world = "locate" => LocateInv) => ChainFound
    BY LocateAnswers DEF ChainFound
  <1>2. QED
    BY <1>1, LocateInvariant, PTL

(***************************************************************************)
(* Where the chain finds nothing, the first of the data words with the     *)
(* highest score is taken, although the search stops at a score it cannot  *)
(* exceed.                                                                 *)
(***************************************************************************)
THEOREM BestIsTaken == Spec => []BestOfSections
  <1>1. (world = "locate" => LocateInv) => BestOfSections
    BY LocateAnswers DEF BestOfSections
  <1>2. QED
    BY <1>1, LocateInvariant, PTL

==============================================================================
