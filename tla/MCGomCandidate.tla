--------------------------- MODULE MCGomCandidate ---------------------------
(***************************************************************************)
(* GomCandidate with the candidate's list head, one other list head and    *)
(* two or three objects; the second of two bucket slots is in use.         *)
(***************************************************************************)
EXTENDS GomCandidate, TLC

CONSTANTS o1, o2, o3, tagHead, localHead

MCObjects == {o1, o2, o3}
MCFewObjects == {o1, o2}
MCHeads == {tagHead, localHead}
MCLocalOnly == {localHead}

MCSlots == <<Null, localHead>>
MCTagSlots == <<tagHead, localHead>>
MCHeadWord == localHead :> localHead @@ tagHead :> Null
MCLocalWord == localHead :> localHead

MCGone == {o1}
MCNoneGone == {}

ASSUME BoundAssumption == BoundHolds

FewSymmetry == Permutations(MCFewObjects)
==============================================================================
