------------------------------ MODULE MCGomWalk ------------------------------
(***************************************************************************)
(* GomWalk with two GameObjects, one tag list and the local list, and one  *)
(* or two tables: a rehash moves the tag's bucket from slot 1 of a         *)
(* one-slot table to slot 2 of a two-slot one.                             *)
(***************************************************************************)
EXTENDS GomWalk, TLC

CONSTANTS o1, o2, tagHead, localHead, t1, t2

MCObjects == {o1, o2}
MCHeads == {tagHead, localHead}
MCTables == {t1, t2}
MCLayout == t1 :> <<tagHead>> @@ t2 :> <<Null, tagHead>>
MCOneTable == {t1}
MCOneLayout == t1 :> <<tagHead>>

\* The words behind the two heads: zero behind one, something else behind the
\* other.
MCHeadWord == tagHead :> Null @@ localHead :> localHead

\* This instance is one InsertOnlyComplete is proved of.
ASSUME LimitsAssumption == LimitsHold

Symmetry == Permutations(MCObjects)
==============================================================================
