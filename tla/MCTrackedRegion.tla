-------------------------- MODULE MCTrackedRegion --------------------------
(***************************************************************************)
(* TrackedRegion on a small instance: two pages of two bytes.              *)
(***************************************************************************)
EXTENDS TrackedRegion

\* Pages of zeroes; the other recipes are those a rebase leaves.
ZeroRecipe == {[p \in Pages |-> Blank]}

\* Every byte but the last.
MostBytes == (Pages \X Offsets) \ {<<PageCount - 1, PageSize - 1>>}
=============================================================================
