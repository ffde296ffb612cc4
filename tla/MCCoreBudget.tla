---------------------------- MODULE MCCoreBudget ----------------------------
(***************************************************************************)
(* CoreBudget on small instances.                                          *)
(***************************************************************************)
EXTENDS CoreBudget, TLC

\* Segments of one class, or the first segment of each object before its
\* second.
EqualScore == [s \in Segments |-> 0]
EarlierFirst == [s \in Segments |-> SegmentsPerObject - s[2]]

Nothing == {}
FirstSegments == {s \in Segments : s[2] = 1}

Symmetry == Permutations(Apps) \cup Permutations(Objects)
=============================================================================
