--------------------------- MODULE MCSegmentLease ---------------------------
(***************************************************************************)
(* SegmentLease on small instances.  PageOf gives every page of a content  *)
(* the same value: with two values the backing has up to two versions.     *)
(***************************************************************************)
EXTENDS SegmentLease, TLC

CONSTANT BackingVersions   \* the values the backing may return

AllRanges == {r \in AllPages \X AllPages : r[1] <= r[2]}

\* The whole object only.
WholeObject == {<<0, SegmentCount * PageCount - 1>>}

MCBackingData == {[p \in Pages |-> v] : v \in BackingVersions}

ThreadSymmetry == Permutations(Threads)
=============================================================================
