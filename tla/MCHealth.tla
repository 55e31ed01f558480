------------------------------ MODULE MCHealth ------------------------------
(***************************************************************************)
(* Partitions for TLC.  Partitions differ only in their names, so a run of *)
(* invariants may treat them as interchangeable.                           *)
(***************************************************************************)
EXTENDS Health, TLC

CONSTANTS p0, p1

OnePartition == {p0}
TwoPartitions == {p0, p1}

Symmetry == Permutations(TwoPartitions)
=============================================================================
