--------------------------- MODULE MCCanaryCheck ---------------------------
(***************************************************************************)
(* Sets for TLC.                                                           *)
(***************************************************************************)
EXTENDS CanaryCheck

OnePartition == {0}
TwoPartitions == {0, 1}
ThreePartitions == {0, 1, 2}
=============================================================================
