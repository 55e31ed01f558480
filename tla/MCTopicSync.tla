---------------------------- MODULE MCTopicSync ----------------------------
(***************************************************************************)
(* Model values for TLC: the instances are interchangeable, which a run    *)
(* that checks no liveness property may use.                               *)
(***************************************************************************)
EXTENDS TopicSync, TLC

CONSTANTS i1, i2

OneInstance == {i1}
TwoInstances == {i1, i2}

Symmetry == Permutations(TwoInstances)

=============================================================================
