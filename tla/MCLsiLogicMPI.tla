---------------------------- MODULE MCLsiLogicMPI ----------------------------
(***************************************************************************)
(* Instances of LsiLogicMPI for TLC.                                       *)
(***************************************************************************)
EXTENDS LsiLogicMPI, TLC

RequestSymmetry == Permutations(Requests)

=============================================================================
