------------------------------ MODULE MCBusLogic ------------------------------
(***************************************************************************)
(* Instances of BusLogic for TLC.  Requests are interchangeable, and so    *)
(* are bus addresses.                                                      *)
(***************************************************************************)
EXTENDS BusLogic, TLC

RequestSymmetry == Permutations(Requests) \cup Permutations(Addresses)

=============================================================================
