------------------------- MODULE MCScsiCommandQueue -------------------------
(***************************************************************************)
(* Instances of ScsiCommandQueue for TLC.  Request objects are             *)
(* interchangeable: no definition names one.                               *)
(***************************************************************************)
EXTENDS ScsiCommandQueue, FiniteSets, TLC

CONSTANTS
    ClockBound,  \* the clock stops here
    ClockLoad    \* requests in existence once the clock has run

ASSUME ClockBoundAssumption ==
    ClockBound \in 0 .. ClockModulus - 1 /\ ClockLoad \in Nat

RequestSymmetry == Permutations(Requests)

\* SSpec with many requests or with time
WithinBounds ==
    now <= ClockBound /\ (now > 0 => Cardinality({r \in Requests : Alive(r)}) <= ClockLoad)

MCSpec == SInit /\ [][SNext /\ WithinBounds']_<<qvars, svars>>

=============================================================================
