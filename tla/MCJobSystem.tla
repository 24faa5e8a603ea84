---------------------------- MODULE MCJobSystem ----------------------------
(* Instances of JobSystem for TLC. *)
EXTENDS JobSystem, TLC
CONSTANTS a1, e1, r1, r2

OneEnv == [a \in Apps |-> e1]
AllUnscoped == [r \in Runs |-> Unscoped]
RunSymmetry == Permutations(Runs)
=============================================================================
