-------------------------------- MODULE MCBio -------------------------------
(* Instances of Bio for TLC. *)
EXTENDS Bio

Symmetry == Permutations(Procs) \cup Permutations(Values \ {Blank})
=============================================================================
