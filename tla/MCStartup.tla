------------------------------ MODULE MCStartup ------------------------------
(* Values for the constants of Startup, for TLC. *)
EXTENDS Startup, TLC

\* UEs are only compared with each other.
Symmetry == Permutations(Ues)
=============================================================================
