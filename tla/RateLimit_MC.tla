---------------------------- MODULE RateLimit_MC ----------------------------
(* Instances of RateLimit for TLC.                                         *)
EXTENDS RateLimit, TLC

Symmetry == Permutations(Workers)

=============================================================================
