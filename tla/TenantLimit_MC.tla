--------------------------- MODULE TenantLimit_MC ---------------------------
(* Instances of TenantLimit for TLC.                                       *)
EXTENDS TenantLimit, TLC

Symmetry == Permutations(Workers)

=============================================================================
