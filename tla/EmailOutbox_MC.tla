--------------------------- MODULE EmailOutbox_MC ---------------------------
(* Instances of EmailOutbox for TLC.                                       *)
EXTENDS EmailOutbox, TLC

Symmetry == Permutations(Mails) \cup Permutations(Workers)

=============================================================================
