---------------------------- MODULE DjangoAuth_MC ----------------------------
(* Instances of DjangoAuth for TLC.                                         *)
EXTENDS DjangoAuth, TLC

CONSTANTS e1, e2, g1

OneGoogle == g1 :> e1

=============================================================================
