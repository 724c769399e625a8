---------------------------- MODULE ApiClient_MC ----------------------------
(* Instances of ApiClient for TLC.                                         *)
EXTENDS ApiClient, TLC

CONSTANTS b1, b2, c1, c2

OneTab == c1 :> b1 @@ c2 :> b1

\* Tokens are interchangeable: fix the one to begin with.
FirstInit == Init /\ cookie = CHOOSE t \in Tokens : TRUE

FirstSpec == FirstInit /\ [][Next]_vars /\ Fairness

=============================================================================
