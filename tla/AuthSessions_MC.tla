-------------------------- MODULE AuthSessions_MC --------------------------
(* Instances of AuthSessions for TLC.                                      *)
EXTENDS AuthSessions, TLC

\* Users, passwords, ids and workers are interchangeable.
Symmetry == Permutations(RefreshTokens) \cup Permutations(Workers)
              \cup Permutations(Passwords) \cup Permutations(Users)

\* The kinds of requests and events of each run.
SessionKinds == {"login", "refresh", "logout", "others", "clock", "unlock",
                 "admin", "fault"}
ResetKinds   == {"login", "refresh", "forgot", "reset", "lapse", "unlock"}

=============================================================================
