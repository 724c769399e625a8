-------------------------- MODULE AuthAccounts_MC --------------------------
(* Instances of AuthAccounts for TLC.                                      *)
EXTENDS AuthAccounts, TLC

CONSTANTS e1, e2, g1, g2

\* Both identities claim the same address; Google vouches for that of g1 only.
OneAddress == [s \in Subs |-> e1]

Symmetry == Permutations(Users) \cup Permutations(VerifyTokens)
              \cup Permutations(Workers)

\* The kinds of requests and events of each run.
AddressKinds == {"register", "verify", "email", "clock", "fault", "death"}
GoogleKinds  == {"verify", "email", "oauth", "admin", "fault"}

=============================================================================
