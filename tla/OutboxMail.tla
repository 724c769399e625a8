----------------------------- MODULE OutboxMail -----------------------------
(***************************************************************************)
(* What the e-mail outbox promises of each mail: once written down it      *)
(* waits, and is then delivered or lost.  Both are final: no sweeper picks *)
(* a lost mail up again.                                                   *)
(***************************************************************************)
CONSTANT Mails

VARIABLE fate

Waiting == {m \in Mails : fate[m] = "waiting"}

\* Mail m leaves the state `from` for the state `to`.
Turn(m, from, to) ==
  /\ fate[m] = from
  /\ fate' = [fate EXCEPT ![m] = to]

Write(m)   == Turn(m, "none", "waiting")
Deliver(m) == Turn(m, "waiting", "sent")
Lose(m)    == Turn(m, "waiting", "lost")

Init == fate = [m \in Mails |-> "none"]

Next == \E m \in Mails : Write(m) \/ Deliver(m) \/ Lose(m)

Spec == Init /\ [][Next]_fate

\* A mail does not wait for ever.
FairSpec == Spec /\ \A m \in Mails : WF_fate(Deliver(m) \/ Lose(m))

=============================================================================
