--------------------------- MODULE SessionServer ---------------------------
(***************************************************************************)
(* What the service promises of refresh tokens, seen from the clients.  A  *)
(* token comes from a sign-in, or in exchange for one token that was good  *)
(* when it was presented and is spent when its successor is handed out.  A *)
(* spent token is never good again.  One token may have several            *)
(* successors: exchanges of it that were under way together.               *)
(*                                                                         *)
(* AuthSessions implements it statement by statement; ApiClient's API is   *)
(* an instance of it as far as a browser can see.                          *)
(***************************************************************************)
CONSTANTS Tokens, None

VARIABLES
  handed,   \* tokens that clients have received
  spent,    \* those exchanged, signed out, or ended with others
  trading,  \* those presented, found good, and not yet answered
  origin    \* the token for which one was handed out, None for a sign-in

vars == <<handed, spent, trading, origin>>

Init ==
  /\ handed \subseteq Tokens
  /\ spent = {} /\ trading = {}
  /\ origin = [t \in Tokens |-> None]

Present(t) ==
  /\ t \in handed \ spent
  /\ trading' = trading \cup {t}
  /\ UNCHANGED <<handed, spent, origin>>

\* The exchange fails: its token may be spent all the same.
GiveUp(t) ==
  /\ trading' = trading \ {t}
  /\ UNCHANGED <<handed, spent, origin>>

Spend(S) ==
  /\ spent' = spent \cup S
  /\ UNCHANGED <<handed, trading, origin>>

\* Token n reaches a client, in exchange for token t, while S is spent.
HandOut(n, t, S) ==
  /\ n \notin handed
  /\ handed' = handed \cup {n}
  /\ spent' = spent \cup S
  /\ origin' = [origin EXCEPT ![n] = t]

\* A session may be ended before its token has arrived.
SignIn(n) ==
  /\ \E S \in SUBSET {n} : HandOut(n, None, S)
  /\ UNCHANGED trading

Grant(n, t) ==
  /\ t \in trading
  /\ \E S \in SUBSET {n, t} : HandOut(n, t, S)
  /\ t \in spent'
  /\ trading' \in {trading, trading \ {t}}

Next ==
  \/ \E t \in Tokens : Present(t) \/ GiveUp(t) \/ SignIn(t)
  \/ \E n, t \in Tokens : Grant(n, t)
  \/ \E S \in SUBSET handed : Spend(S)

Spec == Init /\ [][Next]_vars

=============================================================================
