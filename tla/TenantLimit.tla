----------------------------- MODULE TenantLimit -----------------------------
(***************************************************************************)
(* The limiter of the tenant routes (api/security/tenant_limits.py), for   *)
(* one tenant and one scope.                                               *)
(*                                                                         *)
(* One Redis key counts the requests of a window.  The request that finds  *)
(* the key without a time to live gives it one; but it looks at the time   *)
(* to live before the transaction that increments the key, and again after *)
(* it, for Retry-After.  Times are kept relative to the present.           *)
(***************************************************************************)
EXTENDS Integers, FiniteSets

CONSTANTS
  Workers,
  Window,  \* window_ms
  Limit,   \* max_requests
  Second   \* the unit of Retry-After

ASSUME TenantLimitAssumption ==
  Window \in Nat \ {0} /\ Limit \in Nat \ {0} /\ Second \in Nat \ {0}

\* What PTTL answers for a key that is not there, and for one without expiry.
Gone    == -2
Forever == -1

TTLs == {Gone, Forever} \cup 1 .. Window

\* Longest wait Retry-After can name.
Longest == Window + Second

AtMost(n, bound) == IF n < bound THEN n ELSE bound

VARIABLES
  \* Redis
  count,     \* the key's value, told apart up to one above the limit
  ttl,       \* its time to live
  \* the workers
  pc,
  seen,      \* ttl_ms: the first PTTL
  \* history
  recent,    \* requests let through in the last window: how long ago, at which
             \* value of the key, and whether that key has expired since
  anchored,  \* the key was armed by its first transaction and by no other
  mine,      \* a refused worker's key is still the one that refused it
  told       \* what is left of the wait the present key's last refusal named

redis == <<count, ttl>>
local == <<pc, seen, mine>>
hist  == <<recent, anchored, told>>
vars  == <<redis, local, hist>>

Ages     == 0 .. Window - 1
Requests == [age : Ages, n : Nat, old : BOOLEAN]
NotTold  == -1

TypeOK ==
  /\ count \in 0 .. Limit + 1
  /\ ttl \in TTLs
  /\ pc \in [Workers -> {"idle", "exec", "remaining"}]
  /\ seen \in [Workers -> TTLs]
  /\ recent \subseteq Requests
  /\ anchored \in BOOLEAN
  /\ mine \in [Workers -> BOOLEAN]
  /\ told \in NotTold .. Longest

-----------------------------------------------------------------------------
\* A request arrives; pttl is sent at once, outside the pipeline.
ReadTTL(w) ==
  /\ pc[w] = "idle"
  /\ pc' = [pc EXCEPT ![w] = "exec"]
  /\ seen' = [seen EXCEPT ![w] = ttl]
  /\ UNCHANGED <<redis, mine, hist>>

\* As in AuthSessions, Mistaken_... is the next definition with a mistake.
Mistaken_Arms(s) == s = Gone

\* The pipeline holds a PEXPIRE.
Arms(s) == s < 0

\* The key's time to live after the transaction: INCR leaves it alone, and
\* makes a key without one.
Armed(s) == IF Arms(s) THEN Window ELSE IF ttl = Gone THEN Forever ELSE ttl

Mistaken_Over(n) == n > Limit + 1

Over(n) == n > Limit

Admit(w, n) ==
  /\ recent' = recent \cup {[age |-> 0, n |-> n, old |-> FALSE]}
  /\ pc' = [pc EXCEPT ![w] = "idle"]
  /\ UNCHANGED <<mine, told>>

Refuse(w) ==
  /\ pc' = [pc EXCEPT ![w] = "remaining"]
  /\ mine' = [mine EXCEPT ![w] = TRUE]
  /\ UNCHANGED <<recent, told>>

\* The transaction, and the decision on its result.
Execute(w) ==
  /\ pc[w] = "exec"
  /\ LET n == count + 1
     IN  /\ count' = AtMost(n, Limit + 1)
         /\ \/ ~Over(n) /\ Admit(w, n)
            \/ Over(n) /\ Refuse(w)
  /\ ttl' = Armed(seen[w])
  /\ anchored' = IF ttl = Gone THEN Arms(seen[w]) ELSE anchored /\ ~Arms(seen[w])
  /\ UNCHANGED seen

Mistaken_RetryAfter(left) ==
  LET r == left \div Second IN IF r < 1 THEN 1 ELSE r

\* Whole seconds, rounded up.
RetryAfter(left) == (left + Second - 1) \div Second

\* The second PTTL, and the 429.
Remaining(w) ==
  /\ pc[w] = "remaining"
  /\ LET left == IF ttl > 0 THEN ttl ELSE Window
     IN  told' = IF mine[w] THEN RetryAfter(left) * Second ELSE told
  /\ pc' = [pc EXCEPT ![w] = "idle"]
  /\ mine' = [mine EXCEPT ![w] = FALSE]
  /\ UNCHANGED <<redis, seen, recent, anchored>>

\* The worker dies, or Redis does not answer.
Drop(w) ==
  /\ pc[w] # "idle"
  /\ pc' = [pc EXCEPT ![w] = "idle"]
  /\ mine' = [mine EXCEPT ![w] = FALSE]
  /\ UNCHANGED <<redis, seen, hist>>

Aged == {[r EXCEPT !.age = @ + 1] : r \in {q \in recent : q.age + 1 \in Ages}}

\* Time passes, and the key stays.
Tick ==
  /\ ttl # 1
  /\ ttl' = IF ttl > 0 THEN ttl - 1 ELSE ttl
  /\ told' = IF told > 0 THEN told - 1 ELSE told
  /\ recent' = Aged
  /\ UNCHANGED <<count, local, anchored>>

\* Time passes, and the key goes.
Expire ==
  /\ ttl = 1
  /\ ttl' = Gone
  /\ count' = 0
  /\ told' = NotTold
  /\ anchored' = FALSE
  /\ mine' = [w \in Workers |-> FALSE]
  /\ recent' = {[r EXCEPT !.old = TRUE] : r \in Aged}
  /\ UNCHANGED <<pc, seen>>

Init ==
  /\ count = 0
  /\ ttl = Gone
  /\ pc = [w \in Workers |-> "idle"]
  /\ seen = [w \in Workers |-> Gone]
  /\ recent = {}
  /\ anchored = FALSE
  /\ mine = [w \in Workers |-> FALSE]
  /\ told = NotTold

Serve(w) == Execute(w) \/ Remaining(w)

Next ==
  \/ Tick \/ Expire
  \/ \E w \in Workers : ReadTTL(w) \/ Serve(w) \/ Drop(w)

\* Time passes, and a worker goes on with a request it has.
Fairness == WF_vars(Tick \/ Expire) /\ \A w \in Workers : WF_vars(Serve(w))

Spec == Init /\ [][Next]_vars

FairSpec == Spec /\ Fairness

-----------------------------------------------------------------------------
\* In any time as long as a window at most twice the limit is let through: a key
\* lives at least one window, whoever armed it.
SlidingBounded == Cardinality(recent) <= 2 * Limit

\* A client that waits as told finds the key that refused it gone, if that key
\* was armed by its first request only.
RetryKept == anchored => told # 0

Refused  == \E w \in Workers : Remaining(w)
Admitted == \E w \in Workers : Execute(w) /\ pc'[w] = "idle"

\* Refusals do not go on for ever: whatever the order of PTTL and transaction, a
\* key without a time to live gets one, and a key that has one keeps it.
RefusedThenServed == []<><<Refused>>_vars => []<><<Admitted>>_vars

=============================================================================
