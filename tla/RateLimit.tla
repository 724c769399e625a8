------------------------------ MODULE RateLimit ------------------------------
(***************************************************************************)
(* The fixed-window limiter of the public auth endpoints                   *)
(* (api/security/rate_limit.py), for one scope and one identifier.         *)
(*                                                                         *)
(* A worker reads its clock, derives the key of the window from it, and    *)
(* then asks Redis, in one transaction, to increment the key and to let it *)
(* live for one more window.  Other workers, and time, pass between the    *)
(* two.  Time is counted in ticks; Second is a second of them.             *)
(***************************************************************************)
EXTENDS Integers, FiniteSets

CONSTANTS
  Workers,
  Window,    \* window_ms
  Limit,     \* max_requests
  Second,    \* the unit of Retry-After
  MaxDelay,  \* longest time from reading the clock to the transaction: gunicorn
             \* kills a worker that is slower (--timeout)
  Horizon,   \* the last instant: a bound
  Tries      \* requests stamped in a window: a bound

ASSUME LimitAssumption ==
  /\ Window \in Nat \ {0} /\ Limit \in Nat /\ Second \in Nat \ {0}
  /\ MaxDelay \in 0 .. Window /\ Horizon \in Nat /\ Tries \in Nat

Times == 0 .. Horizon

\* bucket_start_for_window, as the number of the window.
Bucket(t) == t \div Window

Buckets == 0 .. Bucket(Horizon)

Start(t) == t - (t % Window)

\* As in AuthSessions, Mistaken_... is the next definition with a mistake.
Mistaken_RetryAfter(t) ==
  LET r == (Start(t) + Window - t) \div Second IN IF r < 1 THEN 1 ELSE r

\* Whole seconds to the end of the window, at least one.
RetryAfter(t) ==
  LET r == (Start(t) + Window - t + Second - 1) \div Second
  IN  IF r < 1 THEN 1 ELSE r

VARIABLES
  now,
  \* Redis: the key of each window
  count,     \* its value
  dies,      \* when it expires
  \* the workers
  pc,
  ts,        \* the time a request was stamped with
  \* history
  admitted,  \* requests let through: the time of their transaction, the window of
             \* their stamp, and the value of the key
  stamped,   \* requests let through, by the window of their stamp
  tried,     \* requests counted, by the window of their stamp
  told       \* the last refusal: its window and when the client may retry

keys == <<count, dies>>
hist == <<admitted, stamped, tried, told>>
vars == <<now, keys, pc, ts, hist>>

Requests == [at : Times, bucket : Buckets, n : Nat]

NotTold == [bucket |-> -1, until |-> 0]

TypeOK ==
  /\ now \in Times
  /\ count \in [Buckets -> Nat]
  /\ dies \in [Buckets -> Nat]
  /\ pc \in [Workers -> {"idle", "incr"}]
  /\ ts \in [Workers -> Times]
  /\ admitted \subseteq Requests
  /\ stamped \in [Buckets -> Nat]
  /\ tried \in [Buckets -> Nat]
  /\ told \in [bucket : Buckets \cup {-1}, until : Nat]

-----------------------------------------------------------------------------
\* Requests stamped in window b, counted or not yet.
Stamped(b) ==
  tried[b] + Cardinality({w \in Workers : pc[w] = "incr" /\ Bucket(ts[w]) = b})

\* A request arrives and the handler reads its clock.
TakeStamp(w) ==
  /\ pc[w] = "idle"
  /\ Stamped(Bucket(now)) < Tries
  /\ pc' = [pc EXCEPT ![w] = "incr"]
  /\ ts' = [ts EXCEPT ![w] = now]
  /\ UNCHANGED <<now, keys, hist>>

\* The key's value after the increment: an expired key starts anew.
Incremented(b) == IF now < dies[b] THEN count[b] + 1 ELSE 1

Mistaken_Over(n) == n > Limit + 1

Over(n) == n > Limit

Mistaken_Expire(b) == dies' = [dies EXCEPT ![b] = now + 1]

Swapped_Expire(b) ==
  dies' = [dies EXCEPT ![b] = now + (now - (Start(now) + Window))]

\* pexpire, renewed by every request.
Expire(b) == dies' = [dies EXCEPT ![b] = now + Window]

\* incr_and_check_identifier_detailed, from the transaction on.
IncrAndCheck(w) ==
  /\ pc[w] = "incr"
  /\ LET b == Bucket(ts[w])
         n == Incremented(b)
     IN  /\ count' = [count EXCEPT ![b] = n]
         /\ Expire(b)
         /\ tried' = [tried EXCEPT ![b] = @ + 1]
         /\ \/ /\ ~Over(n)
               /\ admitted' = admitted \cup {[at |-> now, bucket |-> b, n |-> n]}
               /\ stamped' = [stamped EXCEPT ![b] = @ + 1]
               /\ UNCHANGED told
            \/ /\ Over(n)
               /\ told' = [bucket |-> b,
                           until |-> ts[w] + Second * RetryAfter(ts[w])]
               /\ UNCHANGED <<admitted, stamped>>
  /\ pc' = [pc EXCEPT ![w] = "idle"]
  /\ UNCHANGED <<now, ts>>

\* The worker is killed, or Redis does not answer: the request is not counted, and not
\* let through by the counter.  In scope forgot_password_email the handler swallows the
\* exception and goes on uncounted (routes/auth.py): no bound below covers that request.
Drop(w) ==
  /\ pc[w] = "incr"
  /\ pc' = [pc EXCEPT ![w] = "idle"]
  /\ UNCHANGED <<now, keys, ts, hist>>

Tick ==
  /\ now < Horizon
  /\ \A w \in Workers : pc[w] = "incr" => now < ts[w] + MaxDelay
  /\ now' = now + 1
  /\ UNCHANGED <<keys, pc, ts, hist>>

Init ==
  /\ now = 0
  /\ count = [b \in Buckets |-> 0]
  /\ dies = [b \in Buckets |-> 0]
  /\ pc = [w \in Workers |-> "idle"]
  /\ ts = [w \in Workers |-> 0]
  /\ admitted = {}
  /\ stamped = [b \in Buckets |-> 0]
  /\ tried = [b \in Buckets |-> 0]
  /\ told = NotTold

Next == Tick \/ \E w \in Workers : TakeStamp(w) \/ IncrAndCheck(w) \/ Drop(w)

Spec == Init /\ [][Next]_vars

-----------------------------------------------------------------------------
\* Requests that the counter let through from time t on, for the length of a window.
AdmittedFrom(t) == {r \in admitted : r.at \in t .. t + Window - 1}

\* However late the transactions come, a window's key is born at most twice, so
\* at most twice the limit is let through of the requests stamped in a window.
WindowBounded == \A b \in Buckets : stamped[b] <= 2 * Limit

\* In any time as long as a window at most three times the limit is let through:
\* the end of one window, the next, and late requests of the one before.
SlidingBounded ==
  \A t \in Times : Cardinality(AdmittedFrom(t)) <= 3 * Limit

\* A client that waits as told by Retry-After is not counted in the window that
\* refused it.
RetryLandsLater ==
  \A w \in Workers :
    pc[w] = "incr" /\ ts[w] >= told.until => Bucket(ts[w]) # told.bucket

=============================================================================
