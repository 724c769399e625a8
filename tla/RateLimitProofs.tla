---------------------------- MODULE RateLimitProofs ----------------------------
(***************************************************************************)
(* Proofs about RateLimit, for any window, limit, number of workers and    *)
(* delay up to a window.                                                   *)
(*                                                                         *)
(* A transaction of window b comes before that window and the next are     *)
(* over (InTime).  A key lives for a window from its last transaction, so  *)
(* one that dies in time to be born again has been used in window b only,  *)
(* and its successor outlives every transaction of b (Lives).              *)
(*                                                                         *)
(* For SlidingBounded: a key does not have the same value twice within a   *)
(* window (Spaced), and the transactions of any time as long as a window   *)
(* are of three windows at most.                                           *)
(***************************************************************************)
EXTENDS RateLimit, FiniteSetTheorems, TLAPS

\* A transaction comes at most MaxDelay after its stamp.
InTime == \A w \in Workers : pc[w] = "incr" => ts[w] <= now /\ now <= ts[w] + MaxDelay

\* The first instant of window b, and the first after it.
Opens(b)  == b * Window
Closes(b) == b * Window + Window

\* What has been let through in the lives of the key of each window.
Lives ==
  \A b \in Buckets :
    /\ dies[b] # 0 => Closes(b) <= dies[b] /\ dies[b] <= now + Window
    /\ dies[b] = 0 => stamped[b] = 0
    /\ dies[b] < Closes(b) + Window => stamped[b] <= count[b] /\ stamped[b] <= Limit
    /\ stamped[b] <= Limit + count[b] /\ stamped[b] <= 2 * Limit

\* A refused client has been told to come back after the window.
Told == told.bucket # -1 => Closes(told.bucket) <= told.until

Inv == TypeOK /\ InTime /\ Lives /\ Told

-----------------------------------------------------------------------------
\* A window is as long as it should be, and an instant is in one.
LEMMA InWindow ==
  ASSUME NEW t \in Nat
  PROVE  /\ Bucket(t) \in Nat
         /\ Opens(Bucket(t)) \in Nat /\ Opens(Bucket(t)) <= t /\ t < Closes(Bucket(t))
         /\ Start(t) = Opens(Bucket(t))
<1> DEFINE q == t \div Window
           r == t % Window
<1>1. q \in Nat /\ r \in 0 .. Window - 1
  BY LimitAssumption
<1>2. t = (q * Window) + r
  BY LimitAssumption, SMTT(30)
<1>3. q * Window \in Nat
  BY <1>1, LimitAssumption
<1> HIDE DEF q, r
<1>4. /\ q * Window <= t /\ t < q * Window + Window /\ t - r = q * Window
  BY <1>1, <1>2, <1>3, LimitAssumption
<1> QED
  BY <1>1, <1>3, <1>4 DEF Bucket, Opens, Closes, Start, q, r

\* Windows come in the order of their numbers.
LEMMA InOrder ==
  ASSUME NEW a \in Nat, NEW b \in Nat, a < b
  PROVE  Closes(a) <= Opens(b)
<1>1. (a + 1) * Window <= b * Window
  BY LimitAssumption, SMTT(30)
<1>2. (a + 1) * Window = a * Window + Window
  BY LimitAssumption, SMTT(30)
<1> QED
  BY <1>1, <1>2 DEF Closes, Opens

\* Every instant up to the horizon has its key.
LEMMA BucketIn == \A t \in Times : Bucket(t) \in Buckets
<1> SUFFICES ASSUME NEW t \in Times PROVE Bucket(t) \in Buckets
  OBVIOUS
<1>1. t \in Nat /\ Horizon \in Nat /\ t <= Horizon
  BY LimitAssumption DEF Times
<1>2. /\ Bucket(t) \in Nat /\ Bucket(Horizon) \in Nat
      /\ Opens(Bucket(t)) <= t /\ Horizon < Closes(Bucket(Horizon))
  BY <1>1, InWindow
<1>3. ~(Bucket(Horizon) < Bucket(t))
  <2> SUFFICES ASSUME Bucket(Horizon) < Bucket(t) PROVE FALSE
    OBVIOUS
  <2>1. Closes(Bucket(Horizon)) <= Opens(Bucket(t))
    BY <1>2, InOrder
  <2>2. /\ Closes(Bucket(Horizon)) \in Int /\ Opens(Bucket(t)) \in Int
    BY <1>2, LimitAssumption DEF Closes, Opens
  <2> QED
    BY <1>1, <1>2, <2>1, <2>2
<1> QED
  BY <1>2, <1>3 DEF Buckets

\* A client that waits for as long as it is told is out of the window.
LEMMA Waited ==
  ASSUME NEW t \in Nat
  PROVE  /\ t + Second * RetryAfter(t) \in Nat
         /\ Closes(Bucket(t)) <= t + Second * RetryAfter(t)
<1> DEFINE left == Closes(Bucket(t)) - t
           n == left + Second - 1
           q == n \div Second
<1>1. left \in Nat \ {0} /\ Start(t) + Window - t = left
  <2> DEFINE o == Opens(Bucket(t))
  <2>1. Closes(Bucket(t)) = o + Window
    BY DEF Closes, Opens
  <2>2. o \in Nat /\ o <= t /\ t < o + Window /\ Start(t) = o
    BY <2>1, InWindow
  <2>3. left = o + Window - t
    BY <2>1, <2>2, LimitAssumption
  <2> HIDE DEF o, left
  <2> QED
    BY <2>2, <2>3, LimitAssumption
<1>2. n \in Nat
  <2> HIDE DEF left
  <2> QED
    BY <1>1, LimitAssumption
<1>3. q \in Nat /\ n < Second * q + Second
  <2> HIDE DEF n
  <2>1. q \in Nat /\ n = (Second * q) + (n % Second) /\ n % Second \in 0 .. Second - 1
    BY <1>2, LimitAssumption, SMTT(30)
  <2>2. Second * q \in Nat
    BY <2>1, LimitAssumption
  <2> HIDE DEF q
  <2> QED
    BY <2>1, <2>2, LimitAssumption
<1>4. left <= Second * q
  <2>1. Second * q \in Nat
    BY <1>3, LimitAssumption
  <2> HIDE DEF left, q
  <2> QED
    BY <1>1, <1>3, <2>1, LimitAssumption
<1>5. q >= 1
  <2> HIDE DEF left, q
  <2> QED
    BY <1>1, <1>3, <1>4, LimitAssumption, SMTT(30)
<1>6. RetryAfter(t) = q
  BY <1>1, <1>3, <1>5 DEF RetryAfter
<1>7. Second * q \in Nat
  BY <1>3, LimitAssumption
<1> HIDE DEF q
<1> QED
  BY <1>1, <1>4, <1>6, <1>7, InWindow, LimitAssumption DEF Closes

-----------------------------------------------------------------------------
\* Every step keeps the types.
LEMMA TypeInv ==
  ASSUME TypeOK, [Next]_vars
  PROVE  TypeOK'
<1> USE LimitAssumption DEF TypeOK, keys, hist
<1>1. ASSUME NEW w \in Workers, TakeStamp(w) PROVE TypeOK'
  BY <1>1 DEF TakeStamp
<1>2. ASSUME NEW w \in Workers, IncrAndCheck(w) PROVE TypeOK'
  <2> DEFINE b == Bucket(ts[w])
             n == Incremented(b)
  <2>1. b \in Buckets /\ ts[w] \in Times
    BY BucketIn
  <2>2. n \in Nat
    BY <2>1 DEF Incremented
  <2>3. now \in Nat /\ now + Window \in Nat
    BY DEF Times
  <2>4. count' \in [Buckets -> Nat] /\ dies' \in [Buckets -> Nat] /\ tried' \in [Buckets -> Nat]
    <3> HIDE DEF b, n
    <3>1. count' = [count EXCEPT ![b] = n]
      BY <1>2 DEF IncrAndCheck, b, n
    <3>2. dies' = [dies EXCEPT ![b] = now + Window]
      BY <1>2 DEF IncrAndCheck, Expire, b
    <3>3. tried' = [tried EXCEPT ![b] = @ + 1]
      BY <1>2 DEF IncrAndCheck, b
    <3> QED
      BY <2>1, <2>2, <2>3, <3>1, <3>2, <3>3
  <2>5. admitted' \subseteq Requests /\ stamped' \in [Buckets -> Nat]
    <3>0. [at |-> now, bucket |-> b, n |-> n] \in Requests
      <4> HIDE DEF b, n
      <4> QED
        BY <2>1, <2>2 DEF Requests
    <3> HIDE DEF b, n
    <3>1. \/ UNCHANGED <<admitted, stamped>>
          \/ /\ admitted' = admitted \cup {[at |-> now, bucket |-> b, n |-> n]}
             /\ stamped' = [stamped EXCEPT ![b] = @ + 1]
      BY <1>2 DEF IncrAndCheck, b, n
    <3> QED
      BY <2>1, <3>0, <3>1
  <2>6. told' \in [bucket : Buckets \cup {-1}, until : Nat]
    <3>1. ts[w] + Second * RetryAfter(ts[w]) \in Nat
      BY <2>1, Waited DEF Times
    <3>2. \/ UNCHANGED told
          \/ told' = [bucket |-> b, until |-> ts[w] + Second * RetryAfter(ts[w])]
      BY <1>2 DEF IncrAndCheck
    <3> HIDE DEF b
    <3> QED
      BY <2>1, <3>1, <3>2
  <2>7. UNCHANGED <<now, ts>> /\ pc' \in [Workers -> {"idle", "incr"}]
    BY <1>2 DEF IncrAndCheck
  <2> QED
    BY <2>4, <2>5, <2>6, <2>7
<1>3. ASSUME NEW w \in Workers, Drop(w) PROVE TypeOK'
  BY <1>3 DEF Drop
<1>4. CASE Tick
  BY <1>4 DEF Tick, Times
<1>5. CASE UNCHANGED vars
  BY <1>5 DEF vars
<1> QED
  BY <1>1, <1>2, <1>3, <1>4, <1>5 DEF Next

\* gunicorn's timeout bounds the age of a stamp: time does not pass a slow worker.
LEMMA InTimeInv ==
  ASSUME TypeOK, InTime, [Next]_vars
  PROVE  InTime'
<1> USE LimitAssumption DEF TypeOK, InTime, Times
<1>1. ASSUME NEW w \in Workers, TakeStamp(w) PROVE InTime'
  BY <1>1 DEF TakeStamp
<1>2. ASSUME NEW w \in Workers, IncrAndCheck(w) \/ Drop(w) PROVE InTime'
  <2>1. UNCHANGED <<now, ts>> /\ pc' = [pc EXCEPT ![w] = "idle"]
    BY <1>2 DEF IncrAndCheck, Drop
  <2> QED
    BY <2>1
<1>3. CASE Tick
  BY <1>3 DEF Tick
<1>4. CASE UNCHANGED vars
  BY <1>4 DEF vars
<1> QED
  BY <1>1, <1>2, <1>3, <1>4 DEF Next

\* A transaction is either of the life that the key has, or gives it one, of which
\* there are at most two.
LEMMA LivesInv ==
  ASSUME TypeOK, InTime, Lives, [Next]_vars
  PROVE  Lives'
<1>1. ASSUME UNCHANGED <<count, dies, stamped>>, now' = now \/ now' = now + 1 PROVE Lives'
  BY <1>1, LimitAssumption DEF Lives, TypeOK, Times
<1>2. ASSUME NEW w \in Workers, IncrAndCheck(w) PROVE Lives'
  <2> DEFINE b == Bucket(ts[w])
             n == Incremented(b)
  <2>1. b \in Buckets /\ ts[w] \in Nat /\ now \in Nat /\ b \in Nat
    BY BucketIn, LimitAssumption DEF TypeOK, Times, Buckets
  <2>2. Opens(b) \in Nat /\ Opens(b) <= ts[w] /\ ts[w] < Closes(b)
    BY <2>1, InWindow
  <2> HIDE DEF b, n
  <2>3. Closes(b) \in Nat /\ Closes(b) = Opens(b) + Window
    BY <2>2, LimitAssumption DEF Closes, Opens
  <2>4. Opens(b) <= now /\ now < Closes(b) + Window
    <3>1. ts[w] <= now /\ now <= ts[w] + MaxDelay
      BY <1>2 DEF InTime, IncrAndCheck
    <3> QED
      BY <2>1, <2>2, <2>3, <3>1, LimitAssumption
  <2>5. /\ count' = [count EXCEPT ![b] = n] /\ dies' = [dies EXCEPT ![b] = now + Window]
        /\ \/ n <= Limit /\ stamped' = [stamped EXCEPT ![b] = @ + 1]
           \/ stamped' = stamped
    BY <1>2, <2>1, LimitAssumption DEF IncrAndCheck, Expire, Over, b, n, TypeOK, Incremented
  <2>6. ASSUME NEW a \in Buckets, a # b
        PROVE  count'[a] = count[a] /\ dies'[a] = dies[a] /\ stamped'[a] = stamped[a]
    BY <2>1, <2>5, <2>6 DEF TypeOK
  <2>7. /\ count'[b] = n /\ dies'[b] = now + Window
        /\ stamped'[b] = stamped[b] \/ (n <= Limit /\ stamped'[b] = stamped[b] + 1)
    BY <2>1, <2>5 DEF TypeOK
  <2>8. /\ count[b] \in Nat /\ dies[b] \in Nat /\ stamped[b] \in Nat
    BY <2>1 DEF TypeOK
  <2>9. /\ dies[b] # 0 => Closes(b) <= dies[b] /\ dies[b] <= now + Window
        /\ dies[b] = 0 => stamped[b] = 0
        /\ dies[b] < Closes(b) + Window => stamped[b] <= count[b] /\ stamped[b] <= Limit
        /\ stamped[b] <= Limit + count[b] /\ stamped[b] <= 2 * Limit
    BY <2>1 DEF Lives
  <2>10. /\ dies'[b] # 0 => Closes(b) <= dies'[b] /\ dies'[b] <= now + Window
         /\ dies'[b] = 0 => stamped'[b] = 0
         /\ dies'[b] < Closes(b) + Window => stamped'[b] <= count'[b] /\ stamped'[b] <= Limit
         /\ stamped'[b] <= Limit + count'[b] /\ stamped'[b] <= 2 * Limit
    <3>1. CASE now < dies[b]
      <4>1. n = count[b] + 1
        BY <3>1 DEF n, Incremented
      <4>2. /\ count'[b] = count[b] + 1 /\ stamped'[b] \in Nat /\ stamped'[b] <= stamped[b] + 1
            /\ stamped'[b] # stamped[b] => count'[b] <= Limit
        BY <2>7, <2>8, <4>1
      <4>3. dies'[b] = now + Window /\ dies'[b] >= Closes(b) /\ dies'[b] # 0
        BY <2>1, <2>3, <2>7, <2>8, <2>9, <3>1, LimitAssumption
      <4>4. dies'[b] < Closes(b) + Window => dies[b] < Closes(b) + Window
        BY <2>1, <2>3, <2>8, <2>9, <4>3, LimitAssumption
      <4>5. dies[b] < Closes(b) + Window => stamped'[b] <= count'[b] /\ stamped'[b] <= Limit
        BY <2>8, <2>9, <4>2, LimitAssumption
      <4>6. stamped'[b] <= Limit + count'[b] /\ stamped'[b] <= 2 * Limit
        BY <2>8, <2>9, <4>2, LimitAssumption
      <4> QED
        BY <2>1, <4>3, <4>4, <4>5, <4>6, LimitAssumption
    <3>2. CASE ~(now < dies[b])
      <4>1. n = 1
        BY <3>2 DEF n, Incremented
      <4> QED
        <5>1. CASE dies[b] = 0
          BY <2>1, <2>2, <2>3, <2>4, <2>7, <2>8, <2>9, <4>1, <5>1, LimitAssumption
        <5>2. CASE dies[b] # 0
          <6>1. dies'[b] >= Closes(b) + Window /\ stamped[b] <= Limit
            BY <2>1, <2>2, <2>3, <2>4, <2>7, <2>8, <2>9, <3>2, <5>2, LimitAssumption
          <6> QED
            BY <2>1, <2>3, <2>7, <2>8, <4>1, <6>1, LimitAssumption
        <5> QED
          BY <5>1, <5>2
    <3> QED
      BY <3>1, <3>2
  <2> QED
    BY <1>2, <2>6, <2>10 DEF Lives, IncrAndCheck
<1>3. ASSUME ~(\E w \in Workers : IncrAndCheck(w))
      PROVE  UNCHANGED <<count, dies, stamped>> /\ (now' = now \/ now' = now + 1)
  BY <1>3 DEF Next, vars, keys, hist, Tick, TakeStamp, Drop
<1> QED
  BY <1>1, <1>2, <1>3

\* A refusal names an instant that is not in the window that refused.
LEMMA ToldInv ==
  ASSUME TypeOK, Told, [Next]_vars
  PROVE  Told'
<1>1. CASE UNCHANGED told
  BY <1>1 DEF Told
<1>2. ASSUME NEW w \in Workers, IncrAndCheck(w) PROVE Told'
  <2> DEFINE b == Bucket(ts[w])
             until == ts[w] + Second * RetryAfter(ts[w])
  <2>1. Closes(b) <= until
    BY Waited, LimitAssumption DEF TypeOK, Times
  <2>2. UNCHANGED told \/ told' = [bucket |-> b, until |-> until]
    BY <1>2 DEF IncrAndCheck
  <2> HIDE DEF b, until
  <2> QED
    BY <1>1, <2>1, <2>2 DEF Told
<1> QED
  BY <1>1, <1>2 DEF Next, vars, hist, Tick, TakeStamp, Drop

\* The invariant holds of an empty Redis.
LEMMA InitInv == Init => Inv
<1> SUFFICES ASSUME Init PROVE Inv
  OBVIOUS
<1> USE LimitAssumption DEF Init
<1>1. TypeOK
  BY DEF TypeOK, Times, NotTold
<1>2. InTime /\ Lives /\ Told
  BY DEF InTime, Lives, Told, NotTold
<1> QED
  BY <1>1, <1>2 DEF Inv

\* The limiter keeps the invariant.
THEOREM InvHolds == Spec => []Inv
<1>1. Inv /\ [Next]_vars => Inv'
  BY TypeInv, InTimeInv, LivesInv, ToldInv DEF Inv
<1> QED
  BY InitInv, <1>1, PTL DEF Spec

\* The types of Redis, of the workers and of the history.
THEOREM TypeCorrect == Spec => []TypeOK
<1>1. Inv => TypeOK
  BY DEF Inv
<1> QED
  BY InvHolds, <1>1, PTL

\* However many workers count, and however late, at most twice the limit is let
\* through of the requests stamped in a window.
THEOREM WindowsBounded == Spec => []WindowBounded
<1>1. Inv => WindowBounded
  BY DEF Inv, Lives, WindowBounded
<1> QED
  BY InvHolds, <1>1, PTL

\* A client that waits as long as it is told is not counted in the window that
\* refused it.
THEOREM RetriesLand == Spec => []RetryLandsLater
<1>1. Inv => RetryLandsLater
  <2> SUFFICES ASSUME Inv, NEW w \in Workers, ts[w] >= told.until, Bucket(ts[w]) = told.bucket
               PROVE  FALSE
    BY DEF RetryLandsLater
  <2>1. ts[w] \in Nat /\ told.until \in Nat
    BY LimitAssumption DEF Inv, TypeOK, Times
  <2>2. Bucket(ts[w]) \in Nat /\ ts[w] < Closes(Bucket(ts[w]))
    BY <2>1, InWindow
  <2>3. Closes(Bucket(ts[w])) <= told.until /\ Closes(Bucket(ts[w])) \in Nat
    BY <2>2, LimitAssumption DEF Inv, Told, Closes
  <2> QED
    BY <2>1, <2>2, <2>3
<1> QED
  BY InvHolds, <1>1, PTL

-----------------------------------------------------------------------------
\* The requests let through are in time, one for each value of a key up to the limit
\* within a window; a value that is to come again is a window old.
Spaced ==
  /\ \A r \in admitted :
       /\ r.n \in 1 .. Limit
       /\ r.at <= now
       /\ Opens(r.bucket) <= r.at /\ r.at < Closes(r.bucket) + Window
       /\ r.at + Window <= dies[r.bucket]
       /\ r.n <= count[r.bucket] \/ r.at + Window <= now
  /\ \A r, s \in admitted :
       r.bucket = s.bucket /\ r.n = s.n /\ r # s =>
         r.at + Window <= s.at \/ s.at + Window <= r.at

\* A transaction comes in the window of its stamp or in the next.
LEMMA StampInTime ==
  ASSUME Inv, NEW w \in Workers, pc[w] = "incr"
  PROVE  LET b == Bucket(ts[w])
         IN  /\ b \in Buckets /\ b \in Nat /\ now \in Nat
             /\ Opens(b) \in Nat /\ Closes(b) = Opens(b) + Window
             /\ Opens(b) <= now /\ now < Closes(b) + Window
<1> DEFINE b == Bucket(ts[w])
<1>1. b \in Buckets /\ ts[w] \in Nat /\ now \in Nat /\ b \in Nat
  BY BucketIn, LimitAssumption DEF Inv, TypeOK, Times, Buckets
<1>2. Opens(b) \in Nat /\ Opens(b) <= ts[w] /\ ts[w] < Closes(b)
  BY <1>1, InWindow
<1>3. ts[w] <= now /\ now <= ts[w] + MaxDelay
  BY DEF Inv, InTime
<1> HIDE DEF b
<1>4. Closes(b) = Opens(b) + Window
  BY <1>2, LimitAssumption DEF Closes, Opens
<1>5. Opens(b) <= now /\ now < Closes(b) + Window
  BY <1>1, <1>2, <1>3, <1>4, LimitAssumption
<1> QED
  BY <1>1, <1>2, <1>4, <1>5 DEF b

\* Time makes what is old older.
LEMMA SpacedTime ==
  ASSUME Inv, Spaced, UNCHANGED <<keys, admitted>>, now' = now \/ now' = now + 1
  PROVE  Spaced'
<1>1. now \in Nat /\ Window \in Nat /\ count' = count /\ dies' = dies /\ admitted' = admitted
  BY LimitAssumption DEF Inv, TypeOK, Times, keys
<1>2. \A r \in admitted : r.at \in Nat
  BY LimitAssumption DEF Inv, TypeOK, Requests, Times
<1>3. \A r \in admitted : r.at <= now => r.at <= now'
  BY <1>1, <1>2
<1>4. \A r \in admitted : r.at + Window <= now => r.at + Window <= now'
  BY <1>1, <1>2
<1> QED
  BY <1>1, <1>3, <1>4 DEF Spaced

\* A transaction gives its key a value that it has not had for a window.
LEMMA SpacedStep ==
  ASSUME Inv, Spaced, NEW w \in Workers, IncrAndCheck(w)
  PROVE  Spaced'
<1> DEFINE b == Bucket(ts[w])
           n == Incremented(b)
           new == [at |-> now, bucket |-> b, n |-> n]
<1>1. /\ b \in Buckets /\ b \in Nat /\ now \in Nat
      /\ Opens(b) \in Nat /\ Closes(b) = Opens(b) + Window
      /\ Opens(b) <= now /\ now < Closes(b) + Window
  BY StampInTime DEF IncrAndCheck
<1>2. /\ n = IF now < dies[b] THEN count[b] + 1 ELSE 1
      /\ count' = [count EXCEPT ![b] = n] /\ dies' = [dies EXCEPT ![b] = now + Window]
      /\ now' = now
  BY DEF IncrAndCheck, Expire, Incremented
<1>3. admitted' = admitted \/ (n <= Limit /\ admitted' = admitted \cup {new})
  <2>1. n \in Nat
    <3> HIDE DEF b, n
    <3> QED
      BY <1>1, <1>2 DEF Inv, TypeOK
  <2> QED
    BY <2>1, LimitAssumption DEF IncrAndCheck, Over
<1>4. new.at = now /\ new.bucket = b /\ new.n = n
  OBVIOUS
<1> HIDE DEF b, n, new
<1>5. /\ count \in [Buckets -> Nat] /\ dies \in [Buckets -> Nat] /\ n \in Nat \ {0}
      /\ Window \in Nat \ {0} /\ Limit \in Nat
  BY <1>1, <1>2, LimitAssumption DEF Inv, TypeOK
<1>6. \A r \in admitted : r.at \in Nat /\ r.bucket \in Buckets /\ r.n \in Nat
  BY LimitAssumption DEF Inv, TypeOK, Requests, Times
<1>7. /\ count'[b] = n /\ dies'[b] = now + Window
      /\ \A a \in Buckets : a # b => count'[a] = count[a] /\ dies'[a] = dies[a]
  BY <1>1, <1>2, <1>5
<1>8. ASSUME NEW r \in admitted, r.bucket = b, r.n >= n
      PROVE  r.at + Window <= now
  <2>1. r.at + Window <= dies[b] /\ (r.n <= count[b] \/ r.at + Window <= now)
    BY <1>8 DEF Spaced
  <2>2. dies[b] \in Nat /\ count[b] \in Nat
    BY <1>1, <1>5
  <2> QED
    BY <1>1, <1>2, <1>5, <1>6, <1>8, <2>1, <2>2
<1>9. ASSUME NEW r \in admitted
      PROVE  /\ r.n \in 1 .. Limit
             /\ r.at <= now'
             /\ Opens(r.bucket) <= r.at /\ r.at < Closes(r.bucket) + Window
             /\ r.at + Window <= dies'[r.bucket]
             /\ r.n <= count'[r.bucket] \/ r.at + Window <= now'
  <2>1. /\ r.n \in 1 .. Limit /\ r.at <= now
        /\ Opens(r.bucket) <= r.at /\ r.at < Closes(r.bucket) + Window
        /\ r.at + Window <= dies[r.bucket]
        /\ r.n <= count[r.bucket] \/ r.at + Window <= now
    BY DEF Spaced
  <2>2. r.at + Window <= dies'[r.bucket]
    <3>1. r.at \in Nat /\ r.bucket \in Buckets
      BY <1>6
    <3>2. CASE r.bucket = b
      BY <1>1, <1>5, <1>7, <2>1, <3>1, <3>2
    <3>3. CASE r.bucket # b
      BY <1>7, <2>1, <3>1, <3>3
    <3> QED
      BY <3>2, <3>3
  <2>3. r.n <= count'[r.bucket] \/ r.at + Window <= now
    <3>1. CASE r.bucket = b
      BY <1>5, <1>6, <1>7, <1>8, <3>1
    <3>2. CASE r.bucket # b
      BY <1>6, <1>7, <2>1, <3>2
    <3> QED
      BY <3>1, <3>2
  <2> QED
    BY <1>2, <2>1, <2>2, <2>3
<1>10. ASSUME n <= Limit
       PROVE  /\ new.n \in 1 .. Limit
              /\ new.at <= now'
              /\ Opens(new.bucket) <= new.at /\ new.at < Closes(new.bucket) + Window
              /\ new.at + Window <= dies'[new.bucket]
              /\ new.n <= count'[new.bucket] \/ new.at + Window <= now'
  BY <1>1, <1>2, <1>4, <1>5, <1>7, <1>10
<1>11. ASSUME NEW r \in admitted, r.bucket = new.bucket, r.n = new.n
       PROVE  r.at + Window <= new.at
  BY <1>4, <1>5, <1>8, <1>11
<1>12. \A r, s \in admitted \cup {new} :
         r.bucket = s.bucket /\ r.n = s.n /\ r # s =>
           r.at + Window <= s.at \/ s.at + Window <= r.at
  BY <1>11 DEF Spaced
<1>13. \A r, s \in admitted' :
         r.bucket = s.bucket /\ r.n = s.n /\ r # s =>
           r.at + Window <= s.at \/ s.at + Window <= r.at
  BY <1>3, <1>12
<1>14. \A r \in admitted' :
         /\ r.n \in 1 .. Limit
         /\ r.at <= now'
         /\ Opens(r.bucket) <= r.at /\ r.at < Closes(r.bucket) + Window
         /\ r.at + Window <= dies'[r.bucket]
         /\ r.n <= count'[r.bucket] \/ r.at + Window <= now'
  BY <1>3, <1>9, <1>10
<1> QED
  BY <1>13, <1>14 DEF Spaced

\* Requests let through within a window are stamped in one of three.
LEMMA ThreeWindows ==
  ASSUME Inv, Spaced, NEW t \in Times, NEW r \in AdmittedFrom(t)
  PROVE  r.bucket \in Bucket(t) - 1 .. Bucket(t) + 1
<1> DEFINE B == Bucket(t)
           a == r.bucket
<1>1. /\ Opens(a) <= r.at /\ r.at < Closes(a) + Window
      /\ r.at \in Nat /\ a \in Nat /\ t <= r.at /\ r.at <= t + Window - 1
  BY LimitAssumption DEF AdmittedFrom, Spaced, Inv, TypeOK, Requests, Times, Buckets
<1>2. t \in Nat /\ B \in Nat /\ Opens(B) \in Nat /\ Opens(B) <= t /\ t < Closes(B)
  BY InWindow, LimitAssumption DEF Times
<1> HIDE DEF a, B
<1>3. \A c \in Nat : /\ Opens(c) \in Nat /\ Closes(c) = Opens(c) + Window
                    /\ Opens(c + 1) = Closes(c)
  BY LimitAssumption, SMTT(30) DEF Opens, Closes
<1>4. ~(a + 1 < B)
  <2> SUFFICES ASSUME a + 1 < B PROVE FALSE
    OBVIOUS
  <2>1. Closes(a + 1) <= Opens(B)
    BY <1>1, <1>2, InOrder
  <2> QED
    BY <1>1, <1>2, <1>3, <2>1, LimitAssumption
<1>5. ~(B + 1 < a)
  <2> SUFFICES ASSUME B + 1 < a PROVE FALSE
    OBVIOUS
  <2>1. Closes(B + 1) <= Opens(a)
    BY <1>1, <1>2, InOrder
  <2> QED
    BY <1>1, <1>2, <1>3, <2>1, LimitAssumption
<1> QED
  BY <1>1, <1>2, <1>4, <1>5 DEF a, B

\* Hence there are at most as many as three keys have values.
LEMMA SpacedBound ==
  ASSUME Inv, Spaced
  PROVE  SlidingBounded
<1> SUFFICES ASSUME NEW t \in Times
             PROVE  Cardinality(AdmittedFrom(t)) <= 3 * Limit
  BY DEF SlidingBounded
<1> DEFINE A == AdmittedFrom(t)
           B == Bucket(t)
           Slots == 1 .. 3 * Limit
           f == [r \in A |-> IF r.bucket = B - 1 THEN r.n
                             ELSE IF r.bucket = B THEN Limit + r.n ELSE 2 * Limit + r.n]
<1>1. Limit \in Nat /\ 2 * Limit = Limit + Limit /\ 3 * Limit = Limit + Limit + Limit /\ 3 * Limit \in Nat
  BY LimitAssumption
<1>2. IsFiniteSet(Slots) /\ Cardinality(Slots) = 3 * Limit
  BY <1>1, FS_Interval
<1>3. B \in Int
  BY InWindow, LimitAssumption DEF Times
<1>4. \A r \in A : r.n \in 1 .. Limit /\ r.bucket \in B - 1 .. B + 1
  BY ThreeWindows DEF Spaced, AdmittedFrom
<1>5. \A r, s \in A : r.bucket = s.bucket /\ r.n = s.n => r = s
  <2>1. t \in Nat
    BY LimitAssumption DEF Times
  <2>2. \A r, s \in A : ~(r.at + Window <= s.at)
    BY <2>1, LimitAssumption DEF AdmittedFrom
  <2> QED
    BY <2>2 DEF Spaced, AdmittedFrom
<1> HIDE DEF A, B
<1>6. f \in Injection(A, Slots)
  <2>1. f \in [A -> Slots]
    BY <1>1, <1>3, <1>4
  <2>2. \A r, s \in A : f[r] = f[s] => r.bucket = s.bucket /\ r.n = s.n
    BY <1>1, <1>3, <1>4
  <2>3. \A r, s \in A : f[r] = f[s] => r = s
    BY <1>5, <2>2, Zenon
  <2> QED
    BY <2>1, <2>3 DEF Injection, IsInjective
<1> HIDE DEF Slots, f
<1> QED
  BY <1>2, <1>6, FS_Injection DEF A

\* For any window, limit, delay up to a window and number of workers: in any time as
\* long as a window at most three times the limit is let through.
THEOREM WindowsSlide == Spec => []SlidingBounded
<1>1. Init => Spaced
  BY DEF Init, Spaced
<1>2. ASSUME Inv, Spaced, [Next]_vars PROVE Spaced'
  <2>1. ASSUME ~(\E w \in Workers : IncrAndCheck(w))
        PROVE  UNCHANGED <<keys, admitted>> /\ (now' = now \/ now' = now + 1)
    BY <1>2, <2>1 DEF Next, vars, hist, Tick, TakeStamp, Drop
  <2> QED
    BY <1>2, <2>1, SpacedTime, SpacedStep
<1>3. Inv /\ Spaced => SlidingBounded
  BY SpacedBound
<1> QED
  BY <1>1, <1>2, <1>3, InvHolds, PTL DEF Spec

=============================================================================
