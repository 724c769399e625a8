-------------------------- MODULE TenantLimitProofs --------------------------
(***************************************************************************)
(* Proofs about TenantLimit, for any window, limit and number of workers.  *)
(*                                                                         *)
(* RetryKept rests on Waits: as long as the key has the expiry of its      *)
(* first transaction and no other, what is left of a wait is no less than  *)
(* what is left of the key; and nobody waits for a key that is not there.  *)
(*                                                                         *)
(* SlidingBounded rests on Lives: what an expired key let through is at    *)
(* least as old as the key is armed for, so it is a window old when the    *)
(* next key expires, and no third key matters; and a key lets a request    *)
(* through once for each value up to the limit.                            *)
(***************************************************************************)
EXTENDS TenantLimit, FiniteSetTheorems, TLAPS

Waits ==
  /\ anchored => ttl > 0 /\ (told # NotTold => ttl <= told)
  /\ ttl = Gone => told = NotTold /\ \A w \in Workers : ~mine[w]

Inv == TypeOK /\ Waits

-----------------------------------------------------------------------------
\* Rounding up names a wait that is long enough, and by less than a second longer.
LEMMA RoundedUp ==
  ASSUME NEW left \in 1 .. Window
  PROVE  /\ RetryAfter(left) * Second \in 1 .. Longest
         /\ left <= RetryAfter(left) * Second
<1> DEFINE n == left + Second - 1
           q == n \div Second
<1>1. n \in Nat /\ Second \in Nat /\ Second > 0 /\ Window \in Nat
      /\ left \in Nat /\ left >= 1 /\ left <= Window
  BY TenantLimitAssumption
<1>2. q \in Nat /\ n = (Second * q) + (n % Second) /\ n % Second \in 0 .. Second - 1
  <2> HIDE DEF n
  <2> QED
    BY <1>1, SMTT(30)
<1>3. Second * q \in Nat /\ q * Second = Second * q
  <2> HIDE DEF n
  <2> QED
    BY <1>1, <1>2, SMTT(30)
<1>4. /\ Second * q <= n /\ n < (Second * q) + Second
  <2> HIDE DEF n, q
  <2> QED
    BY <1>1, <1>2, <1>3
<1>5. /\ Second * q <= left + Second - 1 /\ left + Second - 1 < (Second * q) + Second
  BY <1>4
<1>6. RetryAfter(left) = q
  BY DEF RetryAfter
<1> HIDE DEF q, n
<1>7. left <= Second * q /\ Second * q <= Window + Second
  BY <1>1, <1>3, <1>5
<1> QED
  BY <1>1, <1>3, <1>6, <1>7 DEF Longest

\* A transaction keeps the invariant: it leaves the expiry of a key alone, or gives a
\* key its first, or another.
LEMMA ExecuteInv ==
  ASSUME Inv, NEW w \in Workers, Execute(w)
  PROVE  Inv'
<1> USE TenantLimitAssumption DEF Inv, TypeOK, Waits, TTLs, Gone, Forever, NotTold
<1>1. ttl' \in TTLs /\ ttl' # Gone /\ told' = told /\ seen' = seen
  BY DEF Execute, Armed, Arms, Admit, Refuse
<1>2. count' \in 0 .. Limit + 1
  BY DEF Execute, AtMost
<1>3. recent' \subseteq Requests
  <2>1. count + 1 \in Nat /\ 0 \in Ages
    BY DEF Ages
  <2>2. UNCHANGED recent \/ recent' = recent \cup {[age |-> 0, n |-> count + 1, old |-> FALSE]}
    BY DEF Execute, Admit, Refuse
  <2>3. [age |-> 0, n |-> count + 1, old |-> FALSE] \in Requests
    BY <2>1, Zenon DEF Requests
  <2> QED
    BY <2>2, <2>3, Zenon
<1>4. /\ pc' \in [Workers -> {"idle", "exec", "remaining"}]
      /\ mine' \in [Workers -> BOOLEAN]
  BY DEF Execute, Admit, Refuse
<1>5. anchored' \in BOOLEAN
  <2>1. anchored' = (IF ttl = Gone THEN Arms(seen[w]) ELSE anchored /\ ~Arms(seen[w]))
    BY DEF Execute
  <2>2. Arms(seen[w]) \in BOOLEAN
    <3>1. seen[w] \in Int
      OBVIOUS
    <3>2. \A n \in Int : (n < 0) \in BOOLEAN
      OBVIOUS
    <3> QED
      BY <3>1, <3>2, Zenon DEF Arms
  <2>3. (anchored /\ ~Arms(seen[w])) \in BOOLEAN
    BY Zenon
  <2> QED
    BY <2>1, <2>2, <2>3, Zenon
<1>6. Waits'
  <2>1. CASE ttl = Gone
    <3>1. told' = NotTold
      BY <1>1, <2>1
    <3>2. Arms(seen[w]) => ttl' = Window
      BY DEF Execute, Armed
    <3>3. anchored' = Arms(seen[w])
      BY <2>1 DEF Execute
    <3> QED
      BY <1>1, <3>1, <3>2, <3>3
  <2>2. CASE ttl # Gone
    <3>1. anchored' => anchored /\ ttl' = ttl
      BY <2>2 DEF Execute, Armed
    <3> QED
      BY <1>1, <3>1
  <2> QED
    BY <2>1, <2>2
<1> QED
  BY <1>1, <1>2, <1>3, <1>4, <1>5, <1>6

\* So does the second PTTL: the wait that it names covers the key it was asked of.
LEMMA RemainingInv ==
  ASSUME Inv, NEW w \in Workers, Remaining(w)
  PROVE  Inv'
<1> DEFINE left == IF ttl > 0 THEN ttl ELSE Window
           wait == RetryAfter(left) * Second
<1> USE TenantLimitAssumption
<1>1. left \in 1 .. Window
  BY DEF Inv, TypeOK, TTLs, Gone, Forever
<1>2. wait \in 1 .. Longest /\ left <= wait
  BY <1>1, RoundedUp
<1>3. told' = IF mine[w] THEN wait ELSE told
  BY DEF Remaining
<1>4. told' \in NotTold .. Longest
  <2> HIDE DEF wait
  <2> QED
    BY <1>2, <1>3 DEF Inv, TypeOK, Longest, NotTold
<1>5. /\ pc' = [pc EXCEPT ![w] = "idle"] /\ mine' = [mine EXCEPT ![w] = FALSE]
      /\ UNCHANGED <<count, ttl, seen, recent, anchored>>
  BY DEF Remaining, redis
<1>6. Waits'
  <2>1. ttl > 0 => left = ttl
    OBVIOUS
  <2> HIDE DEF wait, left
  <2> QED
    BY <1>2, <1>3, <1>5, <2>1 DEF Inv, TypeOK, TTLs, Waits, Gone, Forever, NotTold
<1> HIDE DEF wait, left
<1> QED
  BY <1>4, <1>5, <1>6 DEF Inv, TypeOK

\* And so do time and the expiry of the key.
LEMMA TimeInv ==
  ASSUME Inv, Tick \/ Expire
  PROVE  Inv'
<1> USE TenantLimitAssumption DEF Inv, TypeOK, Waits, TTLs, Gone, Forever, NotTold
<1>1. recent' \subseteq Requests
  <2>1. Aged \subseteq Requests
    BY DEF Aged, Requests, Ages
  <2>2. \A r \in Aged : [r EXCEPT !.old = TRUE] \in Requests
    BY <2>1 DEF Requests
  <2> QED
    BY <2>1, <2>2 DEF Tick, Expire
<1>2. CASE Tick
  <2>1. ttl' \in TTLs /\ told' \in NotTold .. Longest
    BY <1>2 DEF Tick, Longest
  <2>2. UNCHANGED <<count, pc, seen, mine, anchored>>
    BY <1>2 DEF Tick, local
  <2>3. Waits'
    BY <1>2, <2>2 DEF Tick, Longest
  <2> QED
    BY <1>1, <2>1, <2>2, <2>3
<1>3. CASE Expire
  <2>1. /\ ttl' = Gone /\ count' = 0 /\ told' = NotTold /\ anchored' = FALSE
        /\ mine' = [w \in Workers |-> FALSE] /\ UNCHANGED <<pc, seen>>
    BY <1>3 DEF Expire
  <2>2. ttl' \in TTLs /\ count' \in 0 .. Limit + 1 /\ told' \in NotTold .. Longest
    BY <2>1 DEF Longest
  <2>3. Waits'
    BY <2>1
  <2> QED
    BY <1>1, <2>1, <2>2, <2>3
<1> QED
  BY <1>2, <1>3

\* The counter keeps the invariant.
THEOREM InvHolds == Spec => []Inv
<1>1. ASSUME Init PROVE Inv
  <2>1. count \in 0 .. Limit + 1 /\ ttl \in TTLs /\ told \in NotTold .. Longest
    BY <1>1, TenantLimitAssumption DEF Init, TTLs, Longest, NotTold
  <2>2. /\ pc \in [Workers -> {"idle", "exec", "remaining"}]
        /\ seen \in [Workers -> TTLs] /\ recent \subseteq Requests
        /\ anchored \in BOOLEAN /\ mine \in [Workers -> BOOLEAN]
    BY <1>1 DEF Init, TTLs
  <2>3. Waits
    BY <1>1 DEF Init, Waits
  <2> QED
    BY <2>1, <2>2, <2>3 DEF Inv, TypeOK
<1>2. ASSUME Inv, [Next]_vars PROVE Inv'
  <2>1. ASSUME NEW w \in Workers, ReadTTL(w) PROVE Inv'
    BY <1>2, <2>1 DEF ReadTTL, Inv, TypeOK, Waits, redis, hist
  <2>2. ASSUME NEW w \in Workers, Drop(w) PROVE Inv'
    BY <1>2, <2>2 DEF Drop, Inv, TypeOK, Waits, redis, hist
  <2>3. CASE UNCHANGED vars
    BY <1>2, <2>3 DEF vars, Inv, TypeOK, Waits, redis, local, hist
  <2> QED
    BY <1>2, <2>1, <2>2, <2>3, ExecuteInv, RemainingInv, TimeInv DEF Next, Serve
<1> QED
  BY <1>1, <1>2, PTL DEF Spec

\* The types of Redis, of the workers and of the history.
THEOREM TypeCorrect == Spec => []TypeOK
<1>1. Inv => TypeOK
  BY DEF Inv
<1> QED
  BY InvHolds, <1>1, PTL

\* For any window and any number of workers, a client that waits as it was told finds
\* the key that refused it gone, if that key was armed by its first request only.
THEOREM RetriesKept == Spec => []RetryKept
<1>1. Inv => RetryKept
  BY DEF Inv, TypeOK, Waits, TTLs, RetryKept, NotTold, Gone, Forever
<1> QED
  BY InvHolds, <1>1, PTL

-----------------------------------------------------------------------------
\* What the present key and the one before it have let through.
Lives ==
  /\ ttl = Gone => count = 0
  /\ \A r \in recent :
       /\ r.n \in 1 .. Limit
       /\ ~r.old => r.n <= count
       /\ r.old /\ ttl > 0 => Window <= ttl + r.age
  /\ \A r, s \in recent : r.n = s.n /\ r.old = s.old => r = s

\* A transaction admits at a value that its key has not had before.
LEMMA LivesExecute ==
  ASSUME Inv, Lives, NEW w \in Workers, Execute(w)
  PROVE  Lives'
<1> DEFINE new == [age |-> 0, n |-> count + 1, old |-> FALSE]
<1> USE TenantLimitAssumption
<1>1. /\ count \in Nat /\ count <= Limit + 1 /\ ttl \in TTLs
      /\ recent \subseteq Requests
  BY DEF Inv, TypeOK
<1>2. ttl' = ttl \/ ttl' = Window \/ (ttl = Gone /\ ttl' = Forever)
  BY DEF Execute, Armed
<1>3. ttl' # Gone
  BY <1>1, <1>2 DEF TTLs, Gone, Forever, Execute, Armed
<1>4. count <= count' /\ count' \in Nat
  BY <1>1 DEF Execute, AtMost
<1>5. CASE recent' = recent
  <2>1. \A r \in recent : ~r.old => r.n <= count'
    BY <1>1, <1>4 DEF Lives, Requests
  <2>2. \A r \in recent : r.old /\ ttl' > 0 => Window <= ttl' + r.age
    BY <1>1, <1>2 DEF Lives, Requests, Ages, TTLs, Gone, Forever
  <2> QED
    BY <1>3, <1>5, <2>1, <2>2 DEF Lives
<1>6. CASE recent' = recent \cup {new} /\ count + 1 <= Limit
  <2>1. count' = count + 1
    BY <1>1, <1>6 DEF Execute, AtMost
  <2>2. \A r \in recent : ~r.old => r.n <= count' /\ r.n # count + 1
    BY <1>1, <2>1 DEF Lives, Requests
  <2>3. \A r \in recent : r.old /\ ttl' > 0 => Window <= ttl' + r.age
    BY <1>1, <1>2 DEF Lives, Requests, Ages, TTLs, Gone, Forever
  <2>4. new.n \in 1 .. Limit /\ ~new.old /\ new.n <= count' /\ new.n = count + 1
    BY <1>1, <1>6, <2>1
  <2> HIDE DEF new
  <2>5. \A r \in recent' :
          /\ r.n \in 1 .. Limit
          /\ ~r.old => r.n <= count'
          /\ r.old /\ ttl' > 0 => Window <= ttl' + r.age
    BY <1>6, <2>2, <2>3, <2>4 DEF Lives
  <2>6. \A r, s \in recent' : r.n = s.n /\ r.old = s.old => r = s
    BY <1>6, <2>2, <2>4 DEF Lives
  <2> QED
    BY <1>3, <2>5, <2>6 DEF Lives
<1>7. recent' = recent \/ (recent' = recent \cup {new} /\ count + 1 <= Limit)
  BY <1>1 DEF Execute, Admit, Refuse, Over
<1> QED
  BY <1>5, <1>6, <1>7

\* Time does not bring two requests together.
LEMMA LivesTick ==
  ASSUME Inv, Lives, Tick
  PROVE  Lives'
<1> USE TenantLimitAssumption
<1>1. ttl \in TTLs /\ recent \subseteq Requests
  BY DEF Inv, TypeOK
<1>2. /\ ttl # 1 /\ ttl' = (IF ttl > 0 THEN ttl - 1 ELSE ttl) /\ count' = count
      /\ recent' = Aged
  BY DEF Tick
<1>3. \A q \in recent' : \E r \in recent :
        q.n = r.n /\ q.old = r.old /\ q.age = r.age + 1 /\ q = [age |-> r.age + 1, n |-> r.n, old |-> r.old]
  BY <1>1, <1>2 DEF Aged, Requests
<1>4. ttl' = Gone => count' = 0
  BY <1>1, <1>2 DEF Lives, TTLs, Gone, Forever
<1>5. ASSUME NEW q \in recent'
      PROVE  /\ q.n \in 1 .. Limit
             /\ ~q.old => q.n <= count'
             /\ q.old /\ ttl' > 0 => Window <= ttl' + q.age
  <2>1. PICK r \in recent : q.n = r.n /\ q.old = r.old /\ q.age = r.age + 1
    BY <1>3
  <2>2. r.age \in Nat
    BY <1>1 DEF Requests, Ages
  <2> QED
    BY <1>1, <1>2, <2>1, <2>2 DEF Lives, TTLs, Gone, Forever
<1>6. ASSUME NEW p \in recent', NEW q \in recent', p.n = q.n, p.old = q.old PROVE p = q
  BY <1>3, <1>6 DEF Lives
<1> QED
  BY <1>4, <1>5, <1>6 DEF Lives

\* When a key expires, what its predecessor let through is a window old.
LEMMA LivesExpire ==
  ASSUME Inv, Lives, Expire
  PROVE  Lives'
<1> USE TenantLimitAssumption
<1>1. ttl \in TTLs /\ recent \subseteq Requests
  BY DEF Inv, TypeOK
<1>2. ttl = 1 /\ ttl' = Gone /\ count' = 0 /\ recent' = {[r EXCEPT !.old = TRUE] : r \in Aged}
  BY DEF Expire
<1>3. \A q \in recent' : \E r \in recent :
        /\ r.age + 1 \in Ages /\ q.n = r.n /\ q.old = TRUE
        /\ q = [age |-> r.age + 1, n |-> r.n, old |-> TRUE]
  <2>1. \A q \in Aged : \E r \in recent :
          r.age + 1 \in Ages /\ q = [age |-> r.age + 1, n |-> r.n, old |-> r.old]
    BY <1>1 DEF Aged, Requests
  <2> QED
    BY <1>2, <2>1
<1>4. \A r \in recent : r.age + 1 \in Ages => ~r.old
  BY <1>1, <1>2 DEF Lives, Requests, Ages
<1>5. ASSUME NEW p \in recent', NEW q \in recent', p.n = q.n PROVE p = q
  <2>1. \A r, s \in recent : ~r.old /\ ~s.old /\ r.n = s.n => r = s
    BY <1>1 DEF Lives, Requests
  <2> QED
    BY <1>3, <1>4, <1>5, <2>1
<1>6. \A q \in recent' : q.n \in 1 .. Limit /\ q.old = TRUE
  BY <1>3 DEF Lives
<1>7. ~(ttl' > 0)
  BY <1>2 DEF Gone
<1> QED
  BY <1>2, <1>5, <1>6, <1>7 DEF Lives

\* Hence at most two requests of the last window were let through at each value.
LEMMA LivesBound ==
  ASSUME TypeOK, Lives
  PROVE  SlidingBounded
<1> DEFINE Slots == 1 .. 2 * Limit
           f == [r \in recent |-> IF r.old THEN Limit + r.n ELSE r.n]
<1>1. 2 * Limit \in Nat /\ Limit \in Nat
  BY TenantLimitAssumption
<1>2. IsFiniteSet(Slots) /\ Cardinality(Slots) = 2 * Limit
  BY <1>1, FS_Interval
<1>3. \A r \in recent : r.n \in 1 .. Limit /\ r.old \in BOOLEAN
  BY DEF Lives, TypeOK, Requests
<1>4. f \in Injection(recent, Slots)
  <2>1. f \in [recent -> Slots]
    BY <1>1, <1>3
  <2>2. \A r, s \in recent : f[r] = f[s] => r.n = s.n /\ r.old = s.old
    BY <1>1, <1>3
  <2>3. \A r, s \in recent : f[r] = f[s] => r = s
    BY <2>2, Zenon DEF Lives
  <2> QED
    BY <2>1, <2>3 DEF Injection, IsInjective
<1> HIDE DEF Slots, f
<1> QED
  BY <1>2, <1>4, FS_Injection DEF SlidingBounded

\* In any time as long as a window, at most twice the limit is let through: for any
\* window, limit and number of workers, and whoever arms the key.
THEOREM WindowsSlide == Spec => []SlidingBounded
<1>1. Init => Lives
  BY DEF Init, Lives
<1>2. ASSUME Inv, Lives, [Next]_vars PROVE Lives'
  <2>1. ASSUME UNCHANGED <<redis, recent>> PROVE Lives'
    BY <1>2, <2>1 DEF Lives, redis
  <2>2. ASSUME NEW w \in Workers, ReadTTL(w) \/ Remaining(w) \/ Drop(w)
        PROVE  UNCHANGED <<redis, recent>>
    BY <2>2 DEF ReadTTL, Remaining, Drop, hist
  <2>3. UNCHANGED vars => UNCHANGED <<redis, recent>>
    BY DEF vars, hist
  <2> QED
    BY <1>2, <2>1, <2>2, <2>3, LivesExecute, LivesTick, LivesExpire DEF Next, Serve
<1>3. Inv /\ Lives => SlidingBounded
  BY LivesBound DEF Inv
<1> QED
  BY <1>1, <1>2, <1>3, InvHolds, PTL DEF Spec

=============================================================================
