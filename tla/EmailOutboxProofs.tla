-------------------------- MODULE EmailOutboxProofs --------------------------
(***************************************************************************)
(* Proofs about EmailOutbox, for any number of mails, workers and tries.   *)
(*                                                                         *)
(* A mail is known to the broker and to the workers only once its row is   *)
(* there (RowFirst), and a worker has found something only while it has a  *)
(* task (FoundHasJob).  With that every step of the outbox is a step of    *)
(* OutboxMail, or leaves the fate of each mail alone.                      *)
(***************************************************************************)
EXTENDS EmailOutbox, FiniteSetTheorems, TLAPS

RowFirst ==
  \A m \in Mails :
    /\ caller[m] = "create" => row[m] = "none"
    /\ row[m] = "none" => /\ caller[m] # "publish"
                          /\ queue[m] = 0
                          /\ \A w \in Workers : job[w] # m

FoundHasJob == \A w \in Workers : found[w] => job[w] # None

Inv == TypeOK /\ RowFirst /\ FoundHasJob /\ TaskFindsRow

LEMMA InitInv == Init => Inv
  BY EmailOutboxAssumption DEF Init, Inv, TypeOK, RowFirst, FoundHasJob, TaskFindsRow

\* Every statement of the handlers and tasks keeps the invariant.
LEMMA NextInv == Inv /\ [Next]_vars => Inv'
<1> SUFFICES ASSUME Inv, [Next]_vars PROVE Inv'
  OBVIOUS
<1> USE EmailOutboxAssumption DEF Inv, TypeOK, RowFirst, FoundHasJob, TaskFindsRow
<1>1. ASSUME NEW m \in Mails, Create(m) PROVE Inv'
  BY <1>1 DEF Create, workers, hist
<1>2. ASSUME NEW m \in Mails, Publish(m) PROVE Inv'
  BY <1>2 DEF Publish, workers, hist
<1>3. ASSUME NEW m \in Mails, CallerDies(m) PROVE Inv'
  BY <1>3 DEF CallerDies, workers, hist
<1>4. ASSUME NEW m \in Mails, Forget(m) PROVE Inv'
  BY <1>4 DEF Forget, callers, workers, hist
<1>5. ASSUME NEW w \in Workers, Get(w) PROVE Inv'
  <2>1. job[w] \in Mails /\ row[job[w]] # "none"
    BY <1>5 DEF Get
  <2>2. CASE Drop(w)
    BY <1>5, <2>1, <2>2 DEF Get, Drop, callers
  <2>3. CASE UNCHANGED job /\ found' = [found EXCEPT ![w] = TRUE]
    BY <1>5, <2>1, <2>3 DEF Get, callers
  <2> QED
    BY <1>5, <2>1, <2>2, <2>3 DEF Get
<1>6. ASSUME NEW w \in Workers, Mark(w) PROVE Inv'
  BY <1>6 DEF Mark, Drop, callers
<1>7. ASSUME NEW w \in Workers, WorkerDies(w) PROVE Inv'
  BY <1>7 DEF WorkerDies, Drop, callers, hist
<1>8. ASSUME NEW w \in Workers, NEW m \in Mails, Take(w, m) PROVE Inv'
  BY <1>8 DEF Take, callers, hist
<1>9. CASE UNCHANGED vars
  BY <1>9 DEF vars, callers, workers, hist
<1> HIDE DEF Inv
<1> QED
  BY <1>1, <1>2, <1>3, <1>4, <1>5, <1>6, <1>7, <1>8, <1>9
     DEF Next, CallerStep, Work

LEMMA Invariance == Spec => []Inv
  BY InitInv, NextInv, PTL DEF Spec

\* The variables keep their types whatever is lost, duplicated or killed.
THEOREM TypeCorrect == Spec => []TypeOK
<1>1. Inv => TypeOK
  BY DEF Inv
<1> QED
  BY Invariance, <1>1, PTL

\* No task ends with outbox_not_found.
THEOREM RowsFound == Spec => []TaskFindsRow
<1>1. Inv => TaskFindsRow
  BY DEF Inv
<1> QED
  BY Invariance, <1>1, PTL

-----------------------------------------------------------------------------
(* Marks.  Whoever marks mail m a second time has read its row before the  *)
(* first mark, so it is one of the workers that were about to mark then.   *)

\* The workers that have read the row of m as not sent.
Ready(m) == {w \in Workers : job[w] = m /\ found[w]}

Marked(m) ==
  /\ row[m] # "sent" => marks[m] = 0
  /\ marks[m] + Cardinality(Ready(m)) <= Cardinality(Workers)

LEMMA ReadyFinite ==
  ASSUME NEW m
  PROVE  /\ IsFiniteSet(Ready(m)) /\ Cardinality(Ready(m)) \in Nat
         /\ Cardinality(Ready(m)') \in Nat /\ Cardinality(Ready(m)') <= Cardinality(Workers)
         /\ Cardinality(Workers) \in Nat
<1>1. Ready(m) \in SUBSET Workers /\ Ready(m)' \in SUBSET Workers
  BY DEF Ready
<1> QED
  BY <1>1, WorkersAssumption, FS_Subset, FS_CardinalityType

\* A step that marks nothing and readies nobody keeps the bound.
LEMMA FewerReady ==
  ASSUME Inv, NEW m \in Mails, Marked(m), marks'[m] = marks[m],
         row'[m] = "sent" <=> row[m] = "sent", Ready(m)' \subseteq Ready(m)
  PROVE  Marked(m)'
<1>1. Cardinality(Ready(m)') <= Cardinality(Ready(m))
  BY ReadyFinite, FS_Subset
<1>2. marks[m] \in Nat
  BY DEF Inv, TypeOK
<1> QED
  BY <1>1, <1>2, ReadyFinite DEF Marked

\* Every step keeps it for every mail.
LEMMA MarkedStep ==
  ASSUME Inv, [Next]_vars, NEW m \in Mails, Marked(m)
  PROVE  Marked(m)'
<1> USE EmailOutboxAssumption DEF Inv, TypeOK
<1>1. ASSUME UNCHANGED <<workers, marks>>,
             \A n \in Mails : row'[n] = "sent" <=> row[n] = "sent"
      PROVE  Marked(m)'
  BY <1>1, FewerReady DEF Ready, workers
<1>2. ASSUME NEW n \in Mails, CallerStep(n) \/ CallerDies(n) \/ Forget(n)
      PROVE  Marked(m)'
  BY <1>1, <1>2 DEF CallerStep, Create, Publish, CallerDies, Forget, RowFirst, hist
<1>3. ASSUME NEW w \in Workers, NEW n \in Mails, Take(w, n)
      PROVE  Marked(m)'
  <2>1. Ready(m)' \subseteq Ready(m)
    BY <1>3 DEF Take, Ready
  <2> QED
    BY <1>3, <2>1, FewerReady DEF Take, hist
<1>4. ASSUME NEW w \in Workers, Drop(w), UNCHANGED <<row, marks>>
      PROVE  Marked(m)'
  <2>1. Ready(m)' \subseteq Ready(m)
    BY <1>4 DEF Drop, Ready
  <2> QED
    BY <1>4, <2>1, FewerReady
<1>5. ASSUME NEW w \in Workers, Get(w)
      PROVE  Marked(m)'
  <2>1. CASE Drop(w)
    BY <1>4, <1>5, <2>1 DEF Get
  <2>2. CASE ~Done(job[w]) /\ found' = [found EXCEPT ![w] = TRUE] /\ UNCHANGED job
    <3>1. CASE job[w] = m
      <4>1. row'[m] # "sent" /\ marks'[m] = 0
        BY <1>5, <2>2, <3>1 DEF Get, Done, Marked
      <4> QED
        BY <4>1, ReadyFinite DEF Marked
    <3>2. CASE job[w] # m
      <4>1. Ready(m)' \subseteq Ready(m)
        BY <2>2, <3>2 DEF Ready
      <4> QED
        BY <1>5, <4>1, FewerReady DEF Get
    <3> QED
      BY <3>1, <3>2
  <2> QED
    BY <1>5, <2>1, <2>2 DEF Get
<1>6. ASSUME NEW w \in Workers, Mark(w)
      PROVE  Marked(m)'
  <2>1. CASE job[w] = m
    <3>1. w \in Ready(m) /\ Ready(m)' = Ready(m) \ {w}
      BY <1>6, <2>1 DEF Mark, Drop, Ready
    <3>2. Cardinality(Ready(m)') = Cardinality(Ready(m)) - 1
      BY <3>1, ReadyFinite, FS_RemoveElement
    <3>3. marks'[m] = marks[m] + 1 /\ row'[m] = "sent" /\ marks[m] \in Nat
      BY <1>6, <2>1 DEF Mark
    <3> QED
      BY <3>2, <3>3, ReadyFinite DEF Marked
  <2>2. CASE job[w] # m
    <3>1. Ready(m)' \subseteq Ready(m)
      BY <1>6, <2>2 DEF Mark, Drop, Ready
    <3> QED
      BY <1>6, <2>2, <3>1, FewerReady DEF Mark
  <2> QED
    BY <2>1, <2>2
<1>7. ASSUME NEW w \in Workers, WorkerDies(w)
      PROVE  Marked(m)'
  BY <1>4, <1>7 DEF WorkerDies, hist
<1>8. CASE UNCHANGED vars
  BY <1>1, <1>8 DEF vars, hist
<1> QED
  BY <1>2, <1>3, <1>5, <1>6, <1>7, <1>8 DEF Next, Work

\* However often a task is published, delivered or lost, each worker marks a mail at
\* most once.
THEOREM MarksLimited == Spec => []MarksBounded
<1> DEFINE J == Inv /\ \A m \in Mails : Marked(m)
<1>1. Init => J
  <2> SUFFICES ASSUME Init, NEW m \in Mails
               PROVE  Marked(m)
    BY InitInv
  <2>1. Ready(m) = {}
    BY DEF Init, Ready
  <2> QED
    BY <2>1, FS_EmptySet, ReadyFinite DEF Init, Marked
<1>2. J /\ [Next]_vars => J'
  BY NextInv, MarkedStep
<1>3. J => MarksBounded
  <2> SUFFICES ASSUME J, NEW m \in Mails
               PROVE  marks[m] <= Cardinality(Workers)
    BY DEF MarksBounded
  <2>1. marks[m] \in Nat
    BY DEF Inv, TypeOK
  <2> QED
    BY <2>1, ReadyFinite DEF Marked
<1> QED
  BY <1>1, <1>2, <1>3, PTL DEF Spec

-----------------------------------------------------------------------------
\* A step that touches one mail only leaves the fate of the others alone.
LEMMA OthersKept ==
  ASSUME Inv, NEW m \in Mails, NEW n \in Mails \ {m},
         row'[n] = row[n], caller'[n] = caller[n], queue'[n] = queue[n],
         \A w \in Workers : job'[w] = n <=> job[w] = n
  PROVE  Fate'[n] = Fate[n]
  BY DEF Fate, Pending

\* A step that touches one mail only is a step of OutboxMail, if that mail turns
\* from one of its states to the next or stays where it is.
LEMMA OneMail ==
  ASSUME Inv, NEW m \in Mails,
         \A n \in Mails \ {m} : Fate'[n] = Fate[n],
         \/ Fate'[m] = Fate[m]
         \/ Fate[m] = "none" /\ Fate'[m] = "waiting"
         \/ Fate[m] = "waiting" /\ Fate'[m] \in {"sent", "lost"}
  PROVE  [Promise!Next]_Fate
<1>1. /\ Fate = [n \in Mails |-> Fate[n]]
      /\ Fate' = [n \in Mails |-> Fate'[n]]
  BY DEF Fate
<1>2. CASE Fate'[m] = Fate[m]
  <2>1. \A n \in Mails : Fate'[n] = Fate[n]
    BY <1>2
  <2> QED
    BY <1>1, <2>1
<1>3. CASE Fate'[m] # Fate[m]
  <2>1. Fate' = [Fate EXCEPT ![m] = Fate'[m]]
    BY <1>1
  <2> QED
    BY <1>3, <2>1 DEF Promise!Next, Promise!Write, Promise!Deliver, Promise!Lose,
                     Promise!Turn
<1> QED
  BY <1>2, <1>3

\* No mail is written, waiting, sent or lost to begin with.
LEMMA InitFate == Init => Promise!Init
  BY DEF Init, Promise!Init, Fate

\* Every step turns the fate of at most one mail, the way OutboxMail allows.
LEMMA StepFate == Inv /\ [Next]_vars => [Promise!Next]_Fate
<1> SUFFICES ASSUME Inv, [Next]_vars PROVE [Promise!Next]_Fate
  OBVIOUS
<1>1. ASSUME NEW m \in Mails, Create(m) PROVE [Promise!Next]_Fate
  <2>1. \A n \in Mails \ {m} : Fate'[n] = Fate[n]
    BY <1>1, OthersKept DEF Create, workers, hist, Inv, TypeOK
  <2>2. Fate[m] = "none" /\ Fate'[m] = "waiting"
    BY <1>1 DEF Create, Inv, TypeOK, RowFirst, Fate, Pending
  <2> QED
    BY <1>1, <2>1, <2>2, OneMail
<1>2. ASSUME NEW m \in Mails, Publish(m) PROVE [Promise!Next]_Fate
  <2>1. \A n \in Mails \ {m} : Fate'[n] = Fate[n]
    BY <1>2, OthersKept DEF Publish, workers, hist, Inv, TypeOK
  <2>2. \/ Fate[m] = Fate'[m]
        \/ Fate[m] = "waiting" /\ Fate'[m] = "lost"
    BY <1>2 DEF Publish, workers, Inv, TypeOK, RowFirst, Fate, Pending
  <2> QED
    BY <1>2, <2>1, <2>2, OneMail
<1>3. ASSUME NEW m \in Mails, CallerDies(m) PROVE [Promise!Next]_Fate
  <2>1. \A n \in Mails \ {m} : Fate'[n] = Fate[n]
    BY <1>3, OthersKept DEF CallerDies, workers, hist, Inv, TypeOK
  <2>2. \/ Fate[m] = Fate'[m]
        \/ Fate[m] = "waiting" /\ Fate'[m] = "lost"
    BY <1>3 DEF CallerDies, workers, Inv, TypeOK, RowFirst, Fate, Pending
  <2> QED
    BY <1>3, <2>1, <2>2, OneMail
<1>4. ASSUME NEW m \in Mails, Forget(m) PROVE [Promise!Next]_Fate
  <2>1. \A n \in Mails \ {m} : Fate'[n] = Fate[n]
    BY <1>4, OthersKept DEF Forget, callers, workers, hist, Inv, TypeOK
  <2>2. \/ Fate[m] = Fate'[m]
        \/ Fate[m] = "waiting" /\ Fate'[m] = "lost"
    BY <1>4 DEF Forget, callers, workers, Inv, TypeOK, RowFirst, Fate, Pending
  <2> QED
    BY <1>4, <2>1, <2>2, OneMail
<1>5. ASSUME NEW w \in Workers, NEW m \in Mails, Take(w, m) PROVE [Promise!Next]_Fate
  <2>1. \A n \in Mails \ {m} : Fate'[n] = Fate[n]
    BY <1>5, OthersKept, EmailOutboxAssumption DEF Take, callers, hist, Inv, TypeOK
  <2>2. Fate[m] = Fate'[m]
    BY <1>5 DEF Take, callers, Inv, TypeOK, RowFirst, Fate, Pending
  <2> QED
    BY <1>5, <2>1, <2>2, OneMail
<1>6. ASSUME NEW w \in Workers, job[w] # None, job'[w] = None,
             job' = [job EXCEPT ![w] = None],
             UNCHANGED <<row, callers, queue>>
      PROVE  [Promise!Next]_Fate
  <2>1. job[w] \in Mails
    BY <1>6 DEF Inv, TypeOK
  <2>2. \A n \in Mails \ {job[w]} : Fate'[n] = Fate[n]
    BY <1>6, <2>1, OthersKept, EmailOutboxAssumption DEF callers, Inv, TypeOK
  <2>3. \/ Fate[job[w]] = (Fate')[job[w]]
        \/ Fate[job[w]] = "waiting" /\ (Fate')[job[w]] = "lost"
    BY <1>6, <2>1 DEF callers, Inv, TypeOK, RowFirst, Fate, Pending
  <2> QED
    BY <2>1, <2>2, <2>3, OneMail
<1>7. ASSUME NEW w \in Workers, Get(w) PROVE [Promise!Next]_Fate
  <2>1. CASE Drop(w)
    BY <1>6, <1>7, <2>1 DEF Get, Drop, Inv, TypeOK
  <2>2. CASE UNCHANGED job
    BY <1>7, <2>2 DEF Get, callers, Fate, Pending
  <2> QED
    BY <1>7, <2>1, <2>2 DEF Get
<1>8. ASSUME NEW w \in Workers, Mark(w) PROVE [Promise!Next]_Fate
  <2>1. job[w] \in Mails
    BY <1>8 DEF Mark, Inv, TypeOK
  <2>2. \A n \in Mails \ {job[w]} : Fate'[n] = Fate[n]
    BY <1>8, <2>1, OthersKept, EmailOutboxAssumption
       DEF Mark, Drop, callers, Inv, TypeOK
  <2>3. Fate[job[w]] \in {"waiting", "sent"} /\ (Fate')[job[w]] = "sent"
    BY <1>8, <2>1 DEF Mark, Drop, callers, Inv, TypeOK, RowFirst, Fate, Pending
  <2> QED
    BY <2>1, <2>2, <2>3, OneMail
<1>9. ASSUME NEW w \in Workers, WorkerDies(w) PROVE [Promise!Next]_Fate
  BY <1>6, <1>9 DEF WorkerDies, Drop, Inv, TypeOK
<1>10. CASE UNCHANGED vars
  BY <1>10 DEF vars, callers, workers, Fate, Pending
<1> QED
  BY <1>1, <1>2, <1>3, <1>4, <1>5, <1>7, <1>8, <1>9, <1>10
     DEF Next, CallerStep, Work

\* The outbox does what OutboxMail says: what is sent or lost stays so.
THEOREM PromiseKept == Spec => Promise!Spec
  BY InitFate, StepFate, Invariance, PTL DEF Spec, Promise!Spec

=============================================================================
