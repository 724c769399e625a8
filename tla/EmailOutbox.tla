----------------------------- MODULE EmailOutbox -----------------------------
(***************************************************************************)
(* The e-mail outbox of the API (api/services/email_service.py) and the    *)
(* Celery task that works it off (api/tasks.py).                           *)
(*                                                                         *)
(* A request handler inserts the row and then publishes a task that names  *)
(* it; a failure of the broker is swallowed.  A Celery worker acknowledges *)
(* a task as it takes it, reads the row in one connection and marks it in  *)
(* another.                                                                *)
(***************************************************************************)
EXTENDS Integers, FiniteSets

CONSTANTS
  Mails,     \* calls of queue_email, one row each
  Workers,   \* Celery worker processes
  MaxSends,  \* times a publication is tried: the client retries when the
             \* connection breaks, though the task may have arrived
  None

ASSUME EmailOutboxAssumption == MaxSends \in Nat \ {0} /\ None \notin Mails
ASSUME WorkersAssumption == IsFiniteSet(Workers)

VARIABLES
  row,     \* api_email_outbox: status
  caller,  \* where queue_email is
  sends,   \* publications tried
  queue,   \* tasks the broker holds
  job,     \* the mail a worker's task names
  found,   \* it has read the row as not sent
  \* history
  marks,   \* times the row was marked
  missed   \* mails whose task found no row

callers == <<caller, sends>>
workers == <<job, found>>
hist    == <<marks, missed>>
vars    == <<row, callers, queue, workers, hist>>

TypeOK ==
  /\ row \in [Mails -> {"none", "queued", "sent"}]
  /\ caller \in [Mails -> {"create", "publish", "done"}]
  /\ sends \in [Mails -> 0 .. MaxSends]
  /\ queue \in [Mails -> Nat]
  /\ job \in [Workers -> Mails \cup {None}]
  /\ found \in [Workers -> BOOLEAN]
  /\ marks \in [Mails -> Nat]
  /\ missed \in SUBSET Mails

-----------------------------------------------------------------------------
\* create_outbox_email, which commits.
Create(m) ==
  /\ caller[m] = "create"
  /\ row' = [row EXCEPT ![m] = "queued"]
  /\ caller' = [caller EXCEPT ![m] = "publish"]
  /\ UNCHANGED <<sends, queue, workers, hist>>

\* As in AuthSessions, Mistaken_... is the next definition with a mistake.
Mistaken_Publish(m) ==
  /\ caller[m] # "done"
  /\ sends[m] < MaxSends
  /\ sends' = [sends EXCEPT ![m] = @ + 1]
  /\ queue' = [queue EXCEPT ![m] = @ + 1]
  /\ UNCHANGED <<row, caller, workers, hist>>

Endless_Publish(m) ==
  /\ caller[m] = "publish"
  /\ sends[m] < MaxSends
  /\ sends' = [sends EXCEPT ![m] = @ + 1]
  /\ \/ /\ queue' = [queue EXCEPT ![m] = @ + 1]
        /\ caller' = [caller EXCEPT ![m] = "done"]
     \/ UNCHANGED <<queue, caller>>
  /\ UNCHANGED <<row, workers, hist>>

\* One try of send_task: the task arrives or not, and the call ends or the
\* connection breaks and it is tried again.  When the tries are used up the
\* exception is swallowed.
Publish(m) ==
  /\ caller[m] = "publish"
  /\ sends[m] < MaxSends
  /\ sends' = [sends EXCEPT ![m] = @ + 1]
  /\ \/ queue' = [queue EXCEPT ![m] = @ + 1]
     \/ UNCHANGED queue
  /\ \/ caller' = [caller EXCEPT ![m] = "done"]
     \/ sends'[m] < MaxSends /\ UNCHANGED caller
  /\ UNCHANGED <<row, workers, hist>>

\* The process of the handler dies.
CallerDies(m) ==
  /\ caller[m] # "done"
  /\ caller' = [caller EXCEPT ![m] = "done"]
  /\ UNCHANGED <<row, sends, queue, workers, hist>>

\* A worker takes a task, and acknowledges it.
Take(w, m) ==
  /\ job[w] = None
  /\ queue[m] > 0
  /\ queue' = [queue EXCEPT ![m] = @ - 1]
  /\ job' = [job EXCEPT ![w] = m]
  /\ found' = [found EXCEPT ![w] = FALSE]
  /\ UNCHANGED <<row, callers, hist>>

Drop(w) ==
  /\ job' = [job EXCEPT ![w] = None]
  /\ found' = [found EXCEPT ![w] = FALSE]

Mistaken_Done(m) == FALSE

\* The row says that there is nothing left to do.
Done(m) == row[m] = "sent"

\* get_outbox_email, and what process_outbox_email does with the result.
Get(w) ==
  /\ job[w] # None /\ ~found[w]
  /\ \/ /\ row[job[w]] = "none"
        /\ Drop(w)
        /\ missed' = missed \cup {job[w]}
     \/ /\ row[job[w]] # "none"
        /\ \/ Done(job[w]) /\ Drop(w)
           \/ ~Done(job[w]) /\ found' = [found EXCEPT ![w] = TRUE] /\ UNCHANGED job
        /\ UNCHANGED missed
  /\ UNCHANGED <<row, callers, queue, marks>>

\* mark_outbox_sent.
Mark(w) ==
  /\ job[w] # None /\ found[w]
  /\ row' = [row EXCEPT ![job[w]] = "sent"]
  /\ Drop(w)
  /\ marks' = [marks EXCEPT ![job[w]] = @ + 1]
  /\ UNCHANGED <<callers, queue, missed>>

\* The worker process dies, or the database does not answer: the task is gone.
WorkerDies(w) ==
  /\ job[w] # None
  /\ Drop(w)
  /\ UNCHANGED <<row, callers, queue, hist>>

\* The broker restarts without the tasks it took since its last snapshot.
Forget(m) ==
  /\ queue[m] > 0
  /\ queue' = [queue EXCEPT ![m] = @ - 1]
  /\ UNCHANGED <<row, callers, workers, hist>>

Init ==
  /\ row = [m \in Mails |-> "none"]
  /\ caller = [m \in Mails |-> "create"]
  /\ sends = [m \in Mails |-> 0]
  /\ queue = [m \in Mails |-> 0]
  /\ job = [w \in Workers |-> None]
  /\ found = [w \in Workers |-> FALSE]
  /\ marks = [m \in Mails |-> 0]
  /\ missed = {}

CallerStep(m) == Create(m) \/ Publish(m)
Work(w)       == Get(w) \/ Mark(w)

Next ==
  \/ \E m \in Mails : CallerStep(m) \/ CallerDies(m) \/ Forget(m)
  \/ \E w \in Workers : Work(w) \/ WorkerDies(w) \/ \E m \in Mails : Take(w, m)

Spec == Init /\ [][Next]_vars

\* Handlers and tasks do not block, and workers go on taking tasks.
Fairness ==
  /\ \A m \in Mails : WF_vars(CallerStep(m))
  /\ \A w \in Workers : WF_vars(Work(w)) /\ WF_vars(\E m \in Mails : Take(w, m))

FairSpec == Spec /\ Fairness

-----------------------------------------------------------------------------
\* Somebody may still see to mail m.
Pending(m) ==
  caller[m] = "publish" \/ queue[m] > 0 \/ \E w \in Workers : job[w] = m

Fate == [m \in Mails |->
  CASE row[m] = "none" -> "none"
    [] row[m] = "sent" -> "sent"
    [] row[m] = "queued" /\ Pending(m) -> "waiting"
    [] OTHER -> "lost"]

Promise == INSTANCE OutboxMail WITH fate <- Fate

\* A mail whose row is written waits for a while and is then sent or lost, and
\* what is lost is never sent later, what is sent never waits again.
KeepsPromise == Promise!FairSpec

\* The row is committed before the task that names it can run, so no task ends
\* with outbox_not_found.
TaskFindsRow == missed = {}

\* Duplicated tasks mark a row again only if they read it before the first mark:
\* at most once per worker, however often the task was published.
MarksBounded == \A m \in Mails : marks[m] <= Cardinality(Workers)

=============================================================================
