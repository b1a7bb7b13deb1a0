---------------------------- MODULE RetryQueue -----------------------------
(***************************************************************************)
(* The worker that retries failed upserts, run beside the service of       *)
(* TrackingStore on the same rows and the same Redis.                      *)
(*                                                                         *)
(* A task of type task:retry_failed carries the body of the upsert that    *)
(* failed.  RetryHandler.ProcessTask unmarshals it and calls               *)
(* TrackingRepo.Save; what becomes of the task is decided by asynq, which  *)
(* delivers it at least once: an error, and a worker that dies, cost the   *)
(* task one of its retries; a graceful shutdown puts it back for free.     *)
(*                                                                         *)
(* Nothing under src/ enqueues a task yet, so Enqueue admits any task.     *)
(* The retry delays only decide when a pending task is taken, and MaxRetry *)
(* is asynq's: neither the constant nor the table of retry_task.go is      *)
(* passed to it.                                                           *)
(***************************************************************************)
EXTENDS TrackingStore, Naturals

CONSTANTS
    Task,           \* tasks the queue may hold
    MaxRetry        \* how often asynq retries a task before it archives it

ASSUME RetryAssumption == MaxRetry \in Nat

VARIABLES
    queue,      \* where a task is: waiting, at which call of its attempt, gone
    tnum,       \* the waybill number in the task's payload
    tbody,      \* the body in it; NoBody where the payload cannot be parsed
    retried     \* retries the task has used up

tasks == <<queue, tnum, tbody, retried>>
rvars == <<vars, tasks>>

Active(t) == queue[t] \in {"upsert", "cache", "ack"}

TaskType ==
    /\ queue \in [Task -> {"none", "pending", "upsert", "cache", "ack", "archived"}]
    /\ tnum \in [Task -> Number]
    /\ tbody \in [Task -> Body \cup {NoBody}]
    /\ retried \in [Task -> 0..MaxRetry]

RInit ==
    /\ Init
    /\ queue = [t \in Task |-> "none"]
    /\ tnum = [t \in Task |-> CHOOSE n \in Number : TRUE]
    /\ tbody = [t \in Task |-> NoBody]
    /\ retried = [t \in Task |-> 0]

(***************************************************************************)
(* asynq                                                                   *)
(***************************************************************************)

\* The requests the service is serving see nothing of the step.
Unseen == UNCHANGED <<log, overseas, request, served>> /\ answer' = 0

\* The step stays inside the queue.
QueueOnly == Unseen /\ UNCHANGED <<store, cache, accepted, executed>>

MoveTask(t, label) ==
    /\ queue' = [queue EXCEPT ![t] = label]
    /\ UNCHANGED <<tnum, tbody, retried>>

\* A wrong version: the retries used up are not counted.
FailUncounted(T) ==
    /\ queue' = [t \in Task |-> IF t \in T THEN "pending" ELSE queue[t]]
    /\ UNCHANGED <<tnum, tbody, retried>>

\* An attempt at each task of T has failed: the task waits for the next, or is
\* archived once its retries are used up.
FailTasks(T) ==
    /\ queue' = [t \in Task |->
          IF t \notin T THEN queue[t]
          ELSE IF retried[t] < MaxRetry THEN "pending" ELSE "archived"]
    /\ retried' = [t \in Task |->
          IF t \in T /\ retried[t] < MaxRetry THEN retried[t] + 1 ELSE retried[t]]
    /\ UNCHANGED <<tnum, tbody>>

\* Somebody enqueues the task of a failed upsert, or one nobody can parse.
Enqueue(t, n, b) ==
    /\ queue[t] = "none"
    /\ queue' = [queue EXCEPT ![t] = "pending"]
    /\ tnum' = [tnum EXCEPT ![t] = n]
    /\ tbody' = [tbody EXCEPT ![t] = b]
    /\ retried' = [retried EXCEPT ![t] = 0]
    /\ QueueOnly

\* The handler returned nil: the task leaves the queue.
Complete(t) ==
    /\ queue[t] = "ack"
    /\ MoveTask(t, "none")
    /\ QueueOnly

\* The worker is killed: the lease of what it had in hand runs out, and that
\* counts as a failed attempt, also for a task whose Save was through.
KillWorker ==
    /\ "crash" \in Faults
    /\ \E t \in Task : Active(t)
    /\ FailTasks({t \in Task : Active(t)})
    /\ QueueOnly

\* A graceful shutdown puts back what does not finish in time.
ShutdownWorker ==
    /\ \E t \in Task : Active(t)
    /\ queue' = [t \in Task |-> IF Active(t) THEN "pending" ELSE queue[t]]
    /\ UNCHANGED <<tnum, tbody, retried>>
    /\ QueueOnly

(***************************************************************************)
(* RetryHandler.ProcessTask                                                *)
(***************************************************************************)

\* A worker takes the task; a payload that cannot be unmarshalled fails the
\* attempt, and every one after it.
ProcessTask(t) ==
    /\ queue[t] = "pending"
    /\ IF tbody[t] = NoBody
       THEN FailTasks({t})
       ELSE MoveTask(t, "upsert")
    /\ QueueOnly

\* A wrong version of the upsert: it does not back the row up.
RetryUpsertNoBackup(t) ==
    /\ queue[t] = "upsert"
    /\ ApplyUpsertNoBackup(tnum[t], tbody[t])
    /\ MoveTask(t, "cache")
    /\ Unseen /\ UNCHANGED cache

\* Save's statement, with the body of the attempt that failed: it is not
\* compared with what newer pushes have stored in the meantime.
RetryUpsert(t) ==
    /\ queue[t] = "upsert"
    /\ ApplyUpsert(tnum[t], tbody[t])
    /\ MoveTask(t, "cache")
    /\ Unseen /\ UNCHANGED cache

\* A wrong version: the handler logs the error of Save and returns nil.
RetryUpsertErrorLogged(t) ==
    /\ "db" \in Faults
    /\ queue[t] = "upsert"
    /\ \/ ApplyUpsert(tnum[t], tbody[t])
       \/ UNCHANGED <<store, accepted, executed>>
    /\ MoveTask(t, "ack")
    /\ Unseen /\ UNCHANGED cache

\* The statement fails, before or after it took effect, and the handler
\* returns the error.
RetryUpsertError(t) ==
    /\ "db" \in Faults
    /\ queue[t] = "upsert"
    /\ \/ ApplyUpsert(tnum[t], tbody[t])
       \/ UNCHANGED <<store, accepted, executed>>
    /\ FailTasks({t})
    /\ Unseen /\ UNCHANGED cache

\* Save goes on to Redis, whatever the row did with the body.  tracking_logs is
\* not synced: the handler ends here.
RetryCacheSet(t) ==
    /\ queue[t] = "cache"
    /\ SetCache(tnum[t], tbody[t])
    /\ MoveTask(t, "ack")
    /\ Unseen /\ UNCHANGED <<store, accepted, executed>>

-----------------------------------------------------------------------------
\* A worker with a task in hand.
Working(t) ==
    \/ ProcessTask(t) \/ RetryUpsert(t) \/ RetryUpsertError(t)
    \/ RetryCacheSet(t) \/ Complete(t)

QueueNext ==
    \/ \E t \in Task :
          \/ \E n \in Number, b \in Body \cup {NoBody} : Enqueue(t, n, b)
          \/ Working(t)
    \/ KillWorker
    \/ ShutdownWorker

RNext == (Next /\ UNCHANGED tasks) \/ QueueNext

RSpec == RInit /\ [][RNext]_rvars

\* On top of the service's fairness: the worker is restarted and takes pending
\* tasks once their delay is over, the calls of a handler return, and it is
\* not shut down over and over for ever.
RFairSpec ==
    /\ RSpec
    /\ Fairness
    /\ \A t \in Task : WF_rvars(Working(t))
    /\ <>[][~ShutdownWorker]_rvars

-----------------------------------------------------------------------------
\* A task in its attempt has a body to store; past Save's statement that body
\* was executed, by this attempt; only a task whose retries are used up is archived.
TaskOK(t) ==
    /\ Active(t) => tbody[t] \in Body
    /\ queue[t] \in {"cache", "ack"} => tbody[t] \in executed[tnum[t]]
    /\ queue[t] = "archived" => retried[t] = MaxRetry

TaskInv == \A t \in Task : TaskOK(t)

\* The invariant of service and worker together: everything the store promises
\* holds with retries replaying old bodies between the calls of the requests.
RInv == IInv /\ TaskType /\ TaskInv

\* A task leaves the queue for good only when its body was executed for its
\* number: killed workers, failed statements and redeliveries lose none.
TaskLeavesExecuted ==
    [][\A t \in Task :
          /\ queue[t] # "none" /\ queue'[t] = "none"
          => tbody[t] \in executed[tnum[t]]]_rvars

\* The steps a task has at most before it is done or archived.
StepsLeft(t) ==
    IF queue[t] \in {"none", "archived"} THEN 0
    ELSE 4 * (MaxRetry - retried[t])
         + [pending |-> 4, upsert |-> 3, cache |-> 2, ack |-> 1][queue[t]]

\* Whatever a worker does with a task brings the task nearer to its end, a payload
\* that cannot be parsed and a killed worker included; nothing throws it back but a
\* graceful shutdown.
TaskAdvances ==
    [][\A t \in Task :
          /\ Working(t) => StepsLeft(t)' < StepsLeft(t)
          /\ queue[t] # "none" /\ ~ShutdownWorker => StepsLeft(t)' <= StepsLeft(t)]_rvars

\* Every task is eventually done or archived: no payload, however it fails,
\* circulates forever.
TasksEnd == \A t \in Task : queue[t] = "pending" ~> queue[t] \in {"none", "archived"}

\* Redis and the row agree, and the worker has nothing else on its way to Redis.
SettledForAll(n) ==
    /\ Settled(n)
    /\ \A t \in Task : tnum[t] = n /\ queue[t] = "cache" => tbody[t] = detail[n]

RetrySaves(n) == \E t \in Task : tnum[t] = n /\ queue[t] = "upsert" /\ queue'[t] = "cache"

\* The worker does not part Redis from the row either, except by the statement
\* that stores an old body.
CoherenceLastsForAll ==
    [][\A n \in Number : SettledForAll(n) =>
          SettledForAll(n)' \/ Saves(n) \/ RetrySaves(n) \/ detail'[n] # detail[n]]_rvars

\* Once pushes and retries cease, Redis ends up with the row's detail or nothing.
CoherentAfterRetries ==
    <>[](~Pushing /\ \A t \in Task : ~Active(t))
        => <>[](\A n \in Number : cache[n] \in {NoBody, detail[n]})
=============================================================================
