------------------------- MODULE RetryQueueProofs --------------------------
(***************************************************************************)
(* What TrackingStoreProofs shows of the service alone holds with the      *)
(* retry worker beside it, for any number of tasks and any MaxRetry.       *)
(*                                                                         *)
(* A step of the worker is, for the rows and for Redis, either an upsert,  *)
(* a body shown that was executed, or nothing: the lemmas about those      *)
(* (ApplyUpsertStep, ShownStep, StoreKept) are the service's own.  What is *)
(* new is TaskInv, kept because executed bodies are never forgotten.       *)
(***************************************************************************)
EXTENDS RetryQueue, TrackingStoreProofs

\* An upsert, auto_sign and answers forget no executed body.
LEMMA RowStepsGrow ==
    ASSUME StoreType, RowSteps
    PROVE  \A n \in Number : executed[n] \subseteq executed'[n]
<1>1. executed \in [Number -> SUBSET Body]
  BY DEF StoreType
<1>2. ASSUME NEW m \in Number, NEW b, executed' = Note(executed, m, b)
      PROVE  \A n \in Number : executed[n] \subseteq executed'[n]
  BY <1>1, <1>2, SMT DEF Note
<1>3. QED
  BY <1>2 DEF RowSteps, ApplyUpsert, AutoSign

\* A task the step does not touch stays in order while more upserts run.
LEMMA TaskKept ==
    ASSUME TaskType, NEW t \in Task, TaskOK(t),
           queue'[t] = queue[t], tnum'[t] = tnum[t], tbody'[t] = tbody[t],
           retried'[t] = retried[t],
           \A n \in Number : executed[n] \subseteq executed'[n]
    PROVE  TaskOK(t)'
<1>1. tnum[t] \in Number
  BY DEF TaskType
<1>2. executed[tnum[t]] \subseteq executed'[tnum'[t]]
  BY <1>1
<1>3. QED
  BY <1>2 DEF TaskOK, Active

\* The service's steps leave the tasks in order.
LEMMA TasksUntouched ==
    ASSUME TaskType, TaskInv, UNCHANGED tasks,
           \A n \in Number : executed[n] \subseteq executed'[n]
    PROVE  TaskType' /\ TaskInv'
<1>1. TaskType'
  BY DEF TaskType, tasks
<1>2. QED
  BY <1>1, TaskKept DEF TaskInv, tasks

\* One task moves on and keeps its payload; the others stay as they are.
LEMMA MoveTaskStep ==
    ASSUME TaskType, TaskInv, NEW t \in Task,
           NEW label \in {"none", "upsert", "cache", "ack"}, MoveTask(t, label),
           label # "none" => tbody[t] \in Body,
           label \in {"cache", "ack"} => tbody[t] \in executed'[tnum[t]],
           \A n \in Number : executed[n] \subseteq executed'[n]
    PROVE  TaskType' /\ TaskInv'
<1>1. /\ queue \in [Task -> {"none", "pending", "upsert", "cache", "ack", "archived"}]
      /\ queue' = [queue EXCEPT ![t] = label]
      /\ UNCHANGED <<tnum, tbody, retried>>
  BY DEF TaskType, MoveTask
<1>2. /\ queue' \in [Task -> {"none", "pending", "upsert", "cache", "ack", "archived"}]
      /\ queue'[t] = label
      /\ \A u \in Task \ {t} : queue'[u] = queue[u]
  BY <1>1, SMT
<1>3. TaskType'
  BY <1>1, <1>2 DEF TaskType
<1>4. TaskOK(t)'
  BY <1>1, <1>2 DEF TaskOK, Active
<1>5. ASSUME NEW u \in Task \ {t} PROVE TaskOK(u)'
  <2>1. TaskOK(u) /\ queue'[u] = queue[u]
    BY <1>2, <1>5 DEF TaskInv
  <2>2. QED
    BY <1>1, <2>1, TaskKept
<1>6. QED
  BY <1>3, <1>4, <1>5 DEF TaskInv

\* Tasks whose attempt failed wait again or are archived with nothing left to retry.
LEMMA FailTasksStep ==
    ASSUME TaskType, TaskInv, NEW T, FailTasks(T),
           \A n \in Number : executed[n] \subseteq executed'[n]
    PROVE  TaskType' /\ TaskInv'
<1>1. /\ MaxRetry \in Nat
      /\ retried \in [Task -> 0..MaxRetry]
      /\ queue \in [Task -> {"none", "pending", "upsert", "cache", "ack", "archived"}]
  BY RetryAssumption DEF TaskType
<1>2. ASSUME NEW u \in Task
      PROVE  /\ queue'[u] \in {"none", "pending", "upsert", "cache", "ack", "archived"}
             /\ retried'[u] \in 0..MaxRetry
             /\ u \in T => queue'[u] = "pending" \/ (queue'[u] = "archived" /\ retried'[u] = MaxRetry)
             /\ u \notin T => queue'[u] = queue[u] /\ retried'[u] = retried[u]
  BY <1>1, SMT DEF FailTasks
<1>3. TaskType'
  <2>1. /\ queue' = [u \in Task |-> queue'[u]]
        /\ retried' = [u \in Task |-> retried'[u]]
        /\ UNCHANGED <<tnum, tbody>>
    BY DEF FailTasks
  <2>2. QED
    BY <1>2, <2>1 DEF TaskType
<1>4. ASSUME NEW u \in Task PROVE TaskOK(u)'
  <2>1. CASE u \in T
    BY <1>2, <2>1 DEF TaskOK, Active
  <2>2. CASE u \notin T
    <3>1. queue'[u] = queue[u] /\ retried'[u] = retried[u] /\ TaskOK(u)
      BY <1>2, <2>2 DEF TaskInv
    <3>2. UNCHANGED <<tnum, tbody>>
      BY DEF FailTasks
    <3>3. QED
      BY <3>1, <3>2, TaskKept
  <2>3. QED
    BY <2>1, <2>2
<1>5. QED
  BY <1>3, <1>4 DEF TaskInv

\* A step inside the queue shows the service nothing.
LEMMA QueueOnlyStep ==
    ASSUME IInv, QueueOnly
    PROVE  /\ IInv' /\ RowSteps
           /\ \A n \in Number : executed[n] \subseteq executed'[n]
<1>1. UNCHANGED <<store, cache, log, overseas, history>> /\ UNCHANGED request /\ answer' = 0
  BY DEF QueueOnly, Unseen, history
<1>2. IInv'
  BY <1>1, StoreKept, EnvironmentRequests
<1>3. RowSteps
  BY <1>1 DEF RowSteps, history
<1>4. \A n \in Number : executed[n] \subseteq executed'[n]
  BY <1>1 DEF history
<1>5. QED
  BY <1>2, <1>3, <1>4

\* The worker's upsert, whether the handler learns of it or not.
LEMMA RetryUpsertFacts ==
    ASSUME RInv, NEW t \in Task, queue[t] = "upsert",
           \/ ApplyUpsert(tnum[t], tbody[t])
           \/ UNCHANGED <<store, accepted, executed>>,
           Unseen, UNCHANGED cache
    PROVE  /\ IInv' /\ RowSteps
           /\ \A n \in Number : executed[n] \subseteq executed'[n]
           /\ ApplyUpsert(tnum[t], tbody[t]) => tbody[t] \in executed'[tnum[t]]
<1>1. tnum[t] \in Number /\ tbody[t] \in Body /\ IInv
  BY DEF RInv, TaskType, TaskInv, TaskOK, Active
<1>2. UNCHANGED <<cache, log, overseas, served, request>> /\ answer' = 0
  BY DEF Unseen
<1>3. CASE ApplyUpsert(tnum[t], tbody[t])
  <2>1. StoreInv' /\ Grows /\ tbody[t] \in executed'[tnum[t]]
    BY <1>1, <1>2, <1>3, ApplyUpsertStep
  <2>2. IInv'
    BY <1>1, <1>2, <2>1, EnvironmentRequests
  <2>3. RowSteps
    BY <1>1, <1>2, <1>3 DEF RowSteps
  <2>4. QED
    BY <2>1, <2>2, <2>3 DEF Grows
<1>4. CASE UNCHANGED <<store, accepted, executed>> /\ ~ApplyUpsert(tnum[t], tbody[t])
  <2>1. QueueOnly
    BY <1>2, <1>4 DEF QueueOnly, Unseen
  <2>2. QED
    BY <1>1, <1>4, <2>1, QueueOnlyStep
<1>5. QED
  BY <1>3, <1>4

\* The worker's Redis write, or its failure.
LEMMA RetryCacheSetStep ==
    ASSUME RInv, NEW t \in Task, RetryCacheSet(t)
    PROVE  RInv' /\ RowSteps
<1>1. /\ tnum[t] \in Number /\ tbody[t] \in Body /\ IInv /\ TaskType /\ TaskInv
      /\ tbody[t] \in executed[tnum[t]]
  BY DEF RInv, TaskType, TaskInv, TaskOK, Active, RetryCacheSet
<1>2. /\ UNCHANGED <<store, log, overseas, accepted, executed, served, request>>
      /\ answer' = 0
      /\ cache' = cache \/ cache' = [cache EXCEPT ![tnum[t]] = tbody[t]]
      /\ MoveTask(t, "ack")
  BY DEF RetryCacheSet, Unseen, SetCache
<1>3. StoreInv' /\ Grows
  BY <1>1, <1>2, ShownStep
<1>4. IInv'
  BY <1>1, <1>2, <1>3, EnvironmentRequests
<1>5. TaskType' /\ TaskInv'
  BY <1>1, <1>2, MoveTaskStep
<1>6. RowSteps
  BY <1>2 DEF RowSteps
<1>7. QED
  BY <1>4, <1>5, <1>6 DEF RInv

\* What the worker does with one task in hand.
LEMMA WorkingStep ==
    ASSUME RInv, NEW t \in Task, Working(t)
    PROVE  RInv' /\ RowSteps
<1>1. IInv /\ TaskType /\ TaskInv
  BY DEF RInv
<1>2. CASE ProcessTask(t)
  <2>1. IInv' /\ RowSteps /\ \A n \in Number : executed[n] \subseteq executed'[n]
    BY <1>1, <1>2, QueueOnlyStep DEF ProcessTask
  <2>2. CASE tbody[t] = NoBody
    <3>1. FailTasks({t})
      BY <1>2, <2>2 DEF ProcessTask
    <3>2. QED
      BY <1>1, <2>1, <3>1, FailTasksStep DEF RInv
  <2>3. CASE tbody[t] # NoBody
    <3>1. MoveTask(t, "upsert") /\ tbody[t] \in Body
      BY <1>1, <1>2, <2>3 DEF ProcessTask, TaskType
    <3>2. QED
      BY <1>1, <2>1, <3>1, MoveTaskStep DEF RInv
  <2>4. QED
    BY <2>2, <2>3
<1>3. CASE RetryUpsert(t)
  <2>1. /\ IInv' /\ RowSteps
        /\ \A n \in Number : executed[n] \subseteq executed'[n]
        /\ tbody[t] \in executed'[tnum[t]]
    BY <1>3, RetryUpsertFacts DEF RetryUpsert
  <2>2. MoveTask(t, "cache") /\ tbody[t] \in Body
    BY <1>1, <1>3 DEF RetryUpsert, TaskInv, TaskOK, Active
  <2>3. QED
    BY <1>1, <2>1, <2>2, MoveTaskStep DEF RInv
<1>4. CASE RetryUpsertError(t)
  <2>1. /\ IInv' /\ RowSteps
        /\ \A n \in Number : executed[n] \subseteq executed'[n]
    BY <1>4, RetryUpsertFacts DEF RetryUpsertError
  <2>2. FailTasks({t})
    BY <1>4 DEF RetryUpsertError
  <2>3. QED
    BY <1>1, <2>1, <2>2, FailTasksStep DEF RInv
<1>5. CASE RetryCacheSet(t)
  BY <1>5, RetryCacheSetStep
<1>6. CASE Complete(t)
  <2>1. IInv' /\ RowSteps /\ \A n \in Number : executed[n] \subseteq executed'[n]
    BY <1>1, <1>6, QueueOnlyStep DEF Complete
  <2>2. MoveTask(t, "none")
    BY <1>6 DEF Complete
  <2>3. QED
    BY <1>1, <2>1, <2>2, MoveTaskStep DEF RInv
<1>7. QED
  BY <1>2, <1>3, <1>4, <1>5, <1>6 DEF Working

\* A new task waits with whatever payload it was given.
LEMMA EnqueueStep ==
    ASSUME RInv, NEW t \in Task, NEW n \in Number, NEW b \in Body \cup {NoBody},
           Enqueue(t, n, b)
    PROVE  RInv' /\ RowSteps
<1>1. IInv /\ TaskType /\ TaskInv
  BY DEF RInv
<1>2. IInv' /\ RowSteps /\ \A m \in Number : executed[m] \subseteq executed'[m]
  BY <1>1, QueueOnlyStep DEF Enqueue
<1>3. TaskType'
  BY <1>1, RetryAssumption DEF Enqueue, TaskType
<1>4. ASSUME NEW u \in Task PROVE TaskOK(u)'
  <2>1. CASE u = t
    BY <1>1, <2>1 DEF Enqueue, TaskType, TaskOK, Active
  <2>2. CASE u # t
    <3>1. /\ queue'[u] = queue[u] /\ tnum'[u] = tnum[u] /\ tbody'[u] = tbody[u]
          /\ retried'[u] = retried[u]
      BY <1>1, <2>2 DEF Enqueue, TaskType
    <3>2. QED
      BY <1>1, <1>2, <3>1, TaskKept DEF TaskInv
  <2>3. QED
    BY <2>1, <2>2
<1>5. QED
  BY <1>2, <1>3, <1>4 DEF RInv, TaskInv

\* A worker killed or shut down leaves its tasks waiting, or archived.
LEMMA WorkerStopsStep ==
    ASSUME RInv, KillWorker \/ ShutdownWorker
    PROVE  RInv' /\ RowSteps
<1>1. IInv /\ TaskType /\ TaskInv
  BY DEF RInv
<1>2. IInv' /\ RowSteps /\ \A n \in Number : executed[n] \subseteq executed'[n]
  BY <1>1, QueueOnlyStep DEF KillWorker, ShutdownWorker
<1>3. CASE KillWorker
  BY <1>1, <1>2, <1>3, FailTasksStep DEF KillWorker, RInv
<1>4. CASE ShutdownWorker
  <2>1. /\ queue' = [u \in Task |-> IF Active(u) THEN "pending" ELSE queue[u]]
        /\ UNCHANGED <<tnum, tbody, retried>>
    BY <1>4 DEF ShutdownWorker
  <2>2. TaskType'
    BY <1>1, <2>1 DEF TaskType
  <2>3. ASSUME NEW u \in Task PROVE TaskOK(u)'
    <3>1. CASE Active(u)
      BY <2>1, <3>1 DEF TaskOK, Active
    <3>2. CASE ~Active(u)
      BY <1>1, <1>2, <2>1, <3>2, TaskKept DEF TaskInv
    <3>3. QED
      BY <3>1, <3>2
  <2>4. QED
    BY <1>2, <2>2, <2>3 DEF RInv, TaskInv
<1>5. QED
  BY <1>3, <1>4

\* Every step of service and worker keeps the invariant and is, for the rows
\* and the readers, one of the register's.
LEMMA RetryStep ==
    ASSUME RInv, [RNext]_rvars
    PROVE  RInv' /\ RowSteps
<1>1. ASSUME [Next]_vars, UNCHANGED tasks PROVE RInv' /\ RowSteps
  <2>1. IInv /\ StoreType /\ TaskType /\ TaskInv
    BY DEF RInv, IInv, TypeOK
  <2>2. IInv' /\ RowSteps
    BY <1>1, <2>1, StepInv, NextRowSteps
  <2>3. \A n \in Number : executed[n] \subseteq executed'[n]
    BY <2>1, <2>2, RowStepsGrow
  <2>4. QED
    BY <1>1, <2>1, <2>2, <2>3, TasksUntouched DEF RInv
<1>2. ASSUME QueueNext PROVE RInv' /\ RowSteps
  BY <1>2, WorkingStep, EnqueueStep, WorkerStopsStep DEF QueueNext
<1>3. QED
  BY <1>1, <1>2 DEF RNext, rvars

\* With no task enqueued the invariant is the store's.
LEMMA RetryInit == RInit => RInv
<1> SUFFICES ASSUME RInit PROVE RInv
  OBVIOUS
<1>1. IInv
  BY InitInv DEF RInit
<1>2. (CHOOSE n \in Number : TRUE) \in Number
  BY NumberAssumption
<1>3. TaskType
  BY <1>2, RetryAssumption DEF RInit, TaskType
<1>4. TaskInv
  BY DEF RInit, TaskInv, TaskOK, Active
<1>5. QED
  BY <1>1, <1>3, <1>4 DEF RInv

\* The invariant of service and worker: retries that replay old bodies, however
\* often they are killed, put back or repeated, break no promise of the store.
THEOREM RetryInvariant == RSpec => []RInv
<1>1. RInv /\ [RNext]_rvars => RInv'
  BY RetryStep
<1>2. QED
  BY <1>1, RetryInit, PTL DEF RSpec

\* A task disappears from the queue only after its upsert ran.
THEOREM TaskLeavesExecutedCorrect == RSpec => TaskLeavesExecuted
<1>1. ASSUME RInv, [RNext]_rvars, NEW t \in Task, queue[t] # "none", queue'[t] = "none"
      PROVE  tbody[t] \in executed[tnum[t]]
  <2>1. queue \in [Task -> {"none", "pending", "upsert", "cache", "ack", "archived"}]
    BY <1>1 DEF RInv, TaskType
  <2>2. ASSUME NEW T, FailTasks(T) PROVE FALSE
    BY <1>1, <2>2 DEF FailTasks
  <2>3. ASSUME NEW u \in Task, NEW label \in {"upsert", "cache", "ack"}, MoveTask(u, label)
        PROVE  FALSE
    BY <1>1, <2>1, <2>3 DEF MoveTask
  <2>4. ~ShutdownWorker
    BY <1>1 DEF ShutdownWorker
  <2>5. ASSUME NEW u \in Task, NEW n, NEW b, Enqueue(u, n, b) PROVE FALSE
    BY <1>1, <2>1, <2>5 DEF Enqueue
  <2>6. ~UNCHANGED tasks
    BY <1>1 DEF tasks
  <2>7. PICK u \in Task : Complete(u)
    BY <1>1, <2>2, <2>3, <2>4, <2>5, <2>6 DEF RNext, rvars, QueueNext, Working, ProcessTask,
       RetryUpsert, RetryUpsertError, RetryCacheSet, KillWorker
  <2>8. queue[t] = "ack"
    BY <1>1, <2>1, <2>7 DEF Complete, MoveTask
  <2>9. QED
    BY <1>1, <2>8 DEF RInv, TaskInv, TaskOK
<1>2. RInv /\ [RNext]_rvars =>
        [\A t \in Task :
            /\ queue[t] # "none" /\ queue'[t] = "none"
            => tbody[t] \in executed[tnum[t]]]_rvars
  BY <1>1
<1>3. QED
  BY <1>2, RetryInvariant, PTL DEF RSpec, TaskLeavesExecuted

\* No retry changes a row that auto_sign has marked.
THEOREM RetrySignedRowFrozen == RSpec => SignedRowFrozen
<1>1. RInv /\ [RNext]_rvars =>
        [\A n \in Number : auto_delivered[n] =>
            /\ auto_delivered'[n]
            /\ detail'[n] = detail[n]
            /\ last_detail'[n] = last_detail[n]]_vars
  BY RetryStep, RowStepsFreeze DEF RInv
<1>2. QED
  BY <1>1, RetryInvariant, PTL DEF RSpec, SignedRowFrozen

\* Service and worker together are still one register per number.
THEOREM RetryRefinement == RSpec => ImplementsRegister
<1>1. RInit => Register!Init
  BY RegisterInit DEF RInit
<1>2. RInv /\ [RNext]_rvars => [Register!Next]_(Register!vars)
  BY RetryStep, RowStepsRegister
<1>3. QED
  BY <1>1, <1>2, RetryInvariant, PTL DEF RSpec, ImplementsRegister, Register!Spec
\* Whatever the store promises of Redis, readers and log rows holds with the
\* worker beside the service.
THEOREM RetryKeepsPromises ==
    RSpec => [](TypeOK /\ ShownWasExecuted /\ UnsignedShownWasStored /\ LogIsOnePush
                /\ EmptyNumberStaysInside)
<1>1. RInv => IInv
  BY DEF RInv
<1>2. IInv => UnsignedShownWasStored
  BY DEF IInv, UnsignedShownWasStored, ShownWasExecuted, RowInv
<1>3. RInv => TypeOK /\ ShownWasExecuted /\ UnsignedShownWasStored /\ LogIsOnePush
              /\ EmptyNumberStaysInside
  BY <1>1, <1>2 DEF IInv
<1>4. QED
  BY <1>3, RetryInvariant, PTL

\* The worker's steps answer nobody.
LEMMA QueueAnswersNobody == QueueNext => UNCHANGED request /\ answer' = 0
BY DEF QueueNext, Working, Enqueue, ProcessTask, RetryUpsert, RetryUpsertError, RetryCacheSet,
   Complete, KillWorker, ShutdownWorker, QueueOnly, Unseen

\* A push is answered 200 only with its own body run through an upsert, retries
\* or not.
THEOREM RetryAckedPushExecuted == RSpec => AckedPushExecuted
<1>1. ASSUME RInv, [RNext]_rvars, NEW p \in Proc, pc[p] # "idle", pc'[p] = "idle", answer' = 200
      PROVE  held[p] \in executed[num[p]]
  <2>1. [Next]_vars
    BY <1>1, QueueAnswersNobody DEF RNext, rvars
  <2>2. QED
    BY <1>1, <2>1, AckedStep DEF RInv
<1>2. RInv /\ [RNext]_rvars =>
        [\A p \in Proc :
            /\ pc[p] # "idle" /\ pc'[p] = "idle"
            /\ answer' = 200
            => held[p] \in executed[num[p]]]_vars
  BY <1>1
<1>3. QED
  BY <1>2, RetryInvariant, PTL DEF RSpec, AckedPushExecuted

\* A step leaves the worker's bodies for n as they are, or ends their attempt.
TasksUndisturbed(n) ==
    \A t \in Task : tnum'[t] = n /\ queue'[t] = "cache" =>
        tnum[t] = n /\ queue[t] = "cache" /\ tbody'[t] = tbody[t]

\* What is settled with the worker stays so under a step that disturbs neither.
LEMMA SettledForAllKept ==
    ASSUME NEW n \in Number, SettledForAll(n), Undisturbed(n), TasksUndisturbed(n),
           detail'[n] = detail[n]
    PROVE  SettledForAll(n)'
<1>1. Settled(n)'
  BY SettledKept DEF SettledForAll
<1>2. \A t \in Task : tnum'[t] = n /\ queue'[t] = "cache" => tbody'[t] = detail'[n]
  BY DEF SettledForAll, TasksUndisturbed
<1>3. QED
  BY <1>1, <1>2 DEF SettledForAll

\* Moving a task on, failing or enqueueing tasks brings no body on its way to Redis.
LEMMA TasksQuiet ==
    ASSUME TaskType, NEW n,
           \/ \E t \in Task : \/ MoveTask(t, "upsert") \/ MoveTask(t, "ack") \/ MoveTask(t, "none")
                              \/ MoveTask(t, "cache") /\ tnum[t] # n
                              \/ \E m, b : Enqueue(t, m, b)
           \/ \E T : FailTasks(T)
           \/ ShutdownWorker
           \/ UNCHANGED tasks
    PROVE  TasksUndisturbed(n)
<1>1. /\ queue \in [Task -> {"none", "pending", "upsert", "cache", "ack", "archived"}]
      /\ DOMAIN tnum = Task /\ DOMAIN tbody = Task
  BY DEF TaskType
<1>2. ASSUME NEW t \in Task, NEW label, MoveTask(t, label), label # "cache" \/ tnum[t] # n
      PROVE  TasksUndisturbed(n)
  BY <1>1, <1>2 DEF MoveTask, TasksUndisturbed
<1>3. ASSUME NEW t \in Task, NEW m, NEW b, Enqueue(t, m, b) PROVE TasksUndisturbed(n)
  BY <1>1, <1>3 DEF Enqueue, TasksUndisturbed
<1>4. ASSUME NEW T, FailTasks(T) PROVE TasksUndisturbed(n)
  BY <1>1, <1>4 DEF FailTasks, TasksUndisturbed
<1>5. ASSUME ShutdownWorker PROVE TasksUndisturbed(n)
  BY <1>1, <1>5 DEF ShutdownWorker, TasksUndisturbed
<1>6. ASSUME UNCHANGED tasks PROVE TasksUndisturbed(n)
  BY <1>6 DEF tasks, TasksUndisturbed
<1>7. QED
  BY <1>2, <1>3, <1>4, <1>5, <1>6

\* The worker writes the row's detail to Redis wherever the number is settled.
LEMMA QueueUndisturbed ==
    ASSUME RInv, QueueNext, NEW n \in Number, SettledForAll(n), ~RetrySaves(n)
    PROVE  Undisturbed(n) /\ TasksUndisturbed(n)
<1>1. TaskType /\ UNCHANGED request /\ cache \in [Number -> Body \cup {NoBody}]
  BY QueueAnswersNobody DEF RInv, IInv, TypeOK, StoreType
<1>2. ASSUME NEW t \in Task, RetryCacheSet(t) PROVE Undisturbed(n) /\ TasksUndisturbed(n)
  <2>1. TasksUndisturbed(n)
    BY <1>1, <1>2, TasksQuiet DEF RetryCacheSet
  <2>2. queue[t] = "cache" /\ SetCache(tnum[t], tbody[t])
    BY <1>2 DEF RetryCacheSet
  <2>3. CASE tnum[t] = n
    <3>1. cache'[n] \in {cache[n], detail[n]}
      BY <1>1, <2>2, <2>3 DEF SettledForAll, SetCache
    <3>2. QED
      BY <1>1, <2>1, <3>1 DEF Undisturbed, request
  <2>4. CASE tnum[t] # n
    <3>1. cache'[n] = cache[n]
      BY <1>1, <2>2, <2>4 DEF SetCache
    <3>2. QED
      BY <1>1, <2>1, <3>1, QuietStep
  <2>5. QED
    BY <2>3, <2>4
<1>3. ASSUME ~ \E t \in Task : RetryCacheSet(t) PROVE Undisturbed(n)
  <2>1. cache' = cache
    BY <1>3 DEF QueueNext, Working, Enqueue, ProcessTask, RetryUpsert, RetryUpsertError,
       Complete, KillWorker, ShutdownWorker, QueueOnly
  <2>2. QED
    BY <1>1, <2>1, QuietStep
<1>4. ASSUME NEW t \in Task, RetryUpsert(t) PROVE TasksUndisturbed(n)
  <2>1. queue[t] = "upsert" /\ MoveTask(t, "cache")
    BY <1>4 DEF RetryUpsert
  <2>2. queue'[t] = "cache"
    BY <1>1, <2>1 DEF MoveTask, TaskType
  <2>3. tnum[t] # n
    BY <2>1, <2>2 DEF RetrySaves
  <2>4. QED
    BY <1>1, <2>1, <2>3, TasksQuiet
<1>5. ASSUME ~ \E t \in Task : RetryUpsert(t) PROVE TasksUndisturbed(n)
  <2>1. ASSUME NEW t \in Task, Working(t) PROVE TasksUndisturbed(n)
    BY <1>1, <1>5, <2>1, TasksQuiet DEF Working, ProcessTask, RetryUpsertError, RetryCacheSet,
       Complete
  <2>2. ASSUME KillWorker PROVE TasksUndisturbed(n)
    BY <1>1, <2>2, TasksQuiet DEF KillWorker
  <2>3. QED
    BY <1>1, <2>1, <2>2, TasksQuiet DEF QueueNext
<1>6. QED
  BY <1>2, <1>3, <1>4, <1>5

\* Only a step that stores a body for a number parts Redis from its row, the
\* worker's steps included.
THEOREM CoherenceLastsForAllCorrect == RSpec => CoherenceLastsForAll
<1>1. ASSUME RInv, [RNext]_rvars, NEW n \in Number, SettledForAll(n),
             ~Saves(n), ~RetrySaves(n), detail'[n] = detail[n]
      PROVE  SettledForAll(n)'
  <2>1. CASE QueueNext
    BY <1>1, <2>1, QueueUndisturbed, SettledForAllKept
  <2>2. CASE [Next]_vars /\ UNCHANGED tasks
    <3>1. Undisturbed(n)
      BY <1>1, <2>2, NextUndisturbed DEF RInv, SettledForAll
    <3>2. TasksUndisturbed(n)
      BY <1>1, <2>2, TasksQuiet DEF RInv
    <3>3. QED
      BY <1>1, <3>1, <3>2, SettledForAllKept
  <2>3. QED
    BY <1>1, <2>1, <2>2 DEF RNext, rvars
<1>2. RInv /\ [RNext]_rvars =>
        [\A n \in Number : SettledForAll(n) =>
            SettledForAll(n)' \/ Saves(n) \/ RetrySaves(n) \/ detail'[n] # detail[n]]_rvars
  BY <1>1
<1>3. QED
  BY <1>2, RetryInvariant, PTL DEF RSpec, CoherenceLastsForAll

\* The steps left in numbers that can be compared.
Place(label) == [pending |-> 4, upsert |-> 3, cache |-> 2, ack |-> 1][label]

LEMMA Places == /\ Place("pending") = 4 /\ Place("upsert") = 3
                /\ Place("cache") = 2 /\ Place("ack") = 1
BY DEF Place

\* A task in the queue has at least one step left for every place it is at, and
\* more while it has retries.
LEMMA StepsOfTask ==
    ASSUME TaskType, NEW t \in Task
    PROVE  /\ queue[t] \in {"none", "archived"} => StepsLeft(t) = 0
           /\ queue[t] \in {"pending", "upsert", "cache", "ack"} =>
                 StepsLeft(t) = 4 * (MaxRetry - retried[t]) + Place(queue[t])
           /\ StepsLeft(t) \in Nat
           /\ retried[t] \in Nat /\ MaxRetry \in Nat /\ retried[t] <= MaxRetry
<1>1. /\ MaxRetry \in Nat /\ retried[t] \in 0 .. MaxRetry
      /\ queue[t] \in {"none", "pending", "upsert", "cache", "ack", "archived"}
  BY RetryAssumption DEF TaskType
<1>2. CASE queue[t] \in {"none", "archived"}
  BY <1>1, <1>2 DEF StepsLeft
<1>3. CASE queue[t] \in {"pending", "upsert", "cache", "ack"}
  <2>1. StepsLeft(t) = 4 * (MaxRetry - retried[t]) + Place(queue[t])
    BY <1>3 DEF StepsLeft, Place
  <2>2. Place(queue[t]) \in 1 .. 4
    BY <1>3, Places
  <2>3. 4 * (MaxRetry - retried[t]) \in Nat
    BY <1>1
  <2>4. QED
    BY <1>1, <1>3, <2>1, <2>2, <2>3
<1>4. QED
  BY <1>1, <1>2, <1>3

\* The same number for the place and the retries a task has after a step.
LEMMA StepsNext ==
    ASSUME TaskType', NEW t \in Task
    PROVE  StepsLeft(t)' \in Nat
<1>1. /\ MaxRetry \in Nat /\ retried'[t] \in 0 .. MaxRetry
      /\ queue'[t] \in {"none", "pending", "upsert", "cache", "ack", "archived"}
  BY RetryAssumption DEF TaskType
<1>2. CASE queue'[t] \in {"none", "archived"}
  BY <1>2 DEF StepsLeft
<1>3. CASE queue'[t] \in {"pending", "upsert", "cache", "ack"}
  <2>1. StepsLeft(t)' = 4 * (MaxRetry - retried'[t]) + Place(queue'[t])
    BY <1>3 DEF StepsLeft, Place
  <2>2. Place(queue'[t]) \in 1 .. 4
    BY <1>3, Places
  <2>3. QED
    BY <1>1, <2>1, <2>2
<1>4. QED
  BY <1>1, <1>2, <1>3

\* A failed attempt has fewer steps left, as it used up a retry or has none.
LEMMA FailedAdvances ==
    ASSUME TaskType, TaskType', NEW T, FailTasks(T), NEW t \in T, t \in Task,
           queue[t] \in {"pending", "upsert", "cache", "ack"},
           queue[t] = "pending" => tbody[t] = NoBody
    PROVE  StepsLeft(t)' < StepsLeft(t)
<1>1. /\ StepsLeft(t) = 4 * (MaxRetry - retried[t]) + Place(queue[t])
      /\ retried[t] \in Nat /\ MaxRetry \in Nat /\ retried[t] <= MaxRetry
  BY StepsOfTask
<1>2. Place(queue[t]) \in 1 .. 4
  BY Places
<1>3. CASE retried[t] < MaxRetry
  <2>1. queue'[t] = "pending" /\ retried'[t] = retried[t] + 1
    BY <1>3 DEF FailTasks
  <2>2. StepsLeft(t)' = 4 * (MaxRetry - (retried[t] + 1)) + 4
    BY <2>1, Places DEF StepsLeft, Place
  <2>3. QED
    BY <1>1, <1>2, <1>3, <2>2
<1>4. CASE ~(retried[t] < MaxRetry)
  <2>1. queue'[t] = "archived"
    BY <1>4 DEF FailTasks
  <2>2. StepsLeft(t)' = 0
    BY <2>1 DEF StepsLeft
  <2>3. 4 * (MaxRetry - retried[t]) \in Nat
    BY <1>1
  <2>4. QED
    BY <1>1, <1>2, <2>2, <2>3
<1>5. QED
  BY <1>3, <1>4

\* A task that moves on to a later place has fewer steps left.
LEMMA MovedAdvances ==
    ASSUME TaskType, NEW t \in Task, NEW label, MoveTask(t, label),
           \/ queue[t] = "pending" /\ label = "upsert"
           \/ queue[t] = "upsert" /\ label = "cache"
           \/ queue[t] = "cache" /\ label = "ack"
           \/ queue[t] = "ack" /\ label = "none"
    PROVE  StepsLeft(t)' < StepsLeft(t)
<1>1. /\ StepsLeft(t) = 4 * (MaxRetry - retried[t]) + Place(queue[t])
      /\ retried[t] \in Nat /\ MaxRetry \in Nat /\ retried[t] <= MaxRetry
  BY StepsOfTask
<1>2. queue'[t] = label /\ retried'[t] = retried[t]
  BY DEF MoveTask, TaskType
<1>3. CASE label = "none"
  <2>1. StepsLeft(t)' = 0
    BY <1>2, <1>3 DEF StepsLeft
  <2>2. 4 * (MaxRetry - retried[t]) \in Nat /\ Place(queue[t]) = 1
    BY <1>1, <1>3, Places
  <2>3. QED
    BY <1>1, <2>1, <2>2
<1>4. CASE label # "none"
  <2>1. StepsLeft(t)' = 4 * (MaxRetry - retried[t]) + Place(label)
    BY <1>2, <1>4 DEF StepsLeft, Place
  <2>2. Place(label) \in 1 .. 4 /\ Place(queue[t]) \in 1 .. 4 /\ Place(label) < Place(queue[t])
    BY <1>4, Places
  <2>3. QED
    BY <1>1, <2>1, <2>2
<1>5. QED
  BY <1>3, <1>4

\* Each step of a worker with a task brings the task forward.
LEMMA WorkingAdvances ==
    ASSUME RInv, RInv', NEW t \in Task, Working(t)
    PROVE  StepsLeft(t)' < StepsLeft(t)
<1>1. TaskType /\ TaskType'
  BY DEF RInv
<1>2. CASE ProcessTask(t)
  BY <1>1, <1>2, FailedAdvances, MovedAdvances DEF ProcessTask
<1>3. CASE RetryUpsert(t) \/ RetryCacheSet(t) \/ Complete(t)
  BY <1>1, <1>3, MovedAdvances DEF RetryUpsert, RetryCacheSet, Complete
<1>4. CASE RetryUpsertError(t)
  BY <1>1, <1>4, FailedAdvances DEF RetryUpsertError
<1>5. QED
  BY <1>2, <1>3, <1>4 DEF Working

\* A step that leaves place and retries of a task leaves its steps.
LEMMA StepsUnchanged ==
    ASSUME NEW t \in Task, queue'[t] = queue[t], retried'[t] = retried[t]
    PROVE  StepsLeft(t)' = StepsLeft(t)
BY DEF StepsLeft

\* No step but a graceful shutdown throws a task back.
LEMMA OthersAdvance ==
    ASSUME RInv, RInv', [RNext]_rvars, NEW t \in Task, queue[t] # "none", ~ShutdownWorker
    PROVE  StepsLeft(t)' <= StepsLeft(t)
<1>1. /\ TaskType /\ TaskType' /\ StepsLeft(t) \in Nat /\ StepsLeft(t)' \in Nat
      /\ queue \in [Task -> {"none", "pending", "upsert", "cache", "ack", "archived"}]
      /\ DOMAIN retried = Task
  <2>1. TaskType /\ TaskType'
    BY DEF RInv
  <2>2. StepsLeft(t) \in Nat /\ StepsLeft(t)' \in Nat
    BY <2>1, StepsOfTask, StepsNext
  <2>3. QED
    BY <2>1, <2>2 DEF TaskType
<1>2. ASSUME queue'[t] = queue[t], retried'[t] = retried[t]
      PROVE  StepsLeft(t)' <= StepsLeft(t)
  BY <1>1, <1>2, StepsUnchanged
<1>3. ASSUME Working(t) PROVE StepsLeft(t)' <= StepsLeft(t)
  BY <1>1, <1>3, WorkingAdvances
<1>4. ASSUME NEW u \in Task \ {t}, NEW label, MoveTask(u, label)
      PROVE  StepsLeft(t)' <= StepsLeft(t)
  BY <1>1, <1>2, <1>4 DEF MoveTask
<1>5. ASSUME NEW T, FailTasks(T), t \notin T PROVE StepsLeft(t)' <= StepsLeft(t)
  BY <1>1, <1>2, <1>5 DEF FailTasks
<1>6. ASSUME NEW u \in Task \ {t}, Working(u) PROVE StepsLeft(t)' <= StepsLeft(t)
  BY <1>4, <1>5, <1>6 DEF Working, ProcessTask, RetryUpsert, RetryUpsertError, RetryCacheSet,
     Complete
<1>7. ASSUME NEW u \in Task, NEW n, NEW b, Enqueue(u, n, b) PROVE StepsLeft(t)' <= StepsLeft(t)
  BY <1>1, <1>2, <1>7 DEF Enqueue
<1>8. ASSUME KillWorker PROVE StepsLeft(t)' <= StepsLeft(t)
  <2> DEFINE T == {u \in Task : Active(u)}
  <2>1. FailTasks(T)
    BY <1>8 DEF KillWorker
  <2>2. CASE t \in T
    <3>1. queue[t] \in {"upsert", "cache", "ack"}
      BY <2>2 DEF Active
    <3>2. QED
      BY <1>1, <2>1, <2>2, <3>1, FailedAdvances
  <2>3. CASE t \notin T
    BY <1>5, <2>1, <2>3
  <2>4. QED
    BY <2>2, <2>3
<1>9. ASSUME UNCHANGED tasks PROVE StepsLeft(t)' <= StepsLeft(t)
  BY <1>2, <1>9 DEF tasks
<1>10. QED
  BY <1>3, <1>6, <1>7, <1>8, <1>9 DEF RNext, rvars, QueueNext

\* A task has at most 4 * (MaxRetry + 1) steps before it is done or archived,
\* graceful shutdowns apart.
THEOREM TaskAdvancesCorrect == RSpec => TaskAdvances
<1>1. RInv /\ RInv' /\ [RNext]_rvars =>
        [\A t \in Task :
            /\ Working(t) => StepsLeft(t)' < StepsLeft(t)
            /\ queue[t] # "none" /\ ~ShutdownWorker => StepsLeft(t)' <= StepsLeft(t)]_rvars
  BY WorkingAdvances, OthersAdvance
<1>2. QED
  BY <1>1, RetryInvariant, PTL DEF RSpec, TaskAdvances
=============================================================================
