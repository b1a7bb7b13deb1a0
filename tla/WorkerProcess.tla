--------------------------- MODULE WorkerProcess ---------------------------
(***************************************************************************)
(* The life of the worker process (app/cmd/worker/main.go): one goroutine  *)
(* runs the asynq server, one shuts it down when the context is cancelled, *)
(* one cancels the context when a signal arrives, and main waits for the   *)
(* first two.  asynq's Run waits for the same signals by itself.           *)
(*                                                                         *)
(* A signal sent before any channel is registered for it kills the         *)
(* process; afterwards it goes to every channel registered at that moment  *)
(* and to none that registers later.                                       *)
(***************************************************************************)
EXTENDS Naturals

CONSTANT MaxSignals     \* bound: SIGINT or SIGTERM sent to the process

VARIABLES
    run, stop, sig,     \* where the three goroutines are
    server,             \* the state of the asynq server
    busy,               \* its processor is working on a task
    notified, pending,  \* who is registered for signals; who has one waiting
    cancelled,          \* the context is cancelled
    process,            \* the process
    signals             \* signals sent so far

goroutines == <<run, stop, sig>>
vars == <<goroutines, server, busy, notified, pending, cancelled, process, signals>>

TypeOK ==
    /\ run \in {"start", "notify", "wait", "shutdown", "drain", "done"}
    /\ stop \in {"wait", "shutdown", "drain", "done"}
    /\ sig \in {"notify", "wait", "done"}
    /\ server \in {"new", "active", "closed"}
    /\ busy \in BOOLEAN
    /\ notified \subseteq {"run", "sig"}
    /\ pending \subseteq {"run", "sig"}
    /\ cancelled \in BOOLEAN
    /\ process \in {"running", "killed", "exited"}
    /\ signals \in Nat

Init ==
    /\ run = "start" /\ stop = "wait" /\ sig = "notify"
    /\ server = "new" /\ busy = FALSE
    /\ notified = {} /\ pending = {} /\ cancelled = FALSE
    /\ process = "running" /\ signals = 0

(***************************************************************************)
(* The operating system and the Go runtime                                 *)
(***************************************************************************)

\* The channels have room for one signal: a second one is dropped.
SendSignal ==
    /\ process = "running"
    /\ signals < MaxSignals
    /\ signals' = signals + 1
    /\ IF notified = {}
       THEN process' = "killed" /\ UNCHANGED pending
       ELSE pending' = notified /\ UNCHANGED process
    /\ UNCHANGED <<goroutines, server, busy, notified, cancelled>>

(***************************************************************************)
(* asynqServer.Run                                                         *)
(***************************************************************************)

\* Start fails for a nil mux or a server that was started before; this one is
\* fresh, so the error return of Run and main's os.Exit(1) are left out.
RunStart ==
    /\ process = "running" /\ run = "start"
    /\ server' = "active"
    /\ run' = "notify"
    /\ UNCHANGED <<stop, sig, busy, notified, pending, cancelled, process, signals>>

RunNotify ==
    /\ process = "running" /\ run = "notify"
    /\ notified' = notified \cup {"run"}
    /\ run' = "wait"
    /\ UNCHANGED <<stop, sig, server, busy, pending, cancelled, process, signals>>

RunReceive ==
    /\ process = "running" /\ run = "wait" /\ "run" \in pending
    /\ pending' = pending \ {"run"}
    /\ run' = "shutdown"
    /\ UNCHANGED <<stop, sig, server, busy, notified, cancelled, process, signals>>

\* Shutdown returns at once on a server that is not started or already being
\* shut down; otherwise it closes it and waits for its processor.
Shutdown(next) ==
    IF server = "active"
    THEN server' = "closed" /\ next = "drain"
    ELSE UNCHANGED server /\ next = "done"

\* Run then returns nil.
RunShutdown ==
    /\ process = "running" /\ run = "shutdown"
    /\ Shutdown(run')
    /\ UNCHANGED <<stop, sig, busy, notified, pending, cancelled, process, signals>>

RunDrained ==
    /\ process = "running" /\ run = "drain"
    /\ busy' = FALSE
    /\ run' = "done"
    /\ UNCHANGED <<stop, sig, server, notified, pending, cancelled, process, signals>>

TaskBegins ==
    /\ process = "running" /\ server = "active" /\ ~busy
    /\ busy' = TRUE
    /\ UNCHANGED <<goroutines, server, notified, pending, cancelled, process, signals>>

TaskEnds ==
    /\ process = "running" /\ busy
    /\ busy' = FALSE
    /\ UNCHANGED <<goroutines, server, notified, pending, cancelled, process, signals>>

(***************************************************************************)
(* main's own goroutines                                                   *)
(***************************************************************************)

\* <-ctx.Done()
StopCancelled ==
    /\ process = "running" /\ stop = "wait" /\ cancelled
    /\ stop' = "shutdown"
    /\ UNCHANGED <<run, sig, server, busy, notified, pending, cancelled, process, signals>>

StopShutdown ==
    /\ process = "running" /\ stop = "shutdown"
    /\ Shutdown(stop')
    /\ UNCHANGED <<run, sig, busy, notified, pending, cancelled, process, signals>>

StopDrained ==
    /\ process = "running" /\ stop = "drain"
    /\ busy' = FALSE
    /\ stop' = "done"
    /\ UNCHANGED <<run, sig, server, notified, pending, cancelled, process, signals>>

SigNotify ==
    /\ process = "running" /\ sig = "notify"
    /\ notified' = notified \cup {"sig"}
    /\ sig' = "wait"
    /\ UNCHANGED <<run, stop, server, busy, pending, cancelled, process, signals>>

SigReceive ==
    /\ process = "running" /\ sig = "wait" /\ "sig" \in pending
    /\ pending' = pending \ {"sig"}
    /\ cancelled' = TRUE
    /\ sig' = "done"
    /\ UNCHANGED <<run, stop, server, busy, notified, process, signals>>

\* g.Wait() returns once both functions of the group have; that one of them
\* returned nil does not cancel the context.
Exit ==
    /\ process = "running" /\ run = "done" /\ stop = "done"
    /\ process' = "exited"
    /\ UNCHANGED <<goroutines, server, busy, notified, pending, cancelled, signals>>

-----------------------------------------------------------------------------
Run == RunStart \/ RunNotify \/ RunReceive \/ RunShutdown \/ RunDrained
Stop == StopCancelled \/ StopShutdown \/ StopDrained
Sig == SigNotify \/ SigReceive

Next == SendSignal \/ Run \/ Stop \/ Sig \/ TaskBegins \/ TaskEnds \/ Exit

Spec == Init /\ [][Next]_vars

\* The goroutines are scheduled.
FairSpec == Spec /\ WF_vars(Run) /\ WF_vars(Stop) /\ WF_vars(Sig) /\ WF_vars(Exit)

-----------------------------------------------------------------------------
\* The process never ends by itself with a task in hand, whichever of the two
\* goroutines wins the race to shut the server down: the loser's Shutdown
\* returns at once, but main waits for both.
DrainedBeforeExit == process = "exited" => ~busy

\* The worker ends by itself only when it was told to, with the server closed
\* and the context cancelled.
EndsOnlyWhenTold ==
    process = "exited" => signals > 0 /\ cancelled /\ server = "closed"

\* A signal ends the worker: it cancels the context, and that shuts the
\* server down.
SignalEndsWorker == signals > 0 ~> process # "running"

\* The inductive invariant: a busy processor has a server, or somebody who
\* waits for it.
WInv ==
    /\ TypeOK
    /\ busy => server = "active" \/ run = "drain" \/ stop = "drain"
    /\ run \in {"notify", "wait", "shutdown"} => server # "new"
    /\ run \in {"drain", "done"} => server = "closed"
    /\ process = "exited" => run = "done" /\ stop = "done"
    /\ stop # "wait" => cancelled
    /\ cancelled \/ pending # {} => signals > 0
=============================================================================
