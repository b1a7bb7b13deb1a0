------------------------ MODULE WorkerProcessProofs ------------------------
(***************************************************************************)
(* When the worker ends by itself it was told to and leaves no task        *)
(* behind, for any number of signals at any moments.                       *)
(***************************************************************************)
EXTENDS WorkerProcess, TLAPS

\* What a call of Shutdown does to the server and to its caller.
LEMMA ShutdownFacts ==
    ASSUME NEW next, Shutdown(next), server \in {"new", "active", "closed"}
    PROVE  /\ server' \in {"new", "active", "closed"}
           /\ server # "new" => server' = "closed"
           /\ next \in {"drain", "done"}
           /\ server = "active" => next = "drain"
BY DEF Shutdown

\* Every step keeps the invariant: the goroutine that closes the server drains
\* it before it is done.
LEMMA WorkerStep == WInv /\ [Next]_vars => WInv'
<1> SUFFICES ASSUME WInv, [Next]_vars PROVE WInv'
  OBVIOUS
<1> USE DEF WInv, TypeOK, goroutines
<1>1. CASE SendSignal
  <2>1. pending' \subseteq {"run", "sig"} /\ process' \in {"running", "killed", "exited"}
    BY <1>1 DEF SendSignal
  <2>2. signals' \in Nat /\ process' # "exited"
    BY <1>1 DEF SendSignal
  <2>3. QED
    BY <1>1, <2>1, <2>2 DEF SendSignal
<1>2. CASE RunStart
  BY <1>2 DEF RunStart
<1>3. CASE RunNotify
  BY <1>3 DEF RunNotify
<1>4. CASE RunReceive
  BY <1>4 DEF RunReceive
<1>5. CASE RunShutdown
  <2>1. /\ server' = "closed"
        /\ run' \in {"drain", "done"}
        /\ server = "active" => run' = "drain"
    BY <1>5, ShutdownFacts DEF RunShutdown
  <2>2. QED
    BY <1>5, <2>1 DEF RunShutdown
<1>6. CASE RunDrained
  BY <1>6 DEF RunDrained
<1>7. CASE TaskBegins \/ TaskEnds
  <2>1. /\ busy' \in BOOLEAN
        /\ busy' => server = "active" \/ busy
    BY <1>7 DEF TaskBegins, TaskEnds
  <2>2. process = "running" /\ UNCHANGED <<run, stop, sig, server, notified, process>>
    BY <1>7 DEF TaskBegins, TaskEnds
  <2>3. UNCHANGED <<pending, cancelled, signals>>
    BY <1>7 DEF TaskBegins, TaskEnds
  <2>4. QED
    BY <2>1, <2>2, <2>3
<1>8. CASE StopCancelled
  BY <1>8 DEF StopCancelled
<1>9. CASE StopShutdown
  <2>1. /\ server' \in {"new", "active", "closed"}
        /\ server # "new" => server' = "closed"
        /\ stop' \in {"drain", "done"}
        /\ server = "active" => stop' = "drain"
    BY <1>9, ShutdownFacts DEF StopShutdown
  <2>2. QED
    BY <1>9, <2>1 DEF StopShutdown
<1>10. CASE StopDrained
  BY <1>10 DEF StopDrained
<1>11. CASE SigNotify \/ SigReceive
  <2>1. notified' \subseteq {"run", "sig"} /\ pending' \subseteq {"run", "sig"}
    BY <1>11 DEF SigNotify, SigReceive
  <2>2. cancelled' \in BOOLEAN /\ sig' \in {"notify", "wait", "done"}
    BY <1>11 DEF SigNotify, SigReceive
  <2>3. QED
    BY <1>11, <2>1, <2>2 DEF SigNotify, SigReceive
<1>12. CASE Exit
  BY <1>12 DEF Exit
<1>13. CASE UNCHANGED vars
  BY <1>13 DEF vars
<1>14. QED
  BY <1>1, <1>2, <1>3, <1>4, <1>5, <1>6, <1>7, <1>8, <1>9, <1>10, <1>11, <1>12, <1>13
     DEF Next, Run, Stop, Sig

\* Before any signal and any task the invariant holds.
LEMMA WorkerInit == Init => WInv
<1>1. Init => notified \subseteq {"run", "sig"} /\ pending \subseteq {"run", "sig"}
  BY DEF Init
<1>2. Init => TypeOK
  <2>1. Init => run = "start" /\ stop = "wait" /\ sig = "notify" /\ server = "new"
                /\ process = "running" /\ signals = 0
    BY DEF Init
  <2>2. Init => busy \in BOOLEAN /\ cancelled \in BOOLEAN
    BY DEF Init
  <2>3. QED
    BY <1>1, <2>1, <2>2 DEF TypeOK
<1>3. Init => ~busy /\ run = "start" /\ stop = "wait" /\ process = "running"
  BY DEF Init
<1>4. Init => ~cancelled /\ pending = {}
  BY DEF Init
<1>5. QED
  BY <1>2, <1>3, <1>4 DEF WInv

\* The worker never exits by itself with a task in hand.
THEOREM DrainedBeforeExitCorrect == Spec => []DrainedBeforeExit
<1>1. WInv => DrainedBeforeExit
  BY DEF WInv, TypeOK, DrainedBeforeExit
<1>2. QED
  BY <1>1, WorkerInit, WorkerStep, PTL DEF Spec

\* Nor without a signal, nor before its context is cancelled and its server closed.
THEOREM EndsOnlyWhenToldCorrect == Spec => []EndsOnlyWhenTold
<1>1. WInv => EndsOnlyWhenTold
  BY DEF WInv, EndsOnlyWhenTold
<1>2. QED
  BY <1>1, WorkerInit, WorkerStep, PTL DEF Spec
=============================================================================
