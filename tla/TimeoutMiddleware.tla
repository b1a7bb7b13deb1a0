-------------------------- MODULE TimeoutMiddleware --------------------------
(***************************************************************************)
(* TimeoutMiddleware: a request is served by two goroutines.  The request's*)
(* own one (the waiter) starts the handler in a goroutine of its own and   *)
(* waits for it on an unbuffered channel or for the end of the request's   *)
(* context, whichever comes first.  Both hold the same ResponseWriter.     *)
(*                                                                         *)
(* The handler may be wrapped in RecoveryMiddleware; the waiter's defers   *)
(* cannot see its panics, GoSafe swallows them.                            *)
(***************************************************************************)
CONSTANTS
    Request,    \* requests
    Guarded     \* those whose handler runs inside RecoveryMiddleware

ASSUME GuardedAssumption == Guarded \subseteq Request

VARIABLES
    waiter,     \* where the request's own goroutine stands
    handler,    \* where the goroutine of the handler stands
    expired,    \* the request's context has ended
    panicked,   \* the handler has panicked
    head,       \* who wrote the status line of the response
    body,       \* whose texts its body is made of
    down        \* the Go runtime has killed the service

vars == <<waiter, handler, expired, panicked, head, body, down>>

Writer == {"handler", "recovery", "timeout"}

\* Goroutines and responses are what their types say.
TypeOK ==
    /\ waiter \in [Request -> {"new", "select", "error", "text", "normal", "timedout"}]
    /\ handler \in [Request -> {"none", "run", "text", "return", "recover",
                                "recovered", "send", "ended", "dead", "hung"}]
    /\ expired \in [Request -> BOOLEAN]
    /\ panicked \in [Request -> BOOLEAN]
    /\ head \in [Request -> Writer \cup {"nobody"}]
    /\ body \in [Request -> SUBSET Writer]
    /\ down \in BOOLEAN

Init ==
    /\ waiter = [r \in Request |-> "new"]
    /\ handler = [r \in Request |-> "none"]
    /\ expired = [r \in Request |-> FALSE]
    /\ panicked = [r \in Request |-> FALSE]
    /\ head = [r \in Request |-> "nobody"]
    /\ body = [r \in Request |-> {}]
    /\ down = FALSE

\* The waiter has returned: the response is complete.
Returned(r) == waiter[r] \in {"normal", "timedout"}

(***************************************************************************)
(* The ResponseWriter                                                      *)
(***************************************************************************)

\* The first status line counts, a second one is ignored; one written after
\* the waiter returned reaches nobody.
WriteHeader(r, who) ==
    head' = IF Returned(r) \/ head[r] # "nobody" THEN head
            ELSE [head EXCEPT ![r] = who]

\* Text is added to what is there, and lost after the waiter returned.
Write(r, who) ==
    body' = IF Returned(r) THEN body ELSE [body EXCEPT ![r] = @ \cup {who}]

(***************************************************************************)
(* The goroutine of the handler                                            *)
(***************************************************************************)

At(r, here, there) == handler[r] = here /\ handler' = [handler EXCEPT ![r] = there]

HandlerHeader(r) ==
    /\ At(r, "run", "text")
    /\ WriteHeader(r, "handler")
    /\ UNCHANGED <<waiter, expired, panicked, body, down>>

HandlerText(r) ==
    /\ At(r, "text", "return")
    /\ Write(r, "handler")
    /\ UNCHANGED <<waiter, expired, panicked, head, down>>

HandlerReturns(r) ==
    /\ At(r, "return", "send")
    /\ UNCHANGED <<waiter, expired, panicked, head, body, down>>

\* A call of the handler never returns.
HandlerHangs(r) ==
    /\ \E here \in {"run", "text", "return"} : At(r, here, "hung")
    /\ UNCHANGED <<waiter, expired, panicked, head, body, down>>

\* A wrong version: a deferred send tells the waiter of a panic too.
PanicSends(r) ==
    /\ \E here \in {"run", "text", "return"} :
          At(r, here, IF r \in Guarded THEN "recover" ELSE "send")
    /\ panicked' = [panicked EXCEPT ![r] = TRUE]
    /\ UNCHANGED <<waiter, expired, head, body, down>>

\* RecoveryMiddleware catches a panic of the handler it wraps.  Any other one
\* unwinds the goroutine, past the send; GoSafe logs it.
Panic(r) ==
    /\ \E here \in {"run", "text", "return"} :
          At(r, here, IF r \in Guarded THEN "recover" ELSE "dead")
    /\ panicked' = [panicked EXCEPT ![r] = TRUE]
    /\ UNCHANGED <<waiter, expired, head, body, down>>

\* RecoveryMiddleware answers 500, in place of the handler's answer or below it.
RecoveryHeader(r) ==
    /\ At(r, "recover", "recovered")
    /\ WriteHeader(r, "recovery")
    /\ UNCHANGED <<waiter, expired, panicked, body, down>>

RecoveryText(r) ==
    /\ At(r, "recovered", "send")
    /\ Write(r, "recovery")
    /\ UNCHANGED <<waiter, expired, panicked, head, down>>

(***************************************************************************)
(* The waiter                                                              *)
(***************************************************************************)

\* A request arrives: its context gets a deadline and its handler is started.
Arrive(r) ==
    /\ waiter[r] = "new"
    /\ waiter' = [waiter EXCEPT ![r] = "select"]
    /\ handler' = [handler EXCEPT ![r] = "run"]
    /\ UNCHANGED <<expired, panicked, head, body, down>>

\* The deadline passes or the client goes away.
Expire(r) ==
    /\ waiter[r] = "select"
    /\ ~expired[r]
    /\ expired' = [expired EXCEPT ![r] = TRUE]
    /\ UNCHANGED <<waiter, handler, panicked, head, body, down>>

\* A wrong version: the handler's goroutine sends once more.
ReceiveDoneTwice(r) ==
    /\ waiter[r] = "select"
    /\ At(r, "send", "send")
    /\ waiter' = [waiter EXCEPT ![r] = "normal"]
    /\ expired' = [expired EXCEPT ![r] = TRUE]
    /\ UNCHANGED <<panicked, head, body, down>>

\* case <-done: sender and receiver meet; the deferred cancel ends the context.
ReceiveDone(r) ==
    /\ waiter[r] = "select"
    /\ At(r, "send", "ended")
    /\ waiter' = [waiter EXCEPT ![r] = "normal"]
    /\ expired' = [expired EXCEPT ![r] = TRUE]
    /\ UNCHANGED <<panicked, head, body, down>>

\* Wrong versions: a default case; a timeout seen only with the handler done;
\* a timeout nobody is told of.
SelectDefault(r) ==
    /\ waiter[r] = "select"
    /\ waiter' = [waiter EXCEPT ![r] = "error"]
    /\ UNCHANGED <<handler, expired, panicked, head, body, down>>

ReceiveExpiryLate(r) ==
    /\ waiter[r] = "select"
    /\ expired[r]
    /\ handler[r] = "send"
    /\ waiter' = [waiter EXCEPT ![r] = "error"]
    /\ UNCHANGED <<handler, expired, panicked, head, body, down>>

ReceiveExpirySilent(r) ==
    /\ waiter[r] = "select"
    /\ expired[r]
    /\ waiter' = [waiter EXCEPT ![r] = "timedout"]
    /\ UNCHANGED <<handler, expired, panicked, head, body, down>>

\* case <-ctx.Done(), which select may also take when the handler is done.
ReceiveExpiry(r) ==
    /\ waiter[r] = "select"
    /\ expired[r]
    /\ waiter' = [waiter EXCEPT ![r] = "error"]
    /\ UNCHANGED <<handler, expired, panicked, head, body, down>>

\* httpx.ErrorCtx: the status line, then the text of the error.
ErrorHeader(r) ==
    /\ waiter[r] = "error"
    /\ waiter' = [waiter EXCEPT ![r] = "text"]
    /\ WriteHeader(r, "timeout")
    /\ UNCHANGED <<handler, expired, panicked, body, down>>

ErrorText(r) ==
    /\ waiter[r] = "text"
    /\ waiter' = [waiter EXCEPT ![r] = "timedout"]
    /\ Write(r, "timeout")
    /\ UNCHANGED <<handler, expired, panicked, head, down>>

\* Both goroutines use the header map on the way to the status line: a map
\* written while another goroutine uses it makes the Go runtime stop the
\* service, or not.
WritersMeet(r) == waiter[r] = "error" /\ handler[r] \in {"run", "recover"}

ConcurrentMapWrites ==
    /\ \E r \in Request : WritersMeet(r)
    /\ down' = TRUE
    /\ UNCHANGED <<waiter, handler, expired, panicked, head, body>>

-----------------------------------------------------------------------------
Handler(r) ==
    \/ HandlerHeader(r) \/ HandlerText(r) \/ HandlerReturns(r)
    \/ RecoveryHeader(r) \/ RecoveryText(r)

Waiter(r) == ReceiveDone(r) \/ ReceiveExpiry(r) \/ ErrorHeader(r) \/ ErrorText(r)

Next ==
    \/ /\ ~down
       /\ \E r \in Request : \/ Arrive(r) \/ Expire(r)
                             \/ Handler(r) \/ HandlerHangs(r) \/ Panic(r)
                             \/ Waiter(r)
    \/ ~down /\ ConcurrentMapWrites

Spec == Init /\ [][Next]_vars

\* Goroutines that can run do, and the timer of a context fires.  A handler
\* may still hang; no fairness is assumed of arrivals and panics.
Fairness ==
    \A r \in Request : /\ WF_vars(~down /\ Handler(r))
                       /\ WF_vars(~down /\ Waiter(r))
                       /\ WF_vars(~down /\ Expire(r))

FairSpec == Spec /\ Fairness

-----------------------------------------------------------------------------
(***************************************************************************)
(* What the middleware promises                                            *)
(***************************************************************************)

\* A request that is not timed out is answered by its handler alone, and its
\* answer is whole: nothing of it is missing, nothing is mixed in.
NormalAnswerIsHandlers ==
    \A r \in Request : waiter[r] = "normal" =>
        /\ head[r] \in {"handler", "recovery"}
        /\ "timeout" \notin body[r]
        /\ IF panicked[r] THEN "recovery" \in body[r] ELSE body[r] = {"handler"}

\* A panic nothing recovers inside the timeout is never taken for a normal end:
\* the client learns of it as a timeout.
LostPanicTimesOut ==
    \A r \in Request \ Guarded : panicked[r] => waiter[r] # "normal"

\* A handler left behind at the send, blocked for good as nobody receives any
\* more, belongs to a request whose context ended while it was being served;
\* so do two goroutines that write one response.
StrayHandlerOnlyAfterExpiry ==
    /\ \A r \in Request :
          /\ handler[r] = "send" /\ Returned(r) => waiter[r] = "timedout"
          /\ WritersMeet(r) \/ waiter[r] = "timedout" => expired[r]
    /\ down => \E r \in Request : expired[r]

\* A timed-out request has been told so: the error text is part of the
\* response, though perhaps below parts of the handler's answer.
TimeoutIsTold ==
    \A r \in Request : waiter[r] = "timedout" => "timeout" \in body[r]

\* Every request is answered whatever its handler does: hang, panic or block.
RequestsReturn == \A r \in Request : waiter[r] = "select" ~> Returned(r) \/ down

\* A handler that does not hang ends, or its request timed out and it is left
\* behind at the send.
HandlersEnd ==
    \A r \in Request : handler[r] # "none" ~>
        \/ handler[r] \in {"ended", "dead", "hung"}
        \/ handler[r] = "send" /\ waiter[r] = "timedout"
        \/ down

\* What two goroutines may rely on: while the waiter has not given up, the
\* response holds just what the handler has written so far; nobody gives up
\* before the context ended; a panic is recovered where Guarded says so.
Alone(r) ==
    /\ waiter[r] \in {"new", "select", "normal"} =>
          /\ head[r] # "timeout" /\ "timeout" \notin body[r]
          /\ handler[r] \in {"text", "return", "recovered", "send", "ended"} =>
                head[r] # "nobody"
          /\ handler[r] \in {"none", "run", "text"} => body[r] = {}
          /\ handler[r] = "return" => body[r] = {"handler"}
          /\ handler[r] \in {"send", "ended"} =>
                IF panicked[r] THEN "recovery" \in body[r] ELSE body[r] = {"handler"}
    /\ waiter[r] = "new" => handler[r] = "none"
    /\ waiter[r] = "normal" <=> handler[r] = "ended"
    /\ waiter[r] \in {"error", "text", "timedout"} => expired[r]
    /\ panicked[r] => handler[r] \in
          IF r \in Guarded THEN {"recover", "recovered", "send", "ended"} ELSE {"dead"}
    /\ handler[r] \in {"recover", "recovered", "dead"} => panicked[r]

\* Whose status line and texts they are: the handler's come in order while it is
\* alone, RecoveryMiddleware's only after a panic it guards against.
Authors(r) ==
    /\ waiter[r] \in {"new", "select", "normal"} =>
          /\ handler[r] \in {"none", "run"} => head[r] = "nobody"
          /\ handler[r] \in {"text", "return"} \/ "handler" \in body[r] => head[r] = "handler"
    /\ waiter[r] \in {"text", "timedout"} => head[r] # "nobody"
    /\ head[r] = "recovery" \/ "recovery" \in body[r] => panicked[r] /\ r \in Guarded

\* The inductive invariant.
MInv ==
    /\ TypeOK
    /\ \A r \in Request : Alone(r) /\ Authors(r)
    /\ TimeoutIsTold
    /\ down => \E r \in Request : expired[r]

\* What a client sees of a response: nothing before the waiter returned.
Seen(r) ==
    IF Returned(r) THEN [status |-> head[r], body |-> body[r]]
    ELSE [status |-> "nobody", body |-> {}]

OneAnswer == INSTANCE OneAnswer WITH answer <- [r \in Request |-> Seen(r)]

\* The two goroutines give each request one answer, for good: what a handler that
\* was left behind, a panic or the other writer does later changes nothing of it.
ImplementsOneAnswer == OneAnswer!Spec
=============================================================================
