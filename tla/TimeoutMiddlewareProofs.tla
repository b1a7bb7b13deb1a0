---------------------- MODULE TimeoutMiddlewareProofs ----------------------
(***************************************************************************)
(* The safety properties of TimeoutMiddleware hold for any requests, with  *)
(* and without RecoveryMiddleware.  A step is one of one request: what it  *)
(* does to that request is shown action by action, the others keep what    *)
(* they had (Kept).                                                        *)
(***************************************************************************)
EXTENDS TimeoutMiddleware, TLAPS

\* The part of the invariant that speaks of one request.
Told(r) == waiter[r] = "timedout" => "timeout" \in body[r]

Fine(r) == Alone(r) /\ Authors(r) /\ Told(r)

\* The step leaves request q as it is.
SameRequest(q) ==
    /\ waiter'[q] = waiter[q] /\ handler'[q] = handler[q]
    /\ expired'[q] = expired[q] /\ panicked'[q] = panicked[q]
    /\ head'[q] = head[q] /\ body'[q] = body[q]

\* The invariant is what it says of each request, and that a service the
\* runtime stopped had a request whose context ended.
LEMMA Parts ==
    MInv <=> /\ TypeOK /\ \A r \in Request : Fine(r)
             /\ down => \E r \in Request : expired[r]
BY DEF MInv, Fine, Told, TimeoutIsTold

\* A request no step touches stays in order.
LEMMA Kept ==
    ASSUME NEW q \in Request, Fine(q), SameRequest(q)
    PROVE  Fine(q)'
BY SMT DEF Fine, Alone, Authors, Told, SameRequest

\* A step of r that ends no context and leaves r in order keeps the invariant.
LEMMA StepOfOne ==
    ASSUME MInv, NEW r \in Request, TypeOK', Fine(r)',
           \A q \in Request \ {r} : SameRequest(q),
           expired[r] => expired'[r], UNCHANGED down
    PROVE  MInv'
<1>1. \A q \in Request : Fine(q)'
  BY Kept, Parts
<1>2. (down => \E q \in Request : expired[q])'
  BY Parts DEF SameRequest
<1>3. QED
  BY <1>1, <1>2 DEF MInv, Fine, Told, TimeoutIsTold

\* Writing a status line keeps the types and touches no other response.
LEMMA HeaderFacts ==
    ASSUME TypeOK, NEW r \in Request, NEW who \in Writer, WriteHeader(r, who)
    PROVE  /\ head' \in [Request -> Writer \cup {"nobody"}]
           /\ \A q \in Request \ {r} : head'[q] = head[q]
           /\ head'[r] = IF Returned(r) \/ head[r] # "nobody" THEN head[r] ELSE who
BY SMT DEF TypeOK, WriteHeader

\* So does writing text.
LEMMA TextFacts ==
    ASSUME TypeOK, NEW r \in Request, NEW who \in Writer, Write(r, who)
    PROVE  /\ body' \in [Request -> SUBSET Writer]
           /\ \A q \in Request \ {r} : body'[q] = body[q]
           /\ body'[r] = IF Returned(r) THEN body[r] ELSE body[r] \cup {who}
BY SMT DEF TypeOK, Write

\* The handler writes its status line.
LEMMA HandlerHeaderKeeps ==
    ASSUME MInv, NEW r \in Request, HandlerHeader(r) PROVE MInv'
<1>1. TypeOK /\ Fine(r)
  BY Parts
<1>2. WriteHeader(r, "handler") /\ "handler" \in Writer
  BY DEF HandlerHeader, Writer
<1>3. /\ head' \in [Request -> Writer \cup {"nobody"}]
      /\ \A q \in Request \ {r} : head'[q] = head[q]
      /\ head'[r] = IF Returned(r) \/ head[r] # "nobody" THEN head[r] ELSE "handler"
  BY <1>1, <1>2, HeaderFacts
<1>4. TypeOK'
  BY <1>1, <1>3, SMT DEF HandlerHeader, At, TypeOK
<1>5. Fine(r)'
  BY <1>1, <1>3, SMT
  DEF HandlerHeader, At, TypeOK, Fine, Told, Alone, Authors, Returned, Writer
<1>6. \A q \in Request \ {r} : SameRequest(q)
  BY <1>1, <1>3, SMT DEF HandlerHeader, At, TypeOK, SameRequest
<1>7. QED
  BY <1>4, <1>5, <1>6, StepOfOne DEF HandlerHeader

\* The handler writes its text.
LEMMA HandlerTextKeeps ==
    ASSUME MInv, NEW r \in Request, HandlerText(r) PROVE MInv'
<1>1. TypeOK /\ Fine(r)
  BY Parts
<1>2. Write(r, "handler") /\ "handler" \in Writer
  BY DEF HandlerText, Writer
<1>3. /\ body' \in [Request -> SUBSET Writer]
      /\ \A q \in Request \ {r} : body'[q] = body[q]
      /\ body'[r] = IF Returned(r) THEN body[r] ELSE body[r] \cup {"handler"}
  BY <1>1, <1>2, TextFacts
<1>4. TypeOK'
  BY <1>1, <1>3, SMT DEF HandlerText, At, TypeOK
<1>5. Fine(r)'
  BY <1>1, <1>3, SMT
  DEF HandlerText, At, TypeOK, Fine, Told, Alone, Authors, Returned, Writer
<1>6. \A q \in Request \ {r} : SameRequest(q)
  BY <1>1, <1>3, SMT DEF HandlerText, At, TypeOK, SameRequest
<1>7. QED
  BY <1>4, <1>5, <1>6, StepOfOne DEF HandlerText

\* RecoveryMiddleware writes a status line, if there is none.
LEMMA RecoveryHeaderKeeps ==
    ASSUME MInv, NEW r \in Request, RecoveryHeader(r) PROVE MInv'
<1>1. TypeOK /\ Fine(r)
  BY Parts
<1>2. WriteHeader(r, "recovery") /\ "recovery" \in Writer
  BY DEF RecoveryHeader, Writer
<1>3. /\ head' \in [Request -> Writer \cup {"nobody"}]
      /\ \A q \in Request \ {r} : head'[q] = head[q]
      /\ head'[r] = IF Returned(r) \/ head[r] # "nobody" THEN head[r] ELSE "recovery"
  BY <1>1, <1>2, HeaderFacts
<1>4. TypeOK'
  BY <1>1, <1>3, SMT DEF RecoveryHeader, At, TypeOK
<1>5. Fine(r)'
  BY <1>1, <1>3, SMT
  DEF RecoveryHeader, At, TypeOK, Fine, Told, Alone, Authors, Returned, Writer
<1>6. \A q \in Request \ {r} : SameRequest(q)
  BY <1>1, <1>3, SMT DEF RecoveryHeader, At, TypeOK, SameRequest
<1>7. QED
  BY <1>4, <1>5, <1>6, StepOfOne DEF RecoveryHeader

\* RecoveryMiddleware writes its text and the handler's goroutine goes on.
LEMMA RecoveryTextKeeps ==
    ASSUME MInv, NEW r \in Request, RecoveryText(r) PROVE MInv'
<1>1. TypeOK /\ Fine(r)
  BY Parts
<1>2. Write(r, "recovery") /\ "recovery" \in Writer
  BY DEF RecoveryText, Writer
<1>3. /\ body' \in [Request -> SUBSET Writer]
      /\ \A q \in Request \ {r} : body'[q] = body[q]
      /\ body'[r] = IF Returned(r) THEN body[r] ELSE body[r] \cup {"recovery"}
  BY <1>1, <1>2, TextFacts
<1>4. TypeOK'
  BY <1>1, <1>3, SMT DEF RecoveryText, At, TypeOK
<1>5. Fine(r)'
  BY <1>1, <1>3, SMT
  DEF RecoveryText, At, TypeOK, Fine, Told, Alone, Authors, Returned, Writer
<1>6. \A q \in Request \ {r} : SameRequest(q)
  BY <1>1, <1>3, SMT DEF RecoveryText, At, TypeOK, SameRequest
<1>7. QED
  BY <1>4, <1>5, <1>6, StepOfOne DEF RecoveryText

\* The waiter, having given up, writes a status line, if there is none.
LEMMA ErrorHeaderKeeps ==
    ASSUME MInv, NEW r \in Request, ErrorHeader(r) PROVE MInv'
<1>1. TypeOK /\ Fine(r)
  BY Parts
<1>2. WriteHeader(r, "timeout") /\ "timeout" \in Writer
  BY DEF ErrorHeader, Writer
<1>3. /\ head' \in [Request -> Writer \cup {"nobody"}]
      /\ \A q \in Request \ {r} : head'[q] = head[q]
      /\ head'[r] = IF Returned(r) \/ head[r] # "nobody" THEN head[r] ELSE "timeout"
  BY <1>1, <1>2, HeaderFacts
<1>4. TypeOK'
  BY <1>1, <1>3, SMT DEF ErrorHeader, At, TypeOK
<1>5. Fine(r)'
  BY <1>1, <1>3, SMT
  DEF ErrorHeader, At, TypeOK, Fine, Told, Alone, Authors, Returned, Writer
<1>6. \A q \in Request \ {r} : SameRequest(q)
  BY <1>1, <1>3, SMT DEF ErrorHeader, At, TypeOK, SameRequest
<1>7. QED
  BY <1>4, <1>5, <1>6, StepOfOne DEF ErrorHeader

\* The waiter writes the text of the error, the response being still open.
LEMMA ErrorTextKeeps ==
    ASSUME MInv, NEW r \in Request, ErrorText(r) PROVE MInv'
<1>1. TypeOK /\ Fine(r)
  BY Parts
<1>2. Write(r, "timeout") /\ "timeout" \in Writer
  BY DEF ErrorText, Writer
<1>3. /\ body' \in [Request -> SUBSET Writer]
      /\ \A q \in Request \ {r} : body'[q] = body[q]
      /\ body'[r] = IF Returned(r) THEN body[r] ELSE body[r] \cup {"timeout"}
  BY <1>1, <1>2, TextFacts
<1>4. TypeOK'
  BY <1>1, <1>3, SMT DEF ErrorText, At, TypeOK
<1>5. Fine(r)'
  BY <1>1, <1>3, SMT
  DEF ErrorText, At, TypeOK, Fine, Told, Alone, Authors, Returned, Writer
<1>6. \A q \in Request \ {r} : SameRequest(q)
  BY <1>1, <1>3, SMT DEF ErrorText, At, TypeOK, SameRequest
<1>7. QED
  BY <1>4, <1>5, <1>6, StepOfOne DEF ErrorText

\* The handler returns to the send.
LEMMA HandlerReturnsKeeps ==
    ASSUME MInv, NEW r \in Request, HandlerReturns(r) PROVE MInv'
<1>1. TypeOK /\ Fine(r)
  BY Parts
<1>2. TypeOK'
  BY <1>1, SMT DEF HandlerReturns, At, TypeOK
<1>3. Fine(r)'
  BY <1>1, SMT DEF HandlerReturns, At, TypeOK, Fine, Told, Alone, Authors
<1>4. \A q \in Request \ {r} : SameRequest(q)
  BY <1>1, SMT DEF HandlerReturns, At, TypeOK, SameRequest
<1>5. expired[r] => expired'[r]
  BY <1>1, SMT DEF HandlerReturns, TypeOK
<1>6. QED
  BY <1>2, <1>3, <1>4, <1>5, StepOfOne DEF HandlerReturns

\* The handler never returns.
LEMMA HandlerHangsKeeps ==
    ASSUME MInv, NEW r \in Request, HandlerHangs(r) PROVE MInv'
<1>1. TypeOK /\ Fine(r)
  BY Parts
<1>2. TypeOK'
  BY <1>1, SMT DEF HandlerHangs, At, TypeOK
<1>3. Fine(r)'
  BY <1>1, SMT DEF HandlerHangs, At, TypeOK, Fine, Told, Alone, Authors
<1>4. \A q \in Request \ {r} : SameRequest(q)
  BY <1>1, SMT DEF HandlerHangs, At, TypeOK, SameRequest
<1>5. expired[r] => expired'[r]
  BY <1>1, SMT DEF HandlerHangs, TypeOK
<1>6. QED
  BY <1>2, <1>3, <1>4, <1>5, StepOfOne DEF HandlerHangs

\* The handler panics, inside RecoveryMiddleware or not.
LEMMA PanicKeeps ==
    ASSUME MInv, NEW r \in Request, Panic(r) PROVE MInv'
<1>1. TypeOK /\ Fine(r)
  BY Parts
<1>2. TypeOK'
  BY <1>1, SMT DEF Panic, At, TypeOK
<1>3. Fine(r)'
  BY <1>1, SMT DEF Panic, At, TypeOK, Fine, Told, Alone, Authors
<1>4. \A q \in Request \ {r} : SameRequest(q)
  BY <1>1, SMT DEF Panic, At, TypeOK, SameRequest
<1>5. expired[r] => expired'[r]
  BY <1>1, SMT DEF Panic, TypeOK
<1>6. QED
  BY <1>2, <1>3, <1>4, <1>5, StepOfOne DEF Panic

\* A request starts with nothing written.
LEMMA ArriveKeeps ==
    ASSUME MInv, NEW r \in Request, Arrive(r) PROVE MInv'
<1>1. TypeOK /\ Fine(r)
  BY Parts
<1>2. TypeOK'
  BY <1>1, SMT DEF Arrive, At, TypeOK
<1>3. Fine(r)'
  BY <1>1, SMT DEF Arrive, At, TypeOK, Fine, Told, Alone, Authors
<1>4. \A q \in Request \ {r} : SameRequest(q)
  BY <1>1, SMT DEF Arrive, At, TypeOK, SameRequest
<1>5. expired[r] => expired'[r]
  BY <1>1, SMT DEF Arrive, TypeOK
<1>6. QED
  BY <1>2, <1>3, <1>4, <1>5, StepOfOne DEF Arrive

\* A context ends.
LEMMA ExpireKeeps ==
    ASSUME MInv, NEW r \in Request, Expire(r) PROVE MInv'
<1>1. TypeOK /\ Fine(r)
  BY Parts
<1>2. TypeOK'
  BY <1>1, SMT DEF Expire, At, TypeOK
<1>3. Fine(r)'
  BY <1>1, SMT DEF Expire, At, TypeOK, Fine, Told, Alone, Authors
<1>4. \A q \in Request \ {r} : SameRequest(q)
  BY <1>1, SMT DEF Expire, At, TypeOK, SameRequest
<1>5. expired[r] => expired'[r]
  BY <1>1, SMT DEF Expire, TypeOK
<1>6. QED
  BY <1>2, <1>3, <1>4, <1>5, StepOfOne DEF Expire

\* The waiter takes the handler's word for the end of the request.
LEMMA ReceiveDoneKeeps ==
    ASSUME MInv, NEW r \in Request, ReceiveDone(r) PROVE MInv'
<1>1. TypeOK /\ Fine(r)
  BY Parts
<1>2. TypeOK'
  BY <1>1, SMT DEF ReceiveDone, At, TypeOK
<1>3. Fine(r)'
  BY <1>1, SMT DEF ReceiveDone, At, TypeOK, Fine, Told, Alone, Authors
<1>4. \A q \in Request \ {r} : SameRequest(q)
  BY <1>1, SMT DEF ReceiveDone, At, TypeOK, SameRequest
<1>5. expired[r] => expired'[r]
  BY <1>1, SMT DEF ReceiveDone, TypeOK
<1>6. QED
  BY <1>2, <1>3, <1>4, <1>5, StepOfOne DEF ReceiveDone

\* The waiter gives up, the context having ended.
LEMMA ReceiveExpiryKeeps ==
    ASSUME MInv, NEW r \in Request, ReceiveExpiry(r) PROVE MInv'
<1>1. TypeOK /\ Fine(r)
  BY Parts
<1>2. TypeOK'
  BY <1>1, SMT DEF ReceiveExpiry, At, TypeOK
<1>3. Fine(r)'
  BY <1>1, SMT DEF ReceiveExpiry, At, TypeOK, Fine, Told, Alone, Authors
<1>4. \A q \in Request \ {r} : SameRequest(q)
  BY <1>1, SMT DEF ReceiveExpiry, At, TypeOK, SameRequest
<1>5. expired[r] => expired'[r]
  BY <1>1, SMT DEF ReceiveExpiry, TypeOK
<1>6. QED
  BY <1>2, <1>3, <1>4, <1>5, StepOfOne DEF ReceiveExpiry

\* Where the runtime stops the service, a waiter had given up.
LEMMA ConcurrentMapWritesKeeps ==
    ASSUME MInv, ConcurrentMapWrites PROVE MInv'
<1>1. PICK r \in Request : WritersMeet(r)
  BY DEF ConcurrentMapWrites
<1>2. expired[r]
  BY <1>1, Parts DEF WritersMeet, Fine, Alone
<1>3. TypeOK' /\ TimeoutIsTold'
  BY DEF MInv, ConcurrentMapWrites, TypeOK, TimeoutIsTold
<1>4. (\A q \in Request : Alone(q) /\ Authors(q))'
  BY DEF MInv, ConcurrentMapWrites, Alone, Authors
<1>5. (\E q \in Request : expired[q])'
  BY <1>2 DEF ConcurrentMapWrites
<1>6. QED
  BY <1>3, <1>4, <1>5 DEF MInv

\* Every step keeps the invariant.
LEMMA StepKeeps == MInv /\ [Next]_vars => MInv'
<1>1. SUFFICES ASSUME MInv, [Next]_vars PROVE MInv'
  OBVIOUS
<1>2. CASE UNCHANGED vars
  BY <1>1, <1>2 DEF vars, MInv, TypeOK, Alone, Authors, TimeoutIsTold
<1>3. CASE ConcurrentMapWrites
  BY <1>1, <1>3, ConcurrentMapWritesKeeps
<1>4. CASE \E r \in Request : \/ Arrive(r) \/ Expire(r)
                              \/ Handler(r) \/ HandlerHangs(r) \/ Panic(r)
                              \/ Waiter(r)
  <2>1. PICK r \in Request : \/ Arrive(r) \/ Expire(r)
                             \/ Handler(r) \/ HandlerHangs(r) \/ Panic(r)
                             \/ Waiter(r)
    BY <1>4
  <2>2. CASE Handler(r)
    BY <1>1, <2>2, HandlerHeaderKeeps, HandlerTextKeeps, HandlerReturnsKeeps,
       RecoveryHeaderKeeps, RecoveryTextKeeps DEF Handler
  <2>3. CASE Waiter(r)
    BY <1>1, <2>3, ReceiveDoneKeeps, ReceiveExpiryKeeps, ErrorHeaderKeeps, ErrorTextKeeps
    DEF Waiter
  <2>4. CASE Arrive(r) \/ Expire(r) \/ HandlerHangs(r) \/ Panic(r)
    BY <1>1, <2>4, ArriveKeeps, ExpireKeeps, HandlerHangsKeeps, PanicKeeps
  <2>5. QED
    BY <2>1, <2>2, <2>3, <2>4
<1>5. QED
  BY <1>1, <1>2, <1>3, <1>4 DEF Next

\* The inductive invariant holds in every reachable state, however many
\* requests there are and whichever of them RecoveryMiddleware guards.
THEOREM MiddlewareInvariant == Spec => []MInv
<1>1. Init => MInv
  <2>1. SUFFICES ASSUME Init PROVE MInv
    OBVIOUS
  <2>2. TypeOK
    BY <2>1 DEF Init, TypeOK
  <2>3. \A r \in Request : Alone(r) /\ Authors(r)
    BY <2>1 DEF Init, Alone, Authors
  <2>4. TimeoutIsTold /\ ~down
    BY <2>1 DEF Init, TimeoutIsTold
  <2>5. QED
    BY <2>2, <2>3, <2>4 DEF MInv
<1>2. QED
  BY <1>1, StepKeeps, PTL DEF Spec

\* A request answered in time is answered by its handler alone (the select of
\* TimeoutMiddleware, middleware.go:61).
THEOREM NormalAnswerIsHandlersCorrect == Spec => []NormalAnswerIsHandlers
<1>1. MInv => NormalAnswerIsHandlers
  BY SMT DEF MInv, TypeOK, Alone, NormalAnswerIsHandlers, Writer
<1>2. QED
  BY <1>1, MiddlewareInvariant, PTL

\* A panic no RecoveryMiddleware catches is never taken for a normal end.
THEOREM LostPanicTimesOutCorrect == Spec => []LostPanicTimesOut
<1>1. MInv => LostPanicTimesOut
  BY SMT DEF MInv, TypeOK, Alone, LostPanicTimesOut
<1>2. QED
  BY <1>1, MiddlewareInvariant, PTL

\* A goroutine is left behind, and a response has two writers, only where the
\* context of the request ended while the handler was at work.
THEOREM StrayHandlerOnlyAfterExpiryCorrect == Spec => []StrayHandlerOnlyAfterExpiry
<1>1. MInv => StrayHandlerOnlyAfterExpiry
  BY SMT DEF MInv, TypeOK, Alone, StrayHandlerOnlyAfterExpiry, Returned, WritersMeet
<1>2. QED
  BY <1>1, MiddlewareInvariant, PTL

\* A request that timed out has the error in its response.
THEOREM TimeoutIsToldCorrect == Spec => []TimeoutIsTold
<1>1. MInv => TimeoutIsTold
  BY DEF MInv
<1>2. QED
  BY <1>1, MiddlewareInvariant, PTL

-----------------------------------------------------------------------------
(***************************************************************************)
(* The refinement: a request is answered by the step with which its waiter *)
(* returns, every other step leaves what clients have seen as it was.      *)
(***************************************************************************)

\* Request q neither returns in the step nor has its returned response changed.
Quiet(q) ==
    /\ Returned(q)' <=> Returned(q)
    /\ Returned(q) => head'[q] = head[q] /\ body'[q] = body[q]

\* What a client has seen of a request that keeps quiet stays.
LEMMA QuietSeen ==
    ASSUME NEW q \in Request, Quiet(q)
    PROVE  Seen(q)' = Seen(q)
BY DEF Quiet, Seen

\* While every request keeps quiet, nobody is answered.
LEMMA QuietStutters ==
    ASSUME \A q \in Request : Quiet(q)
    PROVE  [q \in Request |-> Seen(q)]' = [q \in Request |-> Seen(q)]
BY QuietSeen

\* A step with which one waiter returns, the other requests being quiet, is
\* that request's answer.
LEMMA LoudAnswers ==
    ASSUME NEW r \in Request, \A q \in Request \ {r} : Quiet(q), ~Returned(r),
           Seen(r)' \in OneAnswer!Own(r) \cup OneAnswer!Late(r)
    PROVE  OneAnswer!Answer(r)
<1>1. Seen(r) = OneAnswer!Nothing
  BY DEF Seen, OneAnswer!Nothing
<1>2. \A q \in Request \ {r} : Seen(q)' = Seen(q)
  BY QuietSeen
<1>3. [q \in Request |-> Seen(q)]'
        = [[q \in Request |-> Seen(q)] EXCEPT ![r] = Seen(r)']
  BY <1>2
<1>4. QED
  BY <1>1, <1>3 DEF OneAnswer!Answer

\* What the goroutine of the handler does is not seen: the waiter has not
\* returned, or has and the writer is closed.
LEMMA HandlerQuiet ==
    ASSUME MInv, NEW r \in Request,
           Handler(r) \/ HandlerHangs(r) \/ Panic(r), NEW q \in Request
    PROVE  Quiet(q)
<1>1. TypeOK
  BY Parts
<1>2. CASE HandlerHeader(r)
  BY <1>1, <1>2, SMT DEF HandlerHeader, WriteHeader, Returned, Quiet, TypeOK
<1>3. CASE HandlerText(r)
  BY <1>1, <1>3, SMT DEF HandlerText, Write, Returned, Quiet, TypeOK
<1>4. CASE RecoveryHeader(r)
  BY <1>1, <1>4, SMT DEF RecoveryHeader, WriteHeader, Returned, Quiet, TypeOK
<1>5. CASE RecoveryText(r)
  BY <1>1, <1>5, SMT DEF RecoveryText, Write, Returned, Quiet, TypeOK
<1>6. CASE HandlerReturns(r) \/ HandlerHangs(r) \/ Panic(r)
  BY <1>6 DEF HandlerReturns, HandlerHangs, Panic, Returned, Quiet
<1>7. QED
  BY <1>2, <1>3, <1>4, <1>5, <1>6 DEF Handler

\* Nor is a waiter seen that goes on waiting, gives up or writes its status line.
LEMMA WaiterQuiet ==
    ASSUME MInv, NEW r \in Request,
           Arrive(r) \/ Expire(r) \/ ReceiveExpiry(r) \/ ErrorHeader(r), NEW q \in Request
    PROVE  Quiet(q)
<1>1. TypeOK
  BY Parts
<1>2. CASE Arrive(r) \/ Expire(r) \/ ReceiveExpiry(r)
  BY <1>1, <1>2, SMT DEF Arrive, Expire, ReceiveExpiry, Returned, Quiet, TypeOK
<1>3. CASE ErrorHeader(r)
  BY <1>1, <1>3, SMT DEF ErrorHeader, WriteHeader, Returned, Quiet, TypeOK
<1>4. QED
  BY <1>2, <1>3

\* The waiter that hears of the handler's end answers with what the handler, or
\* RecoveryMiddleware after its panic, has written.
LEMMA DoneAnswers ==
    ASSUME MInv, NEW r \in Request, ReceiveDone(r)
    PROVE  OneAnswer!Answer(r)
<1>1. TypeOK /\ Alone(r) /\ Authors(r)
  BY DEF MInv
<1>2. /\ handler[r] = "send" /\ waiter[r] = "select" /\ waiter'[r] = "normal"
      /\ head' = head /\ body' = body
  BY <1>1, SMT DEF ReceiveDone, At, TypeOK
<1>3. \A q \in Request \ {r} : Quiet(q)
  BY <1>1, SMT DEF ReceiveDone, Returned, Quiet, TypeOK
<1>4. ~Returned(r)
  BY <1>2 DEF Returned
<1>5. Seen(r)' = [status |-> head[r], body |-> body[r]]
  BY <1>2 DEF Seen, Returned
<1>6. head[r] \in {"handler", "recovery"} /\ body[r] \subseteq {"handler", "recovery"}
  BY <1>1, <1>2, SMT DEF Alone, TypeOK, Writer
<1>7. CASE panicked[r]
  <2>1. r \in Guarded /\ "recovery" \in body[r]
    BY <1>1, <1>2, <1>7 DEF Alone
  <2>2. "handler" \in body[r] => head[r] = "handler"
    BY <1>1, <1>2 DEF Authors
  <2>3. body[r] = {"recovery"} \/ body[r] = {"handler", "recovery"}
    BY <1>6, <2>1
  <2>4. Seen(r)' \in OneAnswer!Own(r)
    BY <1>5, <1>6, <2>1, <2>2, <2>3 DEF OneAnswer!Own
  <2>5. QED
    BY <1>3, <1>4, <2>4, LoudAnswers
<1>8. CASE ~panicked[r]
  <2>1. body[r] = {"handler"} /\ head[r] = "handler"
    BY <1>1, <1>2, <1>8 DEF Alone, Authors
  <2>2. Seen(r)' \in OneAnswer!Own(r)
    BY <1>5, <2>1 DEF OneAnswer!Own
  <2>3. QED
    BY <1>3, <1>4, <2>2, LoudAnswers
<1>9. QED
  BY <1>7, <1>8

\* The waiter that gave up answers with the error, beside what the handler has
\* written so far.
LEMMA ErrorAnswers ==
    ASSUME MInv, NEW r \in Request, ErrorText(r)
    PROVE  OneAnswer!Answer(r)
<1>1. TypeOK /\ Alone(r) /\ Authors(r)
  BY DEF MInv
<1>2. /\ waiter[r] = "text" /\ waiter'[r] = "timedout" /\ head' = head
      /\ Write(r, "timeout")
  BY <1>1, SMT DEF ErrorText, TypeOK
<1>3. ~Returned(r)
  BY <1>2 DEF Returned
<1>4. body'[r] = body[r] \cup {"timeout"} /\ \A q \in Request \ {r} : body'[q] = body[q]
  BY <1>1, <1>2, <1>3, TextFacts DEF Writer
<1>5. \A q \in Request \ {r} : Quiet(q)
  BY <1>1, <1>2, <1>4, SMT DEF ErrorText, Returned, Quiet, TypeOK
<1>6. Seen(r)' = [status |-> head[r], body |-> body[r] \cup {"timeout"}]
  BY <1>2, <1>4 DEF Seen, Returned
<1>7. head[r] \in OneAnswer!Writers(r) \cup {"timeout"}
  BY <1>1, <1>2 DEF Authors, TypeOK, Writer, OneAnswer!Writers
<1>8. body[r] \ {"timeout"} \in SUBSET OneAnswer!Writers(r)
  BY <1>1, <1>2 DEF Authors, TypeOK, Writer, OneAnswer!Writers
<1>9. body[r] \cup {"timeout"} = (body[r] \ {"timeout"}) \cup {"timeout"}
  OBVIOUS
<1>10. \E who \in OneAnswer!Writers(r) \cup {"timeout"} :
       \E texts \in SUBSET OneAnswer!Writers(r) :
          Seen(r)' = [status |-> who, body |-> texts \cup {"timeout"}]
  <2>1. WITNESS head[r] \in OneAnswer!Writers(r) \cup {"timeout"}
  <2>2. WITNESS body[r] \ {"timeout"} \in SUBSET OneAnswer!Writers(r)
  <2>3. QED
    BY <1>6, <1>9
<1>11. QED
  BY <1>3, <1>5, <1>10, LoudAnswers DEF OneAnswer!Late

\* Every step answers one request or leaves what clients have seen as it was.
LEMMA StepAnswers ==
    MInv /\ [Next]_vars => [OneAnswer!Next]_([r \in Request |-> Seen(r)])
<1>1. SUFFICES ASSUME MInv, [Next]_vars
               PROVE  \/ OneAnswer!Next
                      \/ [r \in Request |-> Seen(r)]' = [r \in Request |-> Seen(r)]
  OBVIOUS
<1>2. CASE UNCHANGED vars
  BY <1>2 DEF vars, Seen, Returned
<1>3. CASE ConcurrentMapWrites
  BY <1>3 DEF ConcurrentMapWrites, Seen, Returned
<1>4. ASSUME NEW r \in Request, ReceiveDone(r) \/ ErrorText(r)
      PROVE  OneAnswer!Next
  BY <1>1, <1>4, DoneAnswers, ErrorAnswers DEF OneAnswer!Next
<1>5. ASSUME NEW r \in Request,
             \/ Handler(r) \/ HandlerHangs(r) \/ Panic(r)
             \/ Arrive(r) \/ Expire(r) \/ ReceiveExpiry(r) \/ ErrorHeader(r)
      PROVE  [q \in Request |-> Seen(q)]' = [q \in Request |-> Seen(q)]
  BY <1>1, <1>5, HandlerQuiet, WaiterQuiet, QuietStutters
<1>6. QED
  BY <1>1, <1>2, <1>3, <1>4, <1>5 DEF Next, Waiter

\* However its two goroutines interleave, hang and panic, a request is answered
\* once and for good, whole by its handler or with the error of the timeout
\* (TimeoutMiddleware and RecoveryMiddleware, middleware.go:48-86).
THEOREM OneAnswerRefinement == Spec => ImplementsOneAnswer
<1>1. Init => OneAnswer!Init
  BY DEF Init, OneAnswer!Init, OneAnswer!Nothing, Seen, Returned
<1>2. QED
  BY <1>1, MiddlewareInvariant, StepAnswers, PTL
  DEF Spec, ImplementsOneAnswer, OneAnswer!Spec
=============================================================================
