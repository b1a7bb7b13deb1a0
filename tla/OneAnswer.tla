----------------------------- MODULE OneAnswer ------------------------------
(***************************************************************************)
(* What the client of a request with a deadline may rely on, without       *)
(* goroutines, panics or channels: it is answered at most once and for     *)
(* good, either by the handler alone or with the error of the timeout.     *)
(***************************************************************************)
CONSTANTS
    Request,    \* requests
    Guarded     \* those whose panics become an answer

VARIABLE answer     \* who wrote the status line and the texts a client was sent

Nothing == [status |-> "nobody", body |-> {}]

Init == answer = [r \in Request |-> Nothing]

\* A handler answers whole.  A recovered panic adds the error page, below what
\* the handler had written by then.
Own(r) ==
    {[status |-> "handler", body |-> {"handler"}]} \cup
    IF r \in Guarded
    THEN {[status |-> "recovery", body |-> {"recovery"}],
          [status |-> "handler", body |-> {"recovery"}],
          [status |-> "handler", body |-> {"handler", "recovery"}]}
    ELSE {}

Writers(r) == IF r \in Guarded THEN {"handler", "recovery"} ELSE {"handler"}

\* A timeout is told, under whichever status line came first and beside
\* whatever else was written.
Late(r) ==
    {[status |-> who, body |-> texts \cup {"timeout"}] :
        who \in Writers(r) \cup {"timeout"}, texts \in SUBSET Writers(r)}

Answer(r) ==
    /\ answer[r] = Nothing
    /\ \E a \in Own(r) \cup Late(r) : answer' = [answer EXCEPT ![r] = a]

Next == \E r \in Request : Answer(r)

Spec == Init /\ [][Next]_answer
=============================================================================
