-------------------------- MODULE TrackingRegister --------------------------
(***************************************************************************)
(* What a user of the tracking service may rely on, without processes,     *)
(* Redis or failures: for every number a current detail that pushes        *)
(* replace until it is sealed (signed), a set of published details, and    *)
(* what readers have been told, always something published.                *)
(***************************************************************************)
CONSTANTS Number, Body, NoBody

VARIABLES
    current,    \* the detail on record
    previous,   \* the detail kept for a rollback
    sealed,     \* the record is signed
    published,  \* every detail that reached the record or was refused by it
    told        \* every detail a reader was given

vars == <<current, previous, sealed, published, told>>

Init ==
    /\ current = [n \in Number |-> NoBody]
    /\ previous = [n \in Number |-> NoBody]
    /\ sealed = [n \in Number |-> FALSE]
    /\ published = [n \in Number |-> {}]
    /\ told = [n \in Number |-> {}]

Publish(n, b) == published' = [published EXCEPT ![n] = @ \cup {b}]

\* A push replaces the detail; the one it replaces becomes the backup.
Accept(n, b) ==
    /\ ~sealed[n]
    /\ current' = [current EXCEPT ![n] = b]
    /\ previous' = [previous EXCEPT ![n] = current[n]]
    /\ Publish(n, b)
    /\ UNCHANGED <<sealed, told>>

\* A push of a sealed number leaves the record alone.
Refuse(n, b) ==
    /\ sealed[n]
    /\ Publish(n, b)
    /\ UNCHANGED <<current, previous, sealed, told>>

\* The record is signed, once.
Seal(n, b) ==
    /\ current[n] # NoBody
    /\ ~sealed[n]
    /\ sealed' = [sealed EXCEPT ![n] = TRUE]
    /\ current' = [current EXCEPT ![n] = b]
    /\ Publish(n, b)
    /\ UNCHANGED <<previous, told>>

\* A reader is told something published, the current detail or an older one.
Tell(n, b) ==
    /\ b \in published[n]
    /\ told' = [told EXCEPT ![n] = @ \cup {b}]
    /\ UNCHANGED <<current, previous, sealed, published>>

Next == \E n \in Number, b \in Body :
            Accept(n, b) \/ Refuse(n, b) \/ Seal(n, b) \/ Tell(n, b)

Spec == Init /\ [][Next]_vars
=============================================================================
