----------------------------- MODULE BatchQuery ----------------------------
(***************************************************************************)
(* The two batch queries.  Neither looks anything up yet: each numbers its *)
(* results with the numbers asked for.                                     *)
(*                                                                         *)
(* A Go slice is more than its elements: the array under it may be longer, *)
(* zero-valued there, and reslicing reaches that part.  How much longer is *)
(* the JSON decoder's business (external): spare is any number up to the   *)
(* length, as the array at most doubles when it grows.                     *)
(***************************************************************************)
EXTENDS Integers, Sequences

CONSTANTS
    Blank,      \* the empty string
    AdminMax,   \* limit of the admin query, 100 in the code
    PublicMax   \* limit of the public query, 50 in the code

ASSUME LimitAssumption == AdminMax \in Nat /\ PublicMax \in Nat

Refused(code) == [code |-> code, numbers |-> <<>>]

\* s[:n] of a slice with spare zero values behind its elements.
Reslice(s, n) == [i \in 1..n |-> IF i <= Len(s) THEN s[i] ELSE Blank]

\* A wrong version: a limit is bounded by its default, but not heeded.
AdminLimitIgnored(limit) == AdminMax

AdminLimit(limit) == IF limit <= 0 \/ limit > AdminMax THEN AdminMax ELSE limit

\* The limit is not compared with the number of numbers: beyond the capacity
\* of the slice the handler panics, which the server answers 500.
AdminBatchQuery(asked, spare, limit) ==
    IF asked = <<>> THEN Refused(400)
    ELSE IF AdminLimit(limit) > Len(asked) + spare THEN Refused(500)
    ELSE [code |-> 200, numbers |-> Reslice(asked, AdminLimit(limit))]

\* More numbers than the limit are refused, the others all answered.
PublicBatchQuery(asked) ==
    IF asked = <<>> \/ Len(asked) > PublicMax THEN Refused(400)
    ELSE [code |-> 200, numbers |-> asked]
=============================================================================
