------------------------- MODULE MCTimeoutMiddleware -------------------------
(* Requests of both kinds, one inside RecoveryMiddleware and one not.       *)
EXTENDS TimeoutMiddleware, TLC

CONSTANTS r1, r2
=============================================================================
