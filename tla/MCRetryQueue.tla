---------------------------- MODULE MCRetryQueue ----------------------------
(***************************************************************************)
(* An instance of RetryQueue for TLC.  Bodies are cut down to a label: no  *)
(* step looks into a detail.                                               *)
(***************************************************************************)
EXTENDS RetryQueue

CONSTANTS p1, n1, empty, t1, t2

MCLabel(label, status) == [detail |-> label, status |-> status, times |-> label]

MCWebhookLabels == {MCLabel("received", 10), MCLabel("transit", 20)}

MCNothing == {}
=============================================================================
