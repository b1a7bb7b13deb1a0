--------------------------- MODULE MCWorkerProcess --------------------------
(***************************************************************************)
(* The instance of WorkerProcess for TLC.                                  *)
(***************************************************************************)
EXTENDS WorkerProcess
=============================================================================
