--------------------------- MODULE MCWorkerAgent ---------------------------
(***************************************************************************)
(* Small instances of WorkerAgent for TLC.                                 *)
(***************************************************************************)
EXTENDS WorkerAgent

=============================================================================
