---------------------------- MODULE MCTaskWorker ----------------------------
(***************************************************************************)
(* Small instances of TaskWorker for TLC.                                  *)
(***************************************************************************)
EXTENDS TaskWorker

CONSTANTS refund, broken

\* One retry for the refund, none for the task nobody can decode.
MCMaxRetry == [t \in Tasks |-> IF t = refund THEN 1 ELSE 0]
=============================================================================
