---------------------------- MODULE MCExecutor ----------------------------
(* Instances of Executor for TLC. *)
EXTENDS Executor

CONSTANTS a, b, x, y
=============================================================================
