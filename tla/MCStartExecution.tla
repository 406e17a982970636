--------------------------- MODULE MCStartExecution ---------------------------
(***************************************************************************)
(* A small instance of StartExecution: requests and executions enough for  *)
(* a claim, its loss, a second claim and a stale finalizer in between.     *)
(***************************************************************************)
EXTENDS StartExecution

CONSTANTS r1, r2, r3, e1, e2, e3
==============================================================================
