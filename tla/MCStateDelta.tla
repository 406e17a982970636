----------------------------- MODULE MCStateDelta -----------------------------
(***************************************************************************)
(* StateDelta with two executions of a workflow: e1 makes two invocations  *)
(* (two segments, or one that is retried), e2 one, or both two.  A state   *)
(* of two fields needs two transactions; a field that does not change      *)
(* keeps its block.                                                        *)
(***************************************************************************)
EXTENDS StateDelta, TLC

CONSTANTS e1, e2, b1, b2

MCDeltas == {{b1, b2}, {b1}}
MCOneLate == (e1 :> 2) @@ (e2 :> 1)
MCBothLong == (e1 :> 2) @@ (e2 :> 2)
==============================================================================
