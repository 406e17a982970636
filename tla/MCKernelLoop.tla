----------------------------- MODULE MCKernelLoop -----------------------------
(***************************************************************************)
(* KernelLoop with three segments: every partition without a parallel      *)
(* group that the Map runs, and every place for such a group among plain   *)
(* segments and gates.  A group with a HITP edge leaves its branches in    *)
(* the bag, where the next answer doubles them.                            *)
(***************************************************************************)
EXTENDS KernelLoop, TLC

Serial == Kinds \ {"group", "hitpGroup"}
MCPlans ==
  [Segments -> Serial]
    \cup {p \in [Segments -> {"plain", "gate", "group", "hitpGroup"}] :
            Cardinality({s \in Segments : p[s] \in {"group", "hitpGroup"}}) = 1}

\* A parallel group, then a segment that follows it.
MCForkPlan == {(0 :> "group") @@ (1 :> "plain")}
\* A parallel group of which one branch waits for a human.
MCPausedForkPlan == {(0 :> "hitpGroup") @@ (1 :> "plain")}
==============================================================================
