----------------------------- MODULE SegmentOrder -----------------------------
(***************************************************************************)
(* What the kernel loop promises of the segments of a workflow, however    *)
(* the Lambdas, the retries, the pauses and the sync core arrange it: they *)
(* are taken one at a time, in the order of the partition, and success is  *)
(* reported only when all of them were.                                    *)
(***************************************************************************)
EXTENDS Naturals, FiniteSets

CONSTANT Total  \* total_segments of the workflow

VARIABLES
  taken,  \* segments whose answer was taken into the state bag
  status  \* of the execution

orderVars == <<taken, status>>

Segments == 0..(Total - 1)

OrderInit == taken = {} /\ status = "RUNNING"

\* The segment after those taken so far is the one that is taken next.
Take ==
  /\ status = "RUNNING"
  /\ \E s \in Segments : taken = 0..(s - 1) /\ taken' = 0..s
  /\ UNCHANGED status

Succeed ==
  /\ status = "RUNNING" /\ taken = Segments
  /\ status' = "SUCCEEDED"
  /\ UNCHANGED taken

Fail ==
  /\ status = "RUNNING"
  /\ status' = "FAILED"
  /\ UNCHANGED taken

OrderNext == Take \/ Succeed \/ Fail
OrderSpec == OrderInit /\ [][OrderNext]_orderVars
==============================================================================
