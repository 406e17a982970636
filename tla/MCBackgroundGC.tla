---------------------------- MODULE MCBackgroundGC ----------------------------
(***************************************************************************)
(* Small instances of BackgroundGC: two calls of one workflow that share   *)
(* block b1.  With two-block batches the loops run once, twice, and with a *)
(* last batch that is not full.                                            *)
(***************************************************************************)
EXTENDS BackgroundGC

CONSTANTS t1, t2, b1, b2, w1

MCWorkflowOf == [t \in Txns |-> w1]
\* t1 repeats a block over two batches, and has a block of its own.
MCBlockList == [t \in Txns |-> IF t = t1 THEN <<b1, b2, b1>> ELSE <<b1>>]
\* t2 repeats a block within a batch, which DynamoDB refuses.
MCRepeatedList == [t \in Txns |-> IF t = t1 THEN <<b1, b2>> ELSE <<b1, b1>>]
==============================================================================
