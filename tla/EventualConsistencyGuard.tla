----------------------- MODULE EventualConsistencyGuard -----------------------
(***************************************************************************)
(* services/state/eventual_consistency_guard.py: concurrent calls of       *)
(* create_manifest_with_consistency, the only way a workflow manifest is   *)
(* created.  A call uploads its blocks to S3 (Phase 1), counts a reference *)
(* to each block and puts the manifest item in DynamoDB (Phase 2), writes  *)
(* an S3 marker (Phase 2.5) and promotes the tags of its blocks (Phase 3). *)
(* Blocks are content-addressed: calls with equal content share an object. *)
(*                                                                         *)
(* Every call to S3, DynamoDB or SQS is one step, so that the calls of     *)
(* several Lambdas interleave between any two of them.  A remote call may  *)
(* fail with its effect ("applied", the response was lost) or without it,  *)
(* and a Lambda may crash (time out, be killed) before any of its steps.   *)
(* The modules that EXTEND this one add the consumers of the GC queue.     *)
(***************************************************************************)
EXTENDS Naturals, Sequences, FiniteSets

CONSTANTS
  Txns,        \* calls; each draws its own transaction_id and manifest_id
  Blocks,      \* block ids: the SHA-256 of a segment, or of a chunk of it
  Workflows,
  WorkflowOf,  \* the workflow_id argument of a call
  BlockList,   \* the blocks argument of a call, in order
  MaxRetries,  \* MAX_RETRIES of Phase 2 (3 in the code)
  RefBatch,    \* batch_size of the reference updates (99 in the code)
  SqsBatch,    \* entries per send_message_batch (10 in the code)
  NoNonce      \* the tag set has no upload_nonce

ASSUME TxnsAssumption == IsFiniteSet(Txns)
ASSUME WorkflowAssumption == WorkflowOf \in [Txns -> Workflows]
ASSUME BlockListAssumption == BlockList \in [Txns -> Seq(Blocks)]
ASSUME LimitsAssumption ==
  MaxRetries \in Nat \ {0} /\ RefBatch \in Nat \ {0} /\ SqsBatch \in Nat \ {0}

(* An upload event is identified by its fresh upload_nonce: the idx-th     *)
(* put_object of call txn.  It is also what a GC message is about.         *)
Uploads == {u \in [txn : Txns, idx : Nat] : u.idx \in DOMAIN BlockList[u.txn]}

ASSUME NoNonceAssumption == NoNonce \notin Uploads

Key(u) == BlockList[u.txn][u.idx]

VARIABLES
  s3,        \* the tags of the object of each block, or that it is absent
  markers,   \* manifests/{id}.json objects
  refs,      \* reference_count by workflow and block
  manifests, \* calls whose manifest item is in the table
  queue,     \* GC messages in SQS
  pc,        \* where each call is
  up,        \* Len(block_uploads)
  counted,   \* how many of its uploads a call has counted in refs
  pos,       \* cursor of the loop a call is in
  attempt,   \* attempts of the manifest put that failed so far
  crashed    \* calls whose Lambda is gone

stores == <<s3, markers, refs, manifests, queue>>
locals == <<pc, up, counted, pos, attempt, crashed>>
guardVars == <<stores, locals>>

Absent == [status |-> "absent", nonce |-> NoNonce]
Pending(u) == [status |-> "pending", nonce |-> u]
Committed == [status |-> "committed", nonce |-> NoNonce]
Tags == [status : {"absent", "pending", "committed"}, nonce : Uploads \cup {NoNonce}]

Phases == {"prepare", "rollback", "refs", "commit", "marker", "confirm",
           "schedule", "done", "failed"}
\* The call returned the manifest id, or raised.
Ended == {"done", "failed"}
Length(t) == Len(BlockList[t])

GuardInit ==
  /\ s3 = [b \in Blocks |-> Absent]
  /\ markers = {}
  /\ refs = [w \in Workflows |-> [b \in Blocks |-> 0]]
  /\ manifests = {}
  /\ queue = {}
  /\ pc = [t \in Txns |-> IF Length(t) = 0 THEN "commit" ELSE "prepare"]
  /\ up = [t \in Txns |-> 0]
  /\ counted = [t \in Txns |-> 0]
  /\ pos = [t \in Txns |-> 0]
  /\ attempt = [t \in Txns |-> 0]
  /\ crashed = {}

At(t, phase) == pc[t] = phase /\ t \notin crashed
Goto(t, phase) == pc' = [pc EXCEPT ![t] = phase]
\* Goto a phase that iterates over block_uploads: nothing to do when n = 0.
GotoLoop(t, n, phase, after) ==
  /\ Goto(t, IF n = 0 THEN after ELSE phase)
  /\ pos' = [pos EXCEPT ![t] = 0]
\* The end of one iteration: next block, or on to the phase after the loop.
Advance(t, n, after) ==
  /\ pos' = [pos EXCEPT ![t] = n]
  /\ Goto(t, IF n >= up[t] THEN after ELSE pc[t])

(***************************************************************************)
(* Phase 1: put_object with status=pending and a fresh upload_nonce.  It   *)
(* overwrites the object and the tags another call may have left there.    *)
(***************************************************************************)
UploadBlock(t) ==
  LET u == [txn |-> t, idx |-> up[t] + 1] IN
  /\ At(t, "prepare")
  /\ s3' = [s3 EXCEPT ![Key(u)] = Pending(u)]
  /\ up' = [up EXCEPT ![t] = @ + 1]
  /\ Goto(t, IF up[t] + 1 = Length(t) THEN "refs" ELSE "prepare")
  /\ UNCHANGED <<markers, refs, manifests, queue, counted, pos, attempt, crashed>>

\* The failed upload is not in block_uploads, even when it took effect.
UploadFails(t, applied) ==
  LET u == [txn |-> t, idx |-> up[t] + 1] IN
  /\ At(t, "prepare")
  /\ s3' = IF applied THEN [s3 EXCEPT ![Key(u)] = Pending(u)] ELSE s3
  /\ GotoLoop(t, up[t], "rollback", "failed")
  /\ UNCHANGED <<markers, refs, manifests, queue, up, counted, attempt, crashed>>

\* _rollback_s3_uploads: delete what this call uploaded, whoever else uses
\* the key by now; an error is logged and the loop goes on.
RollbackBlock(t, deleted) ==
  /\ At(t, "rollback")
  /\ s3' = IF deleted THEN [s3 EXCEPT ![BlockList[t][pos[t] + 1]] = Absent] ELSE s3
  /\ Advance(t, pos[t] + 1, "failed")
  /\ UNCHANGED <<markers, refs, manifests, queue, up, counted, attempt, crashed>>

(***************************************************************************)
(* Phase 2, step 1: ADD reference_count 1 for every block, one DynamoDB    *)
(* transaction per batch, outside the retry loop.                          *)
(***************************************************************************)
Batch(t) == {i \in DOMAIN BlockList[t] : counted[t] < i /\ i <= counted[t] + RefBatch}
BatchBlocks(t) == {BlockList[t][i] : i \in Batch(t)}
\* DynamoDB refuses a transaction with two operations on one item.
RepeatsItem(t) ==
  \E i, j \in Batch(t) : i # j /\ BlockList[t][i] = BlockList[t][j]
CountedAfter(t) ==
  IF counted[t] + RefBatch >= Length(t) THEN Length(t) ELSE counted[t] + RefBatch

\* Faulty variant: the count is read, then set, and a concurrent call's
\* increment is lost.
SetReferences(t) ==
  refs' = [refs EXCEPT ![WorkflowOf[t]] =
             [b \in Blocks |-> IF b \in BatchBlocks(t) THEN 1 ELSE @[b]]]

AddReferences(t) ==
  refs' = [refs EXCEPT ![WorkflowOf[t]] =
             [b \in Blocks |-> @[b] + (IF b \in BatchBlocks(t) THEN 1 ELSE 0)]]

CountRefs(t) ==
  /\ At(t, "refs")
  /\ ~RepeatsItem(t)
  /\ AddReferences(t)
  /\ counted' = [counted EXCEPT ![t] = CountedAfter(t)]
  /\ Goto(t, IF CountedAfter(t) = Length(t) THEN "commit" ELSE "refs")
  /\ UNCHANGED <<s3, markers, manifests, queue, up, pos, attempt, crashed>>

\* Any error of a batch fails the call; earlier batches stay counted.
CountRefsFails(t, applied) ==
  /\ At(t, "refs")
  /\ IF applied
       THEN /\ ~RepeatsItem(t)
            /\ AddReferences(t)
            /\ counted' = [counted EXCEPT ![t] = CountedAfter(t)]
       ELSE UNCHANGED <<refs, counted>>
  /\ Goto(t, "schedule")
  /\ pos' = [pos EXCEPT ![t] = 0]
  /\ UNCHANGED <<s3, markers, manifests, queue, up, attempt, crashed>>

(***************************************************************************)
(* Phase 2, step 2: put the manifest item, if its id is not there yet.     *)
(***************************************************************************)
Commit(t) ==
  /\ At(t, "commit")
  /\ t \notin manifests
  /\ manifests' = manifests \cup {t}
  /\ Goto(t, "marker")
  /\ UNCHANGED <<s3, markers, refs, queue, up, counted, pos, attempt, crashed>>

\* Faulty variants of the retry loop: one attempt too many, starting over
\* when it is exhausted, and falling out of it as if the put had succeeded.
RetryOnceMore(t, applied) ==
  /\ At(t, "commit")
  /\ t \notin manifests
  /\ manifests' = IF applied THEN manifests \cup {t} ELSE manifests
  /\ attempt' = [attempt EXCEPT ![t] = @ + 1]
  /\ IF attempt[t] < MaxRetries
       THEN UNCHANGED <<pc, pos>>
       ELSE GotoLoop(t, up[t], "schedule", "failed")
  /\ UNCHANGED <<s3, markers, refs, queue, up, counted, crashed>>

RetryForever(t, applied) ==
  /\ At(t, "commit")
  /\ t \notin manifests
  /\ manifests' = IF applied THEN manifests \cup {t} ELSE manifests
  /\ attempt' = [attempt EXCEPT ![t] = (@ + 1) % MaxRetries]
  /\ UNCHANGED <<s3, markers, refs, queue, pc, up, counted, pos, crashed>>

RetryThenProceed(t, applied) ==
  /\ At(t, "commit")
  /\ t \notin manifests
  /\ manifests' = IF applied THEN manifests \cup {t} ELSE manifests
  /\ IF attempt[t] < MaxRetries - 1
       THEN /\ attempt' = [attempt EXCEPT ![t] = @ + 1]
            /\ UNCHANGED pc
       ELSE /\ Goto(t, "marker")
            /\ UNCHANGED attempt
  /\ UNCHANGED <<s3, markers, refs, queue, up, counted, pos, crashed>>

\* A retryable error code (throttling, InternalServerError, a cancellation
\* for a transient reason): sleep and retry while attempts are left.
CommitTransient(t, applied) ==
  /\ At(t, "commit")
  /\ t \notin manifests
  /\ manifests' = IF applied THEN manifests \cup {t} ELSE manifests
  /\ IF attempt[t] < MaxRetries - 1
       THEN /\ attempt' = [attempt EXCEPT ![t] = @ + 1]
            /\ UNCHANGED <<pc, pos>>
       ELSE /\ GotoLoop(t, up[t], "schedule", "failed")
            /\ UNCHANGED attempt
  /\ UNCHANGED <<s3, markers, refs, queue, up, counted, crashed>>

\* Any other error: not retryable, or not a ClientError (a read timeout).
CommitFails(t, applied) ==
  /\ At(t, "commit")
  /\ applied => t \notin manifests
  /\ manifests' = IF applied THEN manifests \cup {t} ELSE manifests
  /\ GotoLoop(t, up[t], "schedule", "failed")
  /\ UNCHANGED <<s3, markers, refs, queue, up, counted, attempt, crashed>>

\* An earlier attempt took effect although it reported an error: the retry
\* meets attribute_not_exists, and ConditionalCheckFailed is not retryable.
CommitRefused(t) ==
  /\ At(t, "commit")
  /\ t \in manifests
  /\ GotoLoop(t, up[t], "schedule", "failed")
  /\ UNCHANGED <<s3, markers, refs, manifests, queue, up, counted, attempt, crashed>>

\* Phase 2.5: the marker is best effort; an error is logged.
WriteMarker(t, written) ==
  /\ At(t, "marker")
  /\ markers' = IF written THEN markers \cup {t} ELSE markers
  /\ GotoLoop(t, up[t], "confirm", "done")
  /\ UNCHANGED <<s3, refs, manifests, queue, up, counted, attempt, crashed>>

(***************************************************************************)
(* Phase 3: put_object_tagging replaces the whole tag set of whatever      *)
(* object is at the key, another call's upload included.  An error, as     *)
(* NoSuchKey, ends the loop; the call succeeds all the same.               *)
(***************************************************************************)
ConfirmBlock(t) ==
  LET b == BlockList[t][pos[t] + 1] IN
  /\ At(t, "confirm")
  /\ s3[b] # Absent
  /\ s3' = [s3 EXCEPT ![b] = Committed]
  /\ Advance(t, pos[t] + 1, "done")
  /\ UNCHANGED <<markers, refs, manifests, queue, up, counted, attempt, crashed>>

\* Faulty variant: an unpromoted block is handed to the GC after all.
ConfirmFailsToGc(t, applied) ==
  /\ At(t, "confirm")
  /\ queue' = queue \cup {[txn |-> t, idx |-> pos[t] + 1]}
  /\ Goto(t, "done")
  /\ UNCHANGED <<s3, markers, refs, manifests, up, counted, pos, attempt, crashed>>

ConfirmFails(t, applied) ==
  LET b == BlockList[t][pos[t] + 1] IN
  /\ At(t, "confirm")
  /\ applied => s3[b] # Absent
  /\ s3' = IF applied THEN [s3 EXCEPT ![b] = Committed] ELSE s3
  /\ Goto(t, "done")
  /\ UNCHANGED <<markers, refs, manifests, queue, up, counted, pos, attempt, crashed>>

(***************************************************************************)
(* _schedule_gc: one message per upload, in batches; the entries SQS did   *)
(* not take (an exception, or Failed in the response) are not retried.     *)
(***************************************************************************)
SqsEntries(t) == {i \in DOMAIN BlockList[t] : pos[t] < i /\ i <= pos[t] + SqsBatch /\ i <= up[t]}

ScheduleGc(t, taken) ==
  /\ At(t, "schedule")
  /\ queue' = queue \cup {[txn |-> t, idx |-> i] : i \in taken}
  /\ Advance(t, pos[t] + SqsBatch, "failed")
  /\ UNCHANGED <<s3, markers, refs, manifests, up, counted, attempt, crashed>>

Crash(t) ==
  /\ pc[t] \notin Ended
  /\ t \notin crashed
  /\ crashed' = crashed \cup {t}
  /\ UNCHANGED <<stores, pc, up, counted, pos, attempt>>

\* create_manifest_with_consistency, one remote call at a time.
Create(t) ==
  \/ UploadBlock(t)
  \/ \E applied \in BOOLEAN : UploadFails(t, applied)
  \/ \E deleted \in BOOLEAN : RollbackBlock(t, deleted)
  \/ CountRefs(t)
  \/ \E applied \in BOOLEAN : CountRefsFails(t, applied)
  \/ Commit(t)
  \/ \E applied \in BOOLEAN : CommitTransient(t, applied)
  \/ \E applied \in BOOLEAN : CommitFails(t, applied)
  \/ CommitRefused(t)
  \/ \E written \in BOOLEAN : WriteMarker(t, written)
  \/ ConfirmBlock(t)
  \/ \E applied \in BOOLEAN : ConfirmFails(t, applied)
  \/ \E taken \in SUBSET SqsEntries(t) : ScheduleGc(t, taken)

GuardNext == \E t \in Txns : Create(t) \/ Crash(t)

------------------------------------------------------------------------------

GuardTypeOK ==
  /\ s3 \in [Blocks -> Tags]
  /\ markers \subseteq Txns
  /\ refs \in [Workflows -> [Blocks -> Nat]]
  /\ manifests \subseteq Txns
  /\ queue \subseteq Uploads
  /\ pc \in [Txns -> Phases]
  /\ up \in [Txns -> Nat]
  /\ counted \in [Txns -> Nat]
  /\ pos \in [Txns -> Nat]
  /\ attempt \in [Txns -> 0 .. MaxRetries - 1]
  /\ crashed \subseteq Txns

Uses(t, b) == \E i \in DOMAIN BlockList[t] : BlockList[t][i] = b
Uploaded(t, b) == \E i \in 1 .. up[t] : BlockList[t][i] = b
\* The call took an error path: it deletes its blocks or has them deleted.
Failing(t) == pc[t] \in {"rollback", "schedule", "failed"}
\* DynamoDB confirmed the manifest to the call.
Acknowledged(t) == pc[t] \in {"marker", "confirm", "done"}

(* A block's reference count is at least the number of stored manifests of *)
(* the workflow that use it: whatever batches failed, were applied without *)
(* an answer or belong to calls that died, no manifest is stored before    *)
(* all its references are (_batch_update_block_references, before the put).*)
ManifestReferencesCounted ==
  \A w \in Workflows, b \in Blocks :
    refs[w][b] >=
      Cardinality({t \in manifests : WorkflowOf[t] = w /\ Uses(t, b)})

(* When a block of a manifest whose commit was acknowledged is missing     *)
(* from S3, another call that had uploaded the same content went down an   *)
(* error path: no success, retry, crash, partial Phase 3 or late GC        *)
(* message of the calls themselves may lose an acknowledged block.         *)
LossNeedsFailedSharer ==
  \A t \in Txns, b \in Blocks :
    Acknowledged(t) /\ Uses(t, b) /\ s3[b] = Absent
      => \E u \in Txns \ {t} : Failing(u) /\ Uploaded(u, b)

PhaseRank(phase) ==
  CASE phase = "prepare" -> 0 [] phase = "rollback" -> 1 [] phase = "refs" -> 2
    [] phase = "commit" -> 3 [] phase = "marker" -> 4 [] phase = "confirm" -> 5
    [] phase = "schedule" -> 6 [] OTHER -> 7
\* One more upload, counted batch, iteration or attempt of the same phase.
IteratesIn(t) ==
  /\ pc'[t] = pc[t]
  /\ up[t] <= up'[t] /\ counted[t] <= counted'[t]
  /\ pos[t] <= pos'[t] /\ attempt[t] <= attempt'[t]
  /\ \/ up[t] < up'[t] \/ counted[t] < counted'[t]
     \/ pos[t] < pos'[t] \/ attempt[t] < attempt'[t]

(* Whatever a call's requests are answered, it moves on: to a later phase, *)
(* or within its phase to the next block, batch or attempt, never past the *)
(* last one.  So a call makes a bounded number of requests and holds its   *)
(* uncommitted blocks for as long only (the retry loop of Phase 2, the     *)
(* loops over block_uploads of rollback, Phase 3 and _schedule_gc).        *)
CallsAdvance ==
  [][\A t \in Txns : Create(t) =>
       /\ PhaseRank(pc[t]) < PhaseRank(pc'[t]) \/ IteratesIn(t)
       /\ up'[t] <= Length(t) /\ counted'[t] <= Length(t)
       /\ pos'[t] < up'[t] + SqsBatch /\ attempt'[t] < MaxRetries]_guardVars

(* docs/internals/two-phase-commit.md, "Invariants": "If manifest exists   *)
(* -> All referenced blocks exist in S3".                                  *)
ManifestBlocksExist ==
  \A t \in manifests, b \in Blocks : Uses(t, b) => s3[b] # Absent

\* What the caller has been told.
Answer(t) ==
  CASE pc[t] = "done" -> "ok" [] pc[t] = "failed" -> "error" [] OTHER -> "none"

Promise == INSTANCE ManifestCommit WITH
  Calls <- Txns,
  Empty <- {t \in Txns : Length(t) = 0},
  credited <- {t \in Txns : counted[t] = Length(t)},
  store <- manifests,
  answer <- [t \in Txns |-> Answer(t)]

(* The calls implement ManifestCommit: batches, retries, lost answers and  *)
(* crashes never store a manifest before its references are counted, store *)
(* it twice, take it back, or return an id that was not stored.            *)
RefinesManifestCommit == Promise!Spec
==============================================================================
