# A verification project for Analemma OS

TLA+ models of the parts of Analemma OS where steps of several Lambdas, queues
and tables interleave, fail half-way and are retried; TLC configurations that
check them on small instances; and TLAPS proofs of the main results for every
value of the constants.

Paths below are relative to `src/analemma-workflow-os/backend/src/` unless they
start with `docs/` (under `src/analemma-workflow-os/`) or `src/`.

## 1. The system

A workflow is partitioned into segments. A Step Functions state machine
(`aws_step_functions_v3.json`) runs one Lambda per segment, passes a *state bag*
from one to the next, and routes on the `next_action` the Lambda returned. The
state of a workflow is kept as content-addressed blocks in S3 and manifests in
DynamoDB, in the manner of a Merkle DAG.

| Component | State it keeps | Operations | Interacts with |
|---|---|---|---|
| Two-phase commit of workflow manifests (`services/state/eventual_consistency_guard.py`) | S3 blocks with tags, reference counts and manifest items in DynamoDB, `manifests/{id}.json` markers | `create_manifest_with_consistency`: upload, count, put, mark, confirm; roll back; schedule GC | publishers of one workflow (shared blocks), the GC queue |
| Background GC (`handlers/core/background_gc.py`, `process_dlq_gc_message`) | none; messages in SQS | look at the object, delete it | the queue, blocks of running commits |
| State deltas (`services/state/state_versioning_service.py`) | blocks tagged temp/ready, reference counts, manifests with parents, the workflow row's `latest_manifest_id`/`latest_segment_id` | `save_state_delta`, `load_latest_state` | the segment runner, other executions of the workflow |
| Kernel loop (`segment_runner_service.py`, `universal_sync_core.py`, `state_data_manager.py`, the state machine) | the state bag: segment, partition map, branches, loop counter, `current_manifest_id`, flags | run a segment, fork and aggregate branches, compute `next_action`, merge results | everything else |
| Human-in-the-loop (`store_task_token.py`, `resume_handler.py`, `merge_callback`) | TaskTokens table and its index, the task waiting in Step Functions | pause, store the token, resume, merge the answer | users (concurrent clicks), heartbeat timeout |
| Merkle GC (`merkle_gc_service.py`) | reference counts, freeze flags, `zero_reached_at` | TTL expiry, decrement, verify, delete, freeze, mark rollback orphans | DynamoDB Streams, writers |
| Retry and circuit breakers (`common/retry_utils.py`), concurrency controller (`services/quality_kernel/concurrency_controller.py`) | breaker state in memory or Redis; slots and batches | allow, record success/failure; acquire, release, batch | concurrent threads and Lambdas |
| Distributed map (`prepare_distributed_execution.py`, `process_segment_chunk.py`, `aggregate_distributed_results.py`, ...) | chunks and their results in S3, chunk task tokens | prepare, process, pause and resume a chunk, aggregate | the state machine's Map state |
| Starting executions (`run_workflow.py`, the first states of the state machine, `handlers/utils/finalizer.py`) | the idempotency table: one item per key with status, `executionArn`, `ttl` | claim a key, consult and re-claim it, start, record; check the key; record the end | concurrent clients and their retries, EventBridge, expiry in DynamoDB |
| Execution records (`indexer.py`, `stop_execution.py`, `delete_execution.py`, `execution_progress_notifier.py`, `notify_result.py`) | the executions table behind the UI | upsert, stop, delete, notify | EventBridge, users |
| Agent bridge (`bridge/`), speculation (`speculative_controller.py`), time machine, checkpoints, governance | proposals and verdicts, one active handle, manifests, rules | propose/commit, verify in the background, roll back | the kernel loop |
| LLM clients, designers, skills, frontend, infrastructure, simulator | - | - | - |

### What is hard here

*Interleaving and atomicity*: blocks are shared between calls that do not know
of each other; consumers look at an object and delete it in two steps.
*Partial failure*: a remote call may take effect and report an error, a loop of
batches may stop in the middle, and some failures are logged and survived.
*Crashes and retries*: a Lambda dies anywhere; Step Functions runs the segment
again with the bag it had. *Delivery*: SQS repeats messages, users click twice,
an index lags behind its table, an SDK repeats a request whose answer was lost.
*Stale state*: a table item or pointer left by an earlier pause or another
execution is taken for one's own. `PROJECT.json` lists each of these hazards at
its line with the properties about it, and says why where there is none.

## 2. Modules

| Module | Models |
|---|---|
| `ManifestCommit` | abstract: what a caller of `create_manifest_with_consistency` may rely on |
| `EventualConsistencyGuard` | the calls, one action per remote call of each phase |
| `BackgroundGC` | EXTENDS the calls with both consumers of the GC queue; safety and fair specifications |
| `BackgroundGCProofs` | theorems about the two modules above |
| `ManifestChain` | abstract: what the manifests of a workflow and its pointer promise whoever follows them |
| `StateDelta` | `save_state_delta` as called by the segment runner, in several executions of one workflow |
| `StateDeltaProofs` | theorems about `StateDelta`, with the refinement of `ManifestChain` |
| `OneAnswer` | abstract: a pause takes one answer, and success is told only of an answer that was taken |
| `HitpCallback` | pauses of one execution: state machine, `store_task_token`, table and index, `resume_handler` with its validation, merge |
| `HitpCallbackProofs` | theorems about `HitpCallback`, with the refinement of `OneAnswer` |
| `SegmentOrder` | abstract: the segments of a workflow are taken in order, and success means all of them |
| `KernelLoop` | the state machine's loop, the answers of the segment runner, the sync core, pauses and the Map over branches |
| `KernelLoopProofs` | theorems about `KernelLoop`, with the refinement of `SegmentOrder` |
| `KeyLease` | abstract: an idempotency key is a lease that one request at a time holds |
| `StartExecution` | requests, executions and the finalizer of one idempotency key |
| `StartExecutionProofs` | theorems about `StartExecution`, with the refinement of `KeyLease` |
| `MCBackgroundGC`, `MCStateDelta`, `MCHitpCallback`, `MCKernelLoop`, `MCStartExecution` | constants of the small instances |

Definitions marked "Faulty variant" are not part of any specification: each
changes one definition the way a plausible bug would, and TLC finds the
property it is listed with in `PROJECT.json` violated when the variant takes the
definition's place.

### EventualConsistencyGuard and BackgroundGC

A call (`t \in Txns`) is a control location `pc[t]` and what its local variables
hold: `up` is the length of `block_uploads`, `counted` the references its batches
have added, `pos` the position of the loop it is in, `attempt` the attempts of
the manifest put. An object in S3 is its tags (`s3[b]`: status and
`upload_nonce`); a block id is the hash of its content, so calls with equal
content write one key. The nonce of an upload is the pair (call, index).

| Action | Code |
|---|---|
| `UploadBlock`, `UploadFails` | Phase 1, one `put_object` per block |
| `RollbackBlock` | `_rollback_s3_uploads` |
| `CountRefs`, `CountRefsFails` | `_batch_update_block_references`, one transaction |
| `Commit`, `CommitTransient`, `CommitFails`, `CommitRefused` | the retry loop around the manifest put |
| `WriteMarker` | Phase 2.5 |
| `ConfirmBlock`, `ConfirmFails` | Phase 3 |
| `ScheduleGc` | `_schedule_gc`, one SQS batch |
| `HeadMissing`, `HeadFound`, `DeleteObject`, `DeleteFails` | `delete_orphan_block` of the deployed Lambda |
| `TagsSkip`, `TagsMatch`, `TagsUnreadable`, ... | `process_dlq_gc_message`, which nothing calls |
| `Crash` | the Lambda dies before any of its steps |

`applied = TRUE` in a failing action: the call took effect and its answer was
lost. The 300 s delay of the messages is not modelled: it makes some orders less
likely and forbids none (a Lambda's retries and a queue's delay are unrelated).
`ConfirmFails` ends Phase 3 at the first error, after a tag that was set or not.
A call that ends with "rollback" or "schedule" raises; the caller's reaction is
outside the module. Parent hashes, metadata and TTL of the items are data.

### StateDelta

An execution's current invocation is `pc`, `delta` (the blocks of its state),
`todo` (those the current phase has left), `uploadErr` and `attempt`; the state
bag is `seg`, `current` (`current_manifest_id`) and `flagged`
(`__merkle_save_failed`). Uploads and tagging run in a thread pool, hence in any
order; the batches of Phase 2a are taken in any order too (the code's order is
that of a dict), and the manifest rides in the last. `latest` is the workflow's
row, shared by its executions. `Respond` is the return to Step Functions, which
ends or goes on with the next segment; `Crash` and `Reinvoke` are the Retry of `ExecuteSegmentDirect`. Not
modelled: the incremental hashes (a failure falls back), the fan-out branches of
a parallel group, and removal of manifests. Not modelled either: where no bucket is
set, or `USE_V3_STATE_SAVING` is false, the runner skips the save with a log entry and
without the flag (`segment_runner_service.py:3516-3517`, `3573-3574`), so
`UnflaggedChainComplete` is about deployments that do save.

### HitpCallback

`sfn` is the execution as Step Functions sees it, `pause` its latest task token;
`item` and `index` are the table's item of the execution and what the secondary
index shows; `store` is each pause's `store_task_token` invocation; `req` and
`token` are the resume requests, which are invoked again and again. Repeats of a
put or delete by the SDK are the `answered = FALSE` cases. `skipped` is a history
variable: pauses whose put met the item of another pause.

| Action | Code |
|---|---|
| `Pause`, `Finish`, `HeartbeatTimeout`, `Merge`, `MergeFails` | `WaitForHITPCallback` and what surrounds it |
| `Put`, `StoreRaises`, `AutoResume`, `AutoResumeLate`, `AutoResumeInvalid` | `store_task_token` and its `_mock_auto_resume` |
| `Ask`, `Query`, `LookupFails` | a resume request and its look-up (404, 500) |
| `Refuse` | the "Hard validation" (`resume_handler.py:316-324`): 500, nothing is sent |
| `Send`, `SendUnanswered`, `SendLate` | `send_task_success`: taken, taken without an answer, 410 or 404 |
| `Delete`, `RequestFails` | the conditional delete; any other exception, or the end of the Lambda |

`config` says whether the context stored with a token has a `workflow_config`,
which is the same for all pauses of an execution. The constant `Contexts` holds the
values it may have. With `aws_step_functions_v3.json` it is `{FALSE}`: the waiting
task passes the bag only, and no bag has a `workflow_config`. It is TRUE for a caller
that passes one, as `WaitForCallback` of `aws_step_functions_distributed.json`
(905-924) and the tests of the two handlers do. `hitp` and the theorems cover both;
`hitp_token` and `hitp_context` are about the first.

What an answer contains is left out. One thing about it was seen while modelling:
`resume_handler` calls it `userResponse`, `human_response` and `user_callback_result`,
`merge_callback` reads `user_response`, which only the automatic resume sets. In the
deployed state machine no person's answer comes that far (finding 4), so nothing
is stated about it.

`Expire` never takes the item of a pause that waits: the item's `ttl` and the
task's `HeartbeatSeconds` are both a day, the heartbeat timer starts first, and
nobody sends heartbeats. `index` may keep a deleted item's token until
`Replicate`; several skipped intermediate states collapse into one, as in an
eventually consistent read. A request looks up the index by `execution_id` or
the table by `conversation_id` (the same string here).

### KernelLoop

One execution under the default strategy. `pc` is the state of the state machine
(choice states are part of the state before them), `bag` the three fields of the
state bag that route (`segment_to_run`, `loop_counter`, `pending_branches`),
`nextAction` what the sync core computed. `plan` is the partition, fixed when an
execution starts: what `execute_segment` answers depends on the kind of the
segment only (`Answer`), and only the fields `_finalize_response` copies arrive. An
`aggregator` segment is of the kind `plain`, or `hitpEdge` when it has such an edge: it
answers alike, with its results, which are data (its `map_error` branch reads a field
no component writes to the bag).

| Definition | Code |
|---|---|
| `SegmentAnswers`, `SegmentFails`, `LambdaDies` | `ExecuteSegmentDirect`: `execute_segment` with its sealing by `universal_sync_core`; FAILED, HALTED, SIGKILL; the task's Retry |
| `SyncDelta`, `CallbackDelta`, `AggregateDelta` | `flatten_result` for the actions sync, merge_callback, aggregate_branches |
| `Merge`, `NextAction`, `Synced` | `merge_logic`, `_compute_next_action`, the pipeline around them |
| `EvaluateNextAction`, `IncrementLoopCounter` | the router, the counter with `CheckLoopLimit` |
| `HumanApproves`, `PauseTimesOut`, `MergeCallbackResult`, `StateDataManagerDies` | `WaitForHITPCallback` and what follows; `HumanApproves` is an answer of either origin, a request or the automatic resume |
| `StartMap`, `HydrateBranch`, `BranchRuns`, `BranchRunFails`, `SyncBranch`, `MapFails`, `HistoryFull`, `MapEnds` | `ProcessParallelBranches`, its iterations concurrent up to `max_concurrency` |
| `AggregateParallelResults` | `aggregate_branches` and the clean-up of the sync core |

A branch runs the segment the main loop's bag points at, since the runner hydrates
its event to `state_data`; `strayed` records those segments. `ran`, `taken`,
`approved`, `mapped` and `strayed` are histories. `MaxAttempts` stands for the two
Retry entries of the task, `MaxRounds` for the 25,000 events of an execution's
history, which end a branch that does not end by itself. Not modelled: the
strategies MAP_REDUCE and BATCHED, the E2E proxy, contents of the state, and
`HandleAsyncLLM`: the runner answers PAUSED_FOR_ASYNC_LLM to nobody (an `async`
segment goes on like a plain one), so no execution gets there.

`segment_runner_handler.py` (37, 105-130, 172-192) looks up finished segments before
it runs one, but in the table of `TASK_TOKENS_TABLE_NAME`, which `template.yaml:144`
sets for every function and whose key is not `idempotency_key`: look-up and record
fail with a warning each time. So `LambdaDies` repeats the segment's work, and
`RunsOnlyRetried` says how often.

### StartExecution

All requests, executions and events of one idempotency key (a client's or
`{owner}#auto#{workflow}#{content_hash}`). `item` is the key's item, `replica` what an
eventually consistent read may still see of it; `at`, `attempts` and `named` are the
invocations of `run_workflow`; `state` and `starter` the executions. `claim` is a
history: whether a request has had the key and lost it, to the item's expiry or
to its mark FAILED.

| Definition | Code |
|---|---|
| `Claim`, `ClaimFails` | the conditional put (387); a put sent again by the SDK meets its own item |
| `Consult` | the look-up after a refused put (394-453), eventually consistent |
| `Reclaim`, `ReclaimFails` | the conditional update FAILED -> IN_PROGRESS (422-439) |
| `Refuse` | quota, offload and configuration errors between claim and start |
| `Start`, `StartFails` | `retry_call(start_execution)`, without an execution name; a call may take effect unanswered |
| `Record` | the update with `executionArn` and `ttl` (809), which creates an expired item anew |
| `Verify`, `VerifyFails` | `VerifyIdempotencyKey`, `HandleIdempotencyError`, `EvaluateIdempotency` |
| `Finalize` | `finalizer.py` on an event of the execution's end, late, repeated or never |
| `Expire`, `Replicate`, `Die`, `End` | DynamoDB, Lambda and Step Functions |

Time appears in one place: `ttl` is the set of requests in flight when it was
written, and an item expires only when these have ended, since an invocation
lives at most 30 s and an item 300 s (a day after the finalizer). The re-claim
does not renew the `ttl`. Answers other than a cached result are not told apart.
`Executions` bounds how many executions start. Seen while modelling: the words
`EvaluateIdempotency` compares with (RUNNING, SUCCEEDED) are written by nobody, so
duplicates are never recognised there and only the missing `executionArn` stops an
execution; and since a re-claimed item keeps the old `executionArn`, the execution
that follows a failed one passes the check even before it is recorded
(`RunsOnlyNamed` excepts it). Not modelled: the record for the UI and `MOCK_MODE`.

## 3. Runs

| Run | Bounds | Shows |
|---|---|---|
| `guard_safety` | two calls sharing a block, one of them repeating it across batches; batches of 2; 2 attempts; both consumers | `ManifestReferencesCounted`, `LossNeedsFailedSharer`, `CallsAdvance`, refinement of `ManifestCommit` |
| `guard_liveness` | as above, a block repeated within one transaction, deployed consumer | `EveryCallEnds`, `OrphansCollected` |
| `manifest_blocks` | deployed consumer | documented invariant violated (finding 1) |
| `state_delta` | two executions with 2 and 1 invocations, two blocks, one update per transaction, 2 attempts, 2 segments | pointer, counts, tags and chain; refinement of `ManifestChain` |
| `delta_own_state` | both executions with 2 invocations | documented behaviour violated (finding 2) |
| `hitp` | two pauses, two request processes that may be invoked any number of times, contexts of both sorts | `StoredTokenStays`, `OkMeansTaken`, `AnswerGetsThrough`, refinement of `OneAnswer` |
| `hitp_token`, `hitp_context` | the same, with the deployed contexts | findings 3 and 4 |
| `kernel_loop` | three segments, 7 kinds in any order and one group (with or without a pause) among plain segments and gates; width 2; loop limits 1 and 3; one retry; two rounds of a branch | order, approvals, retries, loop limit, `NeverGoesBack`, termination, refinement of `SegmentOrder` |
| `kernel_branches` | a group, a segment after it, branch limit 1, three rounds | finding 5 |
| `kernel_success` | a group with a HITP edge, a segment after it | finding 6 |
| `start` | three requests, two executions, two calls of `start_execution` per request | `OneStarterUntilFailure`, `DuplicatesExplained`, `CachedMeansSucceeded`, `RunsOnlyNamed`, `KeyFreed`, refinement of `KeyLease` |

Why these bounds are enough to be interesting: with lists of up to three blocks
and batches of two, every loop runs zero times, once with a full batch and twice with a
last batch that is not full; two attempts give a first, a last and a lost
answer in between; two calls suffice for every conflict the code has, which is
between one call and one other party (a call, a consumer), and the theorems hold
for any number. In `state_delta` the batch size 1 makes every state of two
fields a multi-transaction save, two invocations a chain or a
retry, and the second execution the late or foreign save.
In `hitp` two pauses are what it takes for anything left by one to meet the
next, and two requests for any race between clicks. In
`kernel_loop` three segments give a first, a middle and a last one, so that each
reading of `segment_to_run` (last that ran, next to run) meets each of its bounds;
a limit below the number of segments is exceeded and one equal to it never is;
two branches finish in any order, one waiting for the other when `max_concurrency`
is reached in the larger groups a pause leaves behind. In `start` two requests race
and a third comes back after a failure or an expiry; two executions are a
duplicate of one request, or the second run of a key while events of the first
still arrive; two calls are a lost answer and its retry. All runs turn the deadlock
check off: the systems stop when every call, execution or workflow has ended.

### Fairness

`BackgroundGC!FairSpec`: a Lambda that has not crashed runs on (weak fairness of a
call); SQS hands out a message until it is acknowledged (`template.yaml`: the
queue has no redrive policy; a message is kept 14 days, which at one delivery
per 5 minutes is far beyond the retries a transient fault needs); S3 does not
refuse the same delete for ever (strong fairness of the acknowledged delete).
Nothing is assumed of failures: they may always happen, or never.

`HitpCallback!FairSpec`: the user asks again when no request is running, requests
end, the index catches up, and what fails now and then, the look-up and a
`SendTaskSuccess` for a context that passed the validation, tried again and again,
succeeds at some time. The refusal of a context is no such failure, since it is the
same at every attempt: nothing is assumed against it, and `AnswerGetsThrough`
promises the user only to get as far as that (`Refused`) when `config` is FALSE.
Nothing is assumed of deletes, expiry or the timeout. The property has the
precondition that the pause's token was put; `hitp_token` shows what happens otherwise.

`KernelLoop!FairSpec`: weak fairness of the system as a whole. Step Functions is
durable and takes a next step while there is one, a Lambda answers, dies or times
out, and a heartbeat that stays away ends a wait. Nothing is assumed of the human,
of failures, or of which branch runs first: `EveryExecutionEnds` holds since every
cycle of the loop is counted or bounded.

`StartExecution!FairSpec`: Lambda ends every invocation (its timeout), and DynamoDB
deletes an item whose `ttl` has passed. Nothing is assumed of executions, of the
finalizer's events, or of any call's success: `KeyFreed` rests on the `ttl` alone.

## 4. Proofs

Every invariant, every action property and every refinement that a passing run
checks is also a theorem, for all values of the constants; what is left to TLC
alone is said at the end of this section.

**`BackgroundGCProofs`**, for every set of calls, block lists, workflows, consumers
and limits, from the assumptions of the two modules (finitely many calls, lists
of blocks, positive limits): type correctness, `ManifestReferencesCounted`,
`LossNeedsFailedSharer`, `Spec => RefinesManifestCommit` and `CallsAdvance`. None of
the invariants is inductive alone. `IndInv` adds
`PhaseInv` (what a call has uploaded and counted at each location, which ties
`counted` to the manifest), `MessageInv` (every GC message, queued or in hand, is
about an upload of a call on its error path: so only such calls make the GC
delete), `LossInv` (the form of the loss property that covers calls before their
commit too) and `CountInv` (the reference count bounds the number of calls that
have *counted* a block: a batch raises both sides by one per block, whereas
stored manifests are counted later). The refinement maps `credited` to the calls
with `counted = Length`, and needs `PhaseInv` in each step that stores or returns.
`CallsAdvance` says that a step of a call either enters a later phase (`PhaseRank`)
or goes on in the loop of its phase, whose position or number of attempts grows
below a bound (`IteratesIn`); the bounds come from `PhaseInv`.

**`HitpCallbackProofs`**, for any finite or infinite set of requests, any number
of pauses and contexts of either sort: type correctness, `StoredTokenStays`, `OkMeansTaken` and
`Spec => RefinesOneAnswer`. `AnswerInv` is
the strengthening: a pause that waits has no answer, and later pauses have none
and are not stored. A request about to delete holds the token of a pause it
answered (`OkMeansTaken`), so its token differs from that of the waiting pause,
and its conditional delete leaves that item alone. For the refinement
`AnsweredInv` says that the pauses before the latest one are all answered; the steps
of the machine, of Step Functions, of the table and of the requests are mapped in a
lemma each, and `ConfirmedStep` says which of them change who is told of success.

**`KernelLoopProofs`**, for every partition, width, limits, number of retries and
rounds: type correctness, `RunsInOrder`, `RunsOnlyRetried`, `NextWaitsForHuman`,
`LimitSparesRuns`, `Spec => RefinesSegmentOrder` and `NeverGoesBack`. `RunsInOrder` is
not inductive: nothing in it says
where the bag points. `LoopInv` says it at each state of the machine: at
`ExecuteSegment` the segments below `segment_to_run` are exactly those taken, or
the bag points at the last one again and fails; after an answer the pointer is
one ahead, or the answer ended the loop; at the merge of a callback the pause
before the pointer is approved; at the aggregation the pointer has passed the
group. The refinement follows from the same invariant, one lemma per action on
what a step does to `taken` and `status`. `RunsOnlyRetried` bounds the work on each
segment: `RetryInv` counts it against the attempts of the running task for the segment
the bag points at, and says that a segment the loop is still on its way to has none. `NeverGoesBack`
gives each state of the loop its place: the segment it works on, the stage of that
segment's round, the attempt or the branches' rounds; `Forward` proves, one
case per action, that no step stays or goes back in the lexicographic order. Since
each component is bounded (`TypeOK`), no execution can step for ever.

**`StateDeltaProofs`**, for every set of executions, blocks, segments, updates per
transaction and attempts: type correctness, `PointerNamesManifest`,
`PointerCoversAnswered`, `ReferencesCounted`, `TagsAgreeWithManifests`,
`UnflaggedChainComplete` and `Spec => RefinesManifestChain`. The invariant
follows one save: until its last transaction its manifest id is fresh and its
blocks, once uploaded, are in S3; from the pointer update on its own manifest is
stored with its segment. Only one execution moves in a step: `Shape` says what it may
do to pointer and manifests, one lemma per phase. `ReferencesCounted` needs `CountInv`: the
count bounds the number of stored manifests *plus* the saves that have sent the
block in one of their transactions, so that the last transaction, which stores
the manifest, moves an id from one set to the other. `UnflaggedChainComplete` says that
a sequence of manifests *exists*, one per answered segment, each the parent
of the next; `ChainInv` keeps such a sequence for an unflagged bag, and an answered
save appends one manifest to it, so no induction over the chain is needed. The
refinement needs `ParentInv`: the manifest a bag names is stored, of the bag's own
execution and of a segment before the bag's.

**`StartExecutionProofs`**, for any number of requests, executions and calls: type
correctness, the four safety properties and `Spec => RefinesKeyLease`. `ClaimInv`: a claim in force is the only
one, and its item is in the table and not FAILED, so neither the put's nor the
update's condition holds for anybody else; who starts an execution has had a
claim. `StarterInv`: until an execution has failed, the item's `ttl` outlives the one
request past its claim, so the claim cannot be lost under it. `ResultInv` and
`NameInv` say where statuses and names come from, in the item and in stale copies
of it: COMPLETED from an execution that succeeded, an `executionArn` from a request
that was told it. The refinement maps the claim to the lease; `LeaseInv` adds that
until a failure whoever is past its claim still holds it. After a failure a request
whose claim was lost may come through with a start: `KeyLease` says so, since the
code promises no more.

**Only model-checked**: the properties under fairness (`EveryCallEnds`,
`OrphansCollected`, `AnswerGetsThrough`, `EveryExecutionEnds`, `KeyFreed`), which need
ENABLED and are out of the prover's reach. For the two that state termination the
part that is about the code is proved: `CallsAdvance` and `NeverGoesBack` are the
variants that make them true. The theorems have no hypotheses but the named
assumptions of the modules, which TLC evaluates in every run.

## 5. Findings

1. **A stored manifest can lose its blocks** (`manifest_blocks`), against
   `docs/internals/two-phase-commit.md:314`: rollback and GC delete shared keys, and
   a call whose put took effect but reported a transient error sends its own
   blocks to the GC. `LossNeedsFailedSharer` is what holds instead: the blocks of
   an acknowledged manifest are safe from everything but another failing call
   with the same content. `src/README.md:167` says that GC workers skip committed
   blocks; the deployed one does not look at the tags, and the method that does
   (`process_dlq_gc_message`) has no caller.
2. **Executions of a workflow share one pointer** (`delta_own_state`), and
   `load_latest_state` ignores its `execution_id`.
3. **A pause's token can be dropped as "already stored"** (`hitp_token`): tokens are
   stored under the execution id, and the automatic resume never deletes the item,
   so the next pause of the execution meets it. Its token is then nowhere, and if its
   own automatic resume gives up too, it waits for the heartbeat timeout. Where
   contexts are accepted, a person's answer leaves the item as well, since the
   deployed resume function may not delete items (`template.yaml:1809`).
4. **No person can answer a pause of the deployed state machine** (`hitp_context`):
   the waiting task hands over no `workflow_config`, `store_task_token` stores `{}`, and
   `resume_handler.py:316-324` refuses every request that has found the token with 500.
   Only the automatic resume and the heartbeat timeout end such a pause.
5. **No branch of a Map completes, and none is stopped by its limit**
   (`kernel_branches`): the runner's answer has no `status` where `sync_branch` looks
   for one, and `loop_counter` is the main loop's.
6. **A workflow succeeds without the branches of a group that pauses**
   (`kernel_success`), and likewise without the inner partition of a single branch
   and without scheduled batches.

`PROJECT.json` quotes the lines.

## 6. What is left

The plan is carried out for every part that runs in the deployed system and has a
protocol between concurrent parties. Three parts that were candidates turned out
to have none: the Merkle GC, the circuit breakers and the slots of the concurrency
controller are not reached by deployed code (section 7). If they are connected,
their hazards are: TTL records delivered twice decrementing a count twice, a
counter deleted between a writer's increment and its upload, HALF_OPEN calls that
never report, and slots whose Lambda dies. Of the modelled parts,
`inject_dynamic_segment` and `invalidate_manifest` (no part in saving) and the
strategies MAP_REDUCE and BATCHED remain.

## 7. Not modelled

LLM clients, designers, skills, vector sync, frontend, infrastructure, media and
the simulator keep no protocol state of their own. Partitioning, cycle detection,
hashing and caches are sequential computations on data, better tested than model
checked. Governance rules and quality scores are heuristics over text. Tenant
checks, notifications and metrics do not influence the modelled state.

The distributed map ends before it starts: `prepare_distributed_execution` reads
names it does not define (`idempotency_key`, `owner_id`, `workflow_id`), its state
has no Catch, and the Map passes `chunk_item` where `process_segment_chunk` reads
`chunk_data`. Speculation has no effect either: `check_abort` is called by a
benchmark only, so no segment waits for a verdict or is rolled back by one.

Nothing deployed runs the Merkle GC: `template.yaml` has no stream for it and no
table `BlockReferenceCounts`, the saves count references in
`WorkflowBlockReferencesV3` under other keys, and `increment_block_references` has no
caller. The circuit breakers of `common/retry_utils.py` are re-exported by
`agent_guardrails.py` and called by nobody; the segment runner takes no slot of the
concurrency controller. `check_idempotency.py` was replaced by the state machine's
direct getItem, nothing reaches `async_llm_handler.py`, and `dlq_redrive_handler.py` is
not in the template.

Execution records are a view for the UI. The deployed rule (`template.yaml:4198`)
passes on terminal events only, and an execution has one end, so the indexer and
`notify_result` agree whatever the order; no rule matches the source
`analemma.orchestrator` the state machine publishes under, so the progress notifier
is not invoked. Seen on the way: nothing gives an execution the status RUNNING, which the
conditional update of `stop_execution.py` (106) asks for, so it answers 409 although
it has stopped the execution.

## Running

    tlc -workers 2 -config guard_safety.cfg MCBackgroundGC.tla
    tlapm BackgroundGCProofs.tla

`PROJECT.json` names the module of each configuration.
