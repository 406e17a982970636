------------------------------ MODULE StateDelta ------------------------------
(***************************************************************************)
(* services/state/state_versioning_service.py, save_state_delta and the    *)
(* pointer that load_latest_state starts from, with the caller in          *)
(* segment_runner_service.py: executions of one workflow run segment after *)
(* segment; each segment saves its state as content-addressed blocks in S3 *)
(* (Phase 1, status=temp), counts references and stores a manifest (2a),   *)
(* moves the workflow's latest_manifest_id (2b) and tags the blocks ready  *)
(* (3).  The next segment names current_manifest_id as the parent.         *)
(*                                                                         *)
(* Every remote call is a step; it may fail with its effect or without.    *)
(* A segment's Lambda may crash at any point, its response included; Step  *)
(* Functions then invokes the same segment again with the same state bag.  *)
(***************************************************************************)
EXTENDS Naturals, FiniteSets

CONSTANTS
  Executions,  \* executions of one workflow of one owner
  Blocks,      \* SHA-256 of one field and its value
  Deltas,      \* sets of blocks a segment may have to save
  Segments,    \* total_segments of the workflow
  TxnItems,    \* reference updates per DynamoDB transaction (99 in the code)
  MaxAttempts, \* _POINTER_MAX_RETRIES (3 in the code)
  MaxCalls,    \* bound: Lambda invocations of each execution
  NoManifest   \* no manifest id

ASSUME ExecutionsAssumption == IsFiniteSet(Executions)
ASSUME DeltasAssumption ==
  /\ Deltas \subseteq SUBSET Blocks
  /\ \A d \in Deltas : IsFiniteSet(d) /\ d # {}
ASSUME BoundsAssumption ==
  /\ Segments \in Nat \ {0} /\ TxnItems \in Nat \ {0}
  /\ MaxAttempts \in Nat \ {0} /\ MaxCalls \in [Executions -> Nat \ {0}]

\* A manifest id holds a fresh uuid: here, which invocation drew it.
Ids == Executions \X Nat
ASSUME NoManifestAssumption == NoManifest \notin Ids

VARIABLES
  tags,      \* status tag of each block's object
  refCount,  \* ref_count of each block
  manifests, \* manifest items in DynamoDB
  latest,    \* latest_manifest_id and latest_segment_id of the workflow
  staleLog,  \* manifests logged as GHOST_STATE_RISK
  pc,        \* where an execution's current invocation is
  calls,     \* invocations so far
  delta,     \* blocks of the state being saved
  todo,      \* those the current phase has left
  uploadErr, \* an upload of Phase 1 failed
  attempt,   \* failed attempts of Phase 2b
  seg,       \* segment_to_run of the state bag
  current,   \* current_manifest_id of the state bag
  flagged,   \* __merkle_save_failed of the state bag
  answered   \* history: responses Step Functions has received

tables == <<tags, refCount, manifests, latest, staleLog>>
invocation == <<pc, calls, delta, todo, uploadErr, attempt>>
bag == <<seg, current, flagged, answered>>
vars == <<tables, invocation, bag>>

Manifests ==
  [id : Ids, segment : Nat, parent : Ids \cup {NoManifest}, blocks : SUBSET Blocks]
Phases == {"run", "upload", "commit", "pointer", "tag", "saved", "raised",
           "crashed", "ended"}
Saving == {"upload", "commit", "pointer", "tag"}
Id(e) == <<e, calls[e]>>

Init ==
  /\ tags = [b \in Blocks |-> "absent"]
  /\ refCount = [b \in Blocks |-> 0]
  /\ manifests = {}
  /\ latest = [id |-> NoManifest, segment |-> 0]
  /\ staleLog = {}
  /\ pc = [e \in Executions |-> "run"]
  /\ calls = [e \in Executions |-> 0]
  /\ delta = [e \in Executions |-> {}]
  /\ todo = [e \in Executions |-> {}]
  /\ uploadErr = [e \in Executions |-> FALSE]
  /\ attempt = [e \in Executions |-> 0]
  /\ seg = [e \in Executions |-> 0]
  /\ answered = [e \in Executions |-> 0]
  /\ current = [e \in Executions |-> NoManifest]
  /\ flagged = [e \in Executions |-> FALSE]

Goto(e, phase) == pc' = [pc EXCEPT ![e] = phase]
\* save_state_delta is over, or its Lambda is: its variables are gone.
Leave(e, phase) ==
  /\ Goto(e, phase)
  /\ delta' = [delta EXCEPT ![e] = {}]
  /\ todo' = [todo EXCEPT ![e] = {}]
  /\ uploadErr' = [uploadErr EXCEPT ![e] = FALSE]
  /\ attempt' = [attempt EXCEPT ![e] = 0]

\* The segment has computed its final_state and calls save_state_delta.
Begin(e) ==
  /\ pc[e] = "run"
  /\ \E d \in Deltas :
       /\ delta' = [delta EXCEPT ![e] = d]
       /\ todo' = [todo EXCEPT ![e] = d]
  /\ calls' = [calls EXCEPT ![e] = @ + 1]
  /\ Goto(e, "upload")
  /\ UNCHANGED <<tables, uploadErr, attempt, bag>>

(***************************************************************************)
(* Phase 1: the uploads run in a thread pool, in any order; all of them    *)
(* end before the first error is raised.  A put overwrites tags as well.   *)
(***************************************************************************)
AfterUpload(e, b, err) ==
  IF todo[e] # {b}
    THEN /\ todo' = [todo EXCEPT ![e] = @ \ {b}]
         /\ uploadErr' = [uploadErr EXCEPT ![e] = err]
         /\ UNCHANGED <<pc, delta, attempt>>
    ELSE IF err
      THEN Leave(e, "raised")
      ELSE /\ todo' = [todo EXCEPT ![e] = delta[e]]
           /\ Goto(e, "commit")
           /\ UNCHANGED <<delta, uploadErr, attempt>>

Upload(e, b) ==
  /\ pc[e] = "upload" /\ b \in todo[e]
  /\ tags' = [tags EXCEPT ![b] = "temp"]
  /\ AfterUpload(e, b, uploadErr[e])
  /\ UNCHANGED <<refCount, manifests, latest, staleLog, calls, bag>>

\* Faulty variant: the error of a pooled upload is not looked at.
UploadErrorIgnored(e, b, applied) ==
  /\ pc[e] = "upload" /\ b \in todo[e]
  /\ tags' = IF applied THEN [tags EXCEPT ![b] = "temp"] ELSE tags
  /\ AfterUpload(e, b, FALSE)
  /\ UNCHANGED <<refCount, manifests, latest, staleLog, calls, bag>>

UploadFails(e, b, applied) ==
  /\ pc[e] = "upload" /\ b \in todo[e]
  /\ tags' = IF applied THEN [tags EXCEPT ![b] = "temp"] ELSE tags
  /\ AfterUpload(e, b, TRUE)
  /\ UNCHANGED <<refCount, manifests, latest, staleLog, calls, bag>>

(***************************************************************************)
(* Phase 2a: DynamoDB transactions of at most TxnItems reference updates;  *)
(* the manifest item is in the last one.                                   *)
(***************************************************************************)
Batches(e) ==
  {s \in SUBSET todo[e] : IF Cardinality(todo[e]) <= TxnItems
                            THEN s = todo[e] ELSE Cardinality(s) = TxnItems}
Manifest(e) ==
  [id |-> Id(e), segment |-> seg[e], parent |-> current[e], blocks |-> delta[e]]

\* Faulty variant: the manifest item rides in the first transaction.
ManifestFirst(e, batch) ==
  /\ refCount' = [b \in Blocks |-> refCount[b] + (IF b \in batch THEN 1 ELSE 0)]
  /\ manifests' = IF todo[e] = delta[e] THEN manifests \cup {Manifest(e)} ELSE manifests

Transact(e, batch) ==
  /\ refCount' = [b \in Blocks |-> refCount[b] + (IF b \in batch THEN 1 ELSE 0)]
  /\ manifests' = IF batch = todo[e] THEN manifests \cup {Manifest(e)} ELSE manifests

Commit(e, batch) ==
  /\ pc[e] = "commit" /\ batch \in Batches(e)
  /\ Transact(e, batch)
  /\ todo' = [todo EXCEPT ![e] = @ \ batch]
  /\ Goto(e, IF batch = todo[e] THEN "pointer" ELSE "commit")
  /\ UNCHANGED <<tags, latest, staleLog, calls, delta, uploadErr, attempt, bag>>

\* Faulty variant: the error of a transaction is logged and swallowed.
CommitErrorIgnored(e, batch, applied) ==
  /\ pc[e] = "commit" /\ batch \in Batches(e)
  /\ IF applied THEN Transact(e, batch) ELSE UNCHANGED <<refCount, manifests>>
  /\ todo' = [todo EXCEPT ![e] = @ \ batch]
  /\ Goto(e, IF batch = todo[e] THEN "pointer" ELSE "commit")
  /\ UNCHANGED <<tags, latest, staleLog, calls, delta, uploadErr, attempt, bag>>

\* Any error ends the save; earlier batches stay counted, and a transaction
\* that took effect without an answer leaves a manifest nobody knows of.
CommitFails(e, batch, applied) ==
  /\ pc[e] = "commit" /\ batch \in Batches(e)
  /\ IF applied THEN Transact(e, batch) ELSE UNCHANGED <<refCount, manifests>>
  /\ Leave(e, "raised")
  /\ UNCHANGED <<tags, latest, staleLog, calls, bag>>

(***************************************************************************)
(* Phase 2b: move the pointer unless it is at a higher segment, a refusal  *)
(* that counts as success.  The row is shared by the workflow's executions.*)
(***************************************************************************)
\* Faulty variant: the update has no condition.
AdvancesAlways(e) == pc[e] = "pointer"

Advances(e) == latest.id = NoManifest \/ latest.segment <= seg[e]
MovePointer(e) == latest' = [id |-> Id(e), segment |-> seg[e]]
StartTagging(e) ==
  /\ Goto(e, "tag")
  /\ todo' = [todo EXCEPT ![e] = delta[e]]

UpdatePointer(e) ==
  /\ pc[e] = "pointer"
  /\ IF Advances(e) THEN MovePointer(e) ELSE UNCHANGED latest
  /\ StartTagging(e)
  /\ UNCHANGED <<tags, refCount, manifests, staleLog, calls, delta, uploadErr, attempt, bag>>

\* Faulty variant: one attempt too many.
PointerTransientOnceMore(e, applied) ==
  /\ pc[e] = "pointer"
  /\ applied => Advances(e)
  /\ IF applied THEN MovePointer(e) ELSE UNCHANGED latest
  /\ IF attempt[e] < MaxAttempts
       THEN /\ attempt' = [attempt EXCEPT ![e] = @ + 1]
            /\ UNCHANGED <<pc, todo, staleLog>>
       ELSE /\ staleLog' = staleLog \cup {Id(e)}
            /\ StartTagging(e)
            /\ UNCHANGED attempt
  /\ UNCHANGED <<tags, refCount, manifests, calls, delta, uploadErr, bag>>

\* A retryable error code; after the last attempt the save goes on.
PointerTransient(e, applied) ==
  /\ pc[e] = "pointer"
  /\ applied => Advances(e)
  /\ IF applied THEN MovePointer(e) ELSE UNCHANGED latest
  /\ IF attempt[e] < MaxAttempts - 1
       THEN /\ attempt' = [attempt EXCEPT ![e] = @ + 1]
            /\ UNCHANGED <<pc, todo, staleLog>>
       ELSE /\ staleLog' = staleLog \cup {Id(e)}
            /\ StartTagging(e)
            /\ UNCHANGED attempt
  /\ UNCHANGED <<tags, refCount, manifests, calls, delta, uploadErr, bag>>

\* Any other ClientError: logged, and the save goes on.
PointerRefused(e) ==
  /\ pc[e] = "pointer"
  /\ staleLog' = staleLog \cup {Id(e)}
  /\ StartTagging(e)
  /\ UNCHANGED <<tags, refCount, manifests, latest, calls, delta, uploadErr, attempt, bag>>

\* Not a ClientError (a connection or read timeout): the save raises.
PointerRaises(e, applied) ==
  /\ pc[e] = "pointer"
  /\ applied => Advances(e)
  /\ IF applied THEN MovePointer(e) ELSE UNCHANGED latest
  /\ Leave(e, "raised")
  /\ UNCHANGED <<tags, refCount, manifests, staleLog, calls, bag>>

\* Phase 3: in a thread pool; a failure is logged.
Tag(e, b, tagged) ==
  /\ pc[e] = "tag" /\ b \in todo[e]
  /\ tags' = IF tagged THEN [tags EXCEPT ![b] = "ready"] ELSE tags
  /\ IF todo[e] = {b}
       THEN Leave(e, "saved")
       ELSE /\ todo' = [todo EXCEPT ![e] = @ \ {b}]
            /\ UNCHANGED <<pc, delta, uploadErr, attempt>>
  /\ UNCHANGED <<refCount, manifests, latest, staleLog, calls, bag>>

(***************************************************************************)
(* The segment runner returns the state bag to Step Functions.             *)
(***************************************************************************)
\* Faulty variant: a failed save leaves no trace in the bag (before v3.34).
BagWithoutFlag(e) ==
  /\ current' = [current EXCEPT ![e] = IF pc[e] = "saved" THEN Id(e) ELSE @]
  /\ UNCHANGED flagged

Bag(e) ==
  /\ current' = [current EXCEPT ![e] = IF pc[e] = "saved" THEN Id(e) ELSE @]
  /\ flagged' = [flagged EXCEPT ![e] = @ \/ pc[e] = "raised"]

\* The workflow ends (or fails), or goes on with the next segment.
Respond(e) ==
  /\ pc[e] \in {"saved", "raised"}
  /\ Bag(e)
  /\ answered' = [answered EXCEPT ![e] = @ + 1]
  /\ \/ Goto(e, "ended") /\ UNCHANGED seg
     \/ /\ calls[e] < MaxCalls[e] /\ seg[e] + 1 < Segments
        /\ Goto(e, "run")
        /\ seg' = [seg EXCEPT ![e] = @ + 1]
  /\ UNCHANGED <<tables, calls, delta, todo, uploadErr, attempt>>

\* The Lambda times out or is killed, before its response reached anyone.
Crash(e) ==
  /\ pc[e] \in Saving \cup {"saved", "raised"}
  /\ Leave(e, "crashed")
  /\ UNCHANGED <<tables, calls, bag>>

\* Retry of the state machine's task, while retries are left.
Reinvoke(e) ==
  /\ pc[e] = "crashed"
  /\ Goto(e, IF calls[e] < MaxCalls[e] THEN "run" ELSE "ended")
  /\ UNCHANGED <<tables, calls, delta, todo, uploadErr, attempt, bag>>

Save(e) ==
  \/ Begin(e)
  \/ \E b \in todo[e] :
       \/ Upload(e, b)
       \/ \E applied \in BOOLEAN : UploadFails(e, b, applied)
       \/ \E tagged \in BOOLEAN : Tag(e, b, tagged)
  \/ \E batch \in SUBSET todo[e] :
       \/ Commit(e, batch)
       \/ \E applied \in BOOLEAN : CommitFails(e, batch, applied)
  \/ UpdatePointer(e)
  \/ \E applied \in BOOLEAN : PointerTransient(e, applied)
  \/ PointerRefused(e)
  \/ \E applied \in BOOLEAN : PointerRaises(e, applied)

Next == \E e \in Executions : Save(e) \/ Respond(e) \/ Crash(e) \/ Reinvoke(e)

Spec == Init /\ [][Next]_vars

------------------------------------------------------------------------------

TypeOK ==
  /\ tags \in [Blocks -> {"absent", "temp", "ready"}]
  /\ refCount \in [Blocks -> Nat]
  /\ manifests \subseteq Manifests
  /\ latest \in [id : Ids \cup {NoManifest}, segment : Nat]
  /\ staleLog \subseteq Ids
  /\ pc \in [Executions -> Phases]
  /\ calls \in [Executions -> Nat] /\ \A e \in Executions : calls[e] <= MaxCalls[e]
  /\ delta \in [Executions -> Deltas \cup {{}}]
  /\ todo \in [Executions -> SUBSET Blocks]
  /\ uploadErr \in [Executions -> BOOLEAN]
  /\ attempt \in [Executions -> 0 .. MaxAttempts - 1]
  /\ seg \in [Executions -> 0 .. Segments - 1]
  /\ answered \in [Executions -> Nat]
  /\ current \in [Executions -> Ids \cup {NoManifest}]
  /\ flagged \in [Executions -> BOOLEAN]

Stored(id) == \E m \in manifests : m.id = id
ItemOf(id) == CHOOSE m \in manifests : m.id = id

(* load_latest_state never raises "Manifest not found": whatever failed,   *)
(* was applied without an answer or crashed, the pointer names a manifest  *)
(* that is stored, and its segment is the one the pointer's guard compares.*)
PointerNamesManifest ==
  latest.id # NoManifest =>
    \E m \in manifests : m.id = latest.id /\ m.segment = latest.segment

(* Once a segment's save has returned and its pointer update was not given *)
(* up, the pointer stays at that segment or a later one, for good: no late *)
(* save of another execution moves it back (the v3.33 segment guard).      *)
PointerCoversAnswered ==
  \A e \in Executions :
    current[e] # NoManifest /\ current[e] \notin staleLog =>
      latest.id # NoManifest /\ ItemOf(current[e]).segment <= latest.segment

(* A block is counted at least as often as there are stored manifests that *)
(* hold it, whichever transactions of however many batches got through.    *)
ReferencesCounted ==
  \A b \in Blocks :
    refCount[b] >= Cardinality({m \in manifests : b \in m.blocks})

(* The two phases: every block of a stored manifest is in S3, and a block  *)
(* tagged ready belongs to a stored manifest.                              *)
TagsAgreeWithManifests ==
  /\ \A m \in manifests : \A b \in m.blocks : tags[b] # "absent"
  /\ \A b \in Blocks : tags[b] = "ready" => \E m \in manifests : b \in m.blocks

\* c is the parent chain of e's bag: a manifest of e for every segment that
\* answered, each the parent of the next, the last one current_manifest_id.
IsChain(c, e) ==
  /\ \A i \in 1 .. answered[e] :
       /\ c[i].segment = i - 1 /\ c[i].id[1] = e
       /\ c[i].parent = IF i = 1 THEN NoManifest ELSE c[i - 1].id
  /\ current[e] = IF answered[e] = 0 THEN NoManifest ELSE c[answered[e]].id

(* The v3.34 flag catches every break of the chain: as long as it is not   *)
(* set, the parent chain of current_manifest_id is stored in full and has  *)
(* one manifest for every segment answered so far, in their order, none    *)
(* for an invocation that was retried and none of another execution.       *)
UnflaggedChainComplete ==
  \A e \in Executions :
    ~flagged[e] => \E c \in [1 .. answered[e] -> manifests] : IsChain(c, e)

(* The saves implement ManifestChain: manifests hang below stored parents  *)
(* of earlier segments, and the pointer walks forward over stored ones,    *)
(* whichever calls fail, take effect unanswered, are retried or crash.     *)
Chain == INSTANCE ManifestChain WITH store <- manifests, head <- latest
RefinesManifestChain == Chain!ChainSpec

(* load_latest_state, "execution_id: Execution ID (optional, for querying  *)
(* specific execution state)": right after the pointer step of a save that *)
(* met no error, an execution that loads its state gets one of its own.    *)
LoadsOwnExecution ==
  [][\A e \in Executions :
       pc[e] = "pointer" /\ pc'[e] = "tag" /\ staleLog' = staleLog
         => latest'.id[1] = e]_vars
==============================================================================
