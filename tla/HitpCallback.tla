----------------------------- MODULE HitpCallback -----------------------------
(***************************************************************************)
(* Human-in-the-loop pauses of one execution: the WaitForHITPCallback task *)
(* of aws_step_functions_v3.json, the Lambda it starts                     *)
(* (handlers/core/store_task_token.py), the resume API                     *)
(* (handlers/core/resume_handler.py) and MergeCallbackResult               *)
(* (merge_callback of handlers/utils/universal_sync_core.py).              *)
(*                                                                         *)
(* Every pause gets a fresh task token.  store_task_token puts it into the *)
(* TaskTokens table under the execution id, unless an item is there;       *)
(* resume requests look the item up in a secondary index that lags behind  *)
(* the table, send the answer to Step Functions with the token they found, *)
(* and delete the item.  They refuse to send, with 500, when the context   *)
(* stored with the token has no workflow_config.  Requests run             *)
(* concurrently (second clicks, client retries), with the Lambda of this   *)
(* pause and with that of the next one; each remote call is a step, may    *)
(* fail, and may take effect unanswered.                                   *)
(***************************************************************************)
EXTENDS Naturals

CONSTANTS
  Requests,  \* concurrent invocations of the resume API
  MaxPauses, \* bound: pauses of the execution
  Contexts   \* values of config: {FALSE} under aws_step_functions_v3.json,
             \* which passes store_task_token a bag without workflow_config,
             \* {TRUE} for a caller that passes it (WaitForCallback of
             \* aws_step_functions_distributed.json)

ASSUME PausesAssumption == MaxPauses \in Nat \ {0}
ASSUME ContextsAssumption == Contexts \subseteq BOOLEAN
ASSUME RequestsAssumption == {"auto", "none"} \cap Requests = {}

VARIABLES
  sfn,     \* the execution, as Step Functions sees it
  pause,   \* the task token of the latest pause; 0: none so far
  output,  \* of each pause: who gave the answer Step Functions took
  auto,    \* MOCK_MODE or AUTO_RESUME_HITP
  config,  \* the context stored with a token has the workflow_config
  item,    \* the token in the execution's TaskTokens item; 0: no item
  index,   \* the same, as ExecutionIdIndex has it
  store,   \* the store_task_token invocation of each pause
  skipped, \* history: pauses whose put met another pause's item
  req,     \* where each resume request is
  token    \* the token it has read

machine == <<sfn, pause, output, auto, config>>
tables == <<item, index>>
storing == <<store, skipped>>
requests == <<req, token>>
vars == <<machine, tables, storing, requests>>

Pauses == 1 .. MaxPauses
Tokens == 0 .. MaxPauses

Init ==
  /\ sfn = "segment" /\ pause = 0
  /\ output = [n \in Pauses |-> "none"]
  /\ auto \in BOOLEAN /\ config \in Contexts
  /\ item = 0 /\ index = 0
  /\ store = [n \in Pauses |-> "none"]
  /\ skipped = {}
  /\ req = [r \in Requests |-> "idle"]
  /\ token = [r \in Requests |-> 0]

Waiting(n) == sfn = "waiting" /\ pause = n

(***************************************************************************)
(* The state machine.                                                      *)
(***************************************************************************)
\* EvaluateNextAction: PAUSED_FOR_HITP enters WaitForHITPCallback.
Pause ==
  /\ sfn = "segment" /\ pause < MaxPauses
  /\ sfn' = "waiting"
  /\ pause' = pause + 1
  /\ store' = [store EXCEPT ![pause'] = "put"]
  /\ UNCHANGED <<output, auto, config, tables, skipped, requests>>

Finish ==
  /\ sfn = "segment"
  /\ sfn' = "ended"
  /\ UNCHANGED <<pause, output, auto, config, tables, storing, requests>>

\* HeartbeatSeconds: nobody sends heartbeats; the Catch fails the execution.
HeartbeatTimeout ==
  /\ sfn = "waiting"
  /\ sfn' = "ended"
  /\ UNCHANGED <<pause, output, auto, config, tables, storing, requests>>

\* SendTaskSuccess with the token of a task that waits.
Accept(n, who) ==
  /\ Waiting(n)
  /\ sfn' = "merge"
  /\ output' = [output EXCEPT ![n] = who]

\* merge_callback takes the answer into the bag (its contents are left out,
\* and so are the names of its fields); a failure ends the execution.
Merge ==
  /\ sfn = "merge"
  /\ sfn' = "segment"
  /\ UNCHANGED <<pause, output, auto, config, tables, storing, requests>>

MergeFails ==
  /\ sfn = "merge"
  /\ sfn' = "ended"
  /\ UNCHANGED <<pause, output, auto, config, tables, storing, requests>>

(***************************************************************************)
(* store_task_token.                                                       *)
(***************************************************************************)
\* put_item if there is no item: ConditionalCheckFailed means "already
\* stored".  Without an answer the SDK sends the put again.
Put(n, answered) ==
  /\ store[n] = "put"
  /\ item' = IF item = 0 THEN n ELSE item
  /\ skipped' = IF item \notin {0, n} THEN skipped \cup {n} ELSE skipped
  /\ store' = IF answered
                THEN [store EXCEPT ![n] = IF auto THEN "resume" ELSE "returned"]
                ELSE store
  /\ UNCHANGED <<machine, index, requests>>

\* An error the Lambda raises (or its death) is caught by the waiting task.
StoreRaises(n) ==
  /\ store[n] \in {"put", "resume"}
  /\ store' = [store EXCEPT ![n] = "raised"]
  /\ sfn' = IF Waiting(n) THEN "ended" ELSE sfn
  /\ UNCHANGED <<pause, output, auto, config, tables, skipped, requests>>

\* _mock_auto_resume: with its own token, and without touching the item.
AutoResume(n) ==
  /\ store[n] = "resume"
  /\ Accept(n, "auto")
  /\ store' = [store EXCEPT ![n] = "returned"]
  /\ UNCHANGED <<pause, auto, config, tables, skipped, requests>>

\* TaskTimedOut: somebody else answered, or the execution is over.
AutoResumeLate(n) ==
  /\ store[n] = "resume" /\ ~Waiting(n)
  /\ store' = [store EXCEPT ![n] = "returned"]
  /\ UNCHANGED <<machine, tables, skipped, requests>>

\* InvalidToken at every attempt: given up, and the task goes on waiting.
AutoResumeInvalid(n) ==
  /\ store[n] = "resume"
  /\ store' = [store EXCEPT ![n] = "returned"]
  /\ UNCHANGED <<machine, tables, skipped, requests>>

(***************************************************************************)
(* The table.                                                              *)
(***************************************************************************)
Replicate ==
  /\ index # item
  /\ index' = item
  /\ UNCHANGED <<machine, item, storing, requests>>

\* The ttl of an item (a day) is not over while its task waits: the
\* heartbeat timeout (a day) started before the item was put.
Expire ==
  /\ item # 0 /\ ~Waiting(item)
  /\ item' = 0
  /\ UNCHANGED <<machine, index, storing, requests>>

(***************************************************************************)
(* resume_handler.                                                         *)
(***************************************************************************)
ReqGoto(r, phase) == req' = [req EXCEPT ![r] = phase]
\* The request is answered, or its Lambda dies.
Leave(r) == ReqGoto(r, "idle") /\ token' = [token EXCEPT ![r] = 0]

\* The user knows of a pause, and answers, perhaps again.
Ask(r) ==
  /\ pause > 0 /\ req[r] = "idle"
  /\ ReqGoto(r, "query")
  /\ UNCHANGED <<machine, tables, storing, token>>

\* Faulty variant: an empty result is not looked at.
FoundUnchecked(r) ==
  /\ ReqGoto(r, "send")
  /\ token' = [token EXCEPT ![r] = index]

Found(r) ==
  \E t \in {index, item} \ {0} :
    /\ ReqGoto(r, "send")
    /\ token' = [token EXCEPT ![r] = t]

\* Faulty variant: take the item out of the table before using its token.
QueryAndTake(r) ==
  /\ req[r] = "query"
  /\ Found(r)
  /\ item' = IF item = token'[r] THEN 0 ELSE item
  /\ UNCHANGED <<machine, index, storing>>

\* Query of ExecutionIdIndex by execution_id; get_item of the table by
\* conversation_id, when the request has only that or the query found nothing.
Query(r) ==
  /\ req[r] = "query"
  /\ Found(r)
  /\ UNCHANGED <<machine, tables, storing>>

\* "Hard validation" of the stored context: 500, and nothing is sent.
Refuse(r) ==
  /\ req[r] = "send" /\ ~config
  /\ Leave(r)
  /\ UNCHANGED <<machine, tables, storing>>

Send(r) ==
  /\ req[r] = "send" /\ config
  /\ Accept(token[r], r)
  /\ ReqGoto(r, "delete")
  /\ UNCHANGED <<pause, auto, config, tables, storing, token>>

\* Step Functions took the answer, but the request knows nothing of it: 500.
SendUnanswered(r) ==
  /\ req[r] = "send" /\ config
  /\ Accept(token[r], r)
  /\ Leave(r)
  /\ UNCHANGED <<pause, auto, config, tables, storing>>

\* Faulty variant: a task that is over counts as resumed.
SendLateAsSuccess(r) ==
  /\ req[r] = "send" /\ config /\ ~Waiting(token[r])
  /\ ReqGoto(r, "delete")
  /\ UNCHANGED <<machine, tables, storing, token>>

\* TaskTimedOut, TaskDoesNotExist: 410, 404; the item is left alone.
SendLate(r) ==
  /\ req[r] = "send" /\ config /\ ~Waiting(token[r])
  /\ Leave(r)
  /\ UNCHANGED <<machine, tables, storing>>

\* The look-up: an error of DynamoDB (500), or no item (404).
LookupFails(r) ==
  /\ req[r] = "query"
  /\ Leave(r)
  /\ UNCHANGED <<machine, tables, storing>>

\* Any other exception (500), or the end of the Lambda.  A delete that fails
\* (the role of the deployed function allows reads of the table only) is
\* logged, and answered 200 all the same.
RequestFails(r) ==
  /\ req[r] \in {"send", "delete"}
  /\ Leave(r)
  /\ UNCHANGED <<machine, tables, storing>>

\* Faulty variant: delete_item without its condition.
DeleteWhatever(r, answered) ==
  /\ req[r] = "delete"
  /\ item' = 0
  /\ IF answered THEN Leave(r) ELSE UNCHANGED requests
  /\ UNCHANGED <<machine, index, storing>>

\* delete_item if the item still holds the token; without an answer the SDK
\* sends the delete again.
Delete(r, answered) ==
  /\ req[r] = "delete"
  /\ item' = IF item = token[r] THEN 0 ELSE item
  /\ IF answered THEN Leave(r) ELSE UNCHANGED requests
  /\ UNCHANGED <<machine, index, storing>>

Machine == Pause \/ Finish \/ HeartbeatTimeout \/ Merge \/ MergeFails
Store(n) ==
  \/ \E answered \in BOOLEAN : Put(n, answered)
  \/ StoreRaises(n)
  \/ AutoResume(n)
  \/ AutoResumeLate(n)
  \/ AutoResumeInvalid(n)
Table == Replicate \/ Expire
Resume(r) ==
  \/ Ask(r)
  \/ Query(r)
  \/ LookupFails(r)
  \/ Refuse(r)
  \/ Send(r)
  \/ SendLate(r)
  \/ SendUnanswered(r)
  \/ \E answered \in BOOLEAN : Delete(r, answered)
  \/ RequestFails(r)

Next ==
  \/ Machine
  \/ \E n \in Pauses : Store(n)
  \/ Table
  \/ \E r \in Requests : Resume(r)

Spec == Init /\ [][Next]_vars

(* The user answers until the answer is taken, a request ends, the index   *)
(* catches up, and what may fail now and then, the look-up and a           *)
(* SendTaskSuccess for a stored context that has a workflow_config, does   *)
(* not fail for ever.  Nothing is assumed about deletes, expiry or the     *)
(* heartbeat timeout; a refusal is no such failure, it is what Refuse says *)
(* at every attempt.                                                       *)
Ends(r) ==
  \/ LookupFails(r) \/ Refuse(r) \/ SendLate(r) \/ Delete(r, TRUE) \/ RequestFails(r)

Fairness ==
  /\ WF_vars(Replicate)
  /\ \A r \in Requests :
       WF_vars(Ask(r)) /\ WF_vars(Ends(r)) /\ SF_vars(Query(r)) /\ SF_vars(Send(r))

FairSpec == Spec /\ Fairness

------------------------------------------------------------------------------

TypeOK ==
  /\ sfn \in {"segment", "waiting", "merge", "ended"}
  /\ pause \in Tokens
  /\ output \in [Pauses -> Requests \cup {"auto", "none"}]
  /\ auto \in BOOLEAN /\ config \in Contexts
  /\ item \in Tokens /\ index \in Tokens
  /\ store \in [Pauses -> {"none", "put", "resume", "returned", "raised"}]
  /\ skipped \subseteq Pauses
  /\ req \in [Requests -> {"idle", "query", "send", "delete"}]
  /\ token \in [Requests -> Tokens]
  /\ \A r \in Requests : req[r] \in {"send", "delete"} => token[r] # 0

\* store_task_token has told Step Functions that it stored the token.
Reported(n) == store[n] \in {"resume", "returned"}

(* While a pause waits, the token that was put for it stays in the table:  *)
(* neither a late or repeated delete of an earlier pause's request nor any *)
(* failing request takes it away ("avoids deleting a newly stored token"). *)
StoredTokenStays ==
  \A n \in Pauses : Waiting(n) /\ Reported(n) /\ n \notin skipped => item = n

(* A request that goes on to the delete, to be answered 200, is the one    *)
(* whose answer Step Functions took for that pause; no second one gets     *)
(* there: no double click, none after an automatic resume or a timeout.    *)
OkMeansTaken ==
  \A r \in Requests : req[r] = "delete" => output[token[r]] = r

\* A request holds the token of pause n, and its context is refused.
Refused(n) == ~config /\ \E r \in Requests : req[r] = "send" /\ token[r] = n

(* A user who goes on answering a pause whose token was put gets through,  *)
(* or as far as the code lets anybody: to the refusal of a context without *)
(* workflow_config.  Stale reads of the index, second clicks, lost answers *)
(* and cleanup of earlier pauses keep no request from the pause's token    *)
(* for ever, and the answer from Step Functions when it may be sent.       *)
AnswerGetsThrough ==
  \A n \in Pauses :
    (Waiting(n) /\ Reported(n) /\ n \notin skipped) ~> (~Waiting(n) \/ Refused(n))

(* The pauses implement OneAnswer: whatever the order of clicks, retries,  *)
(* stale reads, automatic resumes and timeouts, each pause takes at most   *)
(* one answer, the next one waits for it, and a request is answered 200    *)
(* only from the very step that made Step Functions take its answer.       *)
Callbacks == INSTANCE OneAnswer WITH
  Answerers <- Requests \cup {"auto"},
  open <- IF sfn = "waiting" THEN pause ELSE 0,
  answers <- output,
  confirmed <- {c \in Requests \X Pauses : req[c[1]] = "delete" /\ token[c[1]] = c[2]}
RefinesOneAnswer == Callbacks!AnswerSpec

(* store_task_token.py:443, on ConditionalCheckFailed: "Already stored by  *)
(* a previous attempt - this is OK (idempotent)".  When the Lambda says so *)
(* and the pause waits, the item holds the token of this pause.            *)
ReportedTokenStored == \A n \in Pauses : Waiting(n) /\ Reported(n) => item = n

(* store_task_token.py:390: "Store the full workflow_config and other      *)
(* state so resume can reconstruct the execution context reliably": a      *)
(* request that holds the token of the pause that waits is not refused for *)
(* what is stored with it.                                                 *)
ContextReconstructed ==
  [][\A r \in Requests : Waiting(token[r]) => ~Refuse(r)]_vars
==============================================================================
