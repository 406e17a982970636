---------------------------- MODULE StartExecution ----------------------------
(***************************************************************************)
(* Starting one workflow with one idempotency key: the API                 *)
(* (handlers/core/run_workflow.py), the key's item in the idempotency      *)
(* table, the first states of aws_step_functions_v3.json, which look the   *)
(* key up again, and handlers/utils/finalizer.py, which records how an     *)
(* execution ended.                                                        *)
(*                                                                         *)
(* Requests with the same key run concurrently.  Every remote call is a    *)
(* step that may fail, and may take effect without an answer; a Lambda may *)
(* die between any two; the event that an execution has ended may arrive   *)
(* late, more than once or never; get_item and the state machine's getItem *)
(* are eventually consistent; DynamoDB deletes the item some time after    *)
(* its ttl.                                                                *)
(***************************************************************************)
EXTENDS Naturals

CONSTANTS
  Requests,      \* invocations of run_workflow with the key
  Executions,    \* bound: executions that may be started
  StartAttempts, \* bound: calls of start_execution by one invocation
  None           \* no executionArn, no request

ASSUME AttemptsAssumption == StartAttempts \in Nat \ {0}
ASSUME NoneAssumption == None \notin Executions \cup Requests

VARIABLES
  item,     \* the key's item
  replica,  \* the item as an eventually consistent read may still see it
  at,       \* where each request is, or what the client was answered
  attempts, \* calls of start_execution that a request at "start" has made
  named,    \* the executionArn that start_execution answered it
  state,    \* of each execution
  starter,  \* the request whose call started it
  claim     \* history: none, held, or lost the claim it had on the key

table == <<item, replica>>
requests == <<at, attempts, named>>
executions == <<state, starter>>
vars == <<table, requests, executions, claim>>

Absent == [status |-> "absent"]
Unset == "unset"  \* an item without status: an update created it
Working == {"consult", "reclaim", "start", "record"}
\* The cached result, or anything else: a start, 409, 429, 500, no answer.
Answers == {"cached", "other"}
InFlight == {r \in Requests : at[r] \in Working}
Done == {r \in Requests : at[r] \in Answers}

(***************************************************************************)
(* ttl holds the requests in flight when it was written.  A Lambda lives   *)
(* 30 seconds and an item at least 300 (24 hours after the finalizer), so  *)
(* the item outlives them, and nothing more is said of the time.           *)
(***************************************************************************)
Statuses == {"IN_PROGRESS", "COMPLETED", "FAILED", Unset}
Arns == Executions \cup {None}
Items == [status : Statuses, executionArn : Arns, ttl : SUBSET Requests]
\* What the readers look at.
Seen(i) == IF i = Absent THEN Absent
           ELSE [status |-> i.status, executionArn |-> i.executionArn]

Init ==
  /\ item = Absent /\ replica = Absent
  /\ at = [r \in Requests |-> "idle"]
  /\ attempts = [r \in Requests |-> 0]
  /\ named = [r \in Requests |-> None]
  /\ state = [e \in Executions |-> "unborn"]
  /\ starter = [e \in Executions |-> None]
  /\ claim = [r \in Requests |-> "none"]

Goto(r, where) ==
  at' = [at EXCEPT ![r] = where] /\ attempts' = [attempts EXCEPT ![r] = 0]
Answer(r) == Goto(r, "other")
\* Claims end with the item and with its mark FAILED.
LoseClaims ==
  claim' = [r \in Requests |-> IF claim[r] = "held" THEN "lost" ELSE claim[r]]
GainClaim(r) == claim' = [claim EXCEPT ![r] = "held"]

(***************************************************************************)
(* The table.                                                              *)
(***************************************************************************)
Replicate ==
  /\ replica' = Seen(item)
  /\ UNCHANGED <<item, requests, executions, claim>>

Expire ==
  /\ item # Absent /\ item.ttl \subseteq Done
  /\ item' = Absent
  /\ LoseClaims
  /\ UNCHANGED <<replica, requests, executions>>

(***************************************************************************)
(* run_workflow.  A put that is not answered is sent again by the SDK and  *)
(* then meets its own item, or its failure is answered with an error.      *)
(***************************************************************************)
\* Faulty variant: the ttl has passed before the request ends.
ShortClaim(r) == [status |-> "IN_PROGRESS", executionArn |-> None, ttl |-> {}]

NewClaim(r) == [status |-> "IN_PROGRESS", executionArn |-> None,
                ttl |-> InFlight \cup {r}]

\* Faulty variant: the put has no condition.
ClaimWhatever(r) ==
  /\ at[r] = "idle"
  /\ item' = NewClaim(r)
  /\ GainClaim(r)
  /\ Goto(r, "start")
  /\ UNCHANGED <<replica, named, executions>>

Claim(r) ==
  /\ at[r] = "idle" /\ item = Absent
  /\ item' = NewClaim(r)
  /\ GainClaim(r)
  /\ \E where \in {"start", "consult", "other"} : Goto(r, where)
  /\ UNCHANGED <<replica, named, executions>>

ClaimFails(r) ==
  /\ at[r] = "idle"
  /\ \/ item # Absent /\ Goto(r, "consult")
     \/ Answer(r)
  /\ UNCHANGED <<table, named, executions, claim>>

\* Faulty variant: a recorded execution counts as the result.
ConsultArnOnly(r) ==
  /\ at[r] = "consult"
  /\ \E seen \in {Seen(item), replica} :
       Goto(r, CASE seen = Absent -> "other"
                 [] seen # Absent /\ seen.executionArn # None -> "cached"
                 [] seen # Absent /\ seen.status = "FAILED" -> "reclaim"
                 [] OTHER -> "other")
  /\ UNCHANGED <<table, named, executions, claim>>

Consult(r) ==
  /\ at[r] = "consult"
  /\ \/ \E seen \in {Seen(item), replica} :
          Goto(r, CASE seen = Absent -> "other"
                    [] seen.status = "COMPLETED" /\ seen.executionArn # None ->
                         "cached"
                    [] seen.status = "FAILED" -> "reclaim"
                    [] OTHER -> "other")
     \/ Answer(r)
  /\ UNCHANGED <<table, named, executions, claim>>

\* Neither the ttl nor the old executionArn is replaced.
Reclaim(r) ==
  /\ at[r] = "reclaim" /\ item.status = "FAILED"
  /\ item' = [item EXCEPT !.status = "IN_PROGRESS"]
  /\ GainClaim(r)
  /\ \E where \in {"start", "other"} : Goto(r, where)
  /\ UNCHANGED <<replica, named, executions>>

ReclaimFails(r) ==
  /\ at[r] = "reclaim"
  /\ Answer(r)
  /\ UNCHANGED <<table, named, executions, claim>>

\* Quota, S3 offload, configuration: the claim stays.
Refuse(r) ==
  /\ at[r] = "start" /\ attempts[r] = 0
  /\ Answer(r)
  /\ UNCHANGED <<table, named, executions, claim>>

Calls(r) == at[r] = "start" /\ attempts[r] < StartAttempts
Retry(r) ==
  /\ attempts[r] + 1 < StartAttempts
  /\ attempts' = [attempts EXCEPT ![r] = @ + 1]
  /\ UNCHANGED at
\* Without a name every call starts another execution.
Starts(r, e) ==
  /\ state[e] = "unborn"
  /\ state' = [state EXCEPT ![e] = "checking"]
  /\ starter' = [starter EXCEPT ![e] = r]

Start(r, e) ==
  /\ Calls(r) /\ Starts(r, e)
  /\ named' = [named EXCEPT ![r] = e]
  /\ Goto(r, "record")
  /\ UNCHANGED <<table, claim>>

\* Faulty variant: one call too many.
StartFailsAgain(r) ==
  /\ at[r] = "start" /\ attempts[r] < StartAttempts
  /\ attempts' = [attempts EXCEPT ![r] = @ + 1]
  /\ UNCHANGED <<executions, at, table, named, claim>>

StartFails(r) ==
  /\ Calls(r)
  /\ \/ \E e \in Executions : Starts(r, e)
     \/ UNCHANGED executions
  /\ Retry(r) \/ Answer(r)
  /\ UNCHANGED <<table, named, claim>>

\* Faulty variant: the update leaves the ttl alone.
RecordedForever(r) ==
  [status |-> IF item = Absent THEN Unset ELSE item.status,
   executionArn |-> named[r],
   ttl |-> IF item = Absent THEN {"never"} ELSE item.ttl]

\* update_item creates the item if it has expired.
Recorded(r) ==
  [status |-> IF item = Absent THEN Unset ELSE item.status,
   executionArn |-> named[r], ttl |-> InFlight]

Record(r) ==
  /\ at[r] = "record"
  /\ item' = Recorded(r) \/ UNCHANGED item
  /\ Answer(r)
  /\ UNCHANGED <<replica, named, executions, claim>>

\* The Lambda dies, at the latest after 30 seconds.
Die(r) ==
  /\ at[r] \in Working
  /\ Answer(r)
  /\ UNCHANGED <<table, named, executions, claim>>

(***************************************************************************)
(* The state machine: CheckIdempotency .. EvaluateIdempotency, and the     *)
(* execution as a whole.                                                   *)
(***************************************************************************)
EvaluateIdempotency(status) ==
  CASE status = "RUNNING" -> "FAILED"       \* FailDuplicateExecution
    [] status = "SUCCEEDED" -> "SUCCEEDED"  \* SucceedDuplicateExecution
    [] OTHER -> "running"                   \* InitializeStateBag

\* Faulty variant: the lookup asks for the status only.
VerifyStatusOnly(e) ==
  /\ state[e] = "checking"
  /\ \E seen \in {Seen(item), replica} :
       IF seen # Absent /\ seen.status # Unset
         THEN state' = [state EXCEPT ![e] = EvaluateIdempotency(seen.status)]
         ELSE state' = [state EXCEPT ![e] = "FAILED"]
  /\ UNCHANGED <<table, requests, starter, claim>>

\* The ResultSelector needs both attributes; without them, and when getItem
\* keeps failing, the execution ends, as run_workflow never sets
\* ALLOW_UNSAFE_EXECUTION.
Verify(e) ==
  /\ state[e] = "checking"
  /\ \E seen \in {Seen(item), replica} :
       /\ seen # Absent /\ seen.executionArn # None /\ seen.status # Unset
       /\ state' = [state EXCEPT ![e] = EvaluateIdempotency(seen.status)]
  /\ UNCHANGED <<table, requests, starter, claim>>

VerifyFails(e) ==
  /\ state[e] = "checking"
  /\ state' = [state EXCEPT ![e] = "FAILED"]
  /\ UNCHANGED <<table, requests, starter, claim>>

\* FAILED stands for TIMED_OUT and ABORTED too.
End(e) ==
  /\ state[e] = "running"
  /\ \E how \in {"SUCCEEDED", "FAILED"} : state' = [state EXCEPT ![e] = how]
  /\ UNCHANGED <<table, requests, starter, claim>>

(***************************************************************************)
(* The finalizer.  Its update has no condition, and its failure is not     *)
(* retried.                                                                *)
(***************************************************************************)
Finalize(e) ==
  /\ state[e] \in {"SUCCEEDED", "FAILED"}
  /\ item' = [status |-> IF state[e] = "SUCCEEDED" THEN "COMPLETED" ELSE "FAILED",
              executionArn |-> e, ttl |-> InFlight]
  /\ IF state[e] = "FAILED" THEN LoseClaims ELSE UNCHANGED claim
  /\ UNCHANGED <<replica, requests, executions>>

Next ==
  \/ Replicate \/ Expire
  \/ \E r \in Requests :
       \/ Claim(r) \/ ClaimFails(r) \/ Consult(r) \/ Reclaim(r) \/ ReclaimFails(r)
       \/ Refuse(r) \/ StartFails(r) \/ Record(r) \/ Die(r)
       \/ \E e \in Executions : Start(r, e)
  \/ \E e \in Executions : Verify(e) \/ VerifyFails(e) \/ End(e) \/ Finalize(e)

Spec == Init /\ [][Next]_vars

\* Lambda ends every invocation, DynamoDB deletes every expired item.
FairSpec ==
  Spec /\ WF_vars(Expire) /\ \A r \in Requests : WF_vars(Die(r))

(***************************************************************************)
(* Properties.                                                             *)
(***************************************************************************)
\* Types of the variables.  An invocation makes at most StartAttempts calls
\* of start_execution, and every item has a ttl.
TypeOK ==
  /\ item \in Items \cup {Absent}
  /\ replica \in [status : Statuses, executionArn : Arns] \cup {Absent}
  /\ at \in [Requests -> {"idle"} \cup Working \cup Answers]
  /\ attempts \in [Requests -> 0..(StartAttempts - 1)]
  /\ named \in [Requests -> Arns]
  /\ state \in [Executions ->
                 {"unborn", "checking", "running", "SUCCEEDED", "FAILED"}]
  /\ starter \in [Executions -> Requests \cup {None}]
  /\ claim \in [Requests -> {"none", "held", "lost"}]

SomeExecution(how) == \E e \in Executions : state[e] = how
PastTheClaim(r) == at[r] \in {"start", "record"}

\* As long as no execution of the key has failed, the claim excludes: only
\* one request at a time is between its claim and its answer.  (The claims
\* of run_workflow.py, the ttl that outlives the Lambda, and the finalizer.)
OneStarterUntilFailure ==
  SomeExecution("FAILED")
  \/ \A r, s \in Requests : PastTheClaim(r) /\ PastTheClaim(s) => r = s

\* Two requests start executions of one key only if one of them has lost its
\* claim, to the ttl or to the mark FAILED: no interleaving of claims,
\* re-claims, stale reads and late records gives the key to two.
DuplicatesExplained ==
  \A d, e \in Executions :
    state[d] # "unborn" /\ state[e] # "unborn" /\ starter[d] # starter[e]
      => claim[starter[d]] = "lost" \/ claim[starter[e]] = "lost"

\* "Returning cached execution result" is answered only when an execution of
\* the key has succeeded.
CachedMeansSucceeded ==
  (\E r \in Requests : at[r] = "cached") => SomeExecution("SUCCEEDED")

\* CheckIdempotency is a gate: unless an execution of the key has failed, none
\* gets past it before a request was told the name of an execution.  One that
\* was started by a call without an answer does not run on its own.
RunsOnlyNamed ==
  (\E e \in Executions : state[e] \in {"running", "SUCCEEDED"})
    => SomeExecution("FAILED") \/ \E r \in Requests : named[r] # None

\* The key implements KeyLease: claims, re-claims, expiry and the finalizer give
\* it to one request at a time, and nobody without it starts an execution, in
\* whatever order the concurrent requests read, write, retry and die.
Lease == INSTANCE KeyLease WITH
  lease <- claim, started <- starter, failed <- SomeExecution("FAILED")
RefinesKeyLease == Lease!LeaseSpec

\* The key is never blocked for ever by a claim that came to nothing: an item
\* that answers 409 gets its result or is deleted.
Blocking == item # Absent /\ item.status \in {"IN_PROGRESS", Unset}
KeyFreed == Blocking ~> ~Blocking
==============================================================================
