------------------------------ MODULE KernelLoop ------------------------------
(***************************************************************************)
(* The kernel loop: aws_step_functions_v3.json invokes the segment runner  *)
(* (services/execution/segment_runner_service.py, execute_segment), which  *)
(* runs one segment and seals its answer into the state bag with           *)
(* handlers/utils/universal_sync_core.py; the next_action of the sync core *)
(* decides where the state machine goes: the next segment, a pause for a   *)
(* human, a Map over the branches of a parallel group, or the end.         *)
(*                                                                         *)
(* One execution under SelectExecutionStrategy's default, ExecuteSegment.  *)
(* The branches of a Map are concurrent.  A Lambda may die with its effect *)
(* done or not, and is invoked again while retries last.                   *)
(***************************************************************************)
EXTENDS Integers, Sequences, FiniteSets

CONSTANTS
  Total,          \* total_segments
  Plans,          \* kinds of segments a partition may have, in order
  Width,          \* branches of a parallel group
  LoopLimits,     \* values of max_loop_iterations
  BranchLimits,   \* values of max_branch_iterations
  MaxConcurrency, \* max_concurrency of the Map
  MaxAttempts,    \* bound: Retry MaxAttempts of a task
  MaxRounds       \* bound: rounds of a branch until the execution's event
                  \* history is full and Step Functions fails it

Segments == 0..(Total - 1)

(***************************************************************************)
(* What execute_segment makes of a segment depends on its config:          *)
(*   plain      nodes to run, or an aggregator (a HITP edge makes it a      *)
(*              hitpEdge): its results are data, and it answers alike;     *)
(*   async      as plain, with an LLM call that asks for async processing; *)
(*   hitpEdge   as plain, with a HITP edge to the next segment;            *)
(*   gate       type hitp;                                                 *)
(*   skipped    marked SKIPPED by the kernel;                              *)
(*   group      parallel_group; hitpGroup with a HITP edge to a branch;    *)
(*   single     parallel_group of one branch with a partition of its own;  *)
(*   batched    parallel_group that the scheduler splits into batches.     *)
(***************************************************************************)
Kinds == {"plain", "async", "hitpEdge", "gate", "skipped",
          "group", "hitpGroup", "single", "batched"}
\* Kinds with work besides the segment's own nodes.
Forking == {"group", "hitpGroup", "single", "batched"}

ASSUME SizesAssumption ==
  /\ Total \in Nat \ {0} /\ Width \in Nat \ {0} /\ MaxConcurrency \in Nat \ {0}
  /\ MaxAttempts \in Nat /\ MaxRounds \in Nat
ASSUME PlansAssumption == Plans \subseteq [Segments -> Kinds]
ASSUME LimitsAssumption == LoopLimits \subseteq Nat /\ BranchLimits \subseteq Nat

None == -1  \* null

VARIABLES
  plan,       \* the partition of this execution
  limits,     \* max_loop_iterations and max_branch_iterations of its bag
  pc,         \* state of the state machine
  status,     \* of the execution
  bag,        \* state_data.bag: segment_to_run, loop_counter, pending_branches
  nextAction, \* state_data.next_action
  attempts,   \* times the current task was retried
  branches,   \* iterations of the Map
  mapError,   \* the Map failed
  ran,        \* history: times the main loop ran each segment
  taken,      \* history: segments whose answer entered the bag
  approved,   \* history: segments whose pause a human ended
  mapped,     \* history: groups whose branches the Map has started
  strayed     \* history: segments of the main partition run by a branch

machine == <<pc, status, attempts>>
fork == <<branches, mapError, mapped, strayed>>
vars == <<plan, limits, machine, bag, nextAction, fork, ran, taken, approved>>

NewBag == [segment_to_run |-> 0, loop_counter |-> 0, pending |-> <<>>]

Init ==
  /\ plan \in Plans
  /\ limits \in [loop : LoopLimits, branch : BranchLimits]
  /\ pc = "ExecuteSegment" /\ status = "RUNNING" /\ attempts = 0
  /\ bag = NewBag
  /\ nextAction = "STARTED"
  /\ branches = <<>> /\ mapError = FALSE
  /\ ran = [s \in Segments |-> 0]
  /\ taken = {} /\ approved = {} /\ mapped = {} /\ strayed = {}

Goto(state) == pc' = state /\ attempts' = 0 /\ UNCHANGED status
End(how) == pc' = "End" /\ status' = how /\ UNCHANGED attempts

(***************************************************************************)
(* The answer of execute_segment.  Only the fields that _finalize_response *)
(* copies into execution_result arrive: the inner partition of a single    *)
(* branch and the batches of the scheduler do not.                         *)
(***************************************************************************)
HasMore(s) == s + 1 < Total
BranchList(s) == [i \in 1..Width |-> s]
Answer(s) ==
  LET answer(how, next) == [status |-> how, next |-> next, branches |-> <<>>]
      forward(how) == answer(how, s + 1)
      last == answer("COMPLETE", None)
  IN  CASE plan[s] \in {"plain", "async"} ->
             IF HasMore(s) THEN forward("CONTINUE") ELSE last
        [] plan[s] = "hitpEdge" ->
             IF HasMore(s) THEN forward("PAUSED_FOR_HITP") ELSE last
        [] plan[s] = "gate" -> forward("PAUSED_FOR_HITP")
        [] plan[s] = "skipped" -> forward("SKIPPED")
        [] plan[s] = "single" -> forward("SEQUENTIAL_BRANCH")
        [] plan[s] = "batched" -> forward("SCHEDULED_PARALLEL")
        [] plan[s] = "group" ->
             [forward("PARALLEL_GROUP") EXCEPT !.branches = BranchList(s)]
        [] plan[s] = "hitpGroup" ->
             [forward("PAUSED_FOR_HITP") EXCEPT !.branches = BranchList(s)]

(***************************************************************************)
(* universal_sync_core: flatten_result turns the answer into a delta,      *)
(* merge_logic lays it over the bag, _compute_next_action reads both.      *)
(***************************************************************************)
Delta(how) == [status |-> how, segment_to_run |-> None, pending |-> <<>>,
               resume |-> FALSE, aggregated |-> FALSE, failedAll |-> FALSE]

\* Faulty variant: a pause stays on its segment.
PauseStays(answer) ==
  [Delta(answer.status) EXCEPT
     !.segment_to_run = IF answer.status = "PAUSED_FOR_HITP"
                          THEN None ELSE answer.next,
     !.pending = answer.branches]

\* final_state holds the bag's own keys, and they win over the answer's.
SyncDelta(answer) ==
  [Delta(IF answer.status = "CONTINUE" /\ answer.next = None
           THEN "FAILED" ELSE answer.status)
     EXCEPT !.segment_to_run = answer.next,
            !.pending = IF bag.pending # <<>> THEN bag.pending
                                              ELSE answer.branches]
CallbackDelta == [Delta("CONTINUE") EXCEPT !.resume = TRUE]
AggregateDelta(results) ==
  [Delta("CONTINUE") EXCEPT
     !.aggregated = TRUE,
     !.failedAll = results # <<>>
                   /\ \A i \in DOMAIN results : results[i] # "COMPLETE"]

\* Faulty variant: the sync core counts the loop as well as the state machine.
MergeCountsLoop(delta) ==
  [bag EXCEPT !.segment_to_run =
                IF delta.segment_to_run # None THEN delta.segment_to_run ELSE @,
              !.loop_counter = @ + 1,
              !.pending = @ \o delta.pending]

\* Lists without a strategy of their own are appended.
Merge(delta) ==
  [bag EXCEPT !.segment_to_run =
                IF delta.segment_to_run # None THEN delta.segment_to_run ELSE @,
              !.pending = @ \o delta.pending]

\* Faulty variant: after a pause segment_to_run is read as the last segment
\* that ran, not as the next one.
ResumeReadsBackward(state, delta) ==
  CASE delta.status = "PAUSED_FOR_HITP" -> "PAUSED_FOR_HITP"
    [] delta.status \in {"FAILED", "COMPLETE"} -> delta.status
    [] delta.segment_to_run = None /\ state.segment_to_run >= Total - 1 ->
         "COMPLETE"
    [] OTHER -> IF state.pending # <<>> THEN "PARALLEL_GROUP" ELSE "CONTINUE"

NextAction(state, delta) ==
  LET done == state.segment_to_run >= Total
      atLast == state.segment_to_run >= Total - 1
  IN  CASE delta.status = "FAILED" -> "FAILED"
        [] delta.status = "COMPLETE" ->
             IF delta.segment_to_run # None THEN "CONTINUE" ELSE "COMPLETE"
        [] delta.status = "PAUSED_FOR_HITP" -> "PAUSED_FOR_HITP"
        [] delta.resume -> IF done THEN "COMPLETE" ELSE "CONTINUE"
        [] delta.aggregated /\ delta.failedAll -> "FAILED"
        [] OTHER ->
             IF delta.status = "CONTINUE" /\ delta.segment_to_run = None /\ atLast
               THEN "COMPLETE"
               ELSE IF state.pending # <<>> THEN "PARALLEL_GROUP" ELSE "CONTINUE"

\* Faulty variant: merge_callback advances the segment that the pause already
\* advanced.
ResumeAdvancesAgain(delta) ==
  LET state == Merge(delta)
  IN  /\ nextAction' = NextAction(state, delta)
      /\ bag' = IF delta.aggregated \/ delta.resume
                  THEN [state EXCEPT !.segment_to_run = @ + 1, !.pending = <<>>]
                  ELSE state

\* What the sync core returns, with the clean-up after aggregate_branches.
Synced(delta) ==
  LET state == Merge(delta)
  IN  /\ nextAction' = NextAction(state, delta)
      /\ bag' = IF delta.aggregated
                  THEN [state EXCEPT !.segment_to_run = @ + 1, !.pending = <<>>]
                  ELSE state

(***************************************************************************)
(* ExecuteSegmentDirect.  The handler turns every exception into the       *)
(* answer FAILED; a Lambda that dies is invoked again with the same bag.   *)
(***************************************************************************)
Current == bag.segment_to_run
RunsSegment == ran' = [ran EXCEPT ![Current] = @ + 1]
MayHaveRun == IF Current \in Segments THEN RunsSegment \/ UNCHANGED ran
                                       ELSE UNCHANGED ran

SegmentAnswers ==
  /\ pc = "ExecuteSegment" /\ Current \in Segments
  /\ RunsSegment
  /\ taken' = taken \cup {Current}
  /\ Synced(SyncDelta(Answer(Current)))
  /\ Goto("EvaluateNextAction")
  /\ UNCHANGED <<plan, limits, fork, approved>>

\* HALTED, SIGKILL, an exception, or no such segment in the manifest.
SegmentFails ==
  /\ pc = "ExecuteSegment"
  /\ MayHaveRun
  /\ Synced(Delta("FAILED"))
  /\ Goto("EvaluateNextAction")
  /\ UNCHANGED <<plan, limits, fork, taken, approved>>

\* Faulty variant: the last retry is followed by another.
OneRetryTooMany ==
  /\ pc = "ExecuteSegment"
  /\ MayHaveRun
  /\ IF attempts <= MaxAttempts
       THEN attempts' = attempts + 1 /\ UNCHANGED <<pc, status>>
       ELSE End("FAILED")
  /\ UNCHANGED <<plan, limits, bag, nextAction, fork, taken, approved>>

\* The handler's look-up of finished segments goes to the task-token table,
\* whose key it does not have, and never finds one: the retry runs again.
LambdaDies ==
  /\ pc = "ExecuteSegment"
  /\ MayHaveRun
  /\ IF attempts < MaxAttempts
       THEN attempts' = attempts + 1 /\ UNCHANGED <<pc, status>>
       ELSE End("FAILED")
  /\ UNCHANGED <<plan, limits, bag, nextAction, fork, taken, approved>>

\* Faulty variant: a pause is not told from the default.
PauseFallsThrough ==
  /\ pc = "EvaluateNextAction"
  /\ CASE nextAction = "FAILED" -> End("FAILED")
       [] nextAction = "COMPLETE" -> End("SUCCEEDED")
       [] nextAction = "PARALLEL_GROUP" -> Goto("ProcessParallelBranches")
       [] OTHER -> Goto("IncrementLoopCounter")
  /\ UNCHANGED <<plan, limits, bag, nextAction, fork, ran, taken, approved>>

EvaluateNextAction ==
  /\ pc = "EvaluateNextAction"
  /\ CASE nextAction = "FAILED" -> End("FAILED")
       [] nextAction = "COMPLETE" -> End("SUCCEEDED")
       [] nextAction = "PAUSED_FOR_HITP" -> Goto("WaitForHITPCallback")
       [] nextAction = "PARALLEL_GROUP" -> Goto("ProcessParallelBranches")
       [] OTHER -> Goto("IncrementLoopCounter")
  /\ UNCHANGED <<plan, limits, bag, nextAction, fork, ran, taken, approved>>

\* With CheckLoopLimit.
IncrementLoopCounter ==
  /\ pc = "IncrementLoopCounter"
  /\ bag' = [bag EXCEPT !.loop_counter = @ + 1]
  /\ IF bag'.loop_counter > limits.loop THEN End("LOOP_LIMIT_EXCEEDED")
                                        ELSE Goto("ExecuteSegment")
  /\ UNCHANGED <<plan, limits, nextAction, fork, ran, taken, approved>>

(***************************************************************************)
(* A pause: the task waits for an answer to its token, at most             *)
(* HeartbeatSeconds; a failing StoreTaskToken is treated as a timeout.     *)
(* An answer is a request's or the automatic resume's (HitpCallback).      *)
(***************************************************************************)
HumanApproves ==
  /\ pc = "WaitForHITPCallback"
  /\ approved' = approved \cup {Current - 1}
  /\ Goto("MergeCallbackResult")
  /\ UNCHANGED <<plan, limits, bag, nextAction, fork, ran, taken>>

\* Faulty variant: only a wait that follows a retry has a heartbeat.
NoHeartbeat ==
  /\ pc = "WaitForHITPCallback" /\ attempts > 0
  /\ End("FAILED")
  /\ UNCHANGED <<plan, limits, bag, nextAction, fork, ran, taken, approved>>

PauseTimesOut ==
  /\ pc = "WaitForHITPCallback"
  /\ End("FAILED")
  /\ UNCHANGED <<plan, limits, bag, nextAction, fork, ran, taken, approved>>

MergeCallbackResult ==
  /\ pc = "MergeCallbackResult"
  /\ Synced(CallbackDelta)
  /\ Goto("EvaluateNextAction")
  /\ UNCHANGED <<plan, limits, fork, ran, taken, approved>>

\* StateDataManager dies: caught in the one state, uncaught in the other.
StateDataManagerDies ==
  /\ pc \in {"MergeCallbackResult", "AggregateParallelResults"}
  /\ End("FAILED")
  /\ UNCHANGED <<plan, limits, bag, nextAction, fork, ran, taken, approved>>

(***************************************************************************)
(* ProcessParallelBranches, a Map over pending_branches.                   *)
(***************************************************************************)
StartMap ==
  /\ pc = "ProcessParallelBranches" /\ branches = <<>>
  /\ IF bag.pending = <<>>  \* ItemsPath finds nothing
       THEN End("FAILED") /\ UNCHANGED <<branches, mapped>>
       ELSE /\ branches' = [i \in DOMAIN bag.pending |->
                              [at |-> "HydrateBranchConfig", rounds |-> 0]]
            /\ mapped' = mapped \cup {bag.pending[i] : i \in DOMAIN bag.pending}
            /\ UNCHANGED machine
  /\ UNCHANGED <<plan, limits, bag, nextAction, mapError, strayed,
                 ran, taken, approved>>

BranchEnds == {"LOOP_LIMIT_EXCEEDED", "PARTIAL_FAILURE"}
Waiting(i) == branches[i].at = "HydrateBranchConfig"
Over(i) == branches[i].at \in BranchEnds
Active == {i \in DOMAIN branches : ~Waiting(i) /\ ~Over(i)}
MoveBranch(i, at) == branches' = [branches EXCEPT ![i].at = at]
notBranch == <<plan, limits, machine, bag, nextAction, mapError, mapped,
               ran, taken, approved>>

HydrateBranch(i) ==
  /\ Waiting(i) /\ Cardinality(Active) < MaxConcurrency
  /\ MoveBranch(i, "ExecuteBranchSegment")
  /\ UNCHANGED <<notBranch, strayed>>

\* The runner hydrates the event to its state_data, the bag of the main loop,
\* and so runs the segment that the bag points at, not one of the branch.
BranchRuns(i) ==
  /\ branches[i].at = "ExecuteBranchSegment" /\ branches[i].rounds < MaxRounds
  /\ branches' = [branches EXCEPT ![i] = [at |-> "SyncBranchState",
                                          rounds |-> @.rounds + 1]]
  /\ strayed' = strayed \cup ({Current} \cap Segments)
  /\ UNCHANGED notBranch

\* Caught: the branch ends as a partial failure, its work done or not.
BranchRunFails(i) ==
  /\ branches[i].at = "ExecuteBranchSegment"
  /\ MoveBranch(i, "PARTIAL_FAILURE")
  /\ \/ strayed' = strayed \cup ({Current} \cap Segments)
     \/ UNCHANGED strayed
  /\ UNCHANGED notBranch

\* The runner's answer {state_data, next_action} has no status, so sync_branch
\* takes it for CONTINUE; loop_counter is the one of the main loop's bag.
SyncBranch(i) ==
  /\ branches[i].at = "SyncBranchState"
  /\ MoveBranch(i, IF bag.loop_counter > limits.branch
                     THEN "LOOP_LIMIT_EXCEEDED" ELSE "ExecuteBranchSegment")
  /\ UNCHANGED <<notBranch, strayed>>

\* An error that no state of the iteration catches, or whose handler refers to
\* a $.branch_error that is not there, fails the Map with all its iterations.
MapFails ==
  /\ pc = "ProcessParallelBranches"
  /\ \E i \in DOMAIN branches :
       branches[i].at \in {"HydrateBranchConfig", "SyncBranchState"}
  /\ branches' = <<>> /\ mapError' = TRUE
  /\ Goto("AggregateParallelResults")
  /\ UNCHANGED <<plan, limits, bag, nextAction, mapped, strayed,
                 ran, taken, approved>>

\* Step Functions fails an execution of 25,000 events.
HistoryFull ==
  /\ pc = "ProcessParallelBranches"
  /\ \E i \in DOMAIN branches : branches[i].rounds = MaxRounds
  /\ End("FAILED")
  /\ UNCHANGED <<plan, limits, bag, nextAction, fork, ran, taken, approved>>

MapEnds ==
  /\ pc = "ProcessParallelBranches" /\ branches # <<>>
  /\ \A i \in DOMAIN branches : Over(i)
  /\ Goto("AggregateParallelResults")
  /\ UNCHANGED <<plan, limits, bag, nextAction, fork, ran, taken, approved>>

Results == [i \in DOMAIN branches |-> branches[i].at]
AggregateParallelResults ==
  /\ pc = "AggregateParallelResults"
  /\ IF mapError THEN nextAction' = "FAILED" /\ bag' = NewBag  \* an error bag
                 ELSE Synced(AggregateDelta(Results))
  /\ branches' = <<>> /\ mapError' = FALSE
  /\ Goto("EvaluateNextAction")
  /\ UNCHANGED <<plan, limits, mapped, strayed, ran, taken, approved>>

BranchStep(i) ==
  HydrateBranch(i) \/ BranchRuns(i) \/ BranchRunFails(i) \/ SyncBranch(i)
Branching ==
  /\ pc = "ProcessParallelBranches"
  /\ \E i \in DOMAIN branches : BranchStep(i)

\* Everything but the human.
SystemStep ==
  \/ SegmentAnswers \/ SegmentFails \/ LambdaDies
  \/ EvaluateNextAction \/ IncrementLoopCounter
  \/ PauseTimesOut \/ MergeCallbackResult \/ StateDataManagerDies
  \/ StartMap \/ Branching \/ MapFails \/ HistoryFull \/ MapEnds
  \/ AggregateParallelResults
Next == SystemStep \/ HumanApproves

Spec == Init /\ [][Next]_vars
\* Step Functions is durable: it takes the next step, and a heartbeat that
\* stays away ends a wait.  Nobody makes the human answer.
FairSpec == Spec /\ WF_vars(SystemStep)

(***************************************************************************)
(* Properties                                                              *)
(***************************************************************************)
States == {"ExecuteSegment", "EvaluateNextAction", "IncrementLoopCounter",
           "WaitForHITPCallback", "MergeCallbackResult",
           "ProcessParallelBranches", "AggregateParallelResults", "End"}
Actions == {"STARTED", "CONTINUE", "COMPLETE", "FAILED", "PAUSED_FOR_HITP",
            "PARALLEL_GROUP"}
Outcomes == {"SUCCEEDED", "FAILED", "LOOP_LIMIT_EXCEEDED"}
BranchPhases == {"HydrateBranchConfig", "ExecuteBranchSegment", "SyncBranchState"}
                  \cup BranchEnds

\* Every variable has its type, and an execution is over when it has an outcome.
TypeOK ==
  /\ plan \in [Segments -> Kinds]
  /\ limits \in [loop : Nat, branch : Nat]
  /\ pc \in States /\ attempts \in 0..MaxAttempts
  /\ status \in Outcomes \cup {"RUNNING"} /\ (pc = "End") = (status # "RUNNING")
  /\ bag \in [segment_to_run : 0..(Total + 1), loop_counter : Nat,
              pending : Seq(Segments)]
  /\ nextAction \in Actions
  /\ branches \in Seq([at : BranchPhases, rounds : 0..MaxRounds])
  /\ mapError \in BOOLEAN
  /\ ran \in [Segments -> Nat]
  /\ taken \subseteq Segments /\ approved \subseteq Segments
  /\ mapped \subseteq Segments /\ strayed \subseteq Segments

\* No segment starts before the answers of all earlier ones are in the bag:
\* what segment_to_run means at each call of the sync core (the segment that
\* ran or the one to run next) never makes the loop skip or jump ahead.
RunsInOrder == \A s \in Segments : ran[s] > 0 => 0..(s - 1) \subseteq taken

\* A segment runs again only when Step Functions retries a Lambda that died:
\* no answer that was merged makes the loop come back to it.
RunsOnlyRetried == \A s \in Segments : ran[s] <= 1 + MaxAttempts

\* What a human has to approve comes before what follows it: neither the main
\* loop nor a branch runs the segment after a pause that nobody ended.
Pauses(s) == plan[s] \in {"gate", "hitpGroup"} \/ (plan[s] = "hitpEdge" /\ HasMore(s))
NextWaitsForHuman ==
  \A s \in Segments :
    Pauses(s) /\ (s + 1) \in {r \in Segments : ran[r] > 0} \cup strayed
      => s \in approved

\* The loop limit is a safety valve only: as long as max_loop_iterations is at
\* least total_segments (initialize_state_data's default always is), pauses,
\* skips and retries never use it up.
LimitSparesRuns == limits.loop >= Total => status # "LOOP_LIMIT_EXCEEDED"

\* Segments are taken in order, and success means all of them were.
Order == INSTANCE SegmentOrder WITH
  status <- IF status = "LOOP_LIMIT_EXCEEDED" THEN "FAILED" ELSE status
RefinesSegmentOrder == Order!OrderSpec

\* Every execution ends: with success, a failure, or at a limit.
EveryExecutionEnds == <>(pc = "End")

\* How far a round is from its end; a round ends when its answer is taken.
Stage ==
  CASE pc = "End" -> 0
    [] pc = "ExecuteSegment" -> 2
    [] pc = "IncrementLoopCounter" -> 3
    [] pc = "AggregateParallelResults" -> 5
    [] pc = "ProcessParallelBranches" -> 6
    [] pc = "MergeCallbackResult" -> 8
    [] pc = "WaitForHITPCallback" -> 9
    [] pc = "EvaluateNextAction" ->
         CASE nextAction \in {"FAILED", "COMPLETE"} -> 1
           [] nextAction = "PARALLEL_GROUP" -> 7
           [] nextAction = "PAUSED_FOR_HITP" -> 10
           [] OTHER -> 4
PhaseRank(at) ==
  CASE at = "HydrateBranchConfig" -> 0
    [] at = "SyncBranchState" -> 1
    [] at = "ExecuteBranchSegment" -> 2
    [] OTHER -> 3
BranchAdvances(old, new) ==
  \/ old.rounds < new.rounds
  \/ old.rounds = new.rounds /\ PhaseRank(old.at) < PhaseRank(new.at)
MapAdvances ==
  \/ branches = <<>> /\ branches' # <<>>
  \/ \E i \in DOMAIN branches :
       /\ BranchAdvances(branches[i], branches'[i])
       /\ branches' = [branches EXCEPT ![i] = branches'[i]]

(* No step, in whatever state its call failed or its answer came, takes    *)
(* the loop back: a segment whose answer is taken is never come back to,   *)
(* and until the next one is taken each step is a later stage, one more    *)
(* retry or one more step of one branch.  Each of these is bounded, so no  *)
(* execution goes round for ever.                                          *)
NeverGoesBack ==
  [][\/ taken \subseteq taken' /\ taken # taken'
     \/ /\ taken = taken'
        /\ \/ Stage' < Stage
           \/ Stage' = Stage /\ (attempts < attempts' \/ MapAdvances)]_vars

\* A branch ends when it exceeds max_branch_iterations (CheckBranchLoopLimit).
BranchRoundsLimited ==
  \A i \in DOMAIN branches : branches[i].rounds <= limits.branch + 1

\* A workflow that succeeded has run the branches of its parallel groups.
SuccessRanBranches ==
  status = "SUCCEEDED" => {s \in Segments : plan[s] \in Forking} \subseteq mapped
==============================================================================
