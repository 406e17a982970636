--------------------------- MODULE KernelLoopProofs ---------------------------
(***************************************************************************)
(* Theorems of KernelLoop for any partition, any number of branches and    *)
(* any limits.  The inductive invariant says, for each state of the state  *)
(* machine, what segment_to_run stands for there: the next segment with    *)
(* all earlier answers in the bag, everywhere but after the aggregation of *)
(* a Map, which always failed.                                             *)
(***************************************************************************)
EXTENDS KernelLoop, SequenceTheorems, TLAPS

\* The answers of all segments before Current are in the bag, and each but the
\* last of them has been counted as a loop.
Advanced ==
  Current \in 1..Total /\ taken = 0..(Current - 1) /\ bag.loop_counter = Current - 1
LastApproved == Pauses(Current - 1) => (Current - 1) \in approved

AtExecute ==
  pc = "ExecuteSegment" =>
    /\ Current \in 0..Total /\ taken = 0..(Current - 1) /\ bag.loop_counter = Current
    /\ Current > 0 => LastApproved
AtEvaluate ==
  pc = "EvaluateNextAction" =>
    /\ nextAction # "STARTED"
    /\ nextAction = "COMPLETE" => taken = Segments
    /\ nextAction \in {"CONTINUE", "PARALLEL_GROUP", "PAUSED_FOR_HITP"} => Advanced
    /\ nextAction \in {"CONTINUE", "PARALLEL_GROUP"} => LastApproved
AtMiddle ==
  /\ pc \in {"IncrementLoopCounter", "ProcessParallelBranches",
             "WaitForHITPCallback", "MergeCallbackResult"} => Advanced
  /\ pc \in {"IncrementLoopCounter", "ProcessParallelBranches"} => LastApproved
  /\ pc = "MergeCallbackResult" => (Current - 1) \in approved
AtAggregate ==
  pc = "AggregateParallelResults" =>
    /\ Current <= Total
    /\ ~mapError => branches # <<>> /\ \A i \in DOMAIN branches : Over(i)
AtEnd == status = "SUCCEEDED" => taken = Segments

LoopInv == AtExecute /\ AtEvaluate /\ AtMiddle /\ AtAggregate /\ AtEnd
IndInv ==
  TypeOK /\ LoopInv /\ RunsInOrder /\ NextWaitsForHuman /\ LimitSparesRuns

Statuses == {"CONTINUE", "COMPLETE", "PAUSED_FOR_HITP", "SKIPPED",
             "SEQUENTIAL_BRANCH", "SCHEDULED_PARALLEL", "PARALLEL_GROUP"}

\* What execute_segment answers: the next segment, unless this was the last.
LEMMA AnswerFacts ==
  ASSUME plan \in [Segments -> Kinds], NEW s \in Segments
  PROVE  /\ Answer(s).status \in Statuses
         /\ Answer(s).branches \in Seq(Segments)
         /\ Answer(s).status = "COMPLETE" => Answer(s).next = None /\ s = Total - 1
         /\ Answer(s).status # "COMPLETE" => Answer(s).next = s + 1
         /\ Answer(s).status = "PAUSED_FOR_HITP" <=> Pauses(s)
<1>1. plan[s] \in Kinds
  OBVIOUS
<1>2. BranchList(s) \in Seq(Segments) /\ <<>> \in Seq(Segments)
  BY SizesAssumption, SMT DEF BranchList
<1>3. s \in Int /\ Total \in Int /\ (~HasMore(s) => s = Total - 1)
  BY SizesAssumption, SMT DEF Segments, HasMore
<1> DEFINE answer(how, next) == [status |-> how, next |-> next, branches |-> <<>>]
           last == answer("COMPLETE", None)
           forward(how) == answer(how, s + 1)
<1>4. CASE plan[s] \in {"plain", "async"}
  <2>1. Answer(s) = IF HasMore(s) THEN forward("CONTINUE") ELSE last
    BY <1>4, SMT DEF Answer
  <2> QED BY <1>2, <1>3, <1>4, <2>1, SMT DEF Statuses, Pauses
<1>5. CASE plan[s] = "hitpEdge"
  <2>1. Answer(s) = IF HasMore(s) THEN forward("PAUSED_FOR_HITP") ELSE last
    BY <1>5, SMT DEF Answer
  <2> QED BY <1>2, <1>3, <1>5, <2>1, SMT DEF Statuses, Pauses
<1>6. CASE plan[s] = "gate"
  <2>1. Answer(s) = forward("PAUSED_FOR_HITP")
    BY <1>6, SMT DEF Answer
  <2> QED BY <1>2, <1>3, <1>6, <2>1, SMT DEF Statuses, Pauses
<1>7. CASE plan[s] = "skipped"
  <2>1. Answer(s) = forward("SKIPPED")
    BY <1>7, SMT DEF Answer
  <2> QED BY <1>2, <1>3, <1>7, <2>1, SMT DEF Statuses, Pauses
<1>8. CASE plan[s] = "single"
  <2>1. Answer(s) = forward("SEQUENTIAL_BRANCH")
    BY <1>8, SMT DEF Answer
  <2> QED BY <1>2, <1>3, <1>8, <2>1, SMT DEF Statuses, Pauses
<1>9. CASE plan[s] = "batched"
  <2>1. Answer(s) = forward("SCHEDULED_PARALLEL")
    BY <1>9, SMT DEF Answer
  <2> QED BY <1>2, <1>3, <1>9, <2>1, SMT DEF Statuses, Pauses
<1>10. CASE plan[s] = "group"
  <2>1. Answer(s) = [forward("PARALLEL_GROUP") EXCEPT !.branches = BranchList(s)]
    BY <1>10, SMT DEF Answer
  <2> QED BY <1>2, <1>3, <1>10, <2>1, SMT DEF Statuses, Pauses
<1>11. CASE plan[s] = "hitpGroup"
  <2>1. Answer(s) = [forward("PAUSED_FOR_HITP") EXCEPT !.branches = BranchList(s)]
    BY <1>11, SMT DEF Answer
  <2> QED BY <1>2, <1>3, <1>11, <2>1, SMT DEF Statuses, Pauses
<1> QED
  BY <1>1, <1>4, <1>5, <1>6, <1>7, <1>8, <1>9, <1>10, <1>11 DEF Kinds

\* merge_logic keeps the bag a bag, and moves segment_to_run as the delta says.
LEMMA MergeFacts ==
  ASSUME TypeOK, NEW delta,
         delta.segment_to_run \in (0..Total) \cup {None},
         delta.pending \in Seq(Segments)
  PROVE  /\ Merge(delta) \in [segment_to_run : 0..(Total + 1), loop_counter : Nat,
                              pending : Seq(Segments)]
         /\ Merge(delta).loop_counter = bag.loop_counter
         /\ Merge(delta).segment_to_run =
              IF delta.segment_to_run = None THEN Current ELSE delta.segment_to_run
<1>1. bag.pending \o delta.pending \in Seq(Segments)
  BY ConcatProperties DEF TypeOK
<1> DEFINE next == IF delta.segment_to_run # None THEN delta.segment_to_run
                                                  ELSE bag.segment_to_run
<1>2. bag \in [segment_to_run : 0..(Total + 1), loop_counter : Nat,
              pending : Seq(Segments)]
  BY DEF TypeOK
<1>3. next \in 0..(Total + 1)
  BY <1>2, SizesAssumption, SMT
<1>4. Merge(delta) = [bag EXCEPT !.segment_to_run = next,
                                 !.pending = bag.pending \o delta.pending]
  BY <1>2 DEF Merge
<1> HIDE DEF next
<1>5. Merge(delta) \in [segment_to_run : 0..(Total + 1), loop_counter : Nat,
                       pending : Seq(Segments)]
  BY <1>1, <1>2, <1>3, <1>4
<1>6. Merge(delta).loop_counter = bag.loop_counter /\ Merge(delta).segment_to_run = next
  BY <1>2, <1>4
<1> QED
  BY <1>5, <1>6 DEF Current, next

\* Of an answer that names the next segment, no next_action but the pause's
\* and the three that go on.
LEMMA ForwardFacts ==
  ASSUME NEW state, NEW delta,
         delta.status \in Statuses, delta.segment_to_run # None,
         delta.resume = FALSE, delta.aggregated = FALSE,
         delta.status # "COMPLETE"
  PROVE  /\ delta.status = "PAUSED_FOR_HITP" =>
              NextAction(state, delta) = "PAUSED_FOR_HITP"
         /\ delta.status # "PAUSED_FOR_HITP" =>
              NextAction(state, delta) \in {"CONTINUE", "PARALLEL_GROUP"}
<1>1. delta.status # "FAILED"
  BY DEF Statuses
<1>2. CASE delta.status = "PAUSED_FOR_HITP"
  BY <1>1, <1>2, SMT DEF NextAction
<1>3. CASE delta.status # "PAUSED_FOR_HITP"
  <2>1. NextAction(state, delta) =
          IF delta.status = "CONTINUE" /\ delta.segment_to_run = None
             /\ state.segment_to_run >= Total - 1
            THEN "COMPLETE"
            ELSE IF state.pending # <<>> THEN "PARALLEL_GROUP" ELSE "CONTINUE"
    BY <1>1, <1>3, SMT DEF NextAction
  <2> QED BY <1>3, <2>1
<1> QED
  BY <1>2, <1>3

\* What the sync core makes of the answer FAILED.
LEMMA FailedFacts ==
  ASSUME NEW state, NEW delta, delta.status = "FAILED",
         delta.resume = FALSE, delta.aggregated = FALSE
  PROVE  NextAction(state, delta) = "FAILED"
BY SMT DEF NextAction

\* After a pause: the end when the bag is past the last segment.
LEMMA ResumeFacts ==
  ASSUME NEW state
  PROVE  NextAction(state, CallbackDelta) =
           IF state.segment_to_run >= Total THEN "COMPLETE" ELSE "CONTINUE"
<1> DEFINE delta == CallbackDelta
<1>1. /\ delta.status = "CONTINUE" /\ delta.resume = TRUE
      /\ delta.aggregated = FALSE
  BY DEF CallbackDelta, Delta
<1> HIDE DEF delta
<1>2. NextAction(state, delta) =
        IF state.segment_to_run >= Total THEN "COMPLETE" ELSE "CONTINUE"
  BY <1>1, SMT DEF NextAction
<1> QED
  BY <1>2 DEF delta

\* After a Map of which no branch completed.
LEMMA AggregateFacts ==
  ASSUME NEW state, NEW results, results # <<>>,
         \A i \in DOMAIN results : results[i] # "COMPLETE"
  PROVE  NextAction(state, AggregateDelta(results)) = "FAILED"
<1> DEFINE delta == AggregateDelta(results)
<1>1. /\ delta.status = "CONTINUE" /\ delta.resume = FALSE
      /\ delta.aggregated = TRUE /\ delta.failedAll = TRUE
  BY DEF AggregateDelta, Delta
<1> HIDE DEF delta
<1>2. NextAction(state, delta) = "FAILED"
  BY <1>1, SMT DEF NextAction
<1> QED
  BY <1>2 DEF delta

\* The sync of a segment's answer: on, to a pause, to a Map, or to the end.
LEMMA SyncFacts ==
  ASSUME TypeOK, Current \in Segments, taken' = taken \cup {Current},
         taken = 0..(Current - 1), bag.loop_counter = Current,
         Synced(SyncDelta(Answer(Current)))
  PROVE  /\ bag' \in [segment_to_run : 0..(Total + 1), loop_counter : Nat,
                      pending : Seq(Segments)]
         /\ bag'.loop_counter = bag.loop_counter
         /\ nextAction' \in {"COMPLETE", "CONTINUE", "PARALLEL_GROUP",
                             "PAUSED_FOR_HITP"}
         /\ nextAction' = "COMPLETE" => taken' = Segments
         /\ nextAction' # "COMPLETE" => Advanced' /\ bag'.segment_to_run = Current + 1
         /\ nextAction' \in {"CONTINUE", "PARALLEL_GROUP"} => ~Pauses(Current)
<1> DEFINE answer == Answer(Current)
           delta == SyncDelta(answer)
<1>0. Total \in Nat /\ Current \in Nat /\ Current < Total /\ Current + 1 \in 0..Total
  BY SizesAssumption, SMT DEF Segments
<1>1. /\ answer.status \in Statuses /\ answer.branches \in Seq(Segments)
      /\ answer.status = "COMPLETE" => answer.next = None /\ Current = Total - 1
      /\ answer.status # "COMPLETE" => answer.next = Current + 1
      /\ answer.status = "PAUSED_FOR_HITP" <=> Pauses(Current)
  BY AnswerFacts DEF TypeOK
<1>2. bag.pending \in Seq(Segments)
  BY DEF TypeOK
<1>3. ~(answer.status = "CONTINUE" /\ answer.next = None)
  BY <1>0, <1>1, SMT DEF None
<1>4. /\ delta.status = answer.status /\ delta.segment_to_run = answer.next
      /\ delta.pending = IF bag.pending # <<>> THEN bag.pending ELSE answer.branches
      /\ delta.resume = FALSE /\ delta.aggregated = FALSE
  <2> HIDE DEF answer
  <2> QED BY <1>3 DEF SyncDelta, Delta
<1> HIDE DEF delta
<1>5. delta.segment_to_run \in (0..Total) \cup {None} /\ delta.pending \in Seq(Segments)
  BY <1>0, <1>1, <1>2, <1>4
<1>6. bag' = Merge(delta) /\ nextAction' = NextAction(Merge(delta), delta)
  BY <1>4 DEF Synced, delta
<1> HIDE DEF answer
<1>7. /\ Merge(delta) \in [segment_to_run : 0..(Total + 1), loop_counter : Nat,
                           pending : Seq(Segments)]
      /\ Merge(delta).loop_counter = bag.loop_counter
      /\ delta.segment_to_run # None => Merge(delta).segment_to_run = delta.segment_to_run
  BY <1>5, MergeFacts
<1>8. CASE answer.status = "COMPLETE"
  <2>1. nextAction' = "COMPLETE"
    BY <1>1, <1>4, <1>6, <1>8, SMT DEF NextAction
  <2>2. taken' = Segments
    BY <1>0, <1>1, <1>8, SMT DEF Segments
  <2> QED
    BY <1>6, <1>7, <2>1, <2>2
<1>9. CASE answer.status # "COMPLETE"
  <2>1. answer.next = Current + 1 /\ answer.next # None
    BY <1>0, <1>1, <1>9, SMT DEF None
  <2>2. /\ answer.status = "PAUSED_FOR_HITP" => nextAction' = "PAUSED_FOR_HITP"
        /\ answer.status # "PAUSED_FOR_HITP" =>
             nextAction' \in {"CONTINUE", "PARALLEL_GROUP"}
    BY <1>1, <1>4, <1>6, <1>9, <2>1, ForwardFacts
  <2>3. bag'.segment_to_run = Current + 1 /\ bag'.loop_counter = Current
    BY <1>4, <1>6, <1>7, <2>1
  <2>4. Advanced'
    BY <1>0, <2>3, SMT DEF Advanced, Current
  <2> QED
    BY <1>1, <1>6, <1>7, <2>2, <2>3, <2>4
<1> QED
  BY <1>8, <1>9

\* The invariant holds before the first segment.
LEMMA InitInv == Init => IndInv
<1> SUFFICES ASSUME Init PROVE IndInv
  OBVIOUS
<1> USE SizesAssumption
<1>1. TypeOK
  <2>1. <<>> \in Seq(Segments) /\ <<>> \in Seq([at : BranchPhases, rounds : 0..MaxRounds])
    OBVIOUS
  <2>2. bag \in [segment_to_run : 0..(Total + 1), loop_counter : Nat, pending : Seq(Segments)]
    BY <2>1, SMT DEF Init, NewBag
  <2>3. plan \in [Segments -> Kinds] /\ limits \in [loop : Nat, branch : Nat]
    BY PlansAssumption, LimitsAssumption DEF Init
  <2>4. attempts \in 0..MaxAttempts /\ ran \in [Segments -> Nat]
    BY SMT DEF Init
  <2> QED
    BY <2>1, <2>2, <2>3, <2>4 DEF Init, TypeOK, States, Actions, Outcomes
<1>2. LoopInv
  BY SMT DEF Init, NewBag, LoopInv, AtExecute, AtEvaluate, AtMiddle, AtAggregate, AtEnd,
             Current
<1>3. RunsInOrder
  BY SMT DEF Init, RunsInOrder
<1>4. NextWaitsForHuman
  BY SMT DEF Init, NextWaitsForHuman
<1>5. LimitSparesRuns
  BY DEF Init, LimitSparesRuns
<1> QED
  BY <1>1, <1>2, <1>3, <1>4, <1>5 DEF IndInv

\* A run of the current segment, done or not, keeps the order and the pauses:
\* the answers of all earlier segments are in, and the last pause was ended.
LEMMA RunFacts ==
  ASSUME IndInv, pc = "ExecuteSegment", MayHaveRun,
         taken' = taken \/ taken' = taken \cup {Current},
         UNCHANGED <<plan, strayed, approved>>
  PROVE  ran' \in [Segments -> Nat] /\ RunsInOrder' /\ NextWaitsForHuman'
<1> USE DEF IndInv
<1>1. /\ taken = 0..(Current - 1) /\ Current \in Nat
      /\ Current > 0 => LastApproved
  BY SizesAssumption, SMT DEF LoopInv, AtExecute
<1>2. Segments \subseteq Nat /\ ran \in [Segments -> Nat]
  BY SMT DEF Segments, TypeOK
<1>3. /\ ran' \in [Segments -> Nat]
      /\ \A s \in Segments : s # Current => ran'[s] = ran[s]
  BY <1>1, <1>2, SMT DEF MayHaveRun, RunsSegment
<1>4. RunsInOrder'
  <2> SUFFICES ASSUME NEW s \in Segments, ran'[s] > 0
               PROVE  0..(s - 1) \subseteq taken'
    BY DEF RunsInOrder
  <2>1. CASE s = Current
    BY <1>1, <2>1
  <2>2. CASE s # Current
    BY <1>3, <2>2 DEF RunsInOrder
  <2> QED
    BY <2>1, <2>2
<1>5. NextWaitsForHuman'
  <2> SUFFICES ASSUME NEW s \in Segments, Pauses(s),
                      (s + 1) \in {r \in Segments : ran'[r] > 0} \cup strayed
               PROVE  s \in approved
    BY DEF NextWaitsForHuman, Pauses, HasMore
  <2>1. CASE s + 1 = Current
    <3>1. s = Current - 1 /\ Current > 0
      BY <1>1, <1>2, <2>1, SMT
    <3> QED BY <1>1, <3>1 DEF LastApproved
  <2>2. CASE s + 1 # Current
    <3>1. (s + 1) \in {r \in Segments : ran[r] > 0} \cup strayed
      BY <1>3, <2>2
    <3> QED BY <3>1 DEF NextWaitsForHuman
  <2> QED
    BY <2>1, <2>2
<1> QED
  BY <1>3, <1>4, <1>5

\* Steps that run nothing.
LEMMA FrameFacts ==
  ASSUME IndInv, UNCHANGED <<plan, limits, strayed, ran, taken>>,
         approved \subseteq approved', status' # "LOOP_LIMIT_EXCEEDED"
  PROVE  RunsInOrder' /\ NextWaitsForHuman' /\ LimitSparesRuns'
<1>1. RunsInOrder'
  BY DEF IndInv, RunsInOrder
<1>2. NextWaitsForHuman'
  BY DEF IndInv, NextWaitsForHuman, Pauses, HasMore
<1>3. LimitSparesRuns'
  BY DEF LimitSparesRuns
<1> QED
  BY <1>1, <1>2, <1>3

\* The runner's answer keeps the invariant: it takes exactly the segment that
\* the bag points at, and the bag then points behind it.
LEMMA AnswersStep ==
  ASSUME IndInv, SegmentAnswers PROVE IndInv'
<1> USE DEF IndInv
<1>1. /\ Current \in Segments /\ taken = 0..(Current - 1) /\ bag.loop_counter = Current
      /\ pc = "ExecuteSegment"
  BY DEF SegmentAnswers, LoopInv, AtExecute
<1>2. /\ pc' = "EvaluateNextAction" /\ attempts' = 0 /\ status' = status
      /\ status = "RUNNING" /\ taken' = taken \cup {Current} /\ MayHaveRun
      /\ UNCHANGED <<plan, limits, branches, mapError, mapped, strayed, approved>>
  BY <1>1 DEF SegmentAnswers, Goto, fork, MayHaveRun, TypeOK
<1>3. /\ bag' \in [segment_to_run : 0..(Total + 1), loop_counter : Nat,
                   pending : Seq(Segments)]
      /\ nextAction' \in {"COMPLETE", "CONTINUE", "PARALLEL_GROUP", "PAUSED_FOR_HITP"}
      /\ nextAction' = "COMPLETE" => taken' = Segments
      /\ nextAction' # "COMPLETE" => Advanced' /\ bag'.segment_to_run = Current + 1
      /\ nextAction' \in {"CONTINUE", "PARALLEL_GROUP"} => ~Pauses(Current)
  BY <1>1, <1>2, SyncFacts DEF SegmentAnswers
<1>4. ran' \in [Segments -> Nat] /\ RunsInOrder' /\ NextWaitsForHuman'
  BY <1>1, <1>2, RunFacts
<1>5. TypeOK'
  <2>1. attempts' \in 0..MaxAttempts
    BY <1>2, SizesAssumption, SMT
  <2> QED
    BY <1>1, <1>2, <1>3, <1>4, <2>1 DEF TypeOK, States, Actions
<1>6. LoopInv'
  <2>1. nextAction' \in {"CONTINUE", "PARALLEL_GROUP"} => LastApproved'
    <3>1. Current \in Int
      BY <1>1, SizesAssumption, SMT DEF Segments
    <3>2. nextAction' # "COMPLETE" => (Current - 1)' = Current
      BY <1>3, <3>1, SMT DEF Current
    <3> QED BY <1>2, <1>3, <3>2 DEF LastApproved, Pauses, HasMore
  <2> QED
    BY <1>2, <1>3, <2>1 DEF LoopInv, AtExecute, AtEvaluate, AtMiddle, AtAggregate, AtEnd
<1>7. LimitSparesRuns'
  BY <1>2 DEF LimitSparesRuns
<1> QED
  BY <1>4, <1>5, <1>6, <1>7

\* The answer FAILED leaves the bag where it is.
LEMMA FailsStep ==
  ASSUME IndInv, SegmentFails PROVE IndInv'
<1> USE DEF IndInv
<1>1. /\ pc = "ExecuteSegment" /\ MayHaveRun /\ Synced(Delta("FAILED"))
      /\ pc' = "EvaluateNextAction" /\ attempts' = 0 /\ status' = status
      /\ status = "RUNNING"
      /\ UNCHANGED <<plan, limits, branches, mapError, mapped, strayed, taken, approved>>
  BY DEF SegmentFails, Goto, fork, TypeOK
<1>2. ran' \in [Segments -> Nat] /\ RunsInOrder' /\ NextWaitsForHuman'
  BY <1>1, RunFacts
<1> DEFINE delta == Delta("FAILED")
<1>3. /\ delta.status = "FAILED" /\ delta.segment_to_run = None
      /\ delta.pending = <<>> /\ delta.aggregated = FALSE /\ delta.resume = FALSE
  BY DEF Delta
<1> HIDE DEF delta
<1>4. bag' = Merge(delta) /\ nextAction' = NextAction(Merge(delta), delta)
  BY <1>1, <1>3 DEF Synced, delta
<1>5. nextAction' = "FAILED"
  BY <1>3, <1>4, FailedFacts
<1>6. delta.pending \in Seq(Segments)
  BY <1>3
<1>7. bag' \in [segment_to_run : 0..(Total + 1), loop_counter : Nat,
                pending : Seq(Segments)]
  BY <1>3, <1>4, <1>6, MergeFacts
<1>8. TypeOK'
  <2>1. attempts' \in 0..MaxAttempts
    BY <1>1, SizesAssumption, SMT
  <2> QED
    BY <1>1, <1>2, <1>5, <1>7, <2>1 DEF TypeOK, States, Actions
<1>9. LoopInv'
  BY <1>1, <1>5 DEF LoopInv, AtExecute, AtEvaluate, AtMiddle, AtAggregate, AtEnd
<1>10. LimitSparesRuns'
  BY <1>1 DEF LimitSparesRuns
<1> QED
  BY <1>2, <1>8, <1>9, <1>10

\* A Lambda that dies and is invoked again changes no bag.
LEMMA DiesStep ==
  ASSUME IndInv, LambdaDies PROVE IndInv'
<1> USE DEF IndInv
<1>1. /\ pc = "ExecuteSegment" /\ MayHaveRun /\ status = "RUNNING"
      /\ UNCHANGED <<plan, limits, bag, nextAction, branches, mapError, mapped,
                     strayed, taken, approved>>
  BY DEF LambdaDies, fork, TypeOK
<1>2. ran' \in [Segments -> Nat] /\ RunsInOrder' /\ NextWaitsForHuman'
  BY <1>1, RunFacts
<1>3. CASE attempts < MaxAttempts
  <2>1. attempts' = attempts + 1 /\ pc' = pc /\ status' = status
    BY <1>3 DEF LambdaDies
  <2>2. attempts' \in 0..MaxAttempts
    BY <1>3, <2>1, SizesAssumption, SMT DEF TypeOK
  <2>3. TypeOK'
    BY <1>1, <1>2, <2>1, <2>2 DEF TypeOK
  <2>4. LoopInv'
    BY <1>1, <2>1 DEF LoopInv, AtExecute, AtEvaluate, AtMiddle, AtAggregate, AtEnd,
                      Current, LastApproved, Pauses, HasMore
  <2>5. LimitSparesRuns'
    BY <1>1, <2>1 DEF LimitSparesRuns
  <2> QED BY <1>2, <2>3, <2>4, <2>5
<1>4. CASE ~(attempts < MaxAttempts)
  <2>1. attempts' = attempts /\ pc' = "End" /\ status' = "FAILED"
    BY <1>4 DEF LambdaDies, End
  <2>2. TypeOK'
    BY <1>1, <1>2, <2>1 DEF TypeOK, States, Outcomes
  <2>3. LoopInv'
    BY <1>1, <2>1 DEF LoopInv, AtExecute, AtEvaluate, AtMiddle, AtAggregate, AtEnd
  <2>4. LimitSparesRuns'
    BY <2>1 DEF LimitSparesRuns
  <2> QED BY <1>2, <2>2, <2>3, <2>4
<1> QED
  BY <1>3, <1>4

\* EvaluateNextAction leaves for each state with what IndInv asks of it.
LEMMA EvaluateStep ==
  ASSUME IndInv, EvaluateNextAction PROVE IndInv'
<1> USE DEF IndInv
<1>1. /\ pc = "EvaluateNextAction" /\ status = "RUNNING"
      /\ UNCHANGED <<plan, limits, bag, nextAction, branches, mapError, mapped,
                     strayed, ran, taken, approved>>
  BY DEF EvaluateNextAction, fork, TypeOK
<1>2. nextAction = "FAILED" => End("FAILED")
  BY DEF EvaluateNextAction
<1>3. nextAction = "COMPLETE" => End("SUCCEEDED")
  BY DEF EvaluateNextAction
<1>4. nextAction = "PAUSED_FOR_HITP" => Goto("WaitForHITPCallback")
  BY DEF EvaluateNextAction
<1>5. nextAction = "PARALLEL_GROUP" => Goto("ProcessParallelBranches")
  BY DEF EvaluateNextAction
<1>6. nextAction = "CONTINUE" => Goto("IncrementLoopCounter")
  BY DEF EvaluateNextAction
<1>7. nextAction \in Actions /\ nextAction # "STARTED"
  BY <1>1 DEF TypeOK, LoopInv, AtEvaluate
<1>8. \/ nextAction \in {"FAILED", "COMPLETE"} /\ attempts' = attempts /\ pc' = "End"
         /\ status' = IF nextAction = "FAILED" THEN "FAILED" ELSE "SUCCEEDED"
      \/ /\ nextAction = "PAUSED_FOR_HITP" /\ pc' = "WaitForHITPCallback"
         /\ status' = "RUNNING" /\ attempts' = 0
      \/ /\ nextAction = "PARALLEL_GROUP" /\ pc' = "ProcessParallelBranches"
         /\ status' = "RUNNING" /\ attempts' = 0
      \/ /\ nextAction = "CONTINUE" /\ pc' = "IncrementLoopCounter"
         /\ status' = "RUNNING" /\ attempts' = 0
  BY <1>1, <1>2, <1>3, <1>4, <1>5, <1>6, <1>7 DEF Actions, Goto, End
<1>9. TypeOK'
  <2>1. attempts' \in 0..MaxAttempts
    BY <1>8, SizesAssumption, SMT DEF TypeOK
  <2> QED
    BY <1>1, <1>8, <2>1 DEF TypeOK, States, Outcomes
<1>10. LoopInv'
  <2>1. Advanced' = Advanced /\ LastApproved' = LastApproved
    BY <1>1 DEF Advanced, LastApproved, Current, Pauses, HasMore
  <2>2. /\ nextAction = "COMPLETE" => taken = Segments
        /\ nextAction \in {"CONTINUE", "PARALLEL_GROUP", "PAUSED_FOR_HITP"} => Advanced
        /\ nextAction \in {"CONTINUE", "PARALLEL_GROUP"} => LastApproved
    BY <1>1 DEF LoopInv, AtEvaluate
  <2> QED
    BY <1>1, <1>8, <2>1, <2>2
       DEF LoopInv, AtExecute, AtEvaluate, AtMiddle, AtAggregate, AtEnd
<1>11. status' # "LOOP_LIMIT_EXCEEDED"
  BY <1>8
<1> QED
  BY <1>1, <1>9, <1>10, <1>11, FrameFacts

\* The counter never passes the number of segments that have answered.
LEMMA CountStep ==
  ASSUME IndInv, IncrementLoopCounter PROVE IndInv'
<1> USE DEF IndInv
<1>1. /\ pc = "IncrementLoopCounter" /\ status = "RUNNING" /\ Advanced /\ LastApproved
      /\ bag' = [bag EXCEPT !.loop_counter = @ + 1]
      /\ UNCHANGED <<plan, limits, nextAction, branches, mapError, mapped,
                     strayed, ran, taken, approved>>
  BY DEF IncrementLoopCounter, fork, TypeOK, LoopInv, AtMiddle
<1>2. bag \in [segment_to_run : 0..(Total + 1), loop_counter : Nat,
               pending : Seq(Segments)]
  BY DEF TypeOK
<1>3. /\ Current \in 1..Total /\ taken = 0..(Current - 1)
      /\ bag.loop_counter = Current - 1
  BY <1>1 DEF Advanced
<1>4. /\ bag' \in [segment_to_run : 0..(Total + 1), loop_counter : Nat,
                   pending : Seq(Segments)]
      /\ bag'.loop_counter = Current /\ bag'.segment_to_run = bag.segment_to_run
      /\ Current' = Current
  BY <1>1, <1>2, <1>3, SizesAssumption, SMT DEF Current
<1>5. RunsInOrder' /\ NextWaitsForHuman'
  BY <1>1 DEF RunsInOrder, NextWaitsForHuman, Pauses, HasMore
<1>6. CASE bag'.loop_counter > limits.loop
  <2>1. pc' = "End" /\ status' = "LOOP_LIMIT_EXCEEDED" /\ attempts' = attempts
    BY <1>6 DEF IncrementLoopCounter, End
  <2>2. TypeOK'
    BY <1>1, <1>4, <2>1 DEF TypeOK, States, Outcomes
  <2>3. LoopInv'
    BY <2>1 DEF LoopInv, AtExecute, AtEvaluate, AtMiddle, AtAggregate, AtEnd
  <2>4. LimitSparesRuns'
    <3>1. limits.loop \in Nat
      BY DEF TypeOK
    <3>2. ~(limits.loop >= Total)
      BY <1>3, <1>4, <1>6, <3>1, SizesAssumption, SMT
    <3> QED BY <1>1, <3>2 DEF LimitSparesRuns
  <2> QED BY <1>5, <2>2, <2>3, <2>4
<1>7. CASE ~(bag'.loop_counter > limits.loop)
  <2>1. pc' = "ExecuteSegment" /\ status' = "RUNNING" /\ attempts' = 0
    BY <1>1, <1>7 DEF IncrementLoopCounter, Goto
  <2>2. TypeOK'
    <3>1. attempts' \in 0..MaxAttempts
      BY <2>1, SizesAssumption, SMT
    <3> QED BY <1>1, <1>4, <2>1, <3>1 DEF TypeOK, States
  <2>3. AtExecute'
    <3>1. Current \in 0..Total
      BY <1>3, SizesAssumption, SMT
    <3>2. LastApproved'
      BY <1>1, <1>4 DEF LastApproved, Pauses, HasMore
    <3> QED BY <1>1, <1>3, <1>4, <3>1, <3>2 DEF AtExecute
  <2>4. LoopInv'
    BY <2>1, <2>3 DEF LoopInv, AtEvaluate, AtMiddle, AtAggregate, AtEnd
  <2>5. LimitSparesRuns'
    BY <2>1 DEF LimitSparesRuns
  <2> QED BY <1>5, <2>2, <2>4, <2>5
<1> QED
  BY <1>6, <1>7

\* The execution fails: a wait times out, StateDataManager dies, the event
\* history is full.
LEMMA FailureStep ==
  ASSUME IndInv, pc # "End", End("FAILED"),
         UNCHANGED <<plan, limits, bag, nextAction, fork, ran, taken, approved>>
  PROVE  IndInv'
<1> USE DEF IndInv
<1>1. /\ pc' = "End" /\ status' = "FAILED" /\ attempts' = attempts
      /\ UNCHANGED <<plan, limits, bag, nextAction, branches, mapError, mapped,
                     strayed, ran, taken, approved>>
  BY DEF End, fork
<1>2. TypeOK'
  BY <1>1 DEF TypeOK, States, Outcomes
<1>3. LoopInv'
  BY <1>1 DEF LoopInv, AtExecute, AtEvaluate, AtMiddle, AtAggregate, AtEnd
<1> QED
  BY <1>1, <1>2, <1>3, FrameFacts

\* The pause that a human ends is the one of the segment before the pointer.
LEMMA ApproveStep ==
  ASSUME IndInv, HumanApproves PROVE IndInv'
<1> USE DEF IndInv
<1>1. /\ pc = "WaitForHITPCallback" /\ pc' = "MergeCallbackResult"
      /\ status' = "RUNNING" /\ attempts' = 0 /\ Advanced
      /\ approved' = approved \cup {Current - 1}
      /\ UNCHANGED <<plan, limits, bag, nextAction, branches, mapError, mapped,
                     strayed, ran, taken>>
  BY DEF HumanApproves, Goto, fork, TypeOK, LoopInv, AtMiddle
<1>2. Current - 1 \in Segments /\ Current' = Current /\ Advanced'
  BY <1>1, SizesAssumption, SMT DEF Advanced, Segments, Current
<1>3. TypeOK'
  <2>1. attempts' \in 0..MaxAttempts
    BY <1>1, SizesAssumption, SMT
  <2> QED BY <1>1, <1>2, <2>1 DEF TypeOK, States
<1>4. LoopInv'
  BY <1>1, <1>2 DEF LoopInv, AtExecute, AtEvaluate, AtMiddle, AtAggregate, AtEnd
<1> QED
  BY <1>1, <1>3, <1>4, FrameFacts

\* merge_callback continues at the segment the pause pointed at.
LEMMA ResumeStep ==
  ASSUME IndInv, MergeCallbackResult PROVE IndInv'
<1> USE DEF IndInv
<1>1. /\ pc = "MergeCallbackResult" /\ pc' = "EvaluateNextAction"
      /\ status' = "RUNNING" /\ attempts' = 0 /\ Advanced
      /\ (Current - 1) \in approved /\ Synced(CallbackDelta)
      /\ UNCHANGED <<plan, limits, branches, mapError, mapped,
                     strayed, ran, taken, approved>>
  BY DEF MergeCallbackResult, Goto, fork, TypeOK, LoopInv, AtMiddle
<1> DEFINE delta == CallbackDelta
<1>2. /\ delta.segment_to_run = None /\ delta.pending = <<>>
      /\ delta.aggregated = FALSE
  BY DEF CallbackDelta, Delta
<1> HIDE DEF delta
<1>3. bag' = Merge(delta) /\ nextAction' = NextAction(Merge(delta), delta)
  BY <1>1, <1>2 DEF Synced, delta
<1>4. delta.pending \in Seq(Segments)
  BY <1>2
<1>5. /\ bag' \in [segment_to_run : 0..(Total + 1), loop_counter : Nat,
                   pending : Seq(Segments)]
      /\ bag'.loop_counter = bag.loop_counter /\ bag'.segment_to_run = Current
  BY <1>2, <1>3, <1>4, MergeFacts
<1>6. nextAction' = IF Current >= Total THEN "COMPLETE" ELSE "CONTINUE"
  BY <1>3, <1>5, ResumeFacts DEF delta
<1>7. Current' = Current /\ Advanced'
  BY <1>1, <1>5 DEF Advanced, Current
<1>8. nextAction' = "COMPLETE" => taken' = Segments
  BY <1>1, <1>6, SizesAssumption, SMT DEF Advanced, Segments
<1>9. LastApproved'
  BY <1>1, <1>7 DEF LastApproved
<1>10. TypeOK'
  <2>1. attempts' \in 0..MaxAttempts
    BY <1>1, SizesAssumption, SMT
  <2> QED BY <1>1, <1>5, <1>6, <2>1 DEF TypeOK, States, Actions
<1>11. LoopInv'
  BY <1>1, <1>6, <1>7, <1>8, <1>9
     DEF LoopInv, AtExecute, AtEvaluate, AtMiddle, AtAggregate, AtEnd
<1> QED
  BY <1>1, <1>10, <1>11, FrameFacts

BranchType == [at : BranchPhases, rounds : 0..MaxRounds]

\* The Map starts on branches of groups that were taken.
LEMMA StartStep ==
  ASSUME IndInv, StartMap PROVE IndInv'
<1> USE DEF IndInv
<1>1. /\ pc = "ProcessParallelBranches" /\ status = "RUNNING"
      /\ UNCHANGED <<plan, limits, bag, nextAction, mapError, strayed,
                     ran, taken, approved>>
  BY DEF StartMap, TypeOK
<1>2. CASE bag.pending = <<>>
  <2>1. pc # "End" /\ End("FAILED") /\ UNCHANGED fork
    BY <1>1, <1>2 DEF StartMap, fork
  <2> QED BY <1>1, <2>1, FailureStep
<1>3. CASE bag.pending # <<>>
  <2>1. /\ branches' = [i \in DOMAIN bag.pending |->
                          [at |-> "HydrateBranchConfig", rounds |-> 0]]
        /\ mapped' = mapped \cup {bag.pending[i] : i \in DOMAIN bag.pending}
        /\ pc' = pc /\ status' = status /\ attempts' = attempts
    BY <1>3 DEF StartMap, machine
  <2>2. bag.pending \in Seq(Segments)
    BY DEF TypeOK
  <2>3. mapped' \subseteq Segments
    BY <2>1, <2>2, ElementOfSeq DEF TypeOK
  <2>4. branches' \in Seq(BranchType)
    <3>1. [at |-> "HydrateBranchConfig", rounds |-> 0] \in BranchType
      BY SizesAssumption, SMT DEF BranchType, BranchPhases
    <3>2. DOMAIN bag.pending = 1..Len(bag.pending) /\ Len(bag.pending) \in Nat
      BY <2>2, LenProperties
    <3> QED BY <2>1, <3>1, <3>2, IsASeq
  <2>5. TypeOK'
    BY <1>1, <2>1, <2>3, <2>4 DEF TypeOK, BranchType
  <2>6. LoopInv'
    <3>1. Advanced' = Advanced /\ LastApproved' = LastApproved
      BY <1>1 DEF Advanced, LastApproved, Current, Pauses, HasMore
    <3> QED
      BY <1>1, <2>1, <3>1 DEF LoopInv, AtExecute, AtEvaluate, AtMiddle, AtAggregate, AtEnd
  <2> QED BY <1>1, <2>1, <2>5, <2>6, FrameFacts
<1> QED
  BY <1>2, <1>3

\* A branch runs nothing but the segment the bag points at.
LEMMA BranchingStep ==
  ASSUME IndInv, Branching PROVE IndInv'
<1> USE DEF IndInv
<1>1. PICK i \in DOMAIN branches : BranchStep(i)
  BY DEF Branching
<1>2. /\ pc = "ProcessParallelBranches" /\ status = "RUNNING"
      /\ Advanced /\ LastApproved
  BY DEF Branching, TypeOK, LoopInv, AtMiddle
<1>3. /\ UNCHANGED <<plan, limits, pc, status, attempts, bag, nextAction, mapError,
                     mapped, ran, taken, approved>>
      /\ strayed' \subseteq strayed \cup ({Current} \cap Segments)
  BY <1>1 DEF BranchStep, HydrateBranch, BranchRuns, BranchRunFails, SyncBranch,
              notBranch, machine
<1>4. /\ branches \in Seq(BranchType) /\ branches[i] \in BranchType
      /\ i \in 1..Len(branches)
  <2>1. branches \in Seq(BranchType)
    BY DEF TypeOK, BranchType
  <2>2. i \in 1..Len(branches)
    BY <2>1, LenProperties
  <2> QED BY <2>1, <2>2, ElementOfSeq
<1>5. branches' \in Seq(BranchType)
  <2>1. ASSUME NEW b \in BranchType, branches' = [branches EXCEPT ![i] = b]
        PROVE  branches' \in Seq(BranchType)
    BY <1>4, <2>1, ExceptSeq
  <2>2. ASSUME NEW at \in BranchPhases, MoveBranch(i, at)
        PROVE  branches' \in Seq(BranchType)
    <3>1. [branches[i] EXCEPT !.at = at] \in BranchType
      BY <1>4 DEF BranchType
    <3>2. branches' = [branches EXCEPT ![i] = [branches[i] EXCEPT !.at = at]]
      BY <2>2, <1>4 DEF MoveBranch
    <3> QED BY <2>1, <3>1, <3>2
  <2>3. CASE HydrateBranch(i)
    BY <2>2, <2>3 DEF HydrateBranch, BranchPhases
  <2>4. CASE BranchRuns(i)
    <3>1. [at |-> "SyncBranchState", rounds |-> branches[i].rounds + 1] \in BranchType
      BY <1>4, <2>4, SizesAssumption, SMT DEF BranchType, BranchPhases, BranchRuns
    <3>2. branches' = [branches EXCEPT ![i] =
                         [at |-> "SyncBranchState", rounds |-> branches[i].rounds + 1]]
      BY <1>4, <2>4 DEF BranchRuns
    <3> QED BY <2>1, <3>1, <3>2
  <2>5. CASE BranchRunFails(i)
    BY <2>2, <2>5 DEF BranchRunFails, BranchPhases, BranchEnds
  <2>6. CASE SyncBranch(i)
    BY <2>2, <2>6 DEF SyncBranch, BranchPhases, BranchEnds
  <2> QED BY <1>1, <2>3, <2>4, <2>5, <2>6 DEF BranchStep
<1>6. TypeOK'
  BY <1>3, <1>5 DEF TypeOK, BranchType
<1>7. LoopInv'
  <2>1. Advanced' = Advanced /\ LastApproved' = LastApproved
    BY <1>3 DEF Advanced, LastApproved, Current, Pauses, HasMore
  <2> QED
    BY <1>2, <1>3, <2>1 DEF LoopInv, AtExecute, AtEvaluate, AtMiddle, AtAggregate, AtEnd
<1>8. NextWaitsForHuman'
  <2> SUFFICES ASSUME NEW s \in Segments, Pauses(s),
                      (s + 1) \in {r \in Segments : ran[r] > 0} \cup strayed'
               PROVE  s \in approved
    BY <1>3 DEF NextWaitsForHuman, Pauses, HasMore
  <2>1. CASE s + 1 = Current
    <3>1. s = Current - 1
      BY <2>1, SMT DEF Segments
    <3> QED BY <1>2, <3>1 DEF LastApproved
  <2>2. CASE s + 1 # Current
    <3>1. (s + 1) \in {r \in Segments : ran[r] > 0} \cup strayed
      BY <1>3, <2>2
    <3> QED BY <3>1 DEF NextWaitsForHuman
  <2> QED
    BY <2>1, <2>2
<1>9. RunsInOrder' /\ LimitSparesRuns'
  BY <1>2, <1>3 DEF RunsInOrder, LimitSparesRuns
<1> QED
  BY <1>6, <1>7, <1>8, <1>9

\* The Map ends, by its branches or by an error, at the aggregation.
LEMMA MapOverStep ==
  ASSUME IndInv, MapFails \/ MapEnds PROVE IndInv'
<1> USE DEF IndInv
<1>1. /\ pc = "ProcessParallelBranches" /\ status = "RUNNING" /\ Advanced
      /\ pc' = "AggregateParallelResults" /\ status' = "RUNNING" /\ attempts' = 0
      /\ UNCHANGED <<plan, limits, bag, nextAction, mapped, strayed,
                     ran, taken, approved>>
  BY DEF MapFails, MapEnds, Goto, fork, TypeOK, LoopInv, AtMiddle
<1>2. \/ branches' = <<>> /\ mapError' = TRUE
      \/ /\ branches' = branches /\ mapError' = mapError
         /\ branches # <<>> /\ \A i \in DOMAIN branches : Over(i)
  BY DEF MapFails, MapEnds, fork
<1>3. TypeOK'
  <2>1. attempts' \in 0..MaxAttempts
    BY <1>1, SizesAssumption, SMT
  <2>2. branches' \in Seq([at : BranchPhases, rounds : 0..MaxRounds])
    <3>1. <<>> \in Seq([at : BranchPhases, rounds : 0..MaxRounds])
      BY EmptySeq
    <3> QED BY <1>2, <3>1 DEF TypeOK
  <2>3. mapError' \in BOOLEAN
    BY <1>2 DEF TypeOK
  <2> QED BY <1>1, <2>1, <2>2, <2>3 DEF TypeOK, States
<1>4. AtAggregate'
  <2>1. bag'.segment_to_run <= Total
    BY <1>1, SizesAssumption, SMT DEF Advanced, Current
  <2>2. ~mapError' => branches' # <<>> /\ \A i \in DOMAIN branches' : Over(i)'
    BY <1>2 DEF Over
  <2> QED BY <2>1, <2>2 DEF AtAggregate, Current
<1>5. LoopInv'
  BY <1>1, <1>4 DEF LoopInv, AtExecute, AtEvaluate, AtMiddle, AtEnd
<1> QED
  BY <1>1, <1>3, <1>5, FrameFacts

\* No branch completes, so the aggregation fails.
LEMMA AggregateFails ==
  ASSUME IndInv, AggregateParallelResults
  PROVE  /\ bag' \in [segment_to_run : 0..(Total + 1), loop_counter : Nat,
                      pending : Seq(Segments)]
         /\ nextAction' = "FAILED"
<1> USE DEF IndInv
<1>0. pc = "AggregateParallelResults"
  BY DEF AggregateParallelResults
<1>1. CASE mapError
  <2>1. bag' = NewBag /\ nextAction' = "FAILED"
    BY <1>1 DEF AggregateParallelResults
  <2>2. <<>> \in Seq(Segments) /\ 0 \in 0..(Total + 1) /\ 0 \in Nat
    BY SizesAssumption, SMT
  <2> QED BY <2>1, <2>2 DEF NewBag
<1>2. CASE ~mapError
  <2> DEFINE delta == AggregateDelta(Results)
  <2>1. /\ delta.segment_to_run = None /\ delta.pending = <<>>
        /\ delta.aggregated = TRUE
    BY DEF AggregateDelta, Delta
  <2>2. Synced(delta)
    BY <1>2 DEF AggregateParallelResults
  <2>3. Results # <<>> /\ \A i \in DOMAIN Results : Results[i] # "COMPLETE"
    <3>1. branches # <<>> /\ \A i \in DOMAIN branches : Over(i)
      BY <1>0, <1>2 DEF LoopInv, AtAggregate
    <3>2. DOMAIN branches # {} /\ DOMAIN Results = DOMAIN branches
      <4>1. branches \in Seq([at : BranchPhases, rounds : 0..MaxRounds])
        BY DEF TypeOK
      <4>2. Len(branches) \in Nat \ {0} /\ DOMAIN branches = 1..Len(branches)
        BY <3>1, <4>1, EmptySeq, LenProperties
      <4>3. 1 \in DOMAIN branches
        BY <4>2, SMT
      <4> QED BY <4>3 DEF Results
    <3>3. \A i \in DOMAIN Results : Results[i] # "COMPLETE"
      BY <3>1 DEF Results, Over, BranchEnds
    <3> QED BY <3>2, <3>3
  <2>4. NextAction(Merge(delta), delta) = "FAILED"
    BY <2>3, AggregateFacts
  <2> HIDE DEF delta
  <2>5. /\ nextAction' = NextAction(Merge(delta), delta)
        /\ bag' = [Merge(delta) EXCEPT
                     !.segment_to_run = Merge(delta).segment_to_run + 1,
                     !.pending = <<>>]
    BY <2>1, <2>2 DEF Synced
  <2>6. delta.pending \in Seq(Segments)
    BY <2>1
  <2>7. /\ Merge(delta) \in [segment_to_run : 0..(Total + 1), loop_counter : Nat,
                             pending : Seq(Segments)]
        /\ Merge(delta).segment_to_run = Current
    BY <2>1, <2>6, MergeFacts
  <2>8. Current + 1 \in 0..(Total + 1)
    BY <1>0, SizesAssumption, SMT DEF LoopInv, AtAggregate, TypeOK, Current
  <2>9. <<>> \in Seq(Segments)
    OBVIOUS
  <2> QED BY <2>4, <2>5, <2>7, <2>8, <2>9
<1> QED BY <1>1, <1>2

\* After an aggregation the state machine is on its way to the end.
LEMMA AggregateStep ==
  ASSUME IndInv, AggregateParallelResults PROVE IndInv'
<1> USE DEF IndInv
<1>1. /\ pc = "AggregateParallelResults" /\ pc' = "EvaluateNextAction"
      /\ status' = "RUNNING" /\ attempts' = 0
      /\ branches' = <<>> /\ mapError' = FALSE
      /\ UNCHANGED <<plan, limits, mapped, strayed, ran, taken, approved>>
  BY DEF AggregateParallelResults, Goto, TypeOK
<1>2. /\ bag' \in [segment_to_run : 0..(Total + 1), loop_counter : Nat,
                   pending : Seq(Segments)]
      /\ nextAction' = "FAILED"
  BY AggregateFails
<1>3. TypeOK'
  <2>1. attempts' \in 0..MaxAttempts
    BY <1>1, SizesAssumption, SMT
  <2>2. branches' \in Seq([at : BranchPhases, rounds : 0..MaxRounds])
    BY <1>1
  <2> QED BY <1>1, <1>2, <2>1, <2>2 DEF TypeOK, States, Actions
<1>4. LoopInv'
  BY <1>1, <1>2 DEF LoopInv, AtExecute, AtEvaluate, AtMiddle, AtAggregate, AtEnd
<1> QED
  BY <1>1, <1>3, <1>4, FrameFacts

\* The inductive invariant of the kernel loop: the bag points at the first
\* segment that was not taken, and each state of the machine knows why.
THEOREM Invariant == Spec => []IndInv
<1>1. Init => IndInv
  BY InitInv
<1>2. IndInv /\ [Next]_vars => IndInv'
  <2> SUFFICES ASSUME IndInv, [Next]_vars PROVE IndInv'
    OBVIOUS
  <2>1. CASE SegmentAnswers \/ SegmentFails \/ LambdaDies
    BY <2>1, AnswersStep, FailsStep, DiesStep
  <2>2. CASE EvaluateNextAction \/ IncrementLoopCounter
    BY <2>2, EvaluateStep, CountStep
  <2>3. CASE HumanApproves \/ MergeCallbackResult
    BY <2>3, ApproveStep, ResumeStep
  <2>4. CASE PauseTimesOut \/ StateDataManagerDies \/ HistoryFull
    <3>1. /\ pc # "End" /\ End("FAILED")
          /\ UNCHANGED <<plan, limits, bag, nextAction, fork, ran, taken, approved>>
      BY <2>4 DEF PauseTimesOut, StateDataManagerDies, HistoryFull
    <3> QED BY <3>1, FailureStep
  <2>5. CASE StartMap \/ Branching
    BY <2>5, StartStep, BranchingStep
  <2>6. CASE MapFails \/ MapEnds \/ AggregateParallelResults
    BY <2>6, MapOverStep, AggregateStep
  <2>7. CASE UNCHANGED vars
    <3>1. UNCHANGED <<plan, limits, pc, status, attempts, bag, nextAction, branches,
                      mapError, mapped, strayed, ran, taken, approved>>
      BY <2>7 DEF vars, machine, fork
    <3>2. TypeOK'
      BY <3>1 DEF IndInv, TypeOK
    <3>3. LoopInv'
      BY <3>1 DEF IndInv, LoopInv, AtExecute, AtEvaluate, AtMiddle, AtAggregate, AtEnd,
                  Advanced, LastApproved, Current, Pauses, HasMore, Over
    <3>4. RunsInOrder' /\ NextWaitsForHuman' /\ LimitSparesRuns'
      BY <3>1 DEF IndInv, RunsInOrder, NextWaitsForHuman, LimitSparesRuns, Pauses, HasMore
    <3> QED BY <3>2, <3>3, <3>4 DEF IndInv
  <2> QED
    BY <2>1, <2>2, <2>3, <2>4, <2>5, <2>6, <2>7 DEF Next, SystemStep
<1> QED
  BY <1>1, <1>2, PTL DEF Spec

\* Every variable keeps its type, for any partition, any width of the parallel
\* groups and any limits.
THEOREM TypeCorrect == Spec => []TypeOK
<1>1. IndInv => TypeOK
  BY DEF IndInv
<1> QED
  BY <1>1, Invariant, PTL

\* The loop neither skips nor jumps ahead: a segment runs only when the answers
\* of all earlier ones are in the bag.
THEOREM InOrder == Spec => []RunsInOrder
<1>1. IndInv => RunsInOrder
  BY DEF IndInv
<1> QED
  BY <1>1, Invariant, PTL

\* Nothing runs past a pause that no human ended.
THEOREM HumanFirst == Spec => []NextWaitsForHuman
<1>1. IndInv => NextWaitsForHuman
  BY DEF IndInv
<1> QED
  BY <1>1, Invariant, PTL

\* A limit that allows one loop per segment is never exceeded.
THEOREM LimitIsSlack == Spec => []LimitSparesRuns
<1>1. IndInv => LimitSparesRuns
  BY DEF IndInv
<1> QED
  BY <1>1, Invariant, PTL

\* The state machine is between the answer of one segment and the start of
\* the next.
OnTheWay ==
  \/ pc \in {"IncrementLoopCounter", "ProcessParallelBranches",
             "WaitForHITPCallback", "MergeCallbackResult"}
  \/ /\ pc = "EvaluateNextAction"
     /\ nextAction \in {"CONTINUE", "PARALLEL_GROUP", "PAUSED_FOR_HITP"}

\* The segment that the bag points at has run once for each of its retries at
\* most, and not at all before the machine is at its task.
RetryInv ==
  /\ RunsOnlyRetried
  /\ pc = "ExecuteSegment" /\ Current \in Segments => ran[Current] <= attempts
  /\ OnTheWay /\ Current \in Segments => ran[Current] = 0

\* On the way the pointer is one ahead of the answers.
LEMMA OnTheWayFacts == IndInv /\ OnTheWay => Advanced
BY DEF IndInv, LoopInv, AtEvaluate, AtMiddle, OnTheWay

\* A step on the way that takes no answer leaves the pointer.
LEMMA SamePointer ==
  ASSUME Advanced, Advanced', taken' = taken
  PROVE  Current' = Current
<1> DEFINE m == Current
           n == Current'
<1>1. m \in 1..Total /\ n \in 1..Total /\ 0..(m - 1) = 0..(n - 1)
  BY DEF Advanced
<1> HIDE DEF m, n
<1>2. m \in Nat \ {0} /\ n \in Nat \ {0}
  BY <1>1, SizesAssumption, SMT
<1>3. m - 1 \in 0..(n - 1) /\ n - 1 \in 0..(m - 1)
  BY <1>1, <1>2, SMT
<1>4. m = n
  BY <1>2, <1>3, SMT
<1> QED
  BY <1>4 DEF m, n

\* Only a Lambda that dies at the task of a segment makes it run again.
LEMMA RetryStep ==
  ASSUME IndInv, IndInv', RetryInv, [Next]_vars PROVE RetryInv'
<1>1. /\ ran \in [Segments -> Nat] /\ attempts \in Nat /\ attempts <= MaxAttempts
      /\ MaxAttempts \in Nat /\ Segments \subseteq Nat
  <2>1. ran \in [Segments -> Nat] /\ attempts \in 0..MaxAttempts
    BY DEF IndInv, TypeOK
  <2>2. MaxAttempts \in Nat /\ Segments \subseteq Nat
    BY SizesAssumption DEF Segments
  <2> QED
    BY <2>1, <2>2
<1>2. pc = "ExecuteSegment" => Current \in 0..Total /\ taken = 0..(Current - 1)
  BY DEF IndInv, LoopInv, AtExecute
<1>3. ASSUME MayHaveRun, pc = "ExecuteSegment"
      PROVE  /\ RunsOnlyRetried'
             /\ Current \in Segments => ran'[Current] <= attempts + 1
             /\ \A s \in Segments : s # Current => ran'[s] = ran[s]
  <2>1. CASE ran' = ran
    <3>1. Current \in Segments => ran[Current] \in Nat /\ ran[Current] <= attempts
      BY <1>1, <1>3 DEF RetryInv
    <3>2. Current \in Segments => ran[Current] <= attempts + 1
      BY <1>1, <3>1, SMT
    <3> QED BY <2>1, <3>2 DEF RetryInv, RunsOnlyRetried
  <2>2. CASE Current \in Segments /\ RunsSegment
    <3>1. \A s \in Segments : ran'[s] = IF s = Current THEN ran[s] + 1 ELSE ran[s]
      BY <1>1, <2>2 DEF RunsSegment
    <3>2. ran[Current] <= attempts /\ ran[Current] \in Nat
      BY <1>1, <1>3, <2>2 DEF RetryInv
    <3>3. ran'[Current] <= attempts + 1 /\ ran'[Current] <= 1 + MaxAttempts
      BY <1>1, <2>2, <3>1, <3>2, SMT
    <3>4. \A s \in Segments : ran'[s] <= 1 + MaxAttempts
      BY <3>1, <3>3 DEF RetryInv, RunsOnlyRetried
    <3> QED BY <3>1, <3>3, <3>4 DEF RunsOnlyRetried
  <2> QED BY <1>3, <2>1, <2>2 DEF MayHaveRun
<1>4. CASE SegmentAnswers
  <2>1. /\ pc = "ExecuteSegment" /\ pc' = "EvaluateNextAction" /\ MayHaveRun
        /\ Current \in Segments /\ taken = 0..(Current - 1)
        /\ taken' = taken \cup {Current} /\ bag.loop_counter = Current
        /\ Synced(SyncDelta(Answer(Current)))
    BY <1>4 DEF SegmentAnswers, Goto, MayHaveRun, IndInv, LoopInv, AtExecute
  <2>2. ASSUME OnTheWay', Current' \in Segments PROVE ran'[Current'] = 0
    <3>1. nextAction' # "COMPLETE"
      BY <2>1, <2>2 DEF OnTheWay
    <3>2. Current' = Current + 1
      BY <2>1, <3>1, SyncFacts DEF IndInv, Current
    <3>3. Current \in Nat /\ Current' # Current /\ Current \in 0..(Current' - 1)
          /\ Current \notin taken
      BY <1>1, <2>1, <3>2, SMT
    <3>4. ~(ran[Current'] > 0)
      BY <2>2, <3>3 DEF IndInv, RunsInOrder
    <3>5. ran'[Current'] = ran[Current'] /\ ran[Current'] \in Nat
      BY <1>1, <1>3, <2>1, <2>2, <3>3
    <3> QED BY <3>4, <3>5, SMT
  <2> QED BY <1>3, <2>1, <2>2 DEF RetryInv
<1>5. CASE SegmentFails
  <2>1. /\ pc = "ExecuteSegment" /\ pc' = "EvaluateNextAction" /\ MayHaveRun
        /\ Synced(Delta("FAILED"))
    BY <1>5 DEF SegmentFails, Goto
  <2>2. nextAction' = "FAILED"
    BY <2>1, FailedFacts DEF Synced, Delta
  <2>3. ~OnTheWay'
    BY <2>1, <2>2 DEF OnTheWay
  <2> QED BY <1>3, <2>1, <2>3 DEF RetryInv
<1>6. CASE LambdaDies
  <2>1. pc = "ExecuteSegment" /\ MayHaveRun /\ bag' = bag /\ Current' = Current
    BY <1>6 DEF LambdaDies, Current
  <2>2. \/ pc' = "ExecuteSegment" /\ attempts' = attempts + 1
        \/ pc' = "End"
    BY <1>6, <2>1 DEF LambdaDies, End
  <2>3. ~OnTheWay'
    BY <2>2 DEF OnTheWay
  <2> QED BY <1>3, <2>1, <2>2, <2>3 DEF RetryInv
<1>7. ASSUME ran' = ran, taken' = taken, OnTheWay' => OnTheWay,
             pc' = "ExecuteSegment" /\ pc # "ExecuteSegment"
               => OnTheWay /\ Current' = Current /\ attempts' = 0,
             pc' = "ExecuteSegment" /\ pc = "ExecuteSegment"
               => Current' = Current /\ attempts' = attempts
      PROVE  RetryInv'
  <2>1. RunsOnlyRetried'
    BY <1>7 DEF RetryInv, RunsOnlyRetried
  <2>2. ASSUME OnTheWay', Current' \in Segments PROVE ran'[Current'] = 0
    <3>1. Advanced /\ Advanced'
      BY <1>7, <2>2, OnTheWayFacts, PTL
    <3>2. Current' = Current
      BY <1>7, <3>1, SamePointer
    <3> QED BY <1>7, <2>2, <3>2 DEF RetryInv
  <2>3. ASSUME pc' = "ExecuteSegment", Current' \in Segments
        PROVE  ran'[Current'] <= attempts'
    <3>1. CASE pc = "ExecuteSegment"
      BY <1>7, <2>3, <3>1 DEF RetryInv
    <3>2. CASE pc # "ExecuteSegment"
      <4>1. ran'[Current'] = 0 /\ attempts' = 0
        BY <1>7, <2>3, <3>2 DEF RetryInv
      <4> QED BY <4>1, SMT
    <3> QED BY <3>1, <3>2
  <2> QED BY <2>1, <2>2, <2>3 DEF RetryInv
<1>8. CASE EvaluateNextAction
  <2>1. /\ pc = "EvaluateNextAction" /\ ran' = ran /\ taken' = taken
        /\ pc' # "ExecuteSegment" /\ (OnTheWay' => pc' # "End" /\ pc' # "EvaluateNextAction")
    BY <1>8 DEF EvaluateNextAction, Goto, End, OnTheWay
  <2>2. nextAction \in Actions /\ nextAction # "STARTED"
    BY <2>1 DEF IndInv, TypeOK, LoopInv, AtEvaluate
  <2>3. pc' # "End" => nextAction \notin {"FAILED", "COMPLETE"}
    BY <1>8 DEF EvaluateNextAction, End
  <2>4. OnTheWay' => OnTheWay
    BY <2>1, <2>2, <2>3 DEF OnTheWay, Actions
  <2> QED BY <1>7, <2>1, <2>4
<1>9. CASE IncrementLoopCounter
  <2>1. /\ pc = "IncrementLoopCounter" /\ ran' = ran /\ taken' = taken
        /\ bag' = [bag EXCEPT !.loop_counter = @ + 1]
        /\ (pc' = "ExecuteSegment" /\ attempts' = 0) \/ pc' = "End"
    BY <1>9 DEF IncrementLoopCounter, Goto, End
  <2>2. Current' = Current
    BY <2>1 DEF Current, IndInv, TypeOK
  <2> QED BY <1>7, <2>1, <2>2 DEF OnTheWay
<1>10. CASE HumanApproves \/ PauseTimesOut \/ MergeCallbackResult
            \/ StateDataManagerDies \/ HistoryFull \/ StartMap \/ Branching
            \/ MapFails \/ MapEnds
  <2>1. /\ ran' = ran /\ taken' = taken
        /\ OnTheWay \/ pc' = "End"
        /\ pc' # "ExecuteSegment"
    <3>1. CASE HumanApproves \/ PauseTimesOut \/ MergeCallbackResult
      BY <3>1 DEF HumanApproves, PauseTimesOut, MergeCallbackResult, Goto, End, OnTheWay
    <3>2. CASE StateDataManagerDies \/ HistoryFull
      BY <3>2 DEF StateDataManagerDies, HistoryFull, End, OnTheWay
    <3>3. CASE StartMap
      BY <3>3 DEF StartMap, End, machine, OnTheWay
    <3>4. CASE Branching
      BY <3>4 DEF Branching, BranchStep, HydrateBranch, BranchRuns, BranchRunFails,
                  SyncBranch, notBranch, machine, OnTheWay
    <3>5. CASE MapFails \/ MapEnds
      BY <3>5 DEF MapFails, MapEnds, Goto, OnTheWay
    <3> QED BY <1>10, <3>1, <3>2, <3>3, <3>4, <3>5
  <2> QED BY <1>7, <2>1 DEF OnTheWay
<1>11. CASE AggregateParallelResults
  <2>1. /\ ran' = ran /\ taken' = taken /\ pc' = "EvaluateNextAction"
    BY <1>11 DEF AggregateParallelResults, Goto
  <2>2. nextAction' = "FAILED"
    BY <1>11, AggregateFails
  <2> QED BY <1>7, <2>1, <2>2 DEF OnTheWay
<1>12. CASE UNCHANGED vars
  BY <1>7, <1>12 DEF vars, machine, OnTheWay, Current
<1> QED
  BY <1>4, <1>5, <1>6, <1>8, <1>9, <1>10, <1>11, <1>12 DEF Next, SystemStep, fork

\* A segment runs at most once for its answer and once for every retry of a
\* Lambda that died: the pointer never comes back to a segment, and arrives at
\* each with its count at zero.
THEOREM OnlyRetries == Spec => []RunsOnlyRetried
<1>1. Init => RetryInv
  <2> SUFFICES ASSUME Init PROVE RetryInv
    OBVIOUS
  <2>1. \A s \in Segments : ran[s] = 0
    BY DEF Init
  <2>2. attempts = 0 /\ pc = "ExecuteSegment" /\ MaxAttempts \in Nat
    BY SizesAssumption DEF Init
  <2> QED BY <2>1, <2>2, SMT DEF RetryInv, RunsOnlyRetried, OnTheWay
<1>2. IndInv /\ IndInv' /\ RetryInv /\ [Next]_vars => RetryInv'
  BY RetryStep
<1>3. RetryInv => RunsOnlyRetried
  BY DEF RetryInv
<1> QED
  BY <1>1, <1>2, <1>3, Invariant, PTL DEF Spec

\* The stages before and after a step.
LEMMA StageFacts ==
  /\ pc = "End" => Stage = 0
  /\ pc = "ExecuteSegment" => Stage = 2
  /\ pc = "IncrementLoopCounter" => Stage = 3
  /\ pc = "AggregateParallelResults" => Stage = 5
  /\ pc = "ProcessParallelBranches" => Stage = 6
  /\ pc = "MergeCallbackResult" => Stage = 8
  /\ pc = "WaitForHITPCallback" => Stage = 9
  /\ pc = "EvaluateNextAction" =>
       /\ nextAction \in {"FAILED", "COMPLETE"} => Stage = 1
       /\ nextAction = "PARALLEL_GROUP" => Stage = 7
       /\ nextAction = "PAUSED_FOR_HITP" => Stage = 10
       /\ nextAction \in {"STARTED", "CONTINUE"} => Stage = 4
  /\ pc' = "End" => Stage' = 0
  /\ pc' = "ExecuteSegment" => Stage' = 2
  /\ pc' = "IncrementLoopCounter" => Stage' = 3
  /\ pc' = "AggregateParallelResults" => Stage' = 5
  /\ pc' = "ProcessParallelBranches" => Stage' = 6
  /\ pc' = "MergeCallbackResult" => Stage' = 8
  /\ pc' = "WaitForHITPCallback" => Stage' = 9
  /\ pc' = "EvaluateNextAction" =>
       /\ nextAction' \in {"FAILED", "COMPLETE"} => Stage' = 1
       /\ nextAction' \in {"STARTED", "CONTINUE"} => Stage' = 4
<1>1. /\ pc = "End" => Stage = 0
      /\ pc = "ExecuteSegment" => Stage = 2
      /\ pc = "IncrementLoopCounter" => Stage = 3
      /\ pc = "AggregateParallelResults" => Stage = 5
      /\ pc = "ProcessParallelBranches" => Stage = 6
      /\ pc = "MergeCallbackResult" => Stage = 8
      /\ pc = "WaitForHITPCallback" => Stage = 9
  BY SMT DEF Stage
<1>2. /\ pc' = "End" => Stage' = 0
      /\ pc' = "ExecuteSegment" => Stage' = 2
      /\ pc' = "IncrementLoopCounter" => Stage' = 3
      /\ pc' = "AggregateParallelResults" => Stage' = 5
      /\ pc' = "ProcessParallelBranches" => Stage' = 6
      /\ pc' = "MergeCallbackResult" => Stage' = 8
      /\ pc' = "WaitForHITPCallback" => Stage' = 9
  BY SMT DEF Stage
<1>3. pc = "EvaluateNextAction" =>
       /\ nextAction \in {"FAILED", "COMPLETE"} => Stage = 1
       /\ nextAction = "PARALLEL_GROUP" => Stage = 7
       /\ nextAction = "PAUSED_FOR_HITP" => Stage = 10
       /\ nextAction \in {"STARTED", "CONTINUE"} => Stage = 4
  BY SMT DEF Stage
<1>4. pc' = "EvaluateNextAction" =>
       /\ nextAction' \in {"FAILED", "COMPLETE"} => Stage' = 1
       /\ nextAction' \in {"STARTED", "CONTINUE"} => Stage' = 4
  BY SMT DEF Stage
<1> QED
  BY <1>1, <1>2, <1>3, <1>4

\* One step of one branch is a later phase of it, or another round.
LEMMA BranchForward ==
  ASSUME IndInv, Branching
  PROVE  MapAdvances /\ UNCHANGED <<pc, nextAction, taken>>
<1>1. PICK i \in DOMAIN branches : BranchStep(i)
  BY DEF Branching
<1>2. UNCHANGED <<pc, nextAction, taken>>
  BY <1>1 DEF BranchStep, HydrateBranch, BranchRuns, BranchRunFails, SyncBranch,
              notBranch, machine
<1>3. branches[i] \in BranchType
  <2>1. branches \in Seq(BranchType)
    BY DEF IndInv, TypeOK, BranchType
  <2>2. i \in 1..Len(branches)
    BY <2>1, LenProperties
  <2> QED BY <2>1, <2>2, ElementOfSeq
<1>4. branches[i].rounds \in Nat
  BY <1>3, SizesAssumption, SMT DEF BranchType
<1>5. ASSUME NEW at \in BranchPhases, MoveBranch(i, at), PhaseRank(branches[i].at) < PhaseRank(at)
      PROVE  MapAdvances
  <2>1. branches' = [branches EXCEPT ![i] = [branches[i] EXCEPT !.at = at]]
    BY <1>5 DEF MoveBranch
  <2>2. branches'[i] = [branches[i] EXCEPT !.at = at]
    BY <2>1
  <2>3. branches'[i].at = at /\ branches'[i].rounds = branches[i].rounds
    BY <1>3, <2>2 DEF BranchType
  <2>4. BranchAdvances(branches[i], branches'[i])
    BY <1>5, <2>3 DEF BranchAdvances
  <2>5. branches' = [branches EXCEPT ![i] = branches'[i]]
    BY <2>1, <2>2
  <2> QED BY <1>1, <2>4, <2>5 DEF MapAdvances
<1>6. /\ PhaseRank("HydrateBranchConfig") = 0 /\ PhaseRank("SyncBranchState") = 1
      /\ PhaseRank("ExecuteBranchSegment") = 2
      /\ PhaseRank("PARTIAL_FAILURE") = 3 /\ PhaseRank("LOOP_LIMIT_EXCEEDED") = 3
  BY SMT DEF PhaseRank
<1>7. CASE BranchRuns(i)
  <2>1. branches' = [branches EXCEPT ![i] = [at |-> "SyncBranchState",
                                             rounds |-> branches[i].rounds + 1]]
    BY <1>7 DEF BranchRuns
  <2>2. branches'[i] = [at |-> "SyncBranchState", rounds |-> branches[i].rounds + 1]
    BY <2>1
  <2>3. BranchAdvances(branches[i], branches'[i])
    BY <1>4, <2>2 DEF BranchAdvances
  <2>4. branches' = [branches EXCEPT ![i] = branches'[i]]
    BY <2>1, <2>2
  <2> QED BY <1>1, <1>2, <2>3, <2>4 DEF MapAdvances
<1>8. CASE HydrateBranch(i)
  <2>1. /\ PhaseRank(branches[i].at) < PhaseRank("ExecuteBranchSegment")
        /\ MoveBranch(i, "ExecuteBranchSegment")
    BY <1>6, <1>8 DEF HydrateBranch, Waiting
  <2> QED BY <1>2, <1>5, <2>1 DEF BranchPhases
<1>9. CASE BranchRunFails(i)
  <2>1. /\ PhaseRank(branches[i].at) < PhaseRank("PARTIAL_FAILURE")
        /\ MoveBranch(i, "PARTIAL_FAILURE")
    BY <1>6, <1>9 DEF BranchRunFails
  <2> QED BY <1>2, <1>5, <2>1 DEF BranchPhases, BranchEnds
<1>10. CASE SyncBranch(i)
  <2>1. PICK at \in {"LOOP_LIMIT_EXCEEDED", "ExecuteBranchSegment"} : MoveBranch(i, at)
    BY <1>10 DEF SyncBranch
  <2>2. branches[i].at = "SyncBranchState"
    BY <1>10 DEF SyncBranch
  <2>3. PhaseRank(branches[i].at) < PhaseRank(at)
    BY <1>6, <2>1, <2>2
  <2> QED BY <1>2, <1>5, <2>1, <2>3 DEF BranchPhases, BranchEnds
<1> QED
  BY <1>1, <1>2, <1>7, <1>8, <1>9, <1>10 DEF BranchStep

Forward ==
  \/ taken \subseteq taken' /\ taken # taken'
  \/ /\ taken = taken'
     /\ \/ Stage' < Stage
        \/ Stage' = Stage /\ (attempts < attempts' \/ MapAdvances)

\* Every step of the loop is one forward.
LEMMA StepForward ==
  ASSUME IndInv, IndInv', Next PROVE Forward
<1>1. /\ pc \in States /\ pc' \in States
      /\ nextAction \in Actions /\ nextAction' \in Actions
      /\ attempts \in Nat
  BY SizesAssumption, SMT DEF IndInv, TypeOK
<1>2. CASE SegmentAnswers
  <2>1. taken = 0..(Current - 1) /\ Current \in Nat /\ taken' = taken \cup {Current}
    BY <1>2, SizesAssumption, SMT DEF SegmentAnswers, IndInv, LoopInv, AtExecute
  <2>2. Current \notin taken
    BY <2>1, SMT
  <2> QED BY <2>1, <2>2 DEF Forward
<1>3. CASE SegmentFails
  <2>1. /\ pc = "ExecuteSegment" /\ pc' = "EvaluateNextAction" /\ taken' = taken
        /\ Synced(Delta("FAILED"))
    BY <1>3 DEF SegmentFails, Goto
  <2>2. nextAction' = "FAILED"
    <3> DEFINE delta == Delta("FAILED")
    <3>1. delta.status = "FAILED" /\ delta.resume = FALSE /\ delta.aggregated = FALSE
      BY DEF Delta
    <3>2. nextAction' = NextAction(Merge(delta), delta)
      BY <2>1 DEF Synced
    <3> QED BY <3>1, <3>2, FailedFacts
  <2>3. Stage = 2 /\ Stage' = 1
    BY <2>1, <2>2, StageFacts
  <2> QED BY <2>1, <2>3 DEF Forward
<1>4. CASE LambdaDies
  <2>1. pc = "ExecuteSegment" /\ taken' = taken
    BY <1>4 DEF LambdaDies
  <2>2. CASE attempts < MaxAttempts
    <3>1. attempts' = attempts + 1 /\ pc' = pc
      BY <1>4, <2>2 DEF LambdaDies
    <3>2. Stage' = Stage /\ attempts < attempts'
      BY <1>1, <2>1, <3>1, StageFacts
    <3> QED BY <2>1, <3>2 DEF Forward
  <2>3. CASE ~(attempts < MaxAttempts)
    <3>1. pc' = "End"
      BY <1>4, <2>3 DEF LambdaDies, End
    <3>2. Stage = 2 /\ Stage' = 0
      BY <2>1, <3>1, StageFacts
    <3> QED BY <2>1, <3>2 DEF Forward
  <2> QED BY <2>2, <2>3
<1>5. CASE EvaluateNextAction
  <2>1. pc = "EvaluateNextAction" /\ taken' = taken
    BY <1>5 DEF EvaluateNextAction
  <2>2. CASE nextAction \in {"FAILED", "COMPLETE"}
    <3>1. pc' = "End"
      BY <1>5, <2>2, SMT DEF EvaluateNextAction, End
    <3>2. Stage = 1 /\ Stage' = 0
      BY <2>1, <2>2, <3>1, StageFacts
    <3> QED BY <2>1, <3>2 DEF Forward
  <2>3. CASE nextAction = "PAUSED_FOR_HITP"
    <3>1. pc' = "WaitForHITPCallback"
      BY <1>5, <2>3, SMT DEF EvaluateNextAction, Goto
    <3>2. Stage = 10 /\ Stage' = 9
      BY <2>1, <2>3, <3>1, StageFacts
    <3> QED BY <2>1, <3>2 DEF Forward
  <2>4. CASE nextAction = "PARALLEL_GROUP"
    <3>1. pc' = "ProcessParallelBranches"
      BY <1>5, <2>4, SMT DEF EvaluateNextAction, Goto
    <3>2. Stage = 7 /\ Stage' = 6
      BY <2>1, <2>4, <3>1, StageFacts
    <3> QED BY <2>1, <3>2 DEF Forward
  <2>5. CASE nextAction \in {"STARTED", "CONTINUE"}
    <3>1. pc' = "IncrementLoopCounter"
      BY <1>5, <2>5, SMT DEF EvaluateNextAction, Goto
    <3>2. Stage = 4 /\ Stage' = 3
      BY <2>1, <2>5, <3>1, StageFacts
    <3> QED BY <2>1, <3>2 DEF Forward
  <2> QED BY <1>1, <2>2, <2>3, <2>4, <2>5 DEF Actions
<1>6. CASE IncrementLoopCounter
  <2>1. /\ pc = "IncrementLoopCounter" /\ taken' = taken
        /\ pc' \in {"End", "ExecuteSegment"}
    BY <1>6 DEF IncrementLoopCounter, Goto, End
  <2>2. Stage = 3 /\ Stage' \in {0, 2}
    BY <2>1, StageFacts
  <2> QED BY <2>1, <2>2 DEF Forward
<1>7. CASE HumanApproves
  <2>1. pc = "WaitForHITPCallback" /\ pc' = "MergeCallbackResult" /\ taken' = taken
    BY <1>7 DEF HumanApproves, Goto
  <2>2. Stage = 9 /\ Stage' = 8
    BY <2>1, StageFacts
  <2> QED BY <2>1, <2>2 DEF Forward
<1>8. CASE MergeCallbackResult
  <2>1. /\ pc = "MergeCallbackResult" /\ pc' = "EvaluateNextAction" /\ taken' = taken
        /\ Synced(CallbackDelta)
    BY <1>8 DEF MergeCallbackResult, Goto
  <2>2. nextAction' \in {"COMPLETE", "CONTINUE"}
    <3>1. nextAction' = NextAction(Merge(CallbackDelta), CallbackDelta)
      BY <2>1 DEF Synced
    <3> QED BY <3>1, ResumeFacts
  <2>3. Stage = 8 /\ Stage' \in {1, 4}
    BY <2>1, <2>2, StageFacts
  <2> QED BY <2>1, <2>3 DEF Forward
<1>9. CASE PauseTimesOut \/ StateDataManagerDies \/ HistoryFull
  <2>1. /\ pc \in {"WaitForHITPCallback", "MergeCallbackResult",
                   "AggregateParallelResults", "ProcessParallelBranches"}
        /\ pc' = "End" /\ taken' = taken
    BY <1>9 DEF PauseTimesOut, StateDataManagerDies, HistoryFull, End
  <2>2. Stage \in {9, 8, 5, 6} /\ Stage' = 0
    BY <2>1, StageFacts
  <2> QED BY <2>1, <2>2 DEF Forward
<1>10. CASE StartMap
  <2>1. pc = "ProcessParallelBranches" /\ branches = <<>> /\ taken' = taken
    BY <1>10 DEF StartMap
  <2>2. CASE bag.pending = <<>>
    <3>1. pc' = "End"
      BY <1>10, <2>2 DEF StartMap, End
    <3>2. Stage = 6 /\ Stage' = 0
      BY <2>1, <3>1, StageFacts
    <3> QED BY <2>1, <3>2 DEF Forward
  <2>3. CASE bag.pending # <<>>
    <3>1. /\ pc' = pc
          /\ branches' = [i \in DOMAIN bag.pending |->
                            [at |-> "HydrateBranchConfig", rounds |-> 0]]
      BY <1>10, <2>3 DEF StartMap, machine
    <3>2. bag.pending \in Seq(Segments)
      BY DEF IndInv, TypeOK
    <3>3. 1 \in DOMAIN bag.pending
      <4>1. Len(bag.pending) \in Nat \ {0} /\ DOMAIN bag.pending = 1..Len(bag.pending)
        BY <2>3, <3>2, EmptySeq, LenProperties
      <4> QED BY <4>1, SMT
    <3>4. branches' # <<>>
      BY <3>1, <3>3
    <3>5. Stage' = Stage
      BY <2>1, <3>1, StageFacts
    <3> QED BY <2>1, <3>4, <3>5 DEF Forward, MapAdvances
  <2> QED BY <2>2, <2>3
<1>11. CASE Branching
  <2>1. pc = "ProcessParallelBranches"
    BY <1>11 DEF Branching
  <2>2. MapAdvances /\ pc' = pc /\ taken' = taken
    BY <1>11, BranchForward
  <2>3. Stage' = Stage
    BY <2>1, <2>2, StageFacts
  <2> QED BY <2>2, <2>3 DEF Forward
<1>12. CASE MapFails \/ MapEnds
  <2>1. /\ pc = "ProcessParallelBranches" /\ pc' = "AggregateParallelResults"
        /\ taken' = taken
    BY <1>12 DEF MapFails, MapEnds, Goto
  <2>2. Stage = 6 /\ Stage' = 5
    BY <2>1, StageFacts
  <2> QED BY <2>1, <2>2 DEF Forward
<1>13. CASE AggregateParallelResults
  <2>1. /\ pc = "AggregateParallelResults" /\ pc' = "EvaluateNextAction"
        /\ taken' = taken /\ nextAction' = "FAILED"
    BY <1>13, AggregateFails DEF AggregateParallelResults, Goto
  <2>2. Stage = 5 /\ Stage' = 1
    BY <2>1, StageFacts
  <2> QED BY <2>1, <2>2 DEF Forward
<1> QED
  BY <1>2, <1>3, <1>4, <1>5, <1>6, <1>7, <1>8, <1>9, <1>10, <1>11, <1>12, <1>13
     DEF Next, SystemStep

(* The kernel loop never goes back, whichever answer is merged and which   *)
(* call fails, for any partition, width and limits.  What a step moves is  *)
(* bounded (the segments, eleven stages, MaxAttempts, and for each branch  *)
(* MaxRounds), so no execution takes steps for ever.                       *)
THEOREM NoWayBack == Spec => NeverGoesBack
<1>1. IndInv /\ IndInv' /\ [Next]_vars => [Forward]_vars
  BY StepForward
<1> QED
  BY <1>1, Invariant, PTL DEF Spec, NeverGoesBack, Forward

\* How a step of the loop that takes no answer changes the status.
LEMMA StatusFacts ==
  ASSUME IndInv, [Next]_vars, ~SegmentAnswers
  PROVE  /\ taken' = taken
         /\ \/ status' = status
            \/ status = "RUNNING" /\ status' = "SUCCEEDED" /\ taken = Segments
            \/ status = "RUNNING" /\ status' \in {"FAILED", "LOOP_LIMIT_EXCEEDED"}
<1>1. pc # "End" => status = "RUNNING"
  BY DEF IndInv, TypeOK
<1>2. CASE EvaluateNextAction
  <2>1. taken' = taken /\ pc = "EvaluateNextAction"
    BY <1>2 DEF EvaluateNextAction
  <2>2. nextAction = "COMPLETE" => taken = Segments
    BY <2>1 DEF IndInv, LoopInv, AtEvaluate
  <2>3. CASE nextAction = "FAILED"
    BY <1>1, <1>2, <2>1, <2>3 DEF EvaluateNextAction, End
  <2>4. CASE nextAction = "COMPLETE"
    BY <1>1, <1>2, <2>1, <2>2, <2>4 DEF EvaluateNextAction, End
  <2>5. CASE nextAction \notin {"FAILED", "COMPLETE"}
    <3>1. status' = status
      BY <1>2, <2>5 DEF EvaluateNextAction, Goto
    <3> QED BY <2>1, <3>1
  <2> QED BY <2>3, <2>4, <2>5
<1>3. CASE SegmentFails \/ LambdaDies
  BY <1>1, <1>3 DEF SegmentFails, LambdaDies, Goto, End
<1>4. CASE IncrementLoopCounter
  BY <1>1, <1>4 DEF IncrementLoopCounter, Goto, End
<1>5. CASE HumanApproves \/ PauseTimesOut \/ MergeCallbackResult \/ StateDataManagerDies
  BY <1>1, <1>5 DEF HumanApproves, PauseTimesOut, MergeCallbackResult,
                    StateDataManagerDies, Goto, End
<1>6. CASE StartMap
  BY <1>1, <1>6 DEF StartMap, End, machine
<1>7. CASE Branching
  BY <1>7 DEF Branching, BranchStep, HydrateBranch, BranchRuns, BranchRunFails,
              SyncBranch, notBranch, machine
<1>8. CASE MapFails \/ HistoryFull \/ MapEnds \/ AggregateParallelResults
  BY <1>1, <1>8 DEF MapFails, HistoryFull, MapEnds, AggregateParallelResults, Goto, End
<1>9. CASE UNCHANGED vars
  BY <1>9 DEF vars, machine
<1> QED
  BY <1>2, <1>3, <1>4, <1>5, <1>6, <1>7, <1>8, <1>9 DEF Next, SystemStep

\* The kernel loop implements the abstract order of segments: whatever fails,
\* is retried or waits, segments are taken one after the other and success
\* means that all were.
THEOREM ImplementsOrder == Spec => RefinesSegmentOrder
<1>1. Init => Order!OrderInit
  BY DEF Init, Order!OrderInit
<1>2. IndInv /\ [Next]_vars => [Order!OrderNext]_(Order!orderVars)
  <2> SUFFICES ASSUME IndInv, [Next]_vars
               PROVE  [Order!OrderNext]_(Order!orderVars)
    OBVIOUS
  <2> USE DEF Order!orderVars, Order!OrderNext
  <2>1. Order!Segments = Segments
    BY DEF Order!Segments, Segments
  <2>2. CASE SegmentAnswers
    <3>1. /\ Current \in Segments /\ taken = 0..(Current - 1)
          /\ taken' = taken \cup {Current}
          /\ status = "RUNNING" /\ status' = status
      BY <2>2 DEF SegmentAnswers, Goto, IndInv, TypeOK, LoopInv, AtExecute
    <3>2. taken' = 0..Current
      BY <3>1, SizesAssumption, SMT DEF Segments
    <3>3. Order!Take
      BY <2>1, <3>1, <3>2 DEF Order!Take
    <3> QED BY <3>3
  <2>3. CASE ~SegmentAnswers
    <3>1. /\ taken' = taken
          /\ \/ status' = status
             \/ status = "RUNNING" /\ status' = "SUCCEEDED" /\ taken = Segments
             \/ status = "RUNNING" /\ status' \in {"FAILED", "LOOP_LIMIT_EXCEEDED"}
      BY <2>3, StatusFacts
    <3> QED BY <2>1, <3>1 DEF Order!Succeed, Order!Fail
  <2> QED BY <2>2, <2>3
<1> QED
  BY <1>1, <1>2, Invariant, PTL DEF Spec, RefinesSegmentOrder, Order!OrderSpec
==============================================================================
