-------------------------- MODULE BackgroundGCProofs --------------------------
(***************************************************************************)
(* Proofs about BackgroundGC for every number of calls, blocks, consumers  *)
(* and every value of the limits: type correctness, the durability and the *)
(* reference-count invariants, and that the calls implement ManifestCommit.*)
(***************************************************************************)
EXTENDS BackgroundGC, FiniteSetTheorems, TLAPS

CountedUse(t, b) == \E i \in 1 .. counted[t] : BlockList[t][i] = b
Counters(w, b) == {t \in Txns : WorkflowOf[t] = w /\ CountedUse(t, b)}

(* What a call has done when it is in a phase. *)
PhaseInv ==
  \A t \in Txns :
    /\ up[t] <= Length(t)
    /\ counted[t] <= Length(t)
    /\ pc[t] = "prepare" => up[t] < Length(t)
    /\ pc[t] \notin {"prepare", "rollback", "failed"} => up[t] = Length(t)
    /\ pc[t] \in {"rollback", "confirm", "schedule"} => pos[t] < up[t]
    /\ pos[t] < up[t] + SqsBatch
    /\ pc[t] \in {"prepare", "refs"} => counted[t] < Length(t)
    /\ pc[t] \in {"commit", "marker", "confirm", "done"} => counted[t] = Length(t)
    /\ Acknowledged(t) => t \in manifests
    /\ t \in manifests => counted[t] = Length(t)

(* A GC message, in the queue or with a consumer, is about an upload of a  *)
(* call that went down an error path.                                      *)
FromFailure(m) == Failing(m.txn) /\ m.idx \in 1 .. up[m.txn]
MessageInv ==
  /\ \A m \in queue : FromFailure(m)
  /\ \A c \in Consumers : \A m \in checked[c] : FromFailure(m)

(* An upload of a call that has not failed is missing only because a call  *)
(* that uploaded the same block has.                                       *)
LossInv ==
  \A t \in Txns : \A i \in 1 .. up[t] :
    ~Failing(t) /\ s3[BlockList[t][i]] = Absent
      => \E u \in Txns : Failing(u) /\ Uploaded(u, BlockList[t][i])

(* A count covers every call that has counted the block. *)
CountInv ==
  \A w \in Workflows, b \in Blocks : refs[w][b] >= Cardinality(Counters(w, b))

IndInv == TypeOK /\ PhaseInv /\ MessageInv /\ LossInv /\ CountInv

------------------------------------------------------------------------------

USE DEF At, Goto, GotoLoop, Advance, Ended, stores, locals

(* What the assumptions say of the blocks of a call. *)
LEMMA ListFacts ==
  ASSUME NEW t \in Txns
  PROVE  /\ Length(t) \in Nat
         /\ DOMAIN BlockList[t] = 1 .. Length(t)
         /\ \A i \in 1 .. Length(t) : BlockList[t][i] \in Blocks
         /\ WorkflowOf[t] \in Workflows
BY BlockListAssumption, WorkflowAssumption DEF Length

\* An upload is a call and an index into its list of blocks.
LEMMA UploadFacts ==
  ASSUME NEW t \in Txns, NEW i \in 1 .. Length(t)
  PROVE  /\ [txn |-> t, idx |-> i] \in Uploads
         /\ Key([txn |-> t, idx |-> i]) = BlockList[t][i]
BY ListFacts DEF Uploads, Key

\* The invariant holds before the first call.
LEMMA InitInv == Init => IndInv
<1> SUFFICES ASSUME Init PROVE IndInv
  OBVIOUS
<1> USE DEF Init, GuardInit
<1>1. TypeOK
  BY LimitsAssumption DEF TypeOK, GuardTypeOK, Tags, Absent, Phases
<1>2. PhaseInv
  BY ListFacts, LimitsAssumption DEF PhaseInv, Acknowledged
<1>3. MessageInv
  BY DEF MessageInv
<1>4. LossInv
  BY DEF LossInv
<1>5. CountInv
  <2> SUFFICES ASSUME NEW w \in Workflows, NEW b \in Blocks
               PROVE  refs[w][b] >= Cardinality(Counters(w, b))
    BY DEF CountInv
  <2>1. Counters(w, b) = {}
    BY DEF Counters, CountedUse
  <2> QED
    BY <2>1, FS_EmptySet
<1> QED
  BY <1>1, <1>2, <1>3, <1>4, <1>5 DEF IndInv

(* One step of a call keeps the types: every action in turn. *)
LEMMA CallType ==
  ASSUME TypeOK, PhaseInv, NEW t \in Txns, Create(t), UNCHANGED checked
  PROVE  TypeOK'
<1> USE DEF TypeOK, GuardTypeOK, Phases
<1>t. Length(t) \in Nat /\ WorkflowOf[t] \in Workflows
  BY ListFacts
<1>p. \A u \in Uploads : Pending(u) \in Tags
  BY DEF Pending, Tags
<1>a. Absent \in Tags /\ Committed \in Tags
  BY DEF Absent, Committed, Tags
<1>r. AddReferences(t) => refs' \in [Workflows -> [Blocks -> Nat]]
  BY <1>t DEF AddReferences
<1>c. CountedAfter(t) \in Nat
  BY <1>t, LimitsAssumption DEF CountedAfter
<1>u. pc[t] = "prepare" => [txn |-> t, idx |-> up[t] + 1] \in Uploads
  BY <1>t, UploadFacts DEF PhaseInv
<1>1. CASE UploadBlock(t)
  <2>1. s3' \in [Blocks -> Tags]
    BY <1>1, <1>p, <1>u DEF UploadBlock
  <2> QED
    BY <2>1, <1>1 DEF UploadBlock
<1>2. CASE \E f \in BOOLEAN : UploadFails(t, f)
  <2> DEFINE u == [txn |-> t, idx |-> up[t] + 1]
  <2>1. pc[t] = "prepare" /\ s3' \in {s3, [s3 EXCEPT ![Key(u)] = Pending(u)]}
    BY <1>2 DEF UploadFails
  <2>2. Pending(u) \in Tags
    BY <2>1, <1>p, <1>u
  <2>3. s3' \in [Blocks -> Tags]
    BY <2>1, <2>2
  <2>4. UNCHANGED <<markers, refs, manifests, queue, up, counted, attempt, crashed>>
    BY <1>2 DEF UploadFails
  <2>5. pc' \in [Txns -> Phases] /\ pos' \in [Txns -> Nat]
    BY <1>2 DEF UploadFails
  <2> QED
    BY <2>3, <2>4, <2>5
<1>3. CASE \E f \in BOOLEAN : RollbackBlock(t, f)
  <2>1. s3' \in [Blocks -> Tags]
    BY <1>3, <1>a DEF RollbackBlock
  <2> QED
    BY <2>1, <1>3 DEF RollbackBlock
<1>4. CASE CountRefs(t)
  BY <1>4, <1>r, <1>c DEF CountRefs
<1>5. CASE \E f \in BOOLEAN : CountRefsFails(t, f)
  BY <1>5, <1>r, <1>c DEF CountRefsFails
<1>6. CASE Commit(t)
  BY <1>6 DEF Commit
<1>7. CASE \E f \in BOOLEAN : CommitTransient(t, f)
  <2>1. /\ manifests' \subseteq Txns
        /\ UNCHANGED <<s3, markers, refs, queue, up, counted, crashed>>
    BY <1>7 DEF CommitTransient
  <2>2. attempt' \in [Txns -> 0..MaxRetries - 1]
    BY <1>7, LimitsAssumption DEF CommitTransient
  <2>3. pc' \in {pc, [pc EXCEPT ![t] = "failed"], [pc EXCEPT ![t] = "schedule"]}
    BY <1>7 DEF CommitTransient
  <2>4. pos' \in {pos, [pos EXCEPT ![t] = 0]}
    BY <1>7 DEF CommitTransient
  <2>5. pc' \in [Txns -> Phases] /\ pos' \in [Txns -> Nat]
    BY <2>3, <2>4
  <2> QED
    BY <2>1, <2>2, <2>5
<1>8. CASE \E f \in BOOLEAN : CommitFails(t, f)
  BY <1>8 DEF CommitFails
<1>9. CASE CommitRefused(t)
  BY <1>9 DEF CommitRefused
<1>10. CASE \E f \in BOOLEAN : WriteMarker(t, f)
  BY <1>10 DEF WriteMarker
<1>11. CASE ConfirmBlock(t)
  <2>1. s3' \in [Blocks -> Tags]
    BY <1>11, <1>a DEF ConfirmBlock
  <2> QED
    BY <2>1, <1>11 DEF ConfirmBlock
<1>12. CASE \E f \in BOOLEAN : ConfirmFails(t, f)
  <2>1. s3' \in [Blocks -> Tags]
    BY <1>12, <1>a DEF ConfirmFails
  <2> QED
    BY <2>1, <1>12 DEF ConfirmFails
<1>13. CASE \E taken \in SUBSET SqsEntries(t) : ScheduleGc(t, taken)
  <2> PICK taken \in SUBSET SqsEntries(t) : ScheduleGc(t, taken)
    BY <1>13
  <2>1. {[txn |-> t, idx |-> i] : i \in taken} \subseteq Uploads
    BY UploadFacts, ListFacts DEF SqsEntries
  <2>2. queue' \subseteq Uploads
    BY <2>1 DEF ScheduleGc
  <2>3. pos[t] + SqsBatch \in Nat
    BY LimitsAssumption
  <2> QED
    BY <2>2, <2>3 DEF ScheduleGc
<1> QED
  BY <1>1, <1>2, <1>3, <1>4, <1>5, <1>6, <1>7, <1>8, <1>9, <1>10, <1>11, <1>12, <1>13
  DEF Create

(* The steps of the consumers, and what they leave alone. *)
LEMMA CollectFrame ==
  ASSUME TypeOK, CollectNext
  PROVE  /\ UNCHANGED <<markers, refs, manifests, locals>>
         /\ queue' \subseteq queue
         /\ checked' \in [Consumers -> SUBSET Uploads]
         /\ \A c \in Consumers : checked'[c] \subseteq checked[c] \cup queue
         /\ \/ s3' = s3
            \/ \E c \in Consumers : \E m \in checked[c] :
                 s3' = [s3 EXCEPT ![Key(m)] = Absent]
<1> USE DEF TypeOK, GuardTypeOK, GuardIdle, Receives, Ack
<1>1. ASSUME NEW m \in queue, Look(m)
      PROVE  /\ UNCHANGED <<s3, markers, refs, manifests, locals>>
             /\ queue' \subseteq queue
             /\ checked' \in [Consumers -> SUBSET Uploads]
             /\ \A c \in Consumers : checked'[c] \subseteq checked[c] \cup queue
  <2>1. CASE HeadMissing(m) \/ TagsSkip(m) \/ TagsUnreadable(m)
    BY <2>1 DEF HeadMissing, TagsSkip, TagsUnreadable
  <2>2. CASE HeadFound(m)
    BY <2>2 DEF HeadFound
  <2>3. CASE TagsMatch(m)
    BY <2>3 DEF TagsMatch
  <2> QED
    BY <1>1, <2>1, <2>2, <2>3 DEF Look
<1>2. ASSUME NEW c \in Consumers, NEW m \in checked[c], Delete(c, m)
      PROVE  /\ UNCHANGED <<markers, refs, manifests, locals>>
             /\ queue' \subseteq queue
             /\ checked' \in [Consumers -> SUBSET Uploads]
             /\ \A d \in Consumers : checked'[d] \subseteq checked[d]
             /\ s3' = s3 \/ s3' = [s3 EXCEPT ![Key(m)] = Absent]
  <2>1. CASE \E acked \in BOOLEAN : DeleteObject(c, m, acked)
    BY <2>1 DEF DeleteObject
  <2>2. CASE DeleteFails(c, m)
    BY <2>2 DEF DeleteFails
  <2> QED
    BY <1>2, <2>1, <2>2 DEF Delete
<1> QED
  BY <1>1, <1>2 DEF CollectNext

\* A step of a call keeps what its location says of uploads and counts.
LEMMA CallPhase ==
  ASSUME TypeOK, PhaseInv, NEW t \in Txns, Create(t)
  PROVE  PhaseInv'
<1> USE DEF TypeOK, GuardTypeOK, Acknowledged
<1> SUFFICES ASSUME NEW v \in Txns
             PROVE  /\ up'[v] <= Length(v)
                    /\ counted'[v] <= Length(v)
                    /\ pc'[v] = "prepare" => up'[v] < Length(v)
                    /\ pc'[v] \notin {"prepare", "rollback", "failed"}
                         => up'[v] = Length(v)
                    /\ pc'[v] \in {"rollback", "confirm", "schedule"} => pos'[v] < up'[v]
                    /\ pos'[v] < up'[v] + SqsBatch
                    /\ pc'[v] \in {"prepare", "refs"} => counted'[v] < Length(v)
                    /\ pc'[v] \in {"commit", "marker", "confirm", "done"}
                         => counted'[v] = Length(v)
                    /\ pc'[v] \in {"marker", "confirm", "done"} => v \in manifests'
                    /\ v \in manifests' => counted'[v] = Length(v)
  BY DEF PhaseInv, Length
<1>v. Length(v) \in Nat /\ Length(t) \in Nat /\ SqsBatch \in Nat \ {0}
  BY ListFacts, LimitsAssumption
<1>o. /\ up[v] <= Length(v)
      /\ counted[v] <= Length(v)
      /\ pc[v] = "prepare" => up[v] < Length(v)
      /\ pc[v] \notin {"prepare", "rollback", "failed"} => up[v] = Length(v)
      /\ pc[v] \in {"rollback", "confirm", "schedule"} => pos[v] < up[v]
      /\ pos[v] < up[v] + SqsBatch
      /\ pc[v] \in {"prepare", "refs"} => counted[v] < Length(v)
      /\ pc[v] \in {"commit", "marker", "confirm", "done"} => counted[v] = Length(v)
      /\ pc[v] \in {"marker", "confirm", "done"} => v \in manifests
      /\ v \in manifests => counted[v] = Length(v)
  BY DEF PhaseInv
<1>a. CountedAfter(t) \in Nat /\ CountedAfter(t) <= Length(t)
  BY <1>v, LimitsAssumption DEF CountedAfter
<1>1. CASE UploadBlock(t)
  BY <1>1, <1>v, <1>o DEF UploadBlock
<1>2. CASE \E f \in BOOLEAN : UploadFails(t, f)
  BY <1>2, <1>v, <1>o DEF UploadFails
<1>3. CASE \E f \in BOOLEAN : RollbackBlock(t, f)
  <2>1. /\ pc[t] = "rollback" /\ pos' = [pos EXCEPT ![t] = pos[t] + 1]
        /\ pc' = [pc EXCEPT ![t] = IF pos[t] + 1 >= up[t] THEN "failed" ELSE pc[t]]
        /\ UNCHANGED <<manifests, up, counted>>
    BY <1>3 DEF RollbackBlock
  <2>2. CASE v = t
    BY <2>1, <2>2, <1>v, <1>o
  <2>3. CASE v # t
    BY <2>1, <2>3, <1>o
  <2> QED
    BY <2>2, <2>3
<1>4. CASE CountRefs(t)
  <2>1. pc[t] = "refs" /\ counted' = [counted EXCEPT ![t] = CountedAfter(t)]
    BY <1>4 DEF CountRefs
  <2>2. pc' = [pc EXCEPT ![t] = IF CountedAfter(t) = Length(t) THEN "commit" ELSE "refs"]
    BY <1>4 DEF CountRefs
  <2>3. up' = up /\ pos' = pos /\ manifests' = manifests
    BY <1>4 DEF CountRefs
  <2>4. CASE v = t /\ CountedAfter(t) = Length(t)
    BY <2>1, <2>2, <2>3, <2>4, <1>v, <1>o
  <2>6. CASE v = t /\ CountedAfter(t) # Length(t)
    <3>1. pc'[v] = "refs" /\ counted'[v] \in Nat /\ counted'[v] < Length(v)
      <4>1. counted'[v] = CountedAfter(t) /\ pc'[v] = "refs"
        BY <2>1, <2>2, <2>6
      <4>2. CountedAfter(t) \in Nat /\ CountedAfter(t) < Length(t)
        BY <2>6, <1>v, LimitsAssumption DEF CountedAfter
      <4> QED
        BY <4>1, <4>2, <2>6
    <3>2. up'[v] = Length(v) /\ v \notin manifests'
      BY <2>1, <2>3, <2>6, <1>v, <1>o
    <3>3. pos'[v] < up'[v] + SqsBatch
      BY <2>3, <1>o
    <3> QED
      BY <3>1, <3>2, <3>3, <1>v
  <2>5. CASE v # t
    BY <2>1, <2>2, <2>3, <2>5, <1>v, <1>o
  <2> QED
    BY <2>4, <2>5, <2>6
<1>5. CASE \E f \in BOOLEAN : CountRefsFails(t, f)
  BY <1>5, <1>v, <1>o, <1>a DEF CountRefsFails
<1>6. CASE Commit(t)
  BY <1>6, <1>v, <1>o DEF Commit
<1>7. CASE \E f \in BOOLEAN : CommitTransient(t, f)
  BY <1>7, <1>v, <1>o DEF CommitTransient
<1>8. CASE \E f \in BOOLEAN : CommitFails(t, f)
  BY <1>8, <1>v, <1>o DEF CommitFails
<1>9. CASE CommitRefused(t)
  BY <1>9, <1>v, <1>o DEF CommitRefused
<1>10. CASE \E f \in BOOLEAN : WriteMarker(t, f)
  BY <1>10, <1>v, <1>o DEF WriteMarker
<1>11. CASE ConfirmBlock(t)
  <2>1. /\ pc[t] = "confirm" /\ pos' = [pos EXCEPT ![t] = pos[t] + 1]
        /\ pc' = [pc EXCEPT ![t] = IF pos[t] + 1 >= up[t] THEN "done" ELSE pc[t]]
        /\ UNCHANGED <<manifests, up, counted>>
    BY <1>11 DEF ConfirmBlock
  <2>2. CASE v = t
    BY <2>1, <2>2, <1>v, <1>o
  <2>3. CASE v # t
    BY <2>1, <2>3, <1>o
  <2> QED
    BY <2>2, <2>3
<1>12. CASE \E f \in BOOLEAN : ConfirmFails(t, f)
  BY <1>12, <1>v, <1>o DEF ConfirmFails
<1>13. CASE \E taken \in SUBSET SqsEntries(t) : ScheduleGc(t, taken)
  BY <1>13, <1>v, <1>o, LimitsAssumption DEF ScheduleGc
<1> QED
  BY <1>1, <1>2, <1>3, <1>4, <1>5, <1>6, <1>7, <1>8, <1>9, <1>10, <1>11, <1>12, <1>13
  DEF Create

(* A failed call stays failed and its upload list is final; an upload list *)
(* only grows.                                                             *)
LEMMA CallMonotone ==
  ASSUME TypeOK, PhaseInv, NEW t \in Txns, Create(t), NEW v \in Txns
  PROVE  /\ Failing(v) => Failing(v)'
         /\ up[v] <= up'[v]
<1> USE DEF TypeOK, GuardTypeOK, Failing
<1>1. CASE UploadBlock(t)
  BY <1>1 DEF UploadBlock
<1>2. CASE \E f \in BOOLEAN : UploadFails(t, f)
  BY <1>2 DEF UploadFails
<1>3. CASE \E f \in BOOLEAN : RollbackBlock(t, f)
  BY <1>3 DEF RollbackBlock
<1>4. CASE CountRefs(t) \/ \E f \in BOOLEAN : CountRefsFails(t, f)
  BY <1>4 DEF CountRefs, CountRefsFails
<1>5. CASE Commit(t) \/ CommitRefused(t)
  BY <1>5 DEF Commit, CommitRefused
<1>6. CASE \E f \in BOOLEAN : CommitTransient(t, f) \/ CommitFails(t, f)
  BY <1>6 DEF CommitTransient, CommitFails
<1>7. CASE \E f \in BOOLEAN : WriteMarker(t, f)
  BY <1>7 DEF WriteMarker
<1>8. CASE ConfirmBlock(t) \/ \E f \in BOOLEAN : ConfirmFails(t, f)
  BY <1>8 DEF ConfirmBlock, ConfirmFails
<1>9. CASE \E taken \in SUBSET SqsEntries(t) : ScheduleGc(t, taken)
  BY <1>9 DEF ScheduleGc
<1> QED
  BY <1>1, <1>2, <1>3, <1>4, <1>5, <1>6, <1>7, <1>8, <1>9 DEF Create

(* A step of a call removes only blocks the call itself uploaded, when it  *)
(* has failed; and what it adds to its upload list is in S3.               *)
LEMMA CallStore ==
  ASSUME TypeOK, PhaseInv, NEW t \in Txns, Create(t)
  PROVE  /\ \A b \in Blocks : s3'[b] = Absent =>
              s3[b] = Absent \/ (Failing(t)' /\ Uploaded(t, b)')
         /\ \A v \in Txns : \A i \in 1 .. up'[v] :
              i \in 1 .. up[v] \/ s3'[BlockList[v][i]] # Absent
<1> USE DEF TypeOK, GuardTypeOK
<1>p. \A u : Pending(u) # Absent /\ Committed # Absent
  BY DEF Pending, Committed, Absent
<1>1. CASE UploadBlock(t)
  <2> DEFINE u == [txn |-> t, idx |-> up[t] + 1]
  <2>1. up[t] + 1 \in 1 .. Length(t)
    BY <1>1, ListFacts DEF UploadBlock, PhaseInv
  <2>2. Key(u) = BlockList[t][up[t] + 1] /\ Key(u) \in Blocks
    BY <2>1, ListFacts, UploadFacts
  <2>3. s3' = [s3 EXCEPT ![Key(u)] = Pending(u)] /\ up' = [up EXCEPT ![t] = @ + 1]
    BY <1>1 DEF UploadBlock
  <2>4. ASSUME NEW v \in Txns, NEW i \in 1 .. up'[v]
        PROVE  i \in 1 .. up[v] \/ s3'[BlockList[v][i]] # Absent
    <3>1. CASE v = t /\ i = up[t] + 1
      <4>1. s3'[Key(u)] = Pending(u)
        BY <2>2, <2>3
      <4> QED
        BY <3>1, <4>1, <2>2, <1>p
    <3>2. CASE ~(v = t /\ i = up[t] + 1)
      <4>1. i \in Nat /\ up[v] \in Nat /\ 1 <= i /\ i <= up'[v]
        OBVIOUS
      <4>2. up'[v] = IF v = t THEN up[v] + 1 ELSE up[v]
        BY <2>3
      <4> QED
        BY <3>2, <4>1, <4>2
    <3> QED
      BY <3>1, <3>2
  <2>5. ASSUME NEW b \in Blocks, s3'[b] = Absent PROVE s3[b] = Absent
    BY <2>5, <2>2, <2>3, <1>p
  <2> QED
    BY <2>4, <2>5
<1>2. CASE \E f \in BOOLEAN : UploadFails(t, f)
  <2>1. up' = up
    BY <1>2 DEF UploadFails
  <2>2. ASSUME NEW b \in Blocks, s3'[b] = Absent PROVE s3[b] = Absent
    BY <2>2, <1>2, <1>p DEF UploadFails
  <2> QED
    BY <2>1, <2>2
<1>3. CASE \E f \in BOOLEAN : RollbackBlock(t, f)
  <2>1. up' = up /\ Failing(t)' /\ pos[t] + 1 \in 1 .. up[t]
    BY <1>3 DEF RollbackBlock, Failing, PhaseInv
  <2>2. s3' = s3 \/ s3' = [s3 EXCEPT ![BlockList[t][pos[t] + 1]] = Absent]
    BY <1>3 DEF RollbackBlock
  <2>3. ASSUME NEW b \in Blocks, s3'[b] = Absent, s3[b] # Absent
        PROVE  BlockList[t][pos[t] + 1] = b
    BY <2>2, <2>3
  <2>4. ASSUME NEW b \in Blocks, s3'[b] = Absent, s3[b] # Absent
        PROVE  Uploaded(t, b)'
    BY <2>4, <2>3, <2>1 DEF Uploaded
  <2> QED
    BY <2>1, <2>4
<1>4. CASE ConfirmBlock(t)
  <2>1. up' = up
    BY <1>4 DEF ConfirmBlock
  <2>2. ASSUME NEW b \in Blocks, s3'[b] = Absent PROVE s3[b] = Absent
    BY <2>2, <1>4, <1>p DEF ConfirmBlock
  <2> QED
    BY <2>1, <2>2
<1>5. CASE CountRefs(t) \/ \E f \in BOOLEAN : CountRefsFails(t, f)
  BY <1>5 DEF CountRefs, CountRefsFails
<1>6. CASE Commit(t) \/ CommitRefused(t)
  BY <1>6 DEF Commit, CommitRefused
<1>7. CASE \E f \in BOOLEAN : CommitTransient(t, f) \/ CommitFails(t, f) \/ WriteMarker(t, f)
  BY <1>7 DEF CommitTransient, CommitFails, WriteMarker
<1>8. CASE \E taken \in SUBSET SqsEntries(t) : ScheduleGc(t, taken)
  BY <1>8 DEF ScheduleGc
<1>9. CASE \E f \in BOOLEAN : ConfirmFails(t, f)
  <2>1. up' = up
    BY <1>9 DEF ConfirmFails
  <2>2. ASSUME NEW b \in Blocks, s3'[b] = Absent PROVE s3[b] = Absent
    BY <2>2, <1>9, <1>p DEF ConfirmFails
  <2> QED
    BY <2>1, <2>2
<1> QED
  BY <1>1, <1>2, <1>3, <1>4, <1>5, <1>6, <1>7, <1>8, <1>9 DEF Create

(* A call sends GC messages only about its own uploads, when it has failed. *)
LEMMA CallQueue ==
  ASSUME TypeOK, PhaseInv, NEW t \in Txns, Create(t), NEW m \in queue'
  PROVE  m \in queue \/ FromFailure(m)'
<1> USE DEF TypeOK, GuardTypeOK
<1>1. CASE \E taken \in SUBSET SqsEntries(t) : ScheduleGc(t, taken)
  <2> PICK taken \in SUBSET SqsEntries(t) : ScheduleGc(t, taken)
    BY <1>1
  <2>1. up' = up /\ Failing(t)'
    BY DEF ScheduleGc, Failing
  <2>2. \A i \in taken : i \in 1 .. up[t]
    <3>1. DOMAIN BlockList[t] = 1 .. Length(t) /\ Length(t) \in Nat
      BY ListFacts
    <3> QED
      BY <3>1 DEF SqsEntries
  <2>3. m \in queue \/ \E i \in taken : m = [txn |-> t, idx |-> i]
    BY DEF ScheduleGc
  <2> QED
    BY <2>1, <2>2, <2>3 DEF FromFailure
<1>2. CASE ~\E taken \in SUBSET SqsEntries(t) : ScheduleGc(t, taken)
  BY <1>2 DEF Create, UploadBlock, UploadFails, RollbackBlock, CountRefs, CountRefsFails,
              Commit, CommitTransient, CommitFails, CommitRefused, WriteMarker,
              ConfirmBlock, ConfirmFails
<1> QED
  BY <1>1, <1>2

\* A step of a call keeps the blocks of the others but for failures.
LEMMA CallLoss ==
  ASSUME TypeOK, TypeOK', PhaseInv, LossInv, NEW t \in Txns, Create(t)
  PROVE  LossInv'
<1> USE DEF TypeOK, GuardTypeOK
<1> SUFFICES ASSUME NEW v \in Txns, NEW i \in 1 .. up'[v],
                    ~Failing(v)', s3'[BlockList[v][i]] = Absent
             PROVE  \E u \in Txns : Failing(u)' /\ Uploaded(u, BlockList[v][i])'
  BY DEF LossInv, Failing, Uploaded
<1> DEFINE b == BlockList[v][i]
<1>1. PhaseInv' /\ Length(v) \in Nat
  BY CallPhase, ListFacts
<1>2. b \in Blocks
  <2>1. up'[v] <= Length(v) /\ up'[v] \in Nat
    BY <1>1 DEF PhaseInv, Length
  <2>2. i \in 1 .. Length(v)
    BY <1>1, <2>1
  <2> QED
    BY <2>2, ListFacts
<1>3. i \in 1 .. up[v]
  BY CallStore
<1>4. ~Failing(v)
  BY CallMonotone
<1>5. CASE s3[b] = Absent
  <2>1. PICK u \in Txns : Failing(u) /\ Uploaded(u, b)
    BY <1>3, <1>4, <1>5 DEF LossInv
  <2>2. Failing(u)' /\ up[u] <= up'[u]
    BY <2>1, CallMonotone
  <2>3. up[u] \in Nat /\ up'[u] \in Nat
    BY <2>1
  <2> QED
    BY <2>1, <2>2, <2>3 DEF Uploaded
<1>6. CASE s3[b] # Absent
  BY <1>2, <1>6, CallStore
<1> QED
  BY <1>5, <1>6

\* A call that took its error path does not leave it.
LEMMA FailureStable ==
  ASSUME TypeOK, TypeOK', PhaseInv, NEW t \in Txns, Create(t),
         NEW m \in Uploads, FromFailure(m)
  PROVE  FromFailure(m)'
<1>1. m.txn \in Txns
  BY DEF Uploads
<1>2. Failing(m.txn)' /\ up[m.txn] <= up'[m.txn]
  BY <1>1, CallMonotone DEF FromFailure
<1>3. up[m.txn] \in Nat /\ up'[m.txn] \in Nat
  BY <1>1 DEF TypeOK, GuardTypeOK
<1> QED
  BY <1>2, <1>3 DEF FromFailure

\* A step of a call sends messages only about its own failed uploads.
LEMMA CallMessage ==
  ASSUME TypeOK, TypeOK', PhaseInv, MessageInv, NEW t \in Txns, Create(t), UNCHANGED checked
  PROVE  MessageInv'
<1>1. ASSUME NEW m \in queue' PROVE FromFailure(m)'
  <2>1. CASE m \in queue
    BY <2>1, FailureStable DEF MessageInv, TypeOK, GuardTypeOK
  <2>2. CASE m \notin queue
    BY <2>2, CallQueue
  <2> QED
    BY <2>1, <2>2
<1>2. ASSUME NEW c \in Consumers, NEW m \in checked'[c] PROVE FromFailure(m)'
  BY <1>2, FailureStable DEF MessageInv, TypeOK
<1> QED
  BY <1>1, <1>2 DEF MessageInv

(* A batch adds one to the count of each of its blocks, and the call to    *)
(* the callers that have counted the block.                                *)
LEMMA BatchCount ==
  ASSUME TypeOK, CountInv, NEW t \in Txns, AddReferences(t),
         counted' = [counted EXCEPT ![t] = CountedAfter(t)]
  PROVE  CountInv'
<1> USE DEF TypeOK, GuardTypeOK
<1> SUFFICES ASSUME NEW w \in Workflows, NEW b \in Blocks
             PROVE  refs'[w][b] >= Cardinality(Counters(w, b)')
  BY DEF CountInv
<1>f. IsFiniteSet(Counters(w, b)) /\ Cardinality(Counters(w, b)) \in Nat
  <2>1. Counters(w, b) \subseteq Txns
    BY DEF Counters
  <2> QED
    BY <2>1, TxnsAssumption, FS_Subset, FS_CardinalityType
<1>o. refs[w][b] \in Nat /\ refs[w][b] >= Cardinality(Counters(w, b))
  BY DEF CountInv
<1>r. refs'[w][b] = IF w = WorkflowOf[t] /\ b \in BatchBlocks(t)
                      THEN refs[w][b] + 1 ELSE refs[w][b]
  BY DEF AddReferences
<1>1. CASE w = WorkflowOf[t] /\ b \in BatchBlocks(t)
  <2>1. Counters(w, b)' \subseteq Counters(w, b) \cup {t}
    BY DEF Counters, CountedUse
  <2>2. /\ IsFiniteSet(Counters(w, b) \cup {t})
        /\ \/ Cardinality(Counters(w, b) \cup {t}) = Cardinality(Counters(w, b))
           \/ Cardinality(Counters(w, b) \cup {t}) = Cardinality(Counters(w, b)) + 1
    BY <1>f, FS_AddElement
  <2>3. Cardinality(Counters(w, b)') <= Cardinality(Counters(w, b) \cup {t})
    BY <2>1, <2>2, FS_Subset
  <2>4. /\ Cardinality(Counters(w, b)') \in Nat
        /\ Cardinality(Counters(w, b) \cup {t}) \in Nat
    BY <2>1, <2>2, FS_Subset, FS_CardinalityType
  <2> QED
    BY <1>1, <1>f, <1>o, <1>r, <2>2, <2>3, <2>4
<1>2. CASE ~(w = WorkflowOf[t] /\ b \in BatchBlocks(t))
  <2>1. ASSUME NEW v \in Txns, WorkflowOf[v] = w, CountedUse(v, b)'
        PROVE  CountedUse(v, b)
    <3>1. CASE v = t
      <4>1. PICK i \in 1 .. CountedAfter(t) : BlockList[t][i] = b
        BY <2>1, <3>1 DEF CountedUse
      <4>2. i \notin Batch(t)
        BY <1>2, <2>1, <3>1, <4>1 DEF BatchBlocks
      <4>3. counted[t] \in Nat /\ i \in Nat /\ 1 <= i
        BY LimitsAssumption, ListFacts DEF CountedAfter
      <4>4. i <= counted[t]
        <5>1. DOMAIN BlockList[t] = 1 .. Length(t) /\ Length(t) \in Nat
          BY ListFacts
        <5>2. i <= CountedAfter(t)
          BY <4>1, <4>3
        <5> QED
          BY <4>2, <4>3, <5>1, <5>2, LimitsAssumption DEF Batch, CountedAfter
      <4> QED
        BY <3>1, <4>1, <4>3, <4>4 DEF CountedUse
    <3>2. CASE v # t
      BY <2>1, <3>2 DEF CountedUse
    <3> QED
      BY <3>1, <3>2
  <2>2. Counters(w, b)' \subseteq Counters(w, b)
    BY <2>1 DEF Counters
  <2>3. /\ Cardinality(Counters(w, b)') <= Cardinality(Counters(w, b))
        /\ Cardinality(Counters(w, b)') \in Nat
    BY <1>f, <2>2, FS_Subset, FS_CardinalityType
  <2> QED
    BY <1>2, <1>f, <1>o, <1>r, <2>3
<1> QED
  BY <1>1, <1>2

\* A step of a call keeps the counts at the calls that have counted, at least.
LEMMA CallCount ==
  ASSUME TypeOK, CountInv, NEW t \in Txns, Create(t)
  PROVE  CountInv'
<1> USE DEF TypeOK, GuardTypeOK
<1>1. CASE CountRefs(t)
  BY <1>1, BatchCount DEF CountRefs
<1>2. CASE \E f \in BOOLEAN : CountRefsFails(t, f)
  <2>1. PICK f \in BOOLEAN : CountRefsFails(t, f)
    BY <1>2
  <2>2. CASE f
    BY <2>1, <2>2, BatchCount DEF CountRefsFails
  <2>3. CASE ~f
    BY <2>1, <2>3 DEF CountRefsFails, CountInv, Counters, CountedUse
  <2> QED
    BY <2>2, <2>3
<1>3. CASE /\ ~CountRefs(t)
           /\ ~\E f \in BOOLEAN : CountRefsFails(t, f)
  <2>1. refs' = refs /\ counted' = counted
    BY <1>3 DEF Create, UploadBlock, UploadFails, RollbackBlock, Commit, CommitTransient,
                CommitFails, CommitRefused, WriteMarker, ConfirmBlock, ConfirmFails, ScheduleGc
  <2> QED
    BY <2>1 DEF CountInv, Counters, CountedUse
<1> QED
  BY <1>1, <1>2, <1>3

(* The consumers delete only what messages are about: blocks of failed calls. *)
LEMMA CollectInv ==
  ASSUME IndInv, CollectNext
  PROVE  IndInv'
<1> USE DEF IndInv, TypeOK, GuardTypeOK
<1>f. /\ UNCHANGED <<markers, refs, manifests, pc, up, counted, pos, attempt, crashed>>
      /\ queue' \subseteq queue
      /\ \A c \in Consumers : checked'[c] \subseteq checked[c] \cup queue
  BY CollectFrame
<1>1. TypeOK'
  <2>1. s3' \in [Blocks -> Tags]
    <3>1. Absent \in Tags
      BY DEF Absent, Tags
    <3> QED
      BY <3>1, CollectFrame
  <2> QED
    BY <2>1, <1>f, CollectFrame
<1>2. PhaseInv'
  BY <1>f DEF PhaseInv, Acknowledged
<1>3. MessageInv'
  BY <1>f DEF MessageInv, FromFailure, Failing
<1>4. LossInv'
  <2> SUFFICES ASSUME NEW v \in Txns, NEW i \in 1 .. up[v],
                      ~Failing(v), s3'[BlockList[v][i]] = Absent
               PROVE  \E u \in Txns : Failing(u) /\ Uploaded(u, BlockList[v][i])
    BY <1>f DEF LossInv, Failing, Uploaded
  <2>1. CASE s3[BlockList[v][i]] = Absent
    BY <2>1 DEF LossInv
  <2>2. CASE s3[BlockList[v][i]] # Absent
    <3>1. PICK c \in Consumers : \E m \in checked[c] : s3' = [s3 EXCEPT ![Key(m)] = Absent]
      BY <2>2, CollectFrame
    <3>2. PICK m \in checked[c] : s3' = [s3 EXCEPT ![Key(m)] = Absent]
      BY <3>1
    <3>3. Key(m) = BlockList[v][i]
      BY <2>2, <3>2
    <3>4. m \in Uploads /\ FromFailure(m)
      BY DEF MessageInv
    <3> QED
      BY <3>3, <3>4 DEF FromFailure, Uploaded, Key, Uploads
  <2> QED
    BY <2>1, <2>2
<1>5. CountInv'
  BY <1>f DEF CountInv, Counters, CountedUse
<1> QED
  BY <1>1, <1>2, <1>3, <1>4, <1>5

\* Every step of calls and consumers keeps the invariant.
LEMMA NextInv == IndInv /\ [Next]_vars => IndInv'
<1> SUFFICES ASSUME IndInv, [Next]_vars PROVE IndInv'
  OBVIOUS
<1> USE DEF IndInv
<1>1. ASSUME NEW t \in Txns, Create(t), UNCHANGED checked PROVE IndInv'
  <2>1. TypeOK'
    BY <1>1, CallType
  <2>2. PhaseInv'
    BY <1>1, CallPhase
  <2>3. MessageInv'
    BY <1>1, <2>1, CallMessage
  <2>4. LossInv'
    BY <1>1, <2>1, CallLoss
  <2>5. CountInv'
    BY <1>1, CallCount
  <2> QED
    BY <2>1, <2>2, <2>3, <2>4, <2>5
<1>2. ASSUME NEW t \in Txns, Crash(t), UNCHANGED checked PROVE IndInv'
  BY <1>2 DEF Crash, TypeOK, GuardTypeOK, PhaseInv, MessageInv, FromFailure, LossInv,
              CountInv, Counters, CountedUse, Failing, Uploaded, Acknowledged
<1>3. CASE CollectNext
  BY <1>3, CollectInv
<1>4. CASE UNCHANGED vars
  BY <1>4 DEF vars, guardVars, TypeOK, GuardTypeOK, PhaseInv, MessageInv, FromFailure, LossInv,
              CountInv, Counters, CountedUse, Failing, Uploaded, Acknowledged
<1> QED
  BY <1>1, <1>2, <1>3, <1>4 DEF Next, GuardNext

------------------------------------------------------------------------------

(* The inductive invariant holds in every reachable state. *)
THEOREM Invariant == Spec => []IndInv
  BY InitInv, NextInv, PTL DEF Spec

(* Type correctness of the calls, the stores, the queue and the consumers. *)
THEOREM TypeCorrect == Spec => []TypeOK
<1>1. IndInv => TypeOK
  BY DEF IndInv
<1> QED
  BY <1>1, Invariant, PTL

(* The reference counts of eventual_consistency_guard.py never fall behind *)
(* the manifests stored, for every batch size and number of calls.         *)
THEOREM ReferencesCounted == Spec => []ManifestReferencesCounted
<1>1. IndInv => ManifestReferencesCounted
  <2> SUFFICES ASSUME IndInv, NEW w \in Workflows, NEW b \in Blocks
               PROVE  refs[w][b] >=
                        Cardinality({t \in manifests : WorkflowOf[t] = w /\ Uses(t, b)})
    BY DEF ManifestReferencesCounted
  <2> DEFINE M == {t \in manifests : WorkflowOf[t] = w /\ Uses(t, b)}
  <2>1. M \subseteq Counters(w, b)
    BY ListFacts DEF IndInv, TypeOK, GuardTypeOK, PhaseInv, Counters, CountedUse, Uses
  <2>2. IsFiniteSet(Counters(w, b))
    BY TxnsAssumption, FS_Subset DEF Counters
  <2>3. /\ Cardinality(M) <= Cardinality(Counters(w, b))
        /\ Cardinality(M) \in Nat /\ Cardinality(Counters(w, b)) \in Nat
    BY <2>1, <2>2, FS_Subset, FS_CardinalityType
  <2>4. refs[w][b] \in Nat /\ refs[w][b] >= Cardinality(Counters(w, b))
    BY DEF IndInv, TypeOK, GuardTypeOK, CountInv
  <2> QED
    BY <2>3, <2>4
<1> QED
  BY <1>1, Invariant, PTL

(* A block of an acknowledged manifest is lost only through another call   *)
(* with the same content that failed (rollback or GC message).             *)
THEOREM LossExplained == Spec => []LossNeedsFailedSharer
<1>1. IndInv => LossNeedsFailedSharer
  <2> SUFFICES ASSUME IndInv, NEW t \in Txns, NEW b \in Blocks,
                      Acknowledged(t), Uses(t, b), s3[b] = Absent
               PROVE  \E u \in Txns \ {t} : Failing(u) /\ Uploaded(u, b)
    BY DEF LossNeedsFailedSharer
  <2>1. ~Failing(t) /\ up[t] = Length(t)
    BY DEF IndInv, PhaseInv, TypeOK, GuardTypeOK, Phases, Acknowledged, Failing
  <2>2. PICK i \in 1 .. Length(t) : BlockList[t][i] = b
    BY ListFacts DEF Uses
  <2>3. PICK u \in Txns : Failing(u) /\ Uploaded(u, b)
    BY <2>1, <2>2 DEF IndInv, LossInv
  <2> QED
    BY <2>1, <2>3
<1> QED
  BY <1>1, Invariant, PTL

------------------------------------------------------------------------------

credited == {t \in Txns : counted[t] = Length(t)}
answer == [t \in Txns |-> Answer(t)]

(* The three ways in which a step of a call shows at the level of          *)
(* ManifestCommit.                                                         *)
LEMMA AbstractStep ==
  ASSUME NEW t \in Txns, Answer(t) = "none",
         answer' = [answer EXCEPT ![t] = Answer(t)'],
         Answer(t)' \in {"none", "error", "ok"},
         \/ /\ credited' = credited /\ manifests' = manifests
            /\ Answer(t)' = "ok" => t \in manifests
         \/ /\ credited' = credited \cup {t} /\ manifests' = manifests
            /\ Answer(t)' = "none"
         \/ /\ credited' = credited /\ manifests' = manifests \cup {t}
            /\ t \in credited /\ t \notin manifests
            /\ Answer(t)' # "ok"
  PROVE  [Promise!Next]_(Promise!vars)
<1> USE DEF Promise!Next, Promise!vars, credited, answer
<1>n. answer[t] = "none"
  OBVIOUS
<1>1. CASE credited' = credited /\ manifests' = manifests /\ Answer(t)' = "none"
  BY <1>1, <1>n
<1>2. CASE credited' = credited /\ manifests' = manifests /\ Answer(t)' = "error"
  BY <1>2, <1>n DEF Promise!Raise
<1>3. CASE /\ credited' = credited /\ manifests' = manifests
           /\ Answer(t)' = "ok" /\ t \in manifests
  BY <1>3, <1>n DEF Promise!Return
<1>4. CASE credited' = credited \cup {t} /\ manifests' = manifests /\ Answer(t)' = "none"
  BY <1>4, <1>n DEF Promise!Credit
<1>5. CASE /\ credited' = credited /\ manifests' = manifests \cup {t}
           /\ t \in credited /\ t \notin manifests /\ Answer(t)' = "none"
  BY <1>5, <1>n DEF Promise!Store
<1>6. CASE /\ credited' = credited /\ manifests' = manifests \cup {t}
           /\ t \in credited /\ t \notin manifests /\ Answer(t)' = "error"
  BY <1>6, <1>n DEF Promise!StoreAndRaise
<1> QED
  BY <1>1, <1>2, <1>3, <1>4, <1>5, <1>6

\* A step of a call is a step of ManifestCommit or a stutter.
LEMMA CallRefines ==
  ASSUME IndInv, IndInv', NEW t \in Txns, Create(t)
  PROVE  [Promise!Next]_(Promise!vars)
<1> USE DEF IndInv, TypeOK, GuardTypeOK
<1>1. /\ pc[t] \notin {"done", "failed"}
      /\ \E p \in Phases : pc' = [pc EXCEPT ![t] = p]
  <2>1. \/ UNCHANGED pc
        \/ \E p \in Phases : pc' = [pc EXCEPT ![t] = p]
    BY DEF Create, UploadBlock, UploadFails, RollbackBlock, CountRefs, CountRefsFails,
           Commit, CommitTransient, CommitFails, CommitRefused, WriteMarker, ConfirmBlock,
           ConfirmFails, ScheduleGc, Phases
  <2>2. pc[t] \notin {"done", "failed"}
    BY DEF Create, UploadBlock, UploadFails, RollbackBlock, CountRefs, CountRefsFails,
           Commit, CommitTransient, CommitFails, CommitRefused, WriteMarker, ConfirmBlock,
           ConfirmFails, ScheduleGc
  <2> QED
    BY <2>1, <2>2
<1>2. Answer(t) = "none" /\ Answer(t)' \in {"none", "error", "ok"}
  BY <1>1 DEF Answer
<1>3. answer' = [answer EXCEPT ![t] = Answer(t)']
  BY <1>1 DEF answer, Answer
<1>4. Answer(t)' = "ok" => t \in manifests'
  BY DEF Answer, PhaseInv, Acknowledged
<1>5. CASE CountRefs(t) \/ \E f \in BOOLEAN : CountRefsFails(t, f)
  <2>1. manifests' = manifests /\ Answer(t)' = "none"
    BY <1>5 DEF CountRefs, CountRefsFails, Answer
  <2>2. counted' = counted \/ counted' = [counted EXCEPT ![t] = CountedAfter(t)]
    BY <1>5 DEF CountRefs, CountRefsFails
  <2>3. t \notin credited
    BY <1>5, ListFacts DEF CountRefs, CountRefsFails, PhaseInv, credited
  <2>4. credited' = credited \/ credited' = credited \cup {t}
    <3>1. CASE counted' = counted
      BY <3>1 DEF credited, Length
    <3>2. CASE counted' = [counted EXCEPT ![t] = CountedAfter(t)]
      BY <3>2, <2>3 DEF credited, Length
    <3> QED
      BY <2>2, <3>1, <3>2
  <2> QED
    BY <1>2, <1>3, <2>1, <2>4, AbstractStep
<1>6. CASE /\ ~CountRefs(t)
           /\ ~\E f \in BOOLEAN : CountRefsFails(t, f)
  <2>1. counted' = counted
    BY <1>6 DEF Create, UploadBlock, UploadFails, RollbackBlock, Commit, CommitTransient,
                CommitFails, CommitRefused, WriteMarker, ConfirmBlock, ConfirmFails, ScheduleGc
  <2>2. credited' = credited
    BY <2>1 DEF credited, Length
  <2>3. \/ manifests' = manifests
        \/ /\ manifests' = manifests \cup {t} /\ t \notin manifests /\ pc[t] = "commit"
           /\ pc'[t] \in {"marker", "commit", "schedule", "failed"}
    BY <1>6 DEF Create, UploadBlock, UploadFails, RollbackBlock, Commit, CommitTransient,
                CommitFails, CommitRefused, WriteMarker, ConfirmBlock, ConfirmFails, ScheduleGc
  <2>4. CASE manifests' = manifests
    BY <1>2, <1>3, <1>4, <2>2, <2>4, AbstractStep
  <2>5. CASE /\ manifests' = manifests \cup {t} /\ t \notin manifests /\ pc[t] = "commit"
             /\ pc'[t] \in {"marker", "commit", "schedule", "failed"}
    <3>1. t \in credited
      BY <2>5 DEF PhaseInv, credited
    <3>2. Answer(t)' # "ok"
      BY <2>5 DEF Answer
    <3> QED
      BY <1>2, <1>3, <2>2, <2>5, <3>1, <3>2, AbstractStep
  <2> QED
    BY <2>3, <2>4, <2>5
<1> QED
  BY <1>5, <1>6

(* The calls implement what ManifestCommit promises their callers. *)
THEOREM Refinement == Spec => RefinesManifestCommit
<1>1. Init => Promise!Init
  BY ListFacts DEF Init, GuardInit, Promise!Init, Answer
<1>2. ASSUME IndInv, IndInv', [Next]_vars PROVE [Promise!Next]_(Promise!vars)
  <2>1. ASSUME NEW t \in Txns, Create(t) PROVE [Promise!Next]_(Promise!vars)
    BY <1>2, <2>1, CallRefines
  <2>2. CASE UNCHANGED <<manifests, pc, counted>>
    BY <2>2 DEF Promise!vars, Answer, Length
  <2>3. (\E t \in Txns : Crash(t)) \/ CollectNext \/ UNCHANGED vars
          => UNCHANGED <<manifests, pc, counted>>
    BY <1>2, CollectFrame DEF Crash, vars, guardVars, IndInv
  <2> QED
    BY <1>2, <2>1, <2>2, <2>3 DEF Next, GuardNext
<1> QED
  BY <1>1, <1>2, Invariant, PTL DEF Spec, RefinesManifestCommit, Promise!Spec

------------------------------------------------------------------------------

\* The phases in their order.
LEMMA PhaseRanks ==
  /\ PhaseRank("prepare") = 0 /\ PhaseRank("rollback") = 1 /\ PhaseRank("refs") = 2
  /\ PhaseRank("commit") = 3 /\ PhaseRank("marker") = 4 /\ PhaseRank("confirm") = 5
  /\ PhaseRank("schedule") = 6 /\ PhaseRank("done") = 7 /\ PhaseRank("failed") = 7
BY SMT DEF PhaseRank

\* No request of a call takes it back, and no loop runs past its end.
LEMMA CallAdvances ==
  ASSUME TypeOK, PhaseInv, NEW t \in Txns, Create(t)
  PROVE  PhaseRank(pc[t]) < PhaseRank(pc'[t]) \/ IteratesIn(t)
<1> USE DEF TypeOK, GuardTypeOK
<1>v. /\ Length(t) \in Nat /\ SqsBatch \in Nat \ {0} /\ MaxRetries \in Nat \ {0}
      /\ RefBatch \in Nat \ {0}
  BY ListFacts, LimitsAssumption
<1>o. /\ up[t] \in Nat /\ counted[t] \in Nat /\ pos[t] \in Nat /\ attempt[t] \in Nat
      /\ pc[t] = "refs" => counted[t] < Length(t)
  BY <1>v DEF PhaseInv
<1>1. CASE UploadBlock(t)
  <2>1. CASE up[t] + 1 = Length(t)
    BY <1>1, <2>1, PhaseRanks DEF UploadBlock
  <2>2. CASE up[t] + 1 # Length(t)
    BY <1>1, <1>o, <2>2 DEF UploadBlock, IteratesIn
  <2> QED BY <2>1, <2>2
<1>2. CASE \E f \in BOOLEAN : UploadFails(t, f)
  <2>1. pc[t] = "prepare" /\ pc'[t] \in {"rollback", "failed"}
    BY <1>2 DEF UploadFails
  <2> QED BY <2>1, PhaseRanks
<1>3. CASE \E f \in BOOLEAN : RollbackBlock(t, f)
  <2>1. pc[t] = "rollback" /\ pc'[t] \in {"rollback", "failed"}
    BY <1>3 DEF RollbackBlock
  <2>2. pos'[t] = pos[t] + 1 /\ UNCHANGED <<up, counted, attempt>>
    BY <1>3 DEF RollbackBlock
  <2>3. pc'[t] = pc[t] => IteratesIn(t)
    BY <1>o, <2>2 DEF IteratesIn
  <2> QED BY <2>1, <2>3, PhaseRanks
<1>4. CASE CountRefs(t)
  <2>1. pc[t] = "refs" /\ pc'[t] \in {"refs", "commit"}
    BY <1>4 DEF CountRefs
  <2>2. counted'[t] = CountedAfter(t) /\ UNCHANGED <<up, pos, attempt>>
    BY <1>4 DEF CountRefs
  <2>3. CountedAfter(t) \in Nat /\ counted[t] < CountedAfter(t)
    BY <1>v, <1>o, <2>1 DEF CountedAfter
  <2>4. pc'[t] = pc[t] => IteratesIn(t)
    BY <1>o, <2>2, <2>3 DEF IteratesIn
  <2> QED BY <2>1, <2>4, PhaseRanks
<1>5. CASE \E f \in BOOLEAN : CountRefsFails(t, f)
  <2>1. pc[t] = "refs" /\ pc'[t] = "schedule"
    BY <1>5 DEF CountRefsFails
  <2> QED BY <2>1, PhaseRanks
<1>6. CASE Commit(t)
  <2>1. pc[t] = "commit" /\ pc'[t] = "marker"
    BY <1>6 DEF Commit
  <2> QED BY <2>1, PhaseRanks
<1>7. CASE \E f \in BOOLEAN : CommitTransient(t, f)
  <2>1. CASE attempt[t] < MaxRetries - 1
    <3>1. UNCHANGED <<pc, pos, up, counted>> /\ attempt'[t] = attempt[t] + 1
      BY <1>7, <2>1 DEF CommitTransient
    <3> QED BY <1>o, <3>1 DEF IteratesIn
  <2>2. CASE ~(attempt[t] < MaxRetries - 1)
    <3>1. pc[t] = "commit" /\ pc'[t] \in {"schedule", "failed"}
      BY <1>7, <2>2 DEF CommitTransient
    <3> QED BY <3>1, PhaseRanks
  <2> QED BY <2>1, <2>2
<1>8. CASE (\E f \in BOOLEAN : CommitFails(t, f)) \/ CommitRefused(t)
  <2>1. pc[t] = "commit" /\ pc'[t] \in {"schedule", "failed"}
    BY <1>8 DEF CommitFails, CommitRefused
  <2> QED BY <2>1, PhaseRanks
<1>9. CASE \E f \in BOOLEAN : WriteMarker(t, f)
  <2>1. pc[t] = "marker" /\ pc'[t] \in {"confirm", "done"}
    BY <1>9 DEF WriteMarker
  <2> QED BY <2>1, PhaseRanks
<1>10. CASE ConfirmBlock(t)
  <2>1. pc[t] = "confirm" /\ pc'[t] \in {"confirm", "done"}
    BY <1>10 DEF ConfirmBlock
  <2>2. pos'[t] = pos[t] + 1 /\ UNCHANGED <<up, counted, attempt>>
    BY <1>10 DEF ConfirmBlock
  <2>3. pc'[t] = pc[t] => IteratesIn(t)
    BY <1>o, <2>2 DEF IteratesIn
  <2> QED BY <2>1, <2>3, PhaseRanks
<1>11. CASE \E f \in BOOLEAN : ConfirmFails(t, f)
  <2>1. pc[t] = "confirm" /\ pc'[t] = "done"
    BY <1>11 DEF ConfirmFails
  <2> QED BY <2>1, PhaseRanks
<1>12. CASE \E taken \in SUBSET SqsEntries(t) : ScheduleGc(t, taken)
  <2>1. pc[t] = "schedule" /\ pc'[t] \in {"schedule", "failed"}
    BY <1>12 DEF ScheduleGc
  <2>2. pos'[t] = pos[t] + SqsBatch /\ UNCHANGED <<up, counted, attempt>>
    BY <1>12 DEF ScheduleGc
  <2>3. pc'[t] = pc[t] => IteratesIn(t)
    BY <1>v, <1>o, <2>2 DEF IteratesIn
  <2> QED BY <2>1, <2>3, PhaseRanks
<1> QED
  BY <1>1, <1>2, <1>3, <1>4, <1>5, <1>6, <1>7, <1>8, <1>9, <1>10, <1>11, <1>12 DEF Create

(* create_manifest_with_consistency makes a bounded number of requests,    *)
(* for any number of blocks, batch sizes and retries and whatever S3,      *)
(* DynamoDB and SQS answer: the phases are left forwards only, and no loop *)
(* or retry goes past its limit.                                           *)
THEOREM CallsBounded == Spec => CallsAdvance
<1> DEFINE Advances ==
      \A t \in Txns : Create(t) =>
        /\ PhaseRank(pc[t]) < PhaseRank(pc'[t]) \/ IteratesIn(t)
        /\ up'[t] <= Length(t) /\ counted'[t] <= Length(t)
        /\ pos'[t] < up'[t] + SqsBatch /\ attempt'[t] < MaxRetries
<1>1. IndInv /\ IndInv' => [Advances]_guardVars
  <2> SUFFICES ASSUME IndInv, IndInv', NEW t \in Txns, Create(t)
               PROVE  /\ PhaseRank(pc[t]) < PhaseRank(pc'[t]) \/ IteratesIn(t)
                      /\ up'[t] <= Length(t) /\ counted'[t] <= Length(t)
                      /\ pos'[t] < up'[t] + SqsBatch /\ attempt'[t] < MaxRetries
    OBVIOUS
  <2>1. PhaseRank(pc[t]) < PhaseRank(pc'[t]) \/ IteratesIn(t)
    BY CallAdvances DEF IndInv
  <2>2. /\ up'[t] <= Length(t) /\ counted'[t] <= Length(t)
        /\ pos'[t] < up'[t] + SqsBatch
    BY DEF IndInv, PhaseInv, Length
  <2>3. attempt'[t] < MaxRetries
    BY LimitsAssumption DEF IndInv, TypeOK, GuardTypeOK
  <2> QED BY <2>1, <2>2, <2>3
<1>2. Spec => [][Next]_vars
  BY DEF Spec
<1> QED
  BY <1>1, <1>2, Invariant, PTL DEF CallsAdvance
==============================================================================
