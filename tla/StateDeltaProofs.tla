--------------------------- MODULE StateDeltaProofs ---------------------------
(***************************************************************************)
(* Theorems of StateDelta for any number of executions, segments, blocks,  *)
(* transactions and attempts.  The inductive invariant says what a save    *)
(* owns in each phase: its id is fresh until the last transaction, its     *)
(* blocks are in S3 before it counts them, and from the pointer update on  *)
(* its manifest is stored.                                                 *)
(***************************************************************************)
EXTENDS StateDelta, FiniteSetTheorems, TLAPS

\* A manifest was written by an invocation that has started, one per invocation.
ManifestInv ==
  /\ \A m \in manifests : m.id[2] <= calls[m.id[1]]
  /\ \A m, n \in manifests : m.id = n.id => m = n

\* A segment runs only while invocations are left.
RunInv(e) == pc[e] = "run" => calls[e] < MaxCalls[e]

\* What a save has done so far: its last transaction is still to come.
FreshInv(e) == pc[e] \in {"upload", "commit"} => ~Stored(Id(e))
WorkInv(e) ==
  /\ pc[e] \in Saving => delta[e] \in Deltas /\ todo[e] \subseteq delta[e]
  /\ pc[e] \in {"upload", "commit"} => todo[e] # {}
  /\ pc[e] = "upload" /\ ~uploadErr[e] => \A b \in delta[e] \ todo[e] : tags[b] # "absent"
  /\ pc[e] = "commit" => \A b \in delta[e] : tags[b] # "absent"

\* The manifest of a save that is past its transactions.
OwnInv(e) ==
  /\ pc[e] \in {"pointer", "tag", "saved"} =>
       \E m \in manifests : m.id = Id(e) /\ m.segment = seg[e]
  /\ pc[e] \in {"pointer", "tag"} =>
       \E m \in manifests : m.id = Id(e) /\ m.blocks = delta[e]

\* The pointer is at the segment s or a later one.
Covers(s) == latest.id # NoManifest /\ s <= latest.segment
CoverInv(e) ==
  /\ current[e] # NoManifest => Stored(current[e])
  /\ current[e] \notin staleLog =>
       \A m \in manifests : m.id = current[e] => Covers(m.segment)
  /\ pc[e] \in {"tag", "saved"} /\ Id(e) \notin staleLog => Covers(seg[e])

ExecutionInv(e) == RunInv(e) /\ FreshInv(e) /\ WorkInv(e) /\ OwnInv(e) /\ CoverInv(e)

\* Who has counted b: the stored manifests that hold it, and the saves that
\* have sent it in one of their transactions.
StoredWith(b) == {m \in manifests : b \in m.blocks}
Counting(e, b) == pc[e] = "commit" /\ b \in delta[e] \ todo[e]
CountedBy(b) ==
  {m.id : m \in StoredWith(b)} \cup {Id(e) : e \in {x \in Executions : Counting(x, b)}}
CountInv ==
  \A b \in Blocks :
    IsFiniteSet(CountedBy(b)) /\ Cardinality(CountedBy(b)) <= refCount[b]

IndInv ==
  /\ TypeOK /\ ManifestInv /\ PointerNamesManifest /\ TagsAgreeWithManifests
  /\ CountInv
  /\ \A e \in Executions : ExecutionInv(e)

(***************************************************************************)
(* What any step of e does to the tables and to the other executions.      *)
(***************************************************************************)
Same(x) ==
  /\ pc'[x] = pc[x] /\ calls'[x] = calls[x]
  /\ delta'[x] = delta[x] /\ todo'[x] = todo[x] /\ uploadErr'[x] = uploadErr[x]
  /\ seg'[x] = seg[x] /\ current'[x] = current[x]
TagStep ==
  \A b \in Blocks :
    /\ tags[b] # "absent" => tags'[b] # "absent"
    /\ tags'[b] = "ready" => tags[b] = "ready" \/ \E m \in manifests : b \in m.blocks
PointerStep ==
  \/ latest' = latest
  \/ /\ latest.id = NoManifest \/ latest.segment <= latest'.segment
     /\ latest'.id # NoManifest
     /\ \E m \in manifests : m.id = latest'.id /\ m.segment = latest'.segment
ManifestStep(e) ==
  \/ manifests' = manifests
  \/ pc[e] = "commit" /\ manifests' = manifests \cup {Manifest(e)}
Shape(e) ==
  /\ \A x \in Executions \ {e} : Same(x)
  /\ calls'[e] \in {calls[e], calls[e] + 1}
  /\ TagStep /\ PointerStep /\ ManifestStep(e)
  /\ staleLog \subseteq staleLog'

\* Ids of different executions differ, and those of different invocations.
LEMMA IdFacts ==
  ASSUME TypeOK, NEW e \in Executions
  PROVE  /\ Id(e) \in Ids /\ Id(e) # NoManifest
         /\ Id(e)[1] = e /\ Id(e)[2] = calls[e]
         /\ \A x \in Executions \ {e} : Id(x) # Id(e)
BY NoManifestAssumption DEF TypeOK, Ids, Id

\* A manifest item is well-formed, and holds what Manifest says.
LEMMA ManifestFacts ==
  ASSUME TypeOK, NEW e \in Executions
  PROVE  /\ Manifest(e) \in Manifests
         /\ Manifest(e).id = Id(e) /\ Manifest(e).segment = seg[e]
         /\ Manifest(e).blocks = delta[e]
<1>1. delta[e] \subseteq Blocks
  BY DeltasAssumption DEF TypeOK
<1>2. seg[e] \in Nat /\ current[e] \in Ids \cup {NoManifest}
  BY BoundsAssumption DEF TypeOK
<1> QED
  BY <1>1, <1>2, IdFacts DEF Manifest, Manifests

\* Leaving save_state_delta clears its variables.
LEMMA LeaveType ==
  ASSUME TypeOK, NEW e \in Executions, NEW phase \in Phases, Leave(e, phase)
  PROVE  /\ pc' \in [Executions -> Phases]
         /\ delta' \in [Executions -> Deltas \cup {{}}]
         /\ todo' \in [Executions -> SUBSET Blocks]
         /\ uploadErr' \in [Executions -> BOOLEAN]
         /\ attempt' \in [Executions -> 0 .. MaxAttempts - 1]
BY BoundsAssumption DEF TypeOK, Leave, Goto

\* The blocks of a save are blocks.
LEMMA DeltaFacts ==
  ASSUME TypeOK, NEW e \in Executions
  PROVE  delta[e] \subseteq Blocks /\ todo[e] \subseteq Blocks
BY DeltasAssumption DEF TypeOK

\* A step of Phase 1 keeps the types.
LEMMA UploadType ==
  ASSUME TypeOK, NEW e \in Executions, NEW b \in todo[e], NEW err \in BOOLEAN,
         AfterUpload(e, b, err), tags' \in {tags, [tags EXCEPT ![b] = "temp"]},
         UNCHANGED <<refCount, manifests, latest, staleLog, calls, bag>>
  PROVE  TypeOK'
<1>1. tags' \in [Blocks -> {"absent", "temp", "ready"}]
  BY DeltaFacts DEF TypeOK
<1>2. /\ pc' \in [Executions -> Phases]
      /\ delta' \in [Executions -> Deltas \cup {{}}]
      /\ todo' \in [Executions -> SUBSET Blocks]
      /\ uploadErr' \in [Executions -> BOOLEAN]
      /\ attempt' \in [Executions -> 0 .. MaxAttempts - 1]
  <2>1. CASE todo[e] # {b}
    BY <2>1 DEF TypeOK, AfterUpload
  <2>2. CASE todo[e] = {b} /\ err
    BY <2>2, LeaveType DEF AfterUpload, Phases
  <2>3. CASE todo[e] = {b} /\ ~err
    BY <2>3, DeltaFacts DEF TypeOK, AfterUpload, Goto, Phases
  <2> QED
    BY <2>1, <2>2, <2>3
<1> QED
  BY <1>1, <1>2 DEF TypeOK, bag

\* A transaction keeps the types of the tables.
LEMMA TransactType ==
  ASSUME TypeOK, NEW e \in Executions, NEW batch \in SUBSET todo[e], Transact(e, batch)
  PROVE  refCount' \in [Blocks -> Nat] /\ manifests' \subseteq Manifests
BY ManifestFacts DEF TypeOK, Transact

\* Phase 2a keeps the types.
LEMMA CommitType ==
  ASSUME TypeOK, NEW e \in Executions, NEW batch \in SUBSET todo[e],
         Commit(e, batch) \/ \E applied \in BOOLEAN : CommitFails(e, batch, applied)
  PROVE  TypeOK'
<1>1. refCount' \in [Blocks -> Nat] /\ manifests' \subseteq Manifests
  <2>1. Transact(e, batch) \/ UNCHANGED <<refCount, manifests>>
    BY DEF Commit, CommitFails
  <2> QED
    BY <2>1, TransactType DEF TypeOK
<1>2. /\ pc' \in [Executions -> Phases]
      /\ delta' \in [Executions -> Deltas \cup {{}}]
      /\ todo' \in [Executions -> SUBSET Blocks]
      /\ uploadErr' \in [Executions -> BOOLEAN]
      /\ attempt' \in [Executions -> 0 .. MaxAttempts - 1]
  <2>1. CASE Commit(e, batch)
    BY <2>1 DEF TypeOK, Commit, Goto, Phases
  <2>2. CASE \E applied \in BOOLEAN : CommitFails(e, batch, applied)
    BY <2>2, LeaveType DEF CommitFails, Phases
  <2> QED
    BY <2>1, <2>2
<1>3. UNCHANGED <<tags, latest, staleLog, calls, bag>>
  BY DEF Commit, CommitFails
<1> QED
  BY <1>1, <1>2, <1>3 DEF TypeOK, bag

PointerAction(e) ==
  \/ UpdatePointer(e) \/ PointerRefused(e)
  \/ \E applied \in BOOLEAN : PointerTransient(e, applied) \/ PointerRaises(e, applied)

\* Phase 2b keeps the types: the number of failed attempts stays bounded.
LEMMA PointerType ==
  ASSUME TypeOK, NEW e \in Executions, PointerAction(e)
  PROVE  TypeOK'
<1>1. latest' \in [id : Ids \cup {NoManifest}, segment : Nat]
  <2>1. MovePointer(e) \/ UNCHANGED latest
    BY DEF PointerAction, UpdatePointer, PointerRefused, PointerTransient, PointerRaises
  <2> QED
    BY <2>1, IdFacts, BoundsAssumption DEF TypeOK, MovePointer
<1>2. staleLog' \subseteq Ids
  <2>1. staleLog' \in {staleLog, staleLog \cup {Id(e)}}
    BY DEF PointerAction, UpdatePointer, PointerRefused, PointerTransient, PointerRaises
  <2> QED
    BY <2>1, IdFacts DEF TypeOK
<1>3. /\ pc' \in [Executions -> Phases]
      /\ delta' \in [Executions -> Deltas \cup {{}}]
      /\ todo' \in [Executions -> SUBSET Blocks]
      /\ uploadErr' \in [Executions -> BOOLEAN]
      /\ attempt' \in [Executions -> 0 .. MaxAttempts - 1]
  <2>1. CASE UpdatePointer(e) \/ PointerRefused(e)
    BY <2>1, DeltaFacts DEF TypeOK, UpdatePointer, PointerRefused, StartTagging, Goto, Phases
  <2>2. CASE \E applied \in BOOLEAN : PointerTransient(e, applied)
    <3>1. UNCHANGED <<delta, uploadErr>>
      BY <2>2 DEF PointerTransient
    <3>2. CASE attempt[e] < MaxAttempts - 1
      <4>1. UNCHANGED <<pc, todo>> /\ attempt' = [attempt EXCEPT ![e] = @ + 1]
        BY <2>2, <3>2 DEF PointerTransient
      <4> QED
        BY <3>1, <3>2, <4>1, BoundsAssumption DEF TypeOK
    <3>3. CASE ~(attempt[e] < MaxAttempts - 1)
      <4>1. UNCHANGED attempt /\ StartTagging(e)
        BY <2>2, <3>3 DEF PointerTransient
      <4> QED
        BY <3>1, <4>1, DeltaFacts DEF TypeOK, StartTagging, Goto, Phases
    <3> QED
      BY <3>2, <3>3
  <2>3. CASE \E applied \in BOOLEAN : PointerRaises(e, applied)
    BY <2>3, LeaveType DEF PointerRaises, Phases
  <2> QED
    BY <2>1, <2>2, <2>3 DEF PointerAction
<1>4. UNCHANGED <<tags, refCount, manifests, calls, bag>>
  BY DEF PointerAction, UpdatePointer, PointerRefused, PointerTransient, PointerRaises
<1> QED
  BY <1>1, <1>2, <1>3, <1>4 DEF TypeOK, bag

\* Phase 3 keeps the types.
LEMMA TagType ==
  ASSUME TypeOK, NEW e \in Executions, NEW b \in todo[e], NEW tagged \in BOOLEAN,
         Tag(e, b, tagged)
  PROVE  TypeOK'
<1>1. tags' \in [Blocks -> {"absent", "temp", "ready"}]
  BY DeltaFacts DEF TypeOK, Tag
<1>2. /\ pc' \in [Executions -> Phases]
      /\ delta' \in [Executions -> Deltas \cup {{}}]
      /\ todo' \in [Executions -> SUBSET Blocks]
      /\ uploadErr' \in [Executions -> BOOLEAN]
      /\ attempt' \in [Executions -> 0 .. MaxAttempts - 1]
  <2>1. CASE todo[e] = {b}
    BY <2>1, LeaveType DEF Tag, Phases
  <2>2. CASE todo[e] # {b}
    BY <2>2 DEF TypeOK, Tag
  <2> QED
    BY <2>1, <2>2
<1> QED
  BY <1>1, <1>2 DEF TypeOK, Tag, bag

\* Begin counts an invocation that MaxCalls allows, and draws a set of blocks.
LEMMA BeginType ==
  ASSUME TypeOK, NEW e \in Executions, RunInv(e), Begin(e)
  PROVE  TypeOK'
<1>1. delta' \in [Executions -> Deltas \cup {{}}] /\ todo' \in [Executions -> SUBSET Blocks]
  <2>1. PICK d \in Deltas : delta' = [delta EXCEPT ![e] = d] /\ todo' = [todo EXCEPT ![e] = d]
    BY DEF Begin
  <2>2. d \subseteq Blocks
    BY DeltasAssumption
  <2> QED
    BY <2>1, <2>2 DEF TypeOK
<1>2. calls' \in [Executions -> Nat] /\ \A x \in Executions : calls'[x] <= MaxCalls[x]
  <2>1. calls' = [calls EXCEPT ![e] = @ + 1] /\ calls[e] < MaxCalls[e]
    BY DEF Begin, RunInv
  <2>2. /\ calls \in [Executions -> Nat] /\ MaxCalls \in [Executions -> Nat \ {0}]
        /\ \A x \in Executions : calls[x] <= MaxCalls[x]
    BY BoundsAssumption DEF TypeOK
  <2> QED
    BY <2>1, <2>2
<1>3. pc' \in [Executions -> Phases]
  BY DEF TypeOK, Begin, Goto, Phases
<1> QED
  BY <1>1, <1>2, <1>3 DEF TypeOK, Begin, tables, bag

\* Responding, crashing and being invoked again keep the types.
LEMMA AnswerType ==
  ASSUME TypeOK, NEW e \in Executions, Respond(e) \/ Crash(e) \/ Reinvoke(e)
  PROVE  TypeOK'
<1>1. CASE Respond(e)
  <2>1. /\ current' \in [Executions -> Ids \cup {NoManifest}]
        /\ flagged' \in [Executions -> BOOLEAN]
    <3>1. current' \in [Executions -> Ids \cup {NoManifest}]
      BY <1>1, IdFacts DEF TypeOK, Respond, Bag
    <3>2. flagged' \in [Executions -> BOOLEAN]
      BY <1>1, Zenon DEF TypeOK, Respond, Bag
    <3> QED
      BY <3>1, <3>2
  <2>2. pc' \in [Executions -> Phases] /\ seg' \in [Executions -> 0 .. Segments - 1]
    BY <1>1, BoundsAssumption DEF TypeOK, Respond, Goto, Phases
  <2>3. answered' \in [Executions -> Nat]
    BY <1>1 DEF TypeOK, Respond
  <2> QED
    BY <1>1, <2>1, <2>2, <2>3 DEF TypeOK, Respond, tables
<1>2. CASE Crash(e)
  BY <1>2, LeaveType DEF TypeOK, Crash, Phases, tables, bag
<1>3. CASE Reinvoke(e)
  BY <1>3 DEF TypeOK, Reinvoke, Goto, Phases, tables, bag
<1> QED
  BY <1>1, <1>2, <1>3

Step(e) == Save(e) \/ Respond(e) \/ Crash(e) \/ Reinvoke(e)

\* The steps of an execution, with those of Phase 2b together.
LEMMA StepCases ==
  ASSUME NEW e, Step(e)
  PROVE  \/ Begin(e)
         \/ \E b \in todo[e] :
              \/ Upload(e, b)
              \/ \E applied \in BOOLEAN : UploadFails(e, b, applied)
              \/ \E tagged \in BOOLEAN : Tag(e, b, tagged)
         \/ \E batch \in SUBSET todo[e] :
              \/ Commit(e, batch)
              \/ \E applied \in BOOLEAN : CommitFails(e, batch, applied)
         \/ PointerAction(e)
         \/ Respond(e) \/ Crash(e) \/ Reinvoke(e)
BY DEF Step, Save, PointerAction

\* TypeOK is kept by every step that starts an invocation while one is left.
LEMMA StepType ==
  ASSUME TypeOK, NEW e \in Executions, RunInv(e), Step(e)
  PROVE  TypeOK'
<1>1. ASSUME NEW b \in todo[e], Upload(e, b) PROVE TypeOK'
  <2>1. uploadErr[e] \in BOOLEAN
    BY Zenon DEF TypeOK
  <2> QED
    BY <1>1, <2>1, UploadType DEF Upload
<1>2. ASSUME NEW b \in todo[e], NEW applied \in BOOLEAN, UploadFails(e, b, applied)
      PROVE  TypeOK'
  BY <1>2, UploadType DEF UploadFails
<1> QED
  BY <1>1, <1>2, StepCases, BeginType, CommitType, PointerType, TagType, AnswerType

(***************************************************************************)
(* The shape of every step: what it may do to the tables, and that it      *)
(* leaves the other executions alone.                                      *)
(***************************************************************************)

\* Leaving touches no other execution.
LEMMA LeaveOthers ==
  ASSUME TypeOK, NEW e \in Executions, NEW phase, Leave(e, phase),
         UNCHANGED <<calls, seg, current>>
  PROVE  /\ \A x \in Executions \ {e} : Same(x)
         /\ pc'[e] = phase /\ calls'[e] = calls[e] /\ seg'[e] = seg[e]
         /\ current'[e] = current[e]
BY DEF TypeOK, Leave, Goto, Same

\* A step of Phase 1.
LEMMA UploadShape ==
  ASSUME TypeOK, NEW e \in Executions, NEW b \in todo[e], NEW err \in BOOLEAN,
         AfterUpload(e, b, err), tags' \in {tags, [tags EXCEPT ![b] = "temp"]},
         UNCHANGED <<refCount, manifests, latest, staleLog, calls, bag>>
  PROVE  Shape(e)
<1>1. TagStep
  BY DeltaFacts DEF TypeOK, TagStep
<1>2. \A x \in Executions \ {e} : Same(x)
  <2>1. CASE todo[e] # {b}
    BY <2>1 DEF TypeOK, AfterUpload, Same, bag
  <2>2. CASE todo[e] = {b} /\ err
    BY <2>2, LeaveOthers DEF AfterUpload, bag
  <2>3. CASE todo[e] = {b} /\ ~err
    BY <2>3 DEF TypeOK, AfterUpload, Goto, Same, bag
  <2> QED
    BY <2>1, <2>2, <2>3
<1> QED
  BY <1>1, <1>2 DEF Shape, PointerStep, ManifestStep

\* A step of Phase 2a.
LEMMA CommitShape ==
  ASSUME TypeOK, NEW e \in Executions, NEW batch \in SUBSET todo[e],
         Commit(e, batch) \/ \E applied \in BOOLEAN : CommitFails(e, batch, applied)
  PROVE  Shape(e)
<1>1. pc[e] = "commit" /\ UNCHANGED <<tags, latest, staleLog, calls, bag>>
  BY DEF Commit, CommitFails
<1>2. ManifestStep(e)
  BY <1>1 DEF Commit, CommitFails, Transact, ManifestStep
<1>3. \A x \in Executions \ {e} : Same(x)
  <2>1. CASE Commit(e, batch)
    BY <2>1 DEF TypeOK, Commit, Goto, Same, bag
  <2>2. CASE \E applied \in BOOLEAN : CommitFails(e, batch, applied)
    BY <1>1, <2>2, LeaveOthers DEF CommitFails, bag
  <2> QED
    BY <2>1, <2>2
<1> QED
  BY <1>1, <1>2, <1>3 DEF Shape, PointerStep, TagStep

\* A pointer that moves goes to the manifest of the save, which is stored.
LEMMA MoveShape ==
  ASSUME TypeOK, NEW e \in Executions, pc[e] = "pointer", OwnInv(e),
         (MovePointer(e) /\ Advances(e)) \/ UNCHANGED latest
  PROVE  PointerStep
<1>1. CASE MovePointer(e) /\ Advances(e)
  <2>1. latest'.id = Id(e) /\ latest'.segment = seg[e]
    BY <1>1 DEF MovePointer
  <2> QED
    BY <1>1, <2>1, IdFacts DEF PointerStep, Advances, OwnInv
<1>2. CASE UNCHANGED latest
  BY <1>2 DEF PointerStep
<1> QED
  BY <1>1, <1>2

\* A step of Phase 2b.
LEMMA PointerShape ==
  ASSUME TypeOK, NEW e \in Executions, OwnInv(e), PointerAction(e)
  PROVE  Shape(e)
<1>1. /\ pc[e] = "pointer" /\ UNCHANGED <<tags, manifests, calls, bag>>
      /\ staleLog \subseteq staleLog'
      /\ (MovePointer(e) /\ Advances(e)) \/ UNCHANGED latest
  BY DEF PointerAction, UpdatePointer, PointerRefused, PointerTransient, PointerRaises
<1>2. \A x \in Executions \ {e} : Same(x)
  <2>1. CASE UpdatePointer(e) \/ PointerRefused(e)
    BY <2>1 DEF TypeOK, UpdatePointer, PointerRefused, StartTagging, Goto, Same, bag
  <2>2. CASE \E applied \in BOOLEAN : PointerTransient(e, applied)
    <3>1. UNCHANGED <<delta, uploadErr>>
      BY <2>2 DEF PointerTransient
    <3>2. StartTagging(e) \/ UNCHANGED <<pc, todo>>
      BY <2>2 DEF PointerTransient
    <3> QED
      BY <1>1, <3>1, <3>2 DEF TypeOK, StartTagging, Goto, Same, bag
  <2>3. CASE \E applied \in BOOLEAN : PointerRaises(e, applied)
    BY <1>1, <2>3, LeaveOthers DEF PointerRaises, bag
  <2> QED
    BY <2>1, <2>2, <2>3 DEF PointerAction
<1> QED
  BY <1>1, <1>2, MoveShape DEF Shape, ManifestStep, TagStep

\* A step of Phase 3 tags a block of the manifest the save has stored.
LEMMA TagShape ==
  ASSUME TypeOK, NEW e \in Executions, OwnInv(e), WorkInv(e), NEW b \in todo[e],
         NEW tagged \in BOOLEAN, Tag(e, b, tagged)
  PROVE  Shape(e)
<1>1. pc[e] = "tag" /\ UNCHANGED <<refCount, manifests, latest, staleLog, calls, bag>>
  BY DEF Tag
<1>2. TagStep
  <2>1. PICK m \in manifests : b \in m.blocks
    BY <1>1 DEF OwnInv, WorkInv, Saving
  <2> QED
    BY <2>1, DeltaFacts DEF TypeOK, Tag, TagStep
<1>3. \A x \in Executions \ {e} : Same(x)
  <2>1. CASE todo[e] = {b}
    BY <1>1, <2>1, LeaveOthers DEF Tag, bag
  <2>2. CASE todo[e] # {b}
    BY <1>1, <2>2 DEF TypeOK, Tag, Same, bag
  <2> QED
    BY <2>1, <2>2
<1> QED
  BY <1>1, <1>2, <1>3 DEF Shape, PointerStep, ManifestStep

\* The steps outside save_state_delta leave the tables alone.
LEMMA OutsideShape ==
  ASSUME TypeOK, NEW e \in Executions,
         Begin(e) \/ Respond(e) \/ Crash(e) \/ Reinvoke(e)
  PROVE  Shape(e) /\ UNCHANGED tables
<1>1. UNCHANGED tables
  BY DEF Begin, Respond, Crash, Reinvoke
<1>2. \A x \in Executions \ {e} : Same(x)
  <2>1. CASE Begin(e)
    BY <2>1 DEF TypeOK, Begin, Goto, Same, bag
  <2>2. CASE Respond(e)
    BY <2>2 DEF TypeOK, Respond, Bag, Goto, Same
  <2>3. CASE Crash(e)
    BY <2>3, LeaveOthers DEF Crash, bag
  <2>4. CASE Reinvoke(e)
    BY <2>4 DEF TypeOK, Reinvoke, Goto, Same, bag
  <2> QED
    BY <2>1, <2>2, <2>3, <2>4
<1>3. calls'[e] \in {calls[e], calls[e] + 1}
  BY DEF TypeOK, Begin, Respond, Crash, Reinvoke
<1> QED
  BY <1>1, <1>2, <1>3 DEF Shape, tables, PointerStep, ManifestStep, TagStep

\* Every step has the shape.
LEMMA StepShape ==
  ASSUME TypeOK, NEW e \in Executions, ExecutionInv(e), Step(e)
  PROVE  Shape(e)
<1>1. ASSUME NEW b \in todo[e], Upload(e, b) PROVE Shape(e)
  <2>1. uploadErr[e] \in BOOLEAN
    BY Zenon DEF TypeOK
  <2> QED
    BY <1>1, <2>1, UploadShape DEF Upload
<1>2. ASSUME NEW b \in todo[e], NEW applied \in BOOLEAN, UploadFails(e, b, applied)
      PROVE  Shape(e)
  BY <1>2, UploadShape DEF UploadFails
<1> QED
  BY <1>1, <1>2, StepCases, OutsideShape, CommitShape, PointerShape, TagShape
     DEF ExecutionInv

(***************************************************************************)
(* What follows from the shape alone: the invariants of the tables, and    *)
(* those of the other executions.                                          *)
(***************************************************************************)

\* A new manifest has an id that no manifest had.
LEMMA ManifestKept ==
  ASSUME TypeOK, ManifestInv, NEW e \in Executions, FreshInv(e), Shape(e)
  PROVE  /\ ManifestInv'
         /\ manifests \subseteq manifests'
         /\ \A m \in manifests' \ manifests :
              m.id = Id(e) /\ m.blocks = delta[e] /\ pc[e] = "commit"
<1>1. \A x \in Executions : calls[x] \in Nat /\ calls[x] <= calls'[x]
  BY DEF Shape, Same, TypeOK
<1>2. \A m \in manifests : m.id \in Ids /\ m.id[1] \in Executions /\ m.id[2] \in Nat
  BY DEF TypeOK, Manifests, Ids
<1>3. \A m \in manifests : m.id[2] <= calls'[m.id[1]]
  <2> SUFFICES ASSUME NEW m \in manifests PROVE m.id[2] <= calls'[m.id[1]]
    OBVIOUS
  <2>1. m.id[2] <= calls[m.id[1]] /\ m.id[1] \in Executions /\ m.id[2] \in Nat
    BY <1>2 DEF ManifestInv
  <2>2. calls'[m.id[1]] \in Nat
    BY <2>1, <1>1 DEF Shape, Same, TypeOK
  <2> QED
    BY <2>1, <2>2, <1>1
<1>4. CASE manifests' = manifests
  BY <1>3, <1>4 DEF ManifestInv
<1>5. CASE pc[e] = "commit" /\ manifests' = manifests \cup {Manifest(e)}
  <2>1. Manifest(e).id = Id(e) /\ Manifest(e).blocks = delta[e]
    BY ManifestFacts
  <2>2. \A m \in manifests : m.id # Id(e)
    BY <1>5 DEF FreshInv, Stored
  <2>3. Manifest(e).id[2] <= calls'[Manifest(e).id[1]]
    BY <2>1, <1>1, IdFacts
  <2> QED
    BY <1>3, <1>5, <2>1, <2>2, <2>3 DEF ManifestInv
<1> QED
  BY <1>4, <1>5 DEF Shape, ManifestStep

\* The pointer names a stored manifest after every step.
LEMMA PointerKept ==
  ASSUME TypeOK, ManifestInv, NEW e \in Executions, FreshInv(e), Shape(e),
         PointerNamesManifest
  PROVE  PointerNamesManifest'
BY ManifestKept DEF PointerNamesManifest, Shape, PointerStep

\* Tags and manifests agree after every step.
LEMMA TagsKept ==
  ASSUME TypeOK, ManifestInv, NEW e \in Executions, FreshInv(e), WorkInv(e), Shape(e),
         TagsAgreeWithManifests
  PROVE  TagsAgreeWithManifests'
<1>1. manifests \subseteq manifests'
  BY ManifestKept
<1>2. ASSUME NEW m \in manifests', NEW b \in m.blocks PROVE tags'[b] # "absent"
  <2>1. b \in Blocks /\ tags[b] # "absent"
    <3>1. CASE m \in manifests
      BY <3>1, <1>2 DEF TagsAgreeWithManifests, TypeOK, Manifests
    <3>2. CASE m \notin manifests
      <4>1. m.blocks = delta[e] /\ pc[e] = "commit"
        BY <3>2, ManifestKept
      <4> QED
        BY <4>1, <1>2, DeltaFacts DEF WorkInv
    <3> QED
      BY <3>1, <3>2
  <2> QED
    BY <2>1 DEF Shape, TagStep
<1>3. ASSUME NEW b \in Blocks, tags'[b] = "ready"
      PROVE  \E m \in manifests' : b \in m.blocks
  BY <1>1, <1>3 DEF TagsAgreeWithManifests, Shape, TagStep
<1> QED
  BY <1>2, <1>3 DEF TagsAgreeWithManifests

\* A pointer at s or later stays there: the update goes to no lower segment.
LEMMA CoversKept ==
  ASSUME TypeOK, TypeOK', PointerStep, NEW s \in Nat, Covers(s)
  PROVE  Covers(s)'
<1>1. latest.segment \in Nat /\ latest'.segment \in Nat
  BY DEF TypeOK
<1> QED
  BY <1>1 DEF Covers, PointerStep

\* What an answered segment relies on outlives every step that leaves its bag.
LEMMA CurrentKept ==
  ASSUME TypeOK, TypeOK', ManifestInv, NEW e \in Executions, FreshInv(e), Shape(e),
         NEW x \in Executions, CoverInv(x), current'[x] = current[x]
  PROVE  /\ current'[x] # NoManifest => Stored(current[x])'
         /\ current'[x] \notin staleLog' =>
              \A m \in manifests' : m.id = current'[x] => Covers(m.segment)'
<1>1. current[x] # NoManifest => Stored(current[x])
  BY DEF CoverInv
<1>2. current[x] # NoManifest => \E m \in manifests' : m.id = current[x]
  BY <1>1, ManifestKept DEF Stored
<1>3. ASSUME current'[x] \notin staleLog', NEW m \in manifests', m.id = current'[x]
      PROVE  Covers(m.segment)'
  <2>1. m \in manifests
    <3> SUFFICES ASSUME m \notin manifests PROVE FALSE
      OBVIOUS
    <3>1. m.id = Id(e) /\ pc[e] = "commit"
      BY ManifestKept
    <3> QED
      BY <3>1, <1>1, <1>3, IdFacts DEF FreshInv
  <2>2. Covers(m.segment)
    BY <1>3, <2>1 DEF CoverInv, Shape
  <2>3. m.segment \in Nat
    BY <2>1 DEF TypeOK, Manifests
  <2> QED
    BY <2>2, <2>3, CoversKept DEF Shape
<1> QED
  BY <1>2, <1>3 DEF Stored

\* A step of e leaves what holds of another execution.
LEMMA OthersKept ==
  ASSUME TypeOK, TypeOK', ManifestInv, NEW e \in Executions, FreshInv(e), Shape(e),
         NEW x \in Executions \ {e}, ExecutionInv(x)
  PROVE  ExecutionInv(x)'
<1>1. Same(x) /\ Id(x)' = Id(x)
  BY DEF Shape, Same, Id
<1>2. RunInv(x)'
  BY <1>1 DEF ExecutionInv, RunInv, Same
<1>3. FreshInv(x)'
  <2>1. Id(x) # Id(e)
    BY IdFacts
  <2> QED
    BY <1>1, <2>1, ManifestKept DEF ExecutionInv, FreshInv, Same, Stored
<1>4. WorkInv(x)'
  <2>1. delta[x] \subseteq Blocks
    BY DeltaFacts
  <2> QED
    BY <1>1, <2>1 DEF ExecutionInv, WorkInv, Same, Shape, TagStep
<1>5. OwnInv(x)'
  BY <1>1, ManifestKept DEF ExecutionInv, OwnInv, Same
<1>6. CoverInv(x)'
  <2>1. seg[x] \in Nat
    BY BoundsAssumption DEF TypeOK
  <2>2. pc'[x] \in {"tag", "saved"} /\ Id(x)' \notin staleLog' => Covers(seg[x])'
    <3>1. CASE pc[x] \in {"tag", "saved"} /\ Id(x) \notin staleLog
      <4>1. Covers(seg[x])
        BY <3>1 DEF ExecutionInv, CoverInv
      <4>2. Covers(seg[x])' <=> latest'.id # NoManifest /\ seg[x] <= latest'.segment
        BY <1>1 DEF Covers, Same
      <4> QED
        BY <4>1, <4>2, <2>1, CoversKept DEF Shape, Covers
    <3> QED
      BY <1>1, <3>1 DEF Shape, Same
  <2>3. CoverInv(x) /\ current'[x] = current[x]
    BY <1>1 DEF ExecutionInv, Same
  <2> QED
    BY <2>2, <2>3, CurrentKept DEF CoverInv
<1> QED
  BY <1>2, <1>3, <1>4, <1>5, <1>6 DEF ExecutionInv

(***************************************************************************)
(* What each step leaves of its own execution.                             *)
(***************************************************************************)

\* A save that is over, or has not begun, holds only what its bag names.
LEMMA IdleKept ==
  ASSUME TypeOK, TypeOK', ManifestInv, NEW e \in Executions, FreshInv(e), Shape(e),
         CoverInv(e), RunInv(e)', current'[e] = current[e],
         pc'[e] \notin Saving \cup {"saved"}
  PROVE  ExecutionInv(e)'
BY CurrentKept DEF ExecutionInv, FreshInv, WorkInv, OwnInv, CoverInv, Saving

\* A save that begins has a fresh id and all its blocks to upload.
LEMMA BeginKept ==
  ASSUME TypeOK, TypeOK', ManifestInv, NEW e \in Executions, ExecutionInv(e), Begin(e)
  PROVE  ExecutionInv(e)'
<1>1. Shape(e) /\ UNCHANGED <<manifests, latest, staleLog>>
  BY OutsideShape DEF tables
<1>2. /\ pc'[e] = "upload" /\ delta'[e] \in Deltas /\ todo'[e] = delta'[e]
      /\ calls'[e] = calls[e] + 1 /\ current'[e] = current[e]
  <2>1. PICK d \in Deltas : delta' = [delta EXCEPT ![e] = d] /\ todo' = [todo EXCEPT ![e] = d]
    BY DEF Begin
  <2> QED
    BY <2>1 DEF Begin, Goto, TypeOK, bag
<1>3. ~Stored(Id(e))'
  <2> SUFFICES ASSUME NEW m \in manifests, m.id = Id(e)' PROVE FALSE
    BY <1>1 DEF Stored
  <2>1. m.id[1] = e /\ m.id[2] = calls[e] + 1
    BY <1>2 DEF Id
  <2>2. m.id[2] <= calls[e] /\ calls[e] \in Nat
    BY <2>1 DEF ManifestInv, TypeOK
  <2> QED
    BY <2>1, <2>2
<1>4. WorkInv(e)'
  BY <1>2, DeltasAssumption DEF WorkInv
<1>5. CoverInv(e)'
  BY <1>1, <1>2, CurrentKept DEF CoverInv, ExecutionInv
<1> QED
  BY <1>2, <1>3, <1>4, <1>5 DEF ExecutionInv, RunInv, FreshInv, OwnInv

\* A step of Phase 1: the save goes on to Phase 2a only with all blocks in S3.
LEMMA UploadKept ==
  ASSUME TypeOK, TypeOK', ManifestInv, NEW e \in Executions, ExecutionInv(e),
         NEW b \in todo[e], NEW err \in BOOLEAN, pc[e] = "upload",
         AfterUpload(e, b, err), tags' \in {tags, [tags EXCEPT ![b] = "temp"]},
         ~err => ~uploadErr[e] /\ tags' = [tags EXCEPT ![b] = "temp"],
         UNCHANGED <<refCount, manifests, latest, staleLog, calls, bag>>
  PROVE  ExecutionInv(e)'
<1>1. Shape(e) /\ current'[e] = current[e] /\ Id(e)' = Id(e)
  BY UploadShape DEF bag, Id
<1>2. ~Stored(Id(e))'
  BY <1>1 DEF ExecutionInv, FreshInv, Stored
<1>3. /\ delta[e] \in Deltas /\ todo[e] \subseteq delta[e] /\ delta[e] \subseteq Blocks
      /\ ~uploadErr[e] => \A c \in delta[e] \ todo[e] : tags[c] # "absent"
  BY DeltaFacts DEF ExecutionInv, WorkInv, Saving
<1>4. ~err => \A c \in (delta[e] \ todo[e]) \cup {b} : tags'[c] # "absent"
  BY <1>3 DEF TypeOK
<1>5. CASE todo[e] # {b}
  <2>1. /\ pc'[e] = "upload" /\ delta'[e] = delta[e] /\ todo'[e] = todo[e] \ {b}
        /\ uploadErr'[e] = err
    BY <1>5 DEF AfterUpload, TypeOK
  <2>2. WorkInv(e)'
    BY <1>3, <1>4, <1>5, <2>1 DEF WorkInv
  <2>3. CoverInv(e)'
    BY <1>1, <2>1, CurrentKept DEF CoverInv, ExecutionInv
  <2> QED
    BY <1>2, <2>1, <2>2, <2>3 DEF ExecutionInv, RunInv, FreshInv, OwnInv
<1>6. CASE todo[e] = {b} /\ err
  <2>1. pc'[e] = "raised"
    BY <1>6 DEF AfterUpload, Leave, Goto, TypeOK
  <2> QED
    BY <1>1, <2>1, IdleKept DEF ExecutionInv, RunInv, Saving
<1>7. CASE todo[e] = {b} /\ ~err
  <2>1. pc'[e] = "commit" /\ delta'[e] = delta[e] /\ todo'[e] = delta[e]
    BY <1>7 DEF AfterUpload, Goto, TypeOK
  <2>2. \A c \in delta'[e] : tags'[c] # "absent"
    BY <1>4, <1>7, <2>1
  <2>3. WorkInv(e)'
    BY <1>3, <1>7, <2>1, <2>2 DEF WorkInv
  <2>4. CoverInv(e)'
    BY <1>1, <2>1, CurrentKept DEF CoverInv, ExecutionInv
  <2> QED
    BY <1>2, <2>1, <2>3, <2>4 DEF ExecutionInv, RunInv, FreshInv, OwnInv
<1> QED
  BY <1>5, <1>6, <1>7

\* A transaction: with the last one the save owns its manifest.
LEMMA CommitKept ==
  ASSUME TypeOK, TypeOK', ManifestInv, NEW e \in Executions, ExecutionInv(e),
         NEW batch \in SUBSET todo[e], Commit(e, batch)
  PROVE  ExecutionInv(e)'
<1>1. /\ Shape(e) /\ current'[e] = current[e] /\ Id(e)' = Id(e)
      /\ seg'[e] = seg[e] /\ delta'[e] = delta[e] /\ todo'[e] = todo[e] \ batch
      /\ UNCHANGED tags /\ pc[e] = "commit"
  <2>1. UNCHANGED <<current, seg, calls, delta, tags>> /\ pc[e] = "commit"
    BY DEF Commit, bag
  <2>2. todo'[e] = todo[e] \ batch
    BY DEF Commit, TypeOK
  <2> QED
    BY <2>1, <2>2, CommitShape DEF Id
<1>2. /\ delta[e] \in Deltas /\ todo[e] \subseteq delta[e]
      /\ \A c \in delta[e] : tags[c] # "absent"
  BY <1>1 DEF ExecutionInv, WorkInv, Saving
<1>3. CASE batch = todo[e]
  <2>1. pc'[e] = "pointer"
    BY <1>3 DEF Commit, Goto, TypeOK
  <2>2. Manifest(e) \in manifests'
    BY <1>3 DEF Commit, Transact
  <2>3. OwnInv(e)'
    BY <1>1, <2>1, <2>2, ManifestFacts DEF OwnInv
  <2>4. WorkInv(e)'
    BY <1>1, <1>2, <2>1 DEF WorkInv
  <2>5. CoverInv(e)'
    BY <1>1, <2>1, CurrentKept DEF CoverInv, ExecutionInv
  <2> QED
    BY <2>1, <2>3, <2>4, <2>5 DEF ExecutionInv, RunInv, FreshInv
<1>4. CASE batch # todo[e]
  <2>1. pc'[e] = "commit" /\ UNCHANGED manifests
    BY <1>4 DEF Commit, Transact, Goto, TypeOK
  <2>2. FreshInv(e)'
    BY <1>1, <2>1 DEF ExecutionInv, FreshInv, Stored
  <2>3. WorkInv(e)'
    BY <1>1, <1>2, <1>4, <2>1 DEF WorkInv
  <2>4. CoverInv(e)'
    BY <1>1, <2>1, CurrentKept DEF CoverInv, ExecutionInv
  <2> QED
    BY <2>1, <2>2, <2>3, <2>4 DEF ExecutionInv, RunInv, OwnInv
<1> QED
  BY <1>3, <1>4

\* An error of Phase 2a ends the save.
LEMMA CommitFailsKept ==
  ASSUME TypeOK, TypeOK', ManifestInv, NEW e \in Executions, ExecutionInv(e),
         NEW batch \in SUBSET todo[e], NEW applied \in BOOLEAN,
         CommitFails(e, batch, applied)
  PROVE  ExecutionInv(e)'
<1>1. pc'[e] = "raised" /\ current'[e] = current[e]
  BY DEF CommitFails, Leave, Goto, TypeOK, bag
<1> QED
  BY <1>1, CommitShape, IdleKept DEF ExecutionInv, RunInv, Saving

\* An attempt at the pointer: the save goes on with the pointer at its segment
\* or a later one, or with its manifest in the stale log.
LEMMA AttemptKept ==
  ASSUME TypeOK, TypeOK', ManifestInv, NEW e \in Executions, ExecutionInv(e),
         PointerAction(e)
  PROVE  ExecutionInv(e)'
<1>1. /\ Shape(e) /\ current'[e] = current[e] /\ Id(e)' = Id(e) /\ seg'[e] = seg[e]
      /\ pc[e] = "pointer" /\ UNCHANGED manifests
  <2>1. UNCHANGED <<current, seg, calls, manifests>> /\ pc[e] = "pointer"
    BY DEF PointerAction, UpdatePointer, PointerRefused, PointerTransient, PointerRaises, bag
  <2> QED
    BY <2>1, PointerShape DEF Id, ExecutionInv
<1>2. delta[e] \in Deltas /\ todo[e] \subseteq delta[e]
  BY <1>1 DEF ExecutionInv, WorkInv, Saving
<1>3. CASE /\ pc'[e] = "tag" /\ todo'[e] = delta[e] /\ delta'[e] = delta[e]
           /\ Id(e) \notin staleLog' => Covers(seg[e])'
  <2>1. OwnInv(e)'
    BY <1>1, <1>3 DEF ExecutionInv, OwnInv
  <2>2. WorkInv(e)'
    BY <1>2, <1>3 DEF WorkInv
  <2>3. CoverInv(e)'
    BY <1>1, <1>3, CurrentKept DEF CoverInv, ExecutionInv
  <2> QED
    BY <1>3, <2>1, <2>2, <2>3 DEF ExecutionInv, RunInv, FreshInv
<1>4. CASE pc'[e] = "raised"
  BY <1>1, <1>4, IdleKept DEF ExecutionInv, RunInv, Saving
<1>5. CASE pc'[e] = "pointer" /\ todo'[e] = todo[e] /\ delta'[e] = delta[e]
  <2>1. OwnInv(e)'
    BY <1>1, <1>5 DEF ExecutionInv, OwnInv
  <2>2. WorkInv(e)'
    BY <1>2, <1>5 DEF WorkInv
  <2>3. CoverInv(e)'
    BY <1>1, <1>5, CurrentKept DEF CoverInv, ExecutionInv
  <2> QED
    BY <1>5, <2>1, <2>2, <2>3 DEF ExecutionInv, RunInv, FreshInv
<1>6. CASE UpdatePointer(e)
  <2>1. pc'[e] = "tag" /\ todo'[e] = delta[e] /\ delta'[e] = delta[e]
    BY <1>6 DEF UpdatePointer, StartTagging, Goto, TypeOK
  <2>2. Covers(seg[e])'
    <3>1. seg[e] \in Nat /\ seg'[e] = seg[e] /\ latest.segment \in Nat
      BY <1>1, BoundsAssumption DEF TypeOK
    <3>2. CASE Advances(e)
      BY <1>6, <3>1, <3>2, IdFacts DEF UpdatePointer, MovePointer, Covers
    <3>3. CASE ~Advances(e)
      BY <1>6, <3>1, <3>3 DEF UpdatePointer, Advances, Covers
    <3> QED
      BY <3>2, <3>3
  <2> QED
    BY <1>3, <2>1, <2>2
<1>7. CASE PointerRefused(e)
  <2>1. pc'[e] = "tag" /\ todo'[e] = delta[e] /\ delta'[e] = delta[e] /\ Id(e) \in staleLog'
    BY <1>7 DEF PointerRefused, StartTagging, Goto, TypeOK
  <2> QED
    BY <1>3, <2>1
<1>8. CASE \E applied \in BOOLEAN : PointerTransient(e, applied)
  <2>1. delta'[e] = delta[e]
    BY <1>8 DEF PointerTransient
  <2>2. CASE attempt[e] < MaxAttempts - 1
    <3>1. pc'[e] = "pointer" /\ todo'[e] = todo[e]
      BY <1>1, <1>8, <2>2 DEF PointerTransient
    <3> QED
      BY <1>5, <2>1, <3>1
  <2>3. CASE ~(attempt[e] < MaxAttempts - 1)
    <3>1. Id(e) \in staleLog' /\ StartTagging(e)
      BY <1>8, <2>3 DEF PointerTransient
    <3>2. pc'[e] = "tag" /\ todo'[e] = delta[e]
      BY <3>1 DEF StartTagging, Goto, TypeOK
    <3> QED
      BY <1>3, <2>1, <3>1, <3>2
  <2> QED
    BY <2>2, <2>3
<1>9. CASE \E applied \in BOOLEAN : PointerRaises(e, applied)
  <2>1. pc'[e] = "raised"
    BY <1>9 DEF PointerRaises, Leave, Goto, TypeOK
  <2> QED
    BY <1>4, <2>1
<1> QED
  BY <1>6, <1>7, <1>8, <1>9 DEF PointerAction

\* A step of Phase 3.
LEMMA TagKept ==
  ASSUME TypeOK, TypeOK', ManifestInv, NEW e \in Executions, ExecutionInv(e),
         NEW b \in todo[e], NEW tagged \in BOOLEAN, Tag(e, b, tagged)
  PROVE  ExecutionInv(e)'
<1>1. /\ Shape(e) /\ current'[e] = current[e] /\ Id(e)' = Id(e) /\ seg'[e] = seg[e]
      /\ pc[e] = "tag" /\ UNCHANGED <<manifests, latest, staleLog>>
  <2>1. UNCHANGED <<current, seg, calls, manifests, latest, staleLog>> /\ pc[e] = "tag"
    BY DEF Tag, bag
  <2> QED
    BY <2>1, TagShape DEF Id, ExecutionInv
<1>2. delta[e] \in Deltas /\ todo[e] \subseteq delta[e]
  BY <1>1 DEF ExecutionInv, WorkInv, Saving
<1>3. Id(e) \notin staleLog' => Covers(seg[e])'
  BY <1>1 DEF ExecutionInv, CoverInv, Covers
<1>4. CoverInv(e)'
  BY <1>1, <1>3, CurrentKept DEF CoverInv, ExecutionInv
<1>5. CASE todo[e] = {b}
  <2>1. pc'[e] = "saved"
    BY <1>5 DEF Tag, Leave, Goto, TypeOK
  <2>2. OwnInv(e)'
    BY <1>1, <2>1 DEF ExecutionInv, OwnInv
  <2> QED
    BY <1>4, <2>1, <2>2 DEF ExecutionInv, RunInv, FreshInv, WorkInv, Saving
<1>6. CASE todo[e] # {b}
  <2>1. pc'[e] = "tag" /\ todo'[e] = todo[e] \ {b} /\ delta'[e] = delta[e]
    BY <1>1, <1>6 DEF Tag, TypeOK
  <2>2. OwnInv(e)'
    BY <1>1, <2>1 DEF ExecutionInv, OwnInv
  <2>3. WorkInv(e)'
    BY <1>2, <2>1 DEF WorkInv
  <2> QED
    BY <1>4, <2>1, <2>2, <2>3 DEF ExecutionInv, RunInv, FreshInv
<1> QED
  BY <1>5, <1>6

\* The response puts the manifest of a save that succeeded into the bag.
LEMMA RespondKept ==
  ASSUME TypeOK, TypeOK', ManifestInv, NEW e \in Executions, ExecutionInv(e), Respond(e)
  PROVE  ExecutionInv(e)'
<1>1. Shape(e) /\ UNCHANGED <<tags, manifests, latest, staleLog, calls>>
  BY OutsideShape DEF tables, Respond
<1>2. pc'[e] \in {"run", "ended"} /\ RunInv(e)'
  BY DEF Respond, Goto, TypeOK, RunInv
<1>3. CASE pc[e] = "saved"
  <2>1. current'[e] = Id(e)
    BY <1>3 DEF Respond, Bag, TypeOK
  <2>2. PICK n \in manifests : n.id = Id(e) /\ n.segment = seg[e]
    BY <1>3 DEF ExecutionInv, OwnInv
  <2>3. \A m \in manifests : m.id = Id(e) => m = n
    BY <2>2 DEF ManifestInv
  <2>4. Id(e) \notin staleLog => Covers(n.segment)
    BY <1>3, <2>2 DEF ExecutionInv, CoverInv
  <2>5. Stored(current[e])'
    BY <1>1, <2>1, <2>2 DEF Stored
  <2>6. current'[e] \notin staleLog' =>
          \A m \in manifests' : m.id = current'[e] => Covers(m.segment)'
    BY <1>1, <2>1, <2>3, <2>4 DEF Covers
  <2> QED
    BY <1>2, <2>5, <2>6 DEF ExecutionInv, FreshInv, WorkInv, OwnInv, CoverInv, Saving
<1>4. CASE pc[e] = "raised"
  <2>1. current'[e] = current[e]
    BY <1>4 DEF Respond, Bag, TypeOK
  <2> QED
    BY <1>1, <1>2, <2>1, IdleKept DEF ExecutionInv, Saving
<1> QED
  BY <1>3, <1>4 DEF Respond

\* A crash or a new invocation.
LEMMA CrashKept ==
  ASSUME TypeOK, TypeOK', ManifestInv, NEW e \in Executions, ExecutionInv(e),
         Crash(e) \/ Reinvoke(e)
  PROVE  ExecutionInv(e)'
<1>1. Shape(e)
  BY OutsideShape
<1>2. pc'[e] \in {"crashed", "run", "ended"} /\ RunInv(e)' /\ current'[e] = current[e]
  BY DEF Crash, Reinvoke, Leave, Goto, TypeOK, RunInv, bag
<1> QED
  BY <1>1, <1>2, IdleKept DEF ExecutionInv, Saving

\* Every step of e leaves what holds of e.
LEMMA OwnKept ==
  ASSUME TypeOK, TypeOK', ManifestInv, NEW e \in Executions, ExecutionInv(e), Step(e)
  PROVE  ExecutionInv(e)'
<1>1. uploadErr[e] \in BOOLEAN
  BY Zenon DEF TypeOK
<1>2. ASSUME NEW b \in todo[e], Upload(e, b) PROVE ExecutionInv(e)'
  <2>1. /\ pc[e] = "upload" /\ tags' = [tags EXCEPT ![b] = "temp"]
        /\ AfterUpload(e, b, uploadErr[e])
        /\ UNCHANGED <<refCount, manifests, latest, staleLog, calls, bag>>
    BY <1>2 DEF Upload
  <2> QED
    BY <1>1, <2>1, UploadKept
<1>3. ASSUME NEW b \in todo[e], NEW applied \in BOOLEAN, UploadFails(e, b, applied)
      PROVE  ExecutionInv(e)'
  BY <1>3, UploadKept DEF UploadFails
<1> QED
  BY <1>2, <1>3, StepCases, BeginKept, CommitKept, CommitFailsKept, AttemptKept, TagKept,
     RespondKept, CrashKept

(***************************************************************************)
(* The count of a block.                                                   *)
(***************************************************************************)

\* Counting once more makes room for one more.
LEMMA CountedOnce ==
  ASSUME NEW S, NEW T, NEW id, NEW n \in Nat, IsFiniteSet(S), Cardinality(S) <= n,
         T \subseteq S \cup {id}
  PROVE  /\ IsFiniteSet(T) /\ Cardinality(T) <= n + 1
         /\ T \subseteq S => Cardinality(T) <= n
<1>1. /\ IsFiniteSet(S \cup {id}) /\ Cardinality(S) \in Nat
      /\ Cardinality(S \cup {id}) \in {Cardinality(S), Cardinality(S) + 1}
  BY FS_AddElement, FS_CardinalityType
<1>2. /\ IsFiniteSet(T) /\ Cardinality(T) \in Nat
      /\ Cardinality(T) <= Cardinality(S \cup {id})
  BY <1>1, FS_Subset, FS_CardinalityType
<1>3. T \subseteq S => Cardinality(T) <= Cardinality(S)
  BY FS_Subset
<1> QED
  BY <1>1, <1>2, <1>3

\* A step that stores no manifest and sends no reference counts nothing new.
LEMMA QuietCount ==
  ASSUME TypeOK, NEW e \in Executions, Shape(e), UNCHANGED <<refCount, manifests>>,
         CountInv, \A b \in Blocks : ~Counting(e, b)'
  PROVE  CountInv'
<1> SUFFICES ASSUME NEW b \in Blocks
             PROVE  /\ IsFiniteSet(CountedBy(b)')
                    /\ Cardinality(CountedBy(b)') <= refCount'[b]
  BY DEF CountInv
<1>1. ASSUME NEW x \in Executions, Counting(x, b)' PROVE Counting(x, b) /\ Id(x)' = Id(x)
  <2>1. Same(x)
    BY <1>1 DEF Shape
  <2> QED
    BY <1>1, <2>1 DEF Counting, Same, Id
<1>2. CountedBy(b)' \subseteq CountedBy(b)
  BY <1>1 DEF CountedBy, StoredWith
<1>3. refCount[b] \in Nat
  BY DEF TypeOK
<1> QED
  BY <1>2, <1>3, CountedOnce DEF CountInv

\* A transaction that took effect counts each of its blocks once, and the only
\* new one to have counted them is this save, under its id.
LEMMA TransactCount ==
  ASSUME TypeOK, NEW e \in Executions, ExecutionInv(e), Shape(e), CountInv,
         NEW batch \in SUBSET todo[e], pc[e] = "commit", Transact(e, batch),
         UNCHANGED calls,
         \A b \in Blocks : Counting(e, b)' => b \in delta[e] \ (todo[e] \ batch)
  PROVE  CountInv'
<1> SUFFICES ASSUME NEW b \in Blocks
             PROVE  /\ IsFiniteSet(CountedBy(b)')
                    /\ Cardinality(CountedBy(b)') <= refCount'[b]
  BY DEF CountInv
<1>1. Id(e)' = Id(e)
  BY DEF Id
<1>2. ASSUME NEW x \in Executions \ {e}, Counting(x, b)'
      PROVE  Counting(x, b) /\ Id(x)' = Id(x)
  <2>1. Same(x)
    BY DEF Shape
  <2> QED
    BY <1>2, <2>1 DEF Counting, Same, Id
<1>3. Counting(e, b)' => b \in batch \/ Counting(e, b)
  BY DEF Counting
<1>4. ASSUME NEW m \in manifests', b \in m.blocks
      PROVE  m \in manifests \/ (m.id = Id(e) /\ (b \in batch \/ Counting(e, b)))
  <2>1. CASE m = Manifest(e) /\ batch = todo[e]
    BY <1>4, <2>1, ManifestFacts DEF Counting
  <2>2. CASE m \in manifests
    BY <2>2
  <2> QED
    BY <2>1, <2>2 DEF Transact
<1>5. refCount[b] \in Nat /\ refCount'[b] = refCount[b] + (IF b \in batch THEN 1 ELSE 0)
  BY DEF TypeOK, Transact
<1>6. CountedBy(b)' \subseteq CountedBy(b) \cup {Id(e)}
  BY <1>1, <1>2, <1>4 DEF CountedBy, StoredWith
<1>7. ASSUME b \notin batch PROVE CountedBy(b)' \subseteq CountedBy(b)
  BY <1>1, <1>2, <1>3, <1>4, <1>7 DEF CountedBy, StoredWith
<1>8. IsFiniteSet(CountedBy(b)) /\ Cardinality(CountedBy(b)) <= refCount[b]
  BY DEF CountInv
<1>9. /\ IsFiniteSet(CountedBy(b)') /\ Cardinality(CountedBy(b)') <= refCount[b] + 1
      /\ CountedBy(b)' \subseteq CountedBy(b) => Cardinality(CountedBy(b)') <= refCount[b]
  <2> DEFINE new == CountedBy(b)'
  <2>1. new \subseteq CountedBy(b) \cup {Id(e)}
    BY <1>6
  <2> HIDE DEF new
  <2>2. /\ IsFiniteSet(new) /\ Cardinality(new) <= refCount[b] + 1
        /\ new \subseteq CountedBy(b) => Cardinality(new) <= refCount[b]
    BY <1>5, <1>8, <2>1, CountedOnce
  <2> QED
    BY <2>2 DEF new
<1> QED
  BY <1>5, <1>7, <1>9

\* The steps of Phase 2a.
LEMMA CommitCount ==
  ASSUME TypeOK, NEW e \in Executions, ExecutionInv(e), CountInv,
         NEW batch \in SUBSET todo[e],
         Commit(e, batch) \/ \E applied \in BOOLEAN : CommitFails(e, batch, applied)
  PROVE  CountInv'
<1>1. Shape(e) /\ pc[e] = "commit" /\ UNCHANGED calls
  BY CommitShape DEF Commit, CommitFails
<1>2. CASE Commit(e, batch)
  <2>1. delta'[e] = delta[e] /\ todo'[e] = todo[e] \ batch
    BY <1>2 DEF Commit, TypeOK
  <2>2. Transact(e, batch)
    BY <1>2 DEF Commit
  <2> QED
    BY <1>1, <2>1, <2>2, TransactCount DEF Counting
<1>3. CASE \E applied \in BOOLEAN : CommitFails(e, batch, applied)
  <2>1. \A b \in Blocks : ~Counting(e, b)'
    BY <1>3 DEF CommitFails, Leave, Goto, Counting, TypeOK
  <2>2. Transact(e, batch) \/ UNCHANGED <<refCount, manifests>>
    BY <1>3 DEF CommitFails
  <2> QED
    BY <1>1, <2>1, <2>2, TransactCount, QuietCount
<1> QED
  BY <1>2, <1>3

\* A step of Phase 1: nothing of the blocks it leaves to Phase 2a is counted.
LEMMA UploadCount ==
  ASSUME TypeOK, NEW e \in Executions, CountInv, NEW b \in todo[e], NEW err \in BOOLEAN,
         AfterUpload(e, b, err), tags' \in {tags, [tags EXCEPT ![b] = "temp"]},
         pc[e] = "upload",
         UNCHANGED <<refCount, manifests, latest, staleLog, calls, bag>>
  PROVE  CountInv'
<1>1. pc'[e] # "commit" \/ todo'[e] = delta'[e]
  BY DEF AfterUpload, Leave, Goto, TypeOK
<1> QED
  BY <1>1, UploadShape, QuietCount DEF Counting

\* Every step leaves the counts high enough.
LEMMA StepCount ==
  ASSUME TypeOK, NEW e \in Executions, ExecutionInv(e), CountInv, Step(e)
  PROVE  CountInv'
<1>1. ASSUME NEW b \in todo[e], Upload(e, b) PROVE CountInv'
  <2>1. uploadErr[e] \in BOOLEAN
    BY Zenon DEF TypeOK
  <2> QED
    BY <1>1, <2>1, UploadCount DEF Upload
<1>2. ASSUME NEW b \in todo[e], NEW applied \in BOOLEAN, UploadFails(e, b, applied)
      PROVE  CountInv'
  BY <1>2, UploadCount DEF UploadFails
<1>3. ASSUME NEW b \in todo[e], NEW tagged \in BOOLEAN, Tag(e, b, tagged)
      PROVE  CountInv'
  <2>1. pc'[e] # "commit" /\ UNCHANGED <<refCount, manifests>>
    BY <1>3 DEF Tag, Leave, Goto, TypeOK
  <2> QED
    BY <1>3, <2>1, TagShape, QuietCount DEF ExecutionInv, Counting
<1>4. CASE PointerAction(e)
  <2>1. pc'[e] # "commit" /\ UNCHANGED <<refCount, manifests>>
    BY <1>4 DEF PointerAction, UpdatePointer, PointerRefused, PointerTransient,
                PointerRaises, StartTagging, Leave, Goto, TypeOK
  <2> QED
    BY <1>4, <2>1, PointerShape, QuietCount DEF ExecutionInv, Counting
<1>5. CASE Begin(e) \/ Respond(e) \/ Crash(e) \/ Reinvoke(e)
  <2>1. pc'[e] # "commit"
    BY <1>5 DEF Begin, Respond, Crash, Reinvoke, Leave, Goto, TypeOK
  <2> QED
    BY <1>5, <2>1, OutsideShape, QuietCount DEF tables, Counting
<1> QED
  BY <1>1, <1>2, <1>3, <1>4, <1>5, StepCases, CommitCount

------------------------------------------------------------------------------

\* The invariant holds before the first save.
LEMMA InitInvariant == Init => IndInv
<1> SUFFICES ASSUME Init PROVE IndInv
  OBVIOUS
<1>1. TypeOK
  BY BoundsAssumption DEF Init, TypeOK, Phases
<1>2. ManifestInv /\ PointerNamesManifest /\ TagsAgreeWithManifests
  BY DEF Init, ManifestInv, PointerNamesManifest, TagsAgreeWithManifests
<1>3. CountInv
  <2> SUFFICES ASSUME NEW b \in Blocks
               PROVE  IsFiniteSet(CountedBy(b)) /\ Cardinality(CountedBy(b)) <= refCount[b]
    BY DEF CountInv
  <2>1. CountedBy(b) = {} /\ refCount[b] = 0
    BY DEF Init, CountedBy, StoredWith, Counting
  <2> QED
    BY <2>1, FS_EmptySet
<1>4. \A e \in Executions : ExecutionInv(e)
  BY BoundsAssumption DEF Init, ExecutionInv, RunInv, FreshInv, WorkInv, OwnInv, CoverInv,
                          Saving
<1> QED
  BY <1>1, <1>2, <1>3, <1>4 DEF IndInv

\* Every step keeps it: for the execution that makes it, for the others, and
\* for the tables they share.
LEMMA NextInvariant == IndInv /\ [Next]_vars => IndInv'
<1>1. ASSUME IndInv, NEW e \in Executions, Step(e) PROVE IndInv'
  <2>1. /\ TypeOK /\ ManifestInv /\ PointerNamesManifest /\ TagsAgreeWithManifests
        /\ CountInv /\ \A x \in Executions : ExecutionInv(x)
    BY <1>1 DEF IndInv
  <2>2. RunInv(e) /\ FreshInv(e) /\ WorkInv(e)
    BY <2>1 DEF ExecutionInv
  <2>3. TypeOK' /\ Shape(e)
    BY <1>1, <2>1, <2>2, StepType, StepShape
  <2>4. ManifestInv' /\ PointerNamesManifest' /\ TagsAgreeWithManifests'
    BY <2>1, <2>2, <2>3, ManifestKept, PointerKept, TagsKept
  <2>5. CountInv'
    BY <1>1, <2>1, StepCount
  <2>6. ASSUME NEW x \in Executions PROVE ExecutionInv(x)'
    <3>1. CASE x = e
      BY <1>1, <2>1, <2>3, <3>1, OwnKept
    <3>2. CASE x # e
      BY <2>1, <2>2, <2>3, <3>2, OthersKept
    <3> QED
      BY <3>1, <3>2
  <2> QED
    BY <2>3, <2>4, <2>5, <2>6 DEF IndInv
<1>2. ASSUME IndInv, UNCHANGED vars PROVE IndInv'
  <2>1. /\ UNCHANGED <<tags, refCount, manifests, latest, staleLog>>
        /\ UNCHANGED <<pc, calls, delta, todo, uploadErr, attempt>>
        /\ UNCHANGED <<seg, current, flagged, answered>>
    BY <1>2 DEF vars, tables, invocation, bag
  <2>2. TypeOK' /\ ManifestInv' /\ PointerNamesManifest' /\ TagsAgreeWithManifests'
    BY <1>2, <2>1 DEF IndInv, TypeOK, ManifestInv, PointerNamesManifest,
                      TagsAgreeWithManifests
  <2>3. CountInv'
    BY <1>2, <2>1 DEF IndInv, CountInv, CountedBy, StoredWith, Counting, Id
  <2>4. \A x \in Executions : ExecutionInv(x)'
    BY <1>2, <2>1 DEF IndInv, ExecutionInv, RunInv, FreshInv, WorkInv, OwnInv, CoverInv,
                      Covers, Stored, Id
  <2> QED
    BY <2>2, <2>3, <2>4 DEF IndInv
<1> QED
  BY <1>1, <1>2 DEF Next, Step

(* The inductive invariant holds of every reachable state.                 *)
THEOREM Invariant == Spec => []IndInv
<1> QED
  BY InitInvariant, NextInvariant, PTL DEF Spec

(* The types: no invocation beyond its bound and no fourth attempt at the  *)
(* pointer, of any number of executions (_POINTER_MAX_RETRIES).            *)
THEOREM TypeCorrect == Spec => []TypeOK
<1>1. IndInv => TypeOK
  BY DEF IndInv
<1> QED
  BY <1>1, Invariant, PTL

(* load_latest_state finds the manifest the pointer names, however saves   *)
(* interleave, fail, are applied without an answer, or crash.              *)
THEOREM PointerNamed == Spec => []PointerNamesManifest
<1>1. IndInv => PointerNamesManifest
  BY DEF IndInv
<1> QED
  BY <1>1, Invariant, PTL

(* The pointer never falls behind an answered save that did not give up    *)
(* its pointer update: the segment guard of Phase 2b for any executions.   *)
THEOREM PointerCovers == Spec => []PointerCoversAnswered
<1>1. IndInv => PointerCoversAnswered
  <2> SUFFICES ASSUME IndInv, NEW e \in Executions,
                      current[e] # NoManifest, current[e] \notin staleLog
               PROVE  latest.id # NoManifest /\ ItemOf(current[e]).segment <= latest.segment
    BY DEF PointerCoversAnswered
  <2>1. CoverInv(e)
    BY DEF IndInv, ExecutionInv
  <2>2. \E m \in manifests : m.id = current[e]
    BY <2>1 DEF CoverInv, Stored
  <2>3. ItemOf(current[e]) \in manifests /\ ItemOf(current[e]).id = current[e]
    BY <2>2 DEF ItemOf
  <2> QED
    BY <2>1, <2>3 DEF CoverInv, Covers
<1> QED
  BY <1>1, Invariant, PTL

(* No block is counted less often than stored manifests hold it, for any   *)
(* number of transactions, failures and executions that share it.          *)
THEOREM Counted == Spec => []ReferencesCounted
<1>1. IndInv => ReferencesCounted
  <2> SUFFICES ASSUME IndInv, NEW b \in Blocks
               PROVE  refCount[b] >= Cardinality(StoredWith(b))
    BY DEF ReferencesCounted, StoredWith
  <2>1. /\ IsFiniteSet(CountedBy(b)) /\ Cardinality(CountedBy(b)) <= refCount[b]
        /\ refCount[b] \in Nat
    BY DEF IndInv, CountInv, TypeOK
  <2> DEFINE idOf == [m \in StoredWith(b) |-> m.id]
  <2>2. idOf \in Injection(StoredWith(b), CountedBy(b))
    <3>1. idOf \in [StoredWith(b) -> CountedBy(b)]
      BY DEF CountedBy
    <3>2. \A m, n \in StoredWith(b) : idOf[m] = idOf[n] => m = n
      BY DEF IndInv, ManifestInv, StoredWith
    <3> QED
      BY <3>1, <3>2 DEF Injection, IsInjective
  <2>3. /\ IsFiniteSet(StoredWith(b))
        /\ Cardinality(StoredWith(b)) <= Cardinality(CountedBy(b))
    BY <2>1, <2>2, FS_Injection
  <2>4. Cardinality(StoredWith(b)) \in Nat /\ Cardinality(CountedBy(b)) \in Nat
    BY <2>1, <2>3, FS_CardinalityType
  <2> QED
    BY <2>1, <2>3, <2>4
<1> QED
  BY <1>1, Invariant, PTL

(* Every block of a stored manifest is in S3, and every block tagged ready *)
(* belongs to a stored manifest: the two phases of the save.               *)
THEOREM TagsAgree == Spec => []TagsAgreeWithManifests
<1>1. IndInv => TagsAgreeWithManifests
  BY DEF IndInv
<1> QED
  BY <1>1, Invariant, PTL

------------------------------------------------------------------------------

(***************************************************************************)
(* The parent chain.  While an execution goes on it has answered as many   *)
(* segments as it has passed, and the manifest of a save whose             *)
(* transactions are through hangs on the chain of its bag.                 *)
(***************************************************************************)
Hangs(e) ==
  \E m \in manifests : m.id = Id(e) /\ m.segment = seg[e] /\ m.parent = current[e]
Chained(e) == \E c \in [1 .. answered[e] -> manifests] : IsChain(c, e)
ChainInv(e) ==
  /\ pc[e] # "ended" => answered[e] = seg[e]
  /\ pc[e] \in {"pointer", "tag", "saved"} => Hangs(e)
  /\ ~flagged[e] => Chained(e)

\* Manifests are never removed.
LEMMA ManifestsStay ==
  ASSUME NEW e, Shape(e) PROVE manifests \subseteq manifests'
BY DEF Shape, ManifestStep

\* A chain stays a chain while its bag is left alone.
LEMMA ChainedKept ==
  ASSUME NEW x, Chained(x), manifests \subseteq manifests',
         answered'[x] = answered[x], current'[x] = current[x]
  PROVE  Chained(x)'
<1>1. PICK c \in [1 .. answered[x] -> manifests] : IsChain(c, x)
  BY DEF Chained
<1>2. c \in [1 .. answered'[x] -> manifests']
  BY <1>1
<1>3. IsChain(c, x)'
  BY <1>1 DEF IsChain
<1> QED
  BY <1>2, <1>3 DEF Chained

\* A saved segment that answers is the new end of its chain.
LEMMA ChainGrows ==
  ASSUME TypeOK, NEW e \in Executions, Chained(e), Hangs(e), answered[e] = seg[e],
         manifests' = manifests, answered'[e] = answered[e] + 1, current'[e] = Id(e)
  PROVE  Chained(e)'
<1> DEFINE n == answered[e]
<1>1. n \in Nat
  BY DEF TypeOK
<1>2. PICK c \in [1 .. n -> manifests] : IsChain(c, e)
  BY DEF Chained
<1>3. PICK m \in manifests : m.id = Id(e) /\ m.segment = n /\ m.parent = current[e]
  BY DEF Hangs
<1> HIDE DEF n
<1>4. PICK d \in [1 .. (n + 1) -> manifests] : d[n + 1] = m /\ \A i \in 1 .. n : d[i] = c[i]
  <2> DEFINE longer == [i \in 1 .. (n + 1) |-> IF i = n + 1 THEN m ELSE c[i]]
  <2>1. longer \in [1 .. (n + 1) -> manifests]
    BY <1>1, <1>2, <1>3, SMT
  <2>2. longer[n + 1] = m /\ \A i \in 1 .. n : longer[i] = c[i]
    BY <1>1, SMT
  <2> QED BY <2>1, <2>2
<1>6. ASSUME NEW i \in 1 .. (n + 1)
      PROVE  /\ d[i].segment = i - 1 /\ d[i].id[1] = e
             /\ d[i].parent = IF i = 1 THEN NoManifest ELSE d[i - 1].id
  <2>1. CASE i = n + 1
    <3>1. d[i] = m /\ i - 1 = n
      BY <1>1, <1>4, <2>1, SMT
    <3>2. d[i].segment = i - 1 /\ d[i].id[1] = e
      BY <1>3, <3>1, IdFacts
    <3>3. CASE n = 0
      <4>1. current[e] = NoManifest
        BY <1>2, <3>3 DEF IsChain, n
      <4>2. i = 1
        BY <1>1, <2>1, <3>3, SMT
      <4> QED BY <1>3, <3>1, <3>2, <4>1, <4>2
    <3>4. CASE n # 0
      <4>1. n \in 1 .. n /\ i # 1
        BY <1>1, <2>1, <3>4, SMT
      <4>2. d[i].parent = c[n].id
        BY <1>2, <1>3, <3>1, <3>4 DEF IsChain, n
      <4> QED BY <1>4, <3>1, <3>2, <4>1, <4>2
    <3> QED BY <3>2, <3>3, <3>4
  <2>2. CASE i # n + 1
    <3>1. i \in 1 .. n /\ (i # 1 => i - 1 \in 1 .. n)
      BY <1>1, <2>2, SMT
    <3>2. d[i] = c[i] /\ (i # 1 => d[i - 1] = c[i - 1])
      BY <1>4, <3>1
    <3> QED BY <1>2, <3>1, <3>2 DEF IsChain, n
  <2> QED BY <2>1, <2>2
<1>7. current'[e] = IF n + 1 = 0 THEN NoManifest ELSE d[n + 1].id
  BY <1>1, <1>3, <1>4, SMT
<1>8. answered'[e] = n + 1
  BY DEF n
<1>9. IsChain(d, e)'
  BY <1>6, <1>7, <1>8 DEF IsChain
<1> QED
  BY <1>4, <1>8, <1>9 DEF Chained

\* Every step but an answer leaves the bag alone, and none leaves "ended".
LEMMA BagKept ==
  ASSUME TypeOK, NEW e \in Executions, Step(e), ~Respond(e)
  PROVE  UNCHANGED <<seg, current, flagged, answered>> /\ (pc'[e] # "ended" => pc[e] # "ended")
<1>1. UNCHANGED bag
  BY StepCases DEF Begin, Upload, UploadFails, Tag, Commit, CommitFails,
     PointerAction, UpdatePointer, PointerRefused, PointerTransient, PointerRaises,
     Crash, Reinvoke
<1>2. pc'[e] # "ended" => pc[e] # "ended"
  BY StepCases DEF Begin, Upload, UploadFails, Tag, Commit, CommitFails,
     PointerAction, UpdatePointer, PointerRefused, PointerTransient, PointerRaises,
     Crash, Reinvoke, Saving
<1> QED
  BY <1>1, <1>2 DEF bag

\* Other executions never touch the chain.
LEMMA OthersChained ==
  ASSUME TypeOK, NEW e \in Executions, Step(e), Shape(e), NEW x \in Executions \ {e},
         ChainInv(x)
  PROVE  ChainInv(x)'
<1>1. Same(x) /\ manifests \subseteq manifests'
  BY ManifestsStay DEF Shape
<1>2. answered'[x] = answered[x] /\ flagged'[x] = flagged[x]
  <2>1. CASE Respond(e)
    <3>1. answered'[x] = answered[x]
      BY <2>1 DEF Respond, TypeOK
    <3>2. flagged'[x] = flagged[x]
      BY <2>1, Zenon DEF Respond, Bag, TypeOK
    <3> QED BY <3>1, <3>2
  <2>2. CASE ~Respond(e)
    BY <2>2, BagKept
  <2> QED BY <2>1, <2>2
<1>3. Hangs(x) => Hangs(x)'
  BY <1>1 DEF Hangs, Same, Id
<1>4. Chained(x) => Chained(x)'
  BY <1>1, <1>2, ChainedKept DEF Same
<1> QED
  BY <1>1, <1>2, <1>3, <1>4 DEF ChainInv, Same

\* What a save's own step does to its chain.
LEMMA OwnChained ==
  ASSUME TypeOK, NEW e \in Executions, Step(e), Shape(e), ChainInv(e)
  PROVE  ChainInv(e)'
<1>1. manifests \subseteq manifests'
  BY ManifestsStay
<1>2. CASE Respond(e)
  <2>1. /\ pc[e] \in {"saved", "raised"} /\ manifests' = manifests
        /\ answered'[e] = answered[e] + 1 /\ answered[e] = seg[e]
        /\ current'[e] = IF pc[e] = "saved" THEN Id(e) ELSE current[e]
    BY <1>2 DEF Respond, Bag, TypeOK, tables, ChainInv
  <2>2. pc'[e] \in {"ended", "run"} /\ (pc'[e] # "ended" => seg'[e] = seg[e] + 1)
    BY <1>2 DEF Respond, Goto, TypeOK
  <2>3. ASSUME ~flagged'[e] PROVE Chained(e)'
    <3>1. ~flagged[e] /\ pc[e] # "raised"
      BY <1>2, <2>3, Zenon DEF Respond, Bag, TypeOK
    <3>2. pc[e] = "saved"
      BY <2>1, <3>1
    <3> QED BY <2>1, <3>1, <3>2, ChainGrows DEF ChainInv
  <2> QED BY <2>1, <2>2, <2>3 DEF ChainInv
<1>3. CASE ~Respond(e)
  <2>1. UNCHANGED <<seg, current, flagged, answered>> /\ (pc'[e] # "ended" => pc[e] # "ended")
    BY <1>3, BagKept
  <2>2. ASSUME pc'[e] \in {"pointer", "tag", "saved"} PROVE Hangs(e)'
    <3>1. CASE \E batch \in SUBSET todo[e] : Commit(e, batch)
      <4>1. PICK batch \in SUBSET todo[e] : Commit(e, batch)
        BY <3>1
      <4>2. batch = todo[e] /\ calls' = calls
        BY <2>2, <4>1 DEF Commit, Goto, TypeOK
      <4>3. Manifest(e) \in manifests' /\ Manifest(e).parent = current[e]
        BY <4>1, <4>2 DEF Commit, Transact, Manifest
      <4> QED BY <2>1, <4>2, <4>3, ManifestFacts DEF Hangs, Id
    <3>2. CASE ~\E batch \in SUBSET todo[e] : Commit(e, batch)
      <4>1. pc[e] \in {"pointer", "tag", "saved"} /\ calls' = calls
        BY <1>3, <2>2, <3>2, StepCases DEF Begin, Upload, UploadFails, AfterUpload, Tag,
           CommitFails, PointerAction, UpdatePointer, PointerRefused, PointerTransient,
           PointerRaises, StartTagging, Crash, Reinvoke, Leave, Goto, TypeOK, tables
      <4> QED BY <1>1, <2>1, <4>1 DEF ChainInv, Hangs, Id
    <3> QED BY <3>1, <3>2
  <2>3. Chained(e) => Chained(e)'
    BY <1>1, <2>1, ChainedKept
  <2> QED BY <2>1, <2>2, <2>3 DEF ChainInv
<1> QED
  BY <1>2, <1>3

(* The v3.34 flag catches every break of the parent chain, for any number  *)
(* of segments, retries and executions: an unflagged execution has stored  *)
(* one manifest per answer, linked in the order of the segments.           *)
THEOREM ChainComplete == Spec => []UnflaggedChainComplete
<1> DEFINE Chains == \A e \in Executions : ChainInv(e)
<1>1. Init => Chains
  <2> SUFFICES ASSUME Init, NEW e \in Executions PROVE ChainInv(e)
    OBVIOUS
  <2>1. answered[e] = 0 /\ seg[e] = 0 /\ pc[e] = "run" /\ current[e] = NoManifest
    BY DEF Init
  <2> DEFINE none == [i \in 1 .. 0 |-> NoManifest]
  <2>2. 1 .. answered[e] = {} /\ 1 .. 0 = {}
    BY <2>1, SMT
  <2>3. none \in [1 .. answered[e] -> manifests] /\ IsChain(none, e)
    BY <2>1, <2>2 DEF IsChain
  <2> QED BY <2>1, <2>3 DEF ChainInv, Chained
<1>2. IndInv /\ IndInv' /\ Chains /\ [Next]_vars => Chains'
  <2>1. ASSUME IndInv, Chains, NEW e \in Executions, Step(e) PROVE Chains'
    <3>1. TypeOK /\ RunInv(e) /\ FreshInv(e) /\ WorkInv(e)
      BY <2>1 DEF IndInv, ExecutionInv
    <3>2. Shape(e)
      BY <2>1, <3>1, StepShape DEF IndInv
    <3> QED BY <2>1, <3>1, <3>2, OthersChained, OwnChained
  <2>2. ASSUME Chains, UNCHANGED vars PROVE Chains'
    BY <2>2 DEF ChainInv, Hangs, Chained, IsChain, Id, vars, tables, invocation, bag
  <2> QED BY <2>1, <2>2 DEF Next, Step
<1>3. Chains => UnflaggedChainComplete
  BY DEF UnflaggedChainComplete, ChainInv, Chained
<1> HIDE DEF Chains
<1> QED
  BY <1>1, <1>2, <1>3, Invariant, PTL DEF Spec

------------------------------------------------------------------------------

(***************************************************************************)
(* The saves implement ManifestChain.  The bag of an execution that goes   *)
(* on names a stored manifest of its own and of an earlier segment.        *)
(***************************************************************************)
ParentInv(e) ==
  pc[e] # "ended" /\ current[e] # NoManifest =>
    \E p \in manifests : p.id = current[e] /\ p.id[1] = e /\ p.segment < seg[e]

\* The parent of the next manifest stays stored, and stays earlier.
LEMMA ParentKept ==
  ASSUME TypeOK, NEW e \in Executions, Step(e), Shape(e), OwnInv(e),
         \A y \in Executions : ParentInv(y), NEW x \in Executions
  PROVE  ParentInv(x)'
<1>1. manifests \subseteq manifests'
  BY ManifestsStay
<1>2. CASE x # e
  BY <1>1, <1>2 DEF Shape, Same, ParentInv
<1>3. CASE x = e /\ ~Respond(e)
  BY <1>1, <1>3, BagKept DEF ParentInv
<1>4. CASE x = e /\ Respond(e)
  <2> SUFFICES ASSUME pc'[e] # "ended", current'[e] # NoManifest
               PROVE  \E p \in manifests' : /\ p.id = current'[e] /\ p.id[1] = e
                                            /\ p.segment < seg'[e]
    BY <1>4 DEF ParentInv
  <2>1. /\ pc[e] \in {"saved", "raised"}
        /\ current'[e] = IF pc[e] = "saved" THEN Id(e) ELSE current[e]
    BY <1>4 DEF Respond, Bag, TypeOK
  <2>2. seg'[e] = seg[e] + 1
    BY <1>4 DEF Respond, Goto, TypeOK
  <2>3. seg[e] \in Nat /\ \A p \in manifests : p.segment \in Nat
    BY BoundsAssumption DEF TypeOK, Manifests
  <2>4. CASE pc[e] = "saved"
    <3>1. PICK p \in manifests : p.id = Id(e) /\ p.segment = seg[e]
      BY <2>4 DEF OwnInv
    <3> QED BY <1>1, <2>1, <2>2, <2>3, <2>4, <3>1, IdFacts
  <2>5. CASE pc[e] = "raised"
    <3>1. PICK p \in manifests : p.id = current[e] /\ p.id[1] = e /\ p.segment < seg[e]
      BY <2>1, <2>5 DEF ParentInv
    <3>2. p \in manifests' /\ p.segment < seg'[e]
      BY <1>1, <2>2, <2>3, <3>1
    <3> QED BY <2>1, <2>5, <3>1, <3>2
  <2> QED BY <2>1, <2>4, <2>5
<1> QED
  BY <1>2, <1>3, <1>4

\* Only Phase 2b moves the pointer, under its guard, and it stores nothing.
LEMMA LatestStep ==
  ASSUME NEW e, Step(e)
  PROVE  \/ latest' = latest
         \/ pc[e] = "pointer" /\ Advances(e) /\ MovePointer(e) /\ manifests' = manifests
BY StepCases DEF Begin, Upload, UploadFails, Tag, Commit, CommitFails, PointerAction,
   UpdatePointer, PointerRefused, PointerTransient, PointerRaises, Respond, Crash,
   Reinvoke, tables

\* A step of a save is a step of the chain, or leaves it alone.
LEMMA ChainStep ==
  ASSUME TypeOK, NEW e \in Executions, Step(e), Shape(e), FreshInv(e), OwnInv(e),
         ParentInv(e)
  PROVE  [Chain!ChainNext]_<<manifests, latest>>
<1>1. CASE manifests' = manifests /\ latest' = latest
  BY <1>1
<1>2. CASE manifests' # manifests
  <2>1. pc[e] = "commit" /\ manifests' = manifests \cup {Manifest(e)}
    BY <1>2 DEF Shape, ManifestStep
  <2>2. latest' = latest
    BY <1>2, LatestStep
  <2>3. \A n \in manifests : n.id # Manifest(e).id
    BY <2>1, ManifestFacts DEF FreshInv, Stored
  <2>4. Manifest(e).parent = current[e] /\ Manifest(e).id[1] = e
        /\ Manifest(e).segment = seg[e]
    BY IdFacts DEF Manifest
  <2>5. \/ Manifest(e).parent = NoManifest
        \/ \E p \in manifests : /\ p.id = Manifest(e).parent
                                /\ p.id[1] = Manifest(e).id[1]
                                /\ p.segment < Manifest(e).segment
    BY <2>1, <2>4 DEF ParentInv
  <2>6. Chain!Add(Manifest(e)) /\ Manifest(e) \in manifests'
    BY <2>1, <2>2, <2>3, <2>5 DEF Chain!Add
  <2> QED BY <2>6 DEF Chain!ChainNext
<1>3. CASE latest' # latest
  <2>1. /\ pc[e] = "pointer" /\ Advances(e) /\ MovePointer(e)
        /\ manifests' = manifests
    BY <1>3, LatestStep
  <2>2. PICK m \in manifests : m.id = Id(e) /\ m.segment = seg[e]
    BY <2>1 DEF OwnInv
  <2>3. Chain!MoveHead(m)
    BY <2>1, <2>2 DEF Chain!MoveHead, Advances, MovePointer
  <2> QED BY <2>3 DEF Chain!ChainNext
<1> QED
  BY <1>1, <1>2, <1>3

(* save_state_delta implements the manifest chain for any number of        *)
(* executions, segments, failures and crashes: whoever follows a parent    *)
(* finds it stored, of the same execution and of an earlier segment, and   *)
(* the pointer of load_latest_state never goes back a segment.             *)
THEOREM ImplementsChain == Spec => RefinesManifestChain
<1> DEFINE Parents == \A e \in Executions : ParentInv(e)
<1>1. Init => Parents /\ Chain!ChainInit
  BY DEF Init, ParentInv, Chain!ChainInit
<1>2. IndInv /\ Parents /\ [Next]_vars => Parents' /\ [Chain!ChainNext]_Chain!chainVars
  <2>1. ASSUME IndInv, Parents, NEW e \in Executions, Step(e)
        PROVE  Parents' /\ [Chain!ChainNext]_Chain!chainVars
    <3>1. TypeOK /\ RunInv(e) /\ FreshInv(e) /\ WorkInv(e) /\ OwnInv(e)
      BY <2>1 DEF IndInv, ExecutionInv
    <3>2. Shape(e)
      BY <2>1, <3>1, StepShape DEF IndInv
    <3>3. Parents'
      BY <2>1, <3>1, <3>2, ParentKept
    <3>4. [Chain!ChainNext]_<<manifests, latest>>
      BY <2>1, <3>1, <3>2, ChainStep
    <3> QED BY <3>3, <3>4 DEF Chain!chainVars
  <2>2. ASSUME Parents, UNCHANGED vars
        PROVE  Parents' /\ [Chain!ChainNext]_Chain!chainVars
    BY <2>2 DEF ParentInv, vars, tables, invocation, bag, Chain!chainVars
  <2> QED BY <2>1, <2>2 DEF Next, Step
<1> HIDE DEF Parents
<1> QED
  BY <1>1, <1>2, Invariant, PTL DEF Spec, RefinesManifestChain, Chain!ChainSpec
==============================================================================
