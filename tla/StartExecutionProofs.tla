------------------------- MODULE StartExecutionProofs -------------------------
(***************************************************************************)
(* Theorems of StartExecution for any number of requests, executions and   *)
(* calls.  A claim in force keeps the item in the table and unfailed, so   *)
(* nobody else can claim; and before the first failure every request past  *)
(* its claim is among those the item's ttl outlives.                       *)
(***************************************************************************)
EXTENDS StartExecution, TLAPS

\* What the item, or a stale copy of it, tells has happened.
Told(i) ==
  /\ i.status = "COMPLETED" => SomeExecution("SUCCEEDED")
  /\ i.status = "FAILED" => SomeExecution("FAILED")

\* An execution of the key has failed, or a request knows the name of one.
Open == SomeExecution("FAILED") \/ \E r \in Requests : named[r] # None
NamesOpen(i) == i # Absent /\ i.executionArn # None => Open

\* Where the results in the table and in the answers come from.
ResultInv ==
  /\ Told(Seen(item)) /\ Told(replica)
  /\ (\E r \in Requests : at[r] = "cached") => SomeExecution("SUCCEEDED")

\* Where the names in the table come from.
NameInv ==
  /\ NamesOpen(Seen(item)) /\ NamesOpen(replica)
  /\ \A r \in Requests : at[r] = "record" => named[r] # None
  /\ (\E e \in Executions : state[e] \in {"running", "SUCCEEDED"}) => Open

\* A claim in force is the only one and its item is there, not failed; whoever
\* starts an execution has or had one.
ClaimInv ==
  /\ \A r, s \in Requests : claim[r] = "held" /\ claim[s] = "held" => r = s
  /\ (\E r \in Requests : claim[r] = "held") => item # Absent /\ item.status # "FAILED"
  /\ \A r \in Requests : PastTheClaim(r) => claim[r] # "none"
  /\ \A e \in Executions :
       state[e] # "unborn" => starter[e] \in Requests /\ claim[starter[e]] # "none"

\* Until a failure the item outlives the one request past its claim.
StarterInv ==
  SomeExecution("FAILED")
  \/ \A r \in Requests : PastTheClaim(r) =>
       /\ item # Absent /\ r \in item.ttl
       /\ \A s \in Requests : PastTheClaim(s) => r = s

IndInv == TypeOK /\ ResultInv /\ NameInv /\ ClaimInv /\ StarterInv

\* The invariant holds before the first request.
LEMMA InitInv == Init => IndInv
<1> SUFFICES ASSUME Init PROVE IndInv
  OBVIOUS
<1> USE AttemptsAssumption, NoneAssumption DEF Init, Absent
<1>1. TypeOK
  BY SMT DEF TypeOK, Arns
<1>2. ResultInv
  BY DEF ResultInv, Told, Seen
<1>3. NameInv
  BY DEF NameInv, NamesOpen, Seen
<1>4. ClaimInv
  BY DEF ClaimInv, PastTheClaim
<1>5. StarterInv
  BY DEF StarterInv, PastTheClaim
<1> QED
  BY <1>1, <1>2, <1>3, <1>4, <1>5 DEF IndInv

\* The readers see a status and an executionArn of the right types.
LEMMA SeenType ==
  ASSUME TypeOK
  PROVE  /\ Seen(item) \in [status : Statuses, executionArn : Arns] \cup {Absent}
         /\ item # Absent => /\ Seen(item) # Absent
                            /\ Seen(item).status = item.status
                            /\ Seen(item).executionArn = item.executionArn
                            /\ item \in Items
  BY SMT DEF TypeOK, Seen, Items, Statuses, Absent, Unset

\* An item is a record of a status of its own.
LEMMA ItemsPresent ==
  /\ \A i \in Items : i # Absent
  /\ \A i \in [status : Statuses, executionArn : Arns] : i # Absent
  BY SMT DEF Items, Statuses, Absent, Unset

\* A request moves within its types, and alone.
LEMMA GotoType ==
  ASSUME TypeOK, NEW r \in Requests, NEW where, Goto(r, where),
         where \in {"idle"} \cup Working \cup Answers
  PROVE  /\ at' \in [Requests -> {"idle"} \cup Working \cup Answers]
         /\ attempts' \in [Requests -> 0..(StartAttempts - 1)]
         /\ at'[r] = where /\ \A s \in Requests \ {r} : at'[s] = at[s]
  BY AttemptsAssumption, SMT DEF TypeOK, Goto

\* Every step keeps the types.
LEMMA TypeStep == ASSUME TypeOK, [Next]_vars PROVE TypeOK'
<1> USE AttemptsAssumption, NoneAssumption
<1> USE DEF table, requests, executions
<1>1. CASE Replicate
  BY <1>1, SeenType, SMT DEF Replicate, TypeOK
<1>2. CASE Expire
  BY <1>2, SMT DEF Expire, LoseClaims, TypeOK
<1>3. ASSUME NEW r \in Requests, Claim(r) PROVE TypeOK'
  <2>1. NewClaim(r) \in Items
    BY SMT DEF NewClaim, Items, Statuses, Arns, InFlight
  <2>2. PICK where \in {"start", "consult", "other"} : Goto(r, where)
    BY <1>3 DEF Claim
  <2>3. where \in {"idle"} \cup Working \cup Answers
    BY DEF Working, Answers
  <2> QED
    BY <1>3, <2>1, <2>2, <2>3, GotoType, SMT DEF Claim, GainClaim, TypeOK
<1>4. ASSUME NEW r \in Requests,
             ClaimFails(r) \/ Consult(r) \/ ReclaimFails(r) \/ Refuse(r) \/ Die(r)
      PROVE  TypeOK'
  <2>1. \E where \in {"consult", "other", "cached", "reclaim"} : Goto(r, where)
    BY <1>4 DEF ClaimFails, Consult, ReclaimFails, Refuse, Die, Answer
  <2>2. PICK where \in {"consult", "other", "cached", "reclaim"} : Goto(r, where)
    BY <2>1
  <2>3. where \in {"idle"} \cup Working \cup Answers
    BY DEF Working, Answers
  <2>4. UNCHANGED <<table, named, executions, claim>>
    BY <1>4 DEF ClaimFails, Consult, ReclaimFails, Refuse, Die
  <2> QED
    BY <2>2, <2>3, <2>4, GotoType, SMT DEF TypeOK
<1>5. ASSUME NEW r \in Requests, Reclaim(r) PROVE TypeOK'
  <2>1. item \in Items
    BY <1>5, SMT DEF Reclaim, TypeOK, Absent
  <2>2. item' \in Items
    BY <1>5, <2>1, SMT DEF Reclaim, Items, Statuses
  <2>3. PICK where \in {"start", "other"} : Goto(r, where)
    BY <1>5 DEF Reclaim
  <2>4. where \in {"idle"} \cup Working \cup Answers
    BY DEF Working, Answers
  <2> QED
    BY <1>5, <2>2, <2>3, <2>4, GotoType, SMT DEF Reclaim, GainClaim, TypeOK
<1>6. ASSUME NEW r \in Requests, NEW e \in Executions, Start(r, e) PROVE TypeOK'
  <2>1. "record" \in {"idle"} \cup Working \cup Answers /\ Goto(r, "record")
    BY <1>6 DEF Start, Working
  <2> QED
    BY <1>6, <2>1, GotoType, SMT DEF Start, Starts, Arns, TypeOK
<1>7. ASSUME NEW r \in Requests, StartFails(r) PROVE TypeOK'
  <2>1. /\ state' \in [Executions ->
                       {"unborn", "checking", "running", "SUCCEEDED", "FAILED"}]
        /\ starter' \in [Executions -> Requests \cup {None}]
    BY <1>7, SMT DEF StartFails, Starts, TypeOK
  <2>2. /\ at' \in [Requests -> {"idle"} \cup Working \cup Answers]
        /\ attempts' \in [Requests -> 0..(StartAttempts - 1)]
    <3>1. CASE Retry(r)
      BY <3>1, SMT DEF Retry, TypeOK
    <3>2. CASE Answer(r)
      BY <3>2, GotoType DEF Answer, Answers
    <3> QED
      BY <1>7, <3>1, <3>2 DEF StartFails
  <2> QED
    BY <1>7, <2>1, <2>2, SMT DEF StartFails, TypeOK
<1>8. ASSUME NEW r \in Requests, Record(r) PROVE TypeOK'
  <2>1. Recorded(r) \in Items
    <3>1. named[r] \in Arns /\ InFlight \in SUBSET Requests
      BY DEF TypeOK, InFlight
    <3>2. item # Absent => item.status \in Statuses
      BY SMT DEF TypeOK, Items
    <3> QED
      BY <3>1, <3>2, SMT DEF Recorded, Items, Statuses
  <2>2. Goto(r, "other") /\ "other" \in {"idle"} \cup Working \cup Answers
    BY <1>8 DEF Record, Answer, Answers
  <2> QED
    BY <1>8, <2>1, <2>2, GotoType, SMT DEF Record, TypeOK
<1>9. ASSUME NEW e \in Executions, Verify(e) \/ VerifyFails(e) \/ End(e)
      PROVE  TypeOK'
  <2>1. \E how \in {"running", "SUCCEEDED", "FAILED"} :
          state' = [state EXCEPT ![e] = how]
    BY <1>9 DEF Verify, VerifyFails, End, EvaluateIdempotency
  <2> QED
    BY <1>9, <2>1, SMT DEF Verify, VerifyFails, End, TypeOK
<1>10. ASSUME NEW e \in Executions, Finalize(e) PROVE TypeOK'
  <2>1. item' \in Items
    BY <1>10, SMT DEF Finalize, Items, Statuses, Arns, InFlight
  <2> QED
    BY <1>10, <2>1, SMT DEF Finalize, LoseClaims, TypeOK
<1>11. CASE UNCHANGED vars
  BY <1>11, SMT DEF vars, TypeOK
<1> QED
  BY <1>1, <1>2, <1>3, <1>4, <1>5, <1>6, <1>7, <1>8, <1>9, <1>10, <1>11 DEF Next

\* The steps that write the item.
LEMMA ItemWriters ==
  ASSUME [Next]_vars
  PROVE  \/ UNCHANGED item \/ Expire
         \/ \E r \in Requests : Claim(r) \/ Reclaim(r) \/ Record(r)
         \/ \E e \in Executions : Finalize(e)
<1> USE DEF table, requests, executions
<1>1. CASE UNCHANGED vars
  BY <1>1 DEF vars
<1> QED
  BY <1>1 DEF Next, Replicate, ClaimFails, Consult, ReclaimFails, Refuse, StartFails,
              Die, Start, Verify, VerifyFails, End

\* What a step does to the executions.
LEMMA ExecutionWriters ==
  ASSUME TypeOK, [Next]_vars
  PROVE  \/ UNCHANGED executions
         \/ \E r \in Requests, e \in Executions :
              Starts(r, e) /\ at[r] = "start" /\ UNCHANGED <<table, claim>>
         \/ \E e \in Executions :
              (Verify(e) \/ VerifyFails(e) \/ End(e)) /\ UNCHANGED starter
<1> USE DEF table, requests, executions
<1>1. CASE UNCHANGED vars
  BY <1>1 DEF vars
<1>2. ASSUME NEW r \in Requests, StartFails(r) \/ \E e \in Executions : Start(r, e)
      PROVE  \/ UNCHANGED executions
             \/ \E q \in Requests, e \in Executions :
                  Starts(q, e) /\ at[q] = "start" /\ UNCHANGED <<table, claim>>
  BY <1>2 DEF StartFails, Start, Calls
<1> QED
  BY <1>1, <1>2 DEF Next, Replicate, Expire, Claim, ClaimFails, Consult, Reclaim,
      ReclaimFails, Refuse, Record, Die, Finalize, Verify, VerifyFails, End

\* A request does not forget the name it was answered.
LEMMA NamedLast ==
  ASSUME TypeOK, [Next]_vars
  PROVE  \A r \in Requests : named[r] # None => named'[r] # None
<1> USE DEF table, requests, executions
<1>1. CASE UNCHANGED named
  BY <1>1
<1>2. ASSUME NEW r \in Requests, NEW e \in Executions, Start(r, e)
      PROVE  \A q \in Requests : named[q] # None => named'[q] # None
  BY <1>2, NoneAssumption DEF Start, TypeOK
<1>3. UNCHANGED named \/ \E r \in Requests, e \in Executions : Start(r, e)
  <2>1. CASE UNCHANGED vars
    BY <2>1 DEF vars
  <2> QED
    BY <2>1 DEF Next, Replicate, Expire, Claim, ClaimFails, Consult, Reclaim,
      ReclaimFails, Refuse, StartFails, Record, Die, Verify, VerifyFails, End, Finalize
<1> QED
  BY <1>1, <1>2, <1>3

\* Ends of executions and names that requests know stay.
LEMMA Lasting ==
  ASSUME TypeOK, [Next]_vars
  PROVE  /\ SomeExecution("FAILED") => SomeExecution("FAILED")'
         /\ SomeExecution("SUCCEEDED") => SomeExecution("SUCCEEDED")'
         /\ Open => Open'
<1> USE DEF table, requests, executions
<1>1. \A e \in Executions : state[e] \in {"SUCCEEDED", "FAILED"} => state'[e] = state[e]
  <2>1. CASE UNCHANGED executions
    BY <2>1
  <2>2. ASSUME NEW r \in Requests, NEW e \in Executions, Starts(r, e)
        PROVE  \A d \in Executions :
                 state[d] \in {"SUCCEEDED", "FAILED"} => state'[d] = state[d]
    BY <2>2 DEF Starts, TypeOK
  <2>3. ASSUME NEW e \in Executions, Verify(e) \/ VerifyFails(e) \/ End(e)
        PROVE  \A d \in Executions :
                 state[d] \in {"SUCCEEDED", "FAILED"} => state'[d] = state[d]
    <3>1. state[e] \notin {"SUCCEEDED", "FAILED"} /\ \E how : state' = [state EXCEPT ![e] = how]
      BY <2>3 DEF Verify, VerifyFails, End
    <3> QED
      BY <3>1 DEF TypeOK
  <2> QED
    BY <2>1, <2>2, <2>3, ExecutionWriters
<1> QED
  BY <1>1, NamedLast DEF SomeExecution, Open

\* Reads of the replica are reads of an earlier item.
LEMMA ReplicaStep ==
  ASSUME [Next]_vars PROVE UNCHANGED replica \/ replica' = Seen(item)
<1> USE DEF table, requests, executions
<1>1. CASE UNCHANGED vars
  BY <1>1 DEF vars
<1> QED
  BY <1>1 DEF Next, Replicate, Expire, Claim, ClaimFails, Consult, Reclaim,
    ReclaimFails, Refuse, StartFails, Start, Record, Die, Verify, VerifyFails, End, Finalize

\* "cached" is the answer of a read that saw COMPLETED.
LEMMA ConsultStep ==
  ASSUME NEW r \in Requests, Consult(r)
  PROVE  \E where \in {"reclaim", "other", "cached"} :
           /\ Goto(r, where)
           /\ where = "cached" =>
                Seen(item).status = "COMPLETED" \/ replica.status = "COMPLETED"
<1>1. CASE Goto(r, "other")
  BY <1>1
<1>2. ASSUME NEW seen \in {Seen(item), replica},
             Goto(r, CASE seen = Absent -> "other"
                       [] seen.status = "COMPLETED" /\ seen.executionArn # None ->
                            "cached"
                       [] seen.status = "FAILED" -> "reclaim"
                       [] OTHER -> "other")
      PROVE  \E where \in {"reclaim", "other", "cached"} :
               Goto(r, where) /\ (where = "cached" => seen.status = "COMPLETED")
  <2>1. CASE seen = Absent
    <3>1. seen.status # "COMPLETED" /\ seen.status # "FAILED"
      BY <2>1 DEF Absent
    <3> QED
      BY <1>2, <2>1, <3>1
  <2>2. CASE seen # Absent /\ seen.status = "COMPLETED" /\ seen.executionArn # None
    BY <1>2, <2>2
  <2>3. CASE seen # Absent /\ seen.status = "FAILED"
    BY <1>2, <2>3
  <2>4. CASE seen # Absent /\ seen.status # "FAILED"
             /\ ~(seen.status = "COMPLETED" /\ seen.executionArn # None)
    BY <1>2, <2>4
  <2> QED
    BY <2>1, <2>2, <2>3, <2>4
<1>3. Goto(r, "other") \/
      \E seen \in {Seen(item), replica} :
        Goto(r, CASE seen = Absent -> "other"
                  [] seen.status = "COMPLETED" /\ seen.executionArn # None -> "cached"
                  [] seen.status = "FAILED" -> "reclaim"
                  [] OTHER -> "other")
  BY DEF Consult, Answer
<1> QED
  BY <1>1, <1>2, <1>3

\* What a step makes of a request.
LEMMA AtStep ==
  ASSUME TypeOK, [Next]_vars
  PROVE  \/ UNCHANGED at
         \/ \E r \in Requests :
              /\ \A s \in Requests \ {r} : at'[s] = at[s]
              /\ \/ at'[r] \in {"consult", "reclaim", "other"}
                 \/ at'[r] = "cached" /\ Consult(r)
                 \/ at'[r] = "start" /\ (Claim(r) \/ Reclaim(r))
                 \/ at'[r] = "record" /\ \E e \in Executions : Start(r, e)
<1> USE DEF table, requests, executions
<1>1. CASE UNCHANGED vars
  BY <1>1 DEF vars
<1>2. ASSUME NEW r \in Requests, NEW where, Goto(r, where)
      PROVE  at'[r] = where /\ \A s \in Requests \ {r} : at'[s] = at[s]
  BY <1>2 DEF Goto, TypeOK
<1>3. ASSUME NEW r \in Requests,
             Claim(r) \/ ClaimFails(r) \/ Reclaim(r) \/ ReclaimFails(r) \/ Refuse(r)
               \/ Record(r) \/ Die(r)
      PROVE  /\ \A s \in Requests \ {r} : at'[s] = at[s]
             /\ \/ at'[r] \in {"consult", "reclaim", "other"}
                \/ at'[r] = "start" /\ (Claim(r) \/ Reclaim(r))
  <2>1. \E where \in {"consult", "reclaim", "other", "start"} :
          Goto(r, where) /\ (where = "start" => Claim(r) \/ Reclaim(r))
    BY <1>3 DEF Claim, ClaimFails, Reclaim, ReclaimFails, Refuse, Record, Die, Answer
  <2> QED
    BY <2>1, <1>2
<1>4. ASSUME NEW r \in Requests, Consult(r)
      PROVE  /\ \A s \in Requests \ {r} : at'[s] = at[s]
             /\ at'[r] \in {"reclaim", "other", "cached"}
  BY <1>4, ConsultStep, <1>2
<1>5. ASSUME NEW r \in Requests, NEW e \in Executions, Start(r, e)
      PROVE  at'[r] = "record" /\ \A s \in Requests \ {r} : at'[s] = at[s]
  BY <1>5, <1>2 DEF Start
<1>6. ASSUME NEW r \in Requests, StartFails(r)
      PROVE  UNCHANGED at \/ (at'[r] = "other" /\ \A s \in Requests \ {r} : at'[s] = at[s])
  BY <1>6, <1>2 DEF StartFails, Retry, Answer
<1>7. CASE Replicate \/ Expire \/ \E e \in Executions : Verify(e) \/ VerifyFails(e) \/ End(e) \/ Finalize(e)
  BY <1>7 DEF Replicate, Expire, Verify, VerifyFails, End, Finalize
<1> QED
  BY <1>1, <1>3, <1>4, <1>5, <1>6, <1>7 DEF Next

\* A step keeps COMPLETED tied to an execution that has succeeded.
LEMMA ResultStep ==
  ASSUME TypeOK, ResultInv, [Next]_vars PROVE ResultInv'
<1> USE Lasting
<1>1. Told(Seen(item))'
  <2>1. CASE UNCHANGED item
    BY <2>1 DEF ResultInv, Told, Seen
  <2>2. CASE Expire
    BY <2>2 DEF Expire, Told, Seen, Absent
  <2>3. ASSUME NEW r \in Requests, Claim(r) \/ Reclaim(r)
        PROVE  Told(Seen(item))'
    <3>1. item'.status = "IN_PROGRESS"
      <4>1. CASE Claim(r)
        BY <4>1 DEF Claim, NewClaim
      <4>2. CASE Reclaim(r)
        <5>1. item \in Items
          BY <4>2, SMT DEF Reclaim, TypeOK, Absent
        <5> QED
          BY <4>2, <5>1, SMT DEF Reclaim, Items
      <4> QED
        BY <2>3, <4>1, <4>2
    <3> QED
      BY <3>1 DEF Told, Seen, Absent
  <2>4. ASSUME NEW r \in Requests, Record(r) PROVE Told(Seen(item))'
    <3>1. CASE UNCHANGED item
      BY <3>1, <2>1
    <3>2. CASE item' = Recorded(r)
      <4>1. item' # Absent /\ item'.status = IF item = Absent THEN Unset ELSE item.status
        <5>1. item # Absent => item.status # "absent"
          BY SMT DEF TypeOK, Items, Statuses, Unset
        <5> QED
          BY <3>2, <5>1 DEF Recorded, Absent, Unset
      <4>2. Seen(item)'.status = item'.status
        BY <4>1 DEF Seen
      <4>3. CASE item = Absent
        BY <4>1, <4>2, <4>3 DEF Told, Unset
      <4>4. CASE item # Absent
        BY <4>1, <4>2, <4>4, SeenType DEF Told, ResultInv
      <4> QED
        BY <4>3, <4>4
    <3> QED
      BY <2>4, <3>1, <3>2 DEF Record
  <2>5. ASSUME NEW e \in Executions, Finalize(e) PROVE Told(Seen(item))'
    <3>1. item'.status = IF state[e] = "SUCCEEDED" THEN "COMPLETED" ELSE "FAILED"
      BY <2>5 DEF Finalize
    <3>2. /\ state[e] \in {"SUCCEEDED", "FAILED"}
          /\ state[e] = "SUCCEEDED" => SomeExecution("SUCCEEDED")
          /\ state[e] = "FAILED" => SomeExecution("FAILED")
      BY <2>5 DEF Finalize, SomeExecution
    <3>3. Seen(item)'.status = item'.status
      BY <3>1 DEF Seen, Absent
    <3> QED
      BY <3>1, <3>2, <3>3 DEF Told
  <2> QED
    BY <2>1, <2>2, <2>3, <2>4, <2>5, ItemWriters
<1>2. Told(replica)'
  BY ReplicaStep DEF ResultInv, Told
<1>3. (\E r \in Requests : at'[r] = "cached") => SomeExecution("SUCCEEDED")'
  <2>1. CASE \E r \in Requests : at[r] = "cached"
    BY <2>1 DEF ResultInv
  <2>2. ASSUME NEW r \in Requests, Consult(r), at'[r] = "cached"
        PROVE  SomeExecution("SUCCEEDED")'
    <3>1. PICK where \in {"reclaim", "other", "cached"} :
            /\ Goto(r, where)
            /\ where = "cached" =>
                 Seen(item).status = "COMPLETED" \/ replica.status = "COMPLETED"
      BY <2>2, ConsultStep
    <3>2. where = "cached"
      BY <2>2, <3>1 DEF Goto, TypeOK
    <3> QED
      BY <3>1, <3>2 DEF ResultInv, Told
  <2> QED
    BY <2>1, <2>2, AtStep
<1> QED
  BY <1>1, <1>2, <1>3 DEF ResultInv

\* A step keeps executionArns tied to names that requests were told.
LEMMA NameStep ==
  ASSUME TypeOK, NameInv, [Next]_vars PROVE NameInv'
<1> USE Lasting
<1>1. NamesOpen(Seen(item))'
  <2>1. CASE UNCHANGED item
    BY <2>1 DEF NameInv, NamesOpen, Seen
  <2>2. CASE Expire
    BY <2>2 DEF Expire, NamesOpen, Seen
  <2>3. ASSUME NEW r \in Requests, Claim(r) PROVE NamesOpen(Seen(item))'
    BY <2>3 DEF Claim, NewClaim, NamesOpen, Seen
  <2>4. ASSUME NEW r \in Requests, Reclaim(r) PROVE NamesOpen(Seen(item))'
    <3>1. item \in Items
      BY <2>4, SMT DEF Reclaim, TypeOK, Absent
    <3>2. item'.executionArn = item.executionArn
      BY <2>4, <3>1, SMT DEF Reclaim, Items
    <3> QED
      BY <3>1, <3>2, SeenType, ItemsPresent DEF NameInv, NamesOpen, Seen
  <2>5. ASSUME NEW r \in Requests, Record(r) PROVE NamesOpen(Seen(item))'
    <3>1. at[r] = "record" /\ Open
      BY <2>5 DEF Record, NameInv, Open
    <3> QED
      BY <3>1 DEF NamesOpen
  <2>6. ASSUME NEW e \in Executions, Finalize(e) PROVE NamesOpen(Seen(item))'
    <3>1. Open
      BY <2>6 DEF Finalize, NameInv, Open, SomeExecution
    <3> QED
      BY <3>1 DEF NamesOpen
  <2> QED
    BY <2>1, <2>2, <2>3, <2>4, <2>5, <2>6, ItemWriters
<1>2. NamesOpen(replica)'
  BY ReplicaStep DEF NameInv, NamesOpen
<1>3. ASSUME NEW r \in Requests, at'[r] = "record" PROVE named'[r] # None
  <2>1. CASE at[r] = "record"
    <3>1. named[r] # None
      BY <2>1 DEF NameInv
    <3> QED
      BY <3>1, NamedLast
  <2>2. ASSUME NEW e \in Executions, Start(r, e) PROVE named'[r] # None
    BY <2>2, NoneAssumption DEF Start, TypeOK
  <2> QED
    BY <1>3, <2>1, <2>2, AtStep
<1>4. ASSUME NEW e \in Executions, state'[e] \in {"running", "SUCCEEDED"} PROVE Open'
  <2>1. CASE state[e] \in {"running", "SUCCEEDED"}
    BY <2>1 DEF NameInv
  <2>2. CASE UNCHANGED executions
    BY <2>1, <2>2, <1>4 DEF executions
  <2>3. ASSUME NEW r \in Requests, NEW d \in Executions, Starts(r, d)
        PROVE  state[e] \in {"running", "SUCCEEDED"}
    BY <2>3, <1>4 DEF Starts, TypeOK
  <2>4. ASSUME NEW d \in Executions, Verify(d) PROVE Open'
    BY <2>4 DEF Verify, NameInv, NamesOpen
  <2>5. ASSUME NEW d \in Executions, VerifyFails(d) \/ End(d)
        PROVE  state[e] \in {"running", "SUCCEEDED"}
    <3>1. CASE VerifyFails(d)
      BY <3>1, <1>4 DEF VerifyFails, TypeOK
    <3>2. CASE End(d)
      BY <3>2, <1>4 DEF End, TypeOK
    <3> QED
      BY <2>5, <3>1, <3>2
  <2> QED
    BY <2>1, <2>2, <2>3, <2>4, <2>5, ExecutionWriters
<1> QED
  BY <1>1, <1>2, <1>3, <1>4 DEF NameInv

\* Claims are gained by the put or the conditional update, and lost together.
LEMMA ClaimWriters ==
  ASSUME [Next]_vars
  PROVE  \/ UNCHANGED claim
         \/ Expire
         \/ \E r \in Requests : (Claim(r) \/ Reclaim(r)) /\ GainClaim(r)
         \/ \E e \in Executions : Finalize(e) /\ state[e] = "FAILED" /\ LoseClaims
<1>1. CASE UNCHANGED vars
  BY <1>1 DEF vars
<1> QED
  BY <1>1 DEF Next, Replicate, Claim, ClaimFails, Consult, Reclaim, ReclaimFails, Refuse,
    StartFails, Start, Record, Die, Verify, VerifyFails, End, Finalize

\* After the loss no claim is in force, and who had one has had one.
LEMMA Losing ==
  ASSUME TypeOK, LoseClaims
  PROVE  \A r \in Requests : /\ claim'[r] # "held"
                             /\ claim[r] # "none" => claim'[r] # "none"
  BY DEF TypeOK, LoseClaims

\* One request gains a claim; the others keep theirs.
LEMMA Gaining ==
  ASSUME TypeOK, NEW r \in Requests, GainClaim(r)
  PROVE  claim'[r] = "held" /\ \A s \in Requests \ {r} : claim'[s] = claim[s]
  BY DEF TypeOK, GainClaim

\* Who had a claim has had one ever after.
LEMMA ClaimLast ==
  ASSUME TypeOK, [Next]_vars
  PROVE  \A r \in Requests : claim[r] # "none" => claim'[r] # "none"
<1>1. CASE UNCHANGED claim
  BY <1>1
<1>2. CASE LoseClaims
  BY <1>2, Losing
<1>3. ASSUME NEW r \in Requests, GainClaim(r)
      PROVE  \A s \in Requests : claim[s] # "none" => claim'[s] # "none"
  BY <1>3, Gaining
<1> QED
  BY <1>1, <1>2, <1>3, ClaimWriters DEF Expire

\* A step keeps the claim in force alone, and its item there and unfailed.
LEMMA ClaimStep ==
  ASSUME TypeOK, ClaimInv, [Next]_vars PROVE ClaimInv'
<1> DEFINE InForce == \E r \in Requests : claim[r] = "held"
<1> DEFINE Alone == \A r, s \in Requests : claim[r] = "held" /\ claim[s] = "held" => r = s
<1> DEFINE There == item # Absent /\ item.status # "FAILED"
<1>1. Alone' /\ (InForce' => There')
  <2>1. CASE LoseClaims
    BY <2>1, Losing
  <2>2. ASSUME NEW r \in Requests, Claim(r), GainClaim(r) PROVE Alone' /\ There'
    <3>1. ~InForce
      BY <2>2 DEF Claim, ClaimInv
    <3>2. Alone'
      BY <3>1, <2>2, Gaining
    <3>3. item'.status = "IN_PROGRESS"
      BY <2>2 DEF Claim, NewClaim
    <3> QED
      BY <3>2, <3>3 DEF Absent
  <2>3. ASSUME NEW r \in Requests, Reclaim(r), GainClaim(r) PROVE Alone' /\ There'
    <3>1. ~InForce
      BY <2>3 DEF Reclaim, ClaimInv
    <3>2. Alone'
      BY <3>1, <2>3, Gaining
    <3>3. item \in Items
      BY <2>3, SMT DEF Reclaim, TypeOK, Absent
    <3>4. item'.status = "IN_PROGRESS"
      BY <2>3, <3>3, SMT DEF Reclaim, Items
    <3> QED
      BY <3>2, <3>4 DEF Absent
  <2>4. CASE UNCHANGED claim /\ ~Expire
    <3>1. Alone'
      BY <2>4 DEF ClaimInv
    <3>2. ASSUME InForce PROVE There'
      <4>1. There
        BY <3>2 DEF ClaimInv
      <4>2. CASE UNCHANGED item
        BY <4>1, <4>2
      <4>3. ASSUME NEW r \in Requests, Claim(r) \/ Reclaim(r) PROVE FALSE
        BY <4>1, <4>3 DEF Claim, Reclaim
      <4>4. ASSUME NEW r \in Requests, Record(r) PROVE There'
        <5>1. CASE item' = Recorded(r)
          <6>1. item'.status = item.status /\ item.status # "absent"
            BY <4>1, <5>1, SMT DEF Recorded, TypeOK, Items, Statuses, Unset
          <6> QED
            BY <4>1, <6>1 DEF Absent
        <5> QED
          BY <4>1, <4>4, <5>1 DEF Record
      <4>5. ASSUME NEW e \in Executions, Finalize(e) PROVE There'
        <5>1. state[e] # "FAILED"
          BY <3>2, <4>5, <2>4, Losing DEF Finalize
        <5>2. item'.status = "COMPLETED"
          BY <4>5, <5>1 DEF Finalize
        <5> QED
          BY <5>2 DEF Absent
      <4> QED
        BY <4>2, <4>3, <4>4, <4>5, <2>4, ItemWriters
    <3> QED
      BY <2>4, <3>1, <3>2
  <2>5. CASE Expire
    BY <2>5, <2>1 DEF Expire
  <2> QED
    BY <2>1, <2>2, <2>3, <2>4, <2>5, ClaimWriters
<1>2. ASSUME NEW r \in Requests, PastTheClaim(r)' PROVE claim'[r] # "none"
  <2>1. CASE PastTheClaim(r)
    BY <2>1, ClaimLast DEF ClaimInv
  <2>2. CASE Claim(r) \/ Reclaim(r)
    BY <2>2, Gaining DEF Claim, Reclaim
  <2>3. CASE \E e \in Executions : Start(r, e)
    BY <2>3, <2>1 DEF Start, Calls, PastTheClaim
  <2> QED
    BY <1>2, <2>1, <2>2, <2>3, AtStep DEF PastTheClaim
<1>3. ASSUME NEW e \in Executions, state'[e] # "unborn"
      PROVE  starter'[e] \in Requests /\ claim'[starter'[e]] # "none"
  <2>1. CASE state[e] # "unborn" /\ starter'[e] = starter[e]
    BY <2>1, ClaimLast DEF ClaimInv
  <2>2. CASE UNCHANGED executions
    BY <2>1, <2>2, <1>3 DEF executions
  <2>3. ASSUME NEW r \in Requests, NEW d \in Executions, Starts(r, d), at[r] = "start"
        PROVE  starter'[e] \in Requests /\ claim'[starter'[e]] # "none"
    <3>1. CASE d = e
      <4>1. starter'[e] = r
        BY <2>3, <3>1 DEF Starts, TypeOK
      <4> QED
        BY <4>1, <2>3, ClaimLast DEF ClaimInv, PastTheClaim
    <3>2. CASE d # e
      <4>1. state'[e] = state[e] /\ starter'[e] = starter[e]
        BY <2>3, <3>2 DEF Starts, TypeOK
      <4> QED
        BY <4>1, <1>3, <2>1
    <3> QED
      BY <3>1, <3>2
  <2>4. ASSUME NEW d \in Executions, Verify(d) \/ VerifyFails(d) \/ End(d), UNCHANGED starter
        PROVE  starter'[e] \in Requests /\ claim'[starter'[e]] # "none"
    <3>1. state[d] # "unborn" /\ \E how : state' = [state EXCEPT ![d] = how]
      BY <2>4 DEF Verify, VerifyFails, End
    <3>2. state[e] # "unborn"
      BY <3>1, <1>3 DEF TypeOK
    <3> QED
      BY <3>2, <2>1, <2>4
  <2> QED
    BY <2>2, <2>3, <2>4, ExecutionWriters
<1> QED
  BY <1>1, <1>2, <1>3 DEF ClaimInv

\* Before the first failure a step keeps one request past its claim, and the
\* item it wrote until its end.
LEMMA StarterStep ==
  ASSUME TypeOK, ResultInv, StarterInv, [Next]_vars PROVE StarterInv'
<1> SUFFICES ASSUME ~SomeExecution("FAILED")'
             PROVE  \A r \in Requests : PastTheClaim(r)' =>
                      /\ item' # Absent /\ r \in item'.ttl
                      /\ \A s \in Requests : PastTheClaim(s)' => r = s
  BY DEF StarterInv
<1>1. /\ ~SomeExecution("FAILED")
      /\ \A r \in Requests : PastTheClaim(r) =>
           /\ item # Absent /\ r \in item.ttl
           /\ \A s \in Requests : PastTheClaim(s) => r = s
  BY Lasting DEF StarterInv
<1>2. \A q \in Requests : ~Reclaim(q)
  <2>1. ASSUME NEW q \in Requests, Reclaim(q) PROVE FALSE
    <3>1. item # Absent /\ item.status = "FAILED"
      BY <2>1, SMT DEF Reclaim, Absent
    <3> QED
      BY <3>1, <1>1, SeenType DEF ResultInv, Told
  <2> QED
    BY <2>1
<1>3. ASSUME NEW q \in Requests, PastTheClaim(q)'
      PROVE  PastTheClaim(q) \/ Claim(q)
  BY <1>2, <1>3, AtStep DEF PastTheClaim, Start, Calls
<1>4. ASSUME NEW q \in Requests, Claim(q)
      PROVE  \A s \in Requests : ~PastTheClaim(s) /\ (PastTheClaim(s)' => s = q)
  <2>1. \A s \in Requests : ~PastTheClaim(s)
    BY <1>1, <1>4 DEF Claim
  <2>2. \A s \in Requests \ {q} : at'[s] = at[s]
    BY <1>4 DEF Claim, Goto, TypeOK
  <2> QED
    BY <2>1, <2>2 DEF PastTheClaim
<1>5. ASSUME NEW r \in Requests, PastTheClaim(r)'
      PROVE  /\ item' # Absent /\ r \in item'.ttl
             /\ \A s \in Requests : PastTheClaim(s)' => r = s
  <2>1. CASE Claim(r)
    <3>1. item' = NewClaim(r)
      BY <2>1 DEF Claim
    <3>2. r \in item'.ttl /\ item' # Absent
      <4>1. item'.status = "IN_PROGRESS" /\ r \in item'.ttl
        BY <3>1 DEF NewClaim
      <4> QED
        BY <4>1 DEF Absent
    <3> QED
      BY <2>1, <3>2, <1>4
  <2>2. CASE PastTheClaim(r)
    <3>1. r \in InFlight /\ r \notin Done
      BY <2>2 DEF PastTheClaim, InFlight, Done, Working, Answers
    <3>2. \A q \in Requests : ~Claim(q)
      BY <1>4, <2>2
    <3>3. \A s \in Requests : PastTheClaim(s)' => r = s
      BY <1>1, <1>3, <2>2, <3>2
    <3>4. item' # Absent /\ r \in item'.ttl
      <4>1. CASE UNCHANGED item
        BY <4>1, <1>1, <2>2
      <4>2. CASE Expire
        BY <4>2, <1>1, <2>2, <3>1 DEF Expire
      <4>3. ASSUME NEW q \in Requests, Record(q), item' = Recorded(q)
            PROVE  item' # Absent /\ r \in item'.ttl
        <5>1. item'.ttl = InFlight
          BY <4>3 DEF Recorded
        <5>2. item'.status # "absent"
          BY <4>3, SMT DEF Recorded, TypeOK, Items, Statuses, Unset
        <5> QED
          BY <5>1, <5>2, <3>1 DEF Absent
      <4>4. ASSUME NEW e \in Executions, Finalize(e)
            PROVE  item' # Absent /\ r \in item'.ttl
        <5>1. item'.ttl = InFlight /\ item'.status \in {"COMPLETED", "FAILED"}
          BY <4>4 DEF Finalize
        <5> QED
          BY <5>1, <3>1 DEF Absent
      <4> QED
        BY <4>1, <4>2, <4>3, <4>4, <3>2, <1>2, ItemWriters DEF Record
    <3> QED
      BY <3>3, <3>4
  <2> QED
    BY <1>5, <1>3, <2>1, <2>2
<1> QED
  BY <1>5

\* The inductive invariant: types, where results and names come from, claims,
\* and the starter whose item outlives it.
THEOREM Invariant == Spec => []IndInv
<1>1. Init => IndInv
  BY InitInv
<1>2. IndInv /\ [Next]_vars => IndInv'
  BY TypeStep, ResultStep, NameStep, ClaimStep, StarterStep DEF IndInv
<1> QED
  BY <1>1, <1>2, PTL DEF Spec

\* run_workflow, the state machine's check and the finalizer keep the types;
\* every item has a ttl and no invocation exceeds its calls of start_execution.
THEOREM TypeCorrect == Spec => []TypeOK
<1>1. IndInv => TypeOK
  BY DEF IndInv
<1> QED
  BY <1>1, Invariant, PTL

\* Until an execution of the key fails, run_workflow's claim excludes every
\* other request.
THEOREM ClaimExcludes == Spec => []OneStarterUntilFailure
<1>1. IndInv => OneStarterUntilFailure
  BY DEF IndInv, StarterInv, OneStarterUntilFailure
<1> QED
  BY <1>1, Invariant, PTL

\* Two requests of run_workflow start executions of one key only after the
\* claim of one of them was lost.
THEOREM OneKeyOneStarter == Spec => []DuplicatesExplained
<1>1. ASSUME IndInv PROVE DuplicatesExplained
  <2> SUFFICES ASSUME NEW d \in Executions, NEW e \in Executions,
                      state[d] # "unborn", state[e] # "unborn", starter[d] # starter[e]
               PROVE  claim[starter[d]] = "lost" \/ claim[starter[e]] = "lost"
    BY DEF DuplicatesExplained
  <2>1. /\ starter[d] \in Requests /\ claim[starter[d]] # "none"
        /\ starter[e] \in Requests /\ claim[starter[e]] # "none"
    BY <1>1 DEF IndInv, ClaimInv
  <2>2. ~(claim[starter[d]] = "held" /\ claim[starter[e]] = "held")
    BY <1>1, <2>1 DEF IndInv, ClaimInv
  <2>3. /\ claim[starter[d]] \in {"none", "held", "lost"}
        /\ claim[starter[e]] \in {"none", "held", "lost"}
    BY <1>1, <2>1 DEF IndInv, TypeOK
  <2> QED
    BY <2>1, <2>2, <2>3
<1> QED
  BY <1>1, Invariant, PTL

\* run_workflow answers with a cached result only if an execution of the key has
\* succeeded, however stale the item it read.
THEOREM CachedIsResult == Spec => []CachedMeansSucceeded
<1>1. IndInv => CachedMeansSucceeded
  BY DEF IndInv, ResultInv, CachedMeansSucceeded
<1> QED
  BY <1>1, Invariant, PTL

\* CheckIdempotency lets no execution pass before a request knows the name of
\* one, unless one has failed.
THEOREM GateHolds == Spec => []RunsOnlyNamed
<1>1. IndInv => RunsOnlyNamed
  BY DEF IndInv, NameInv, Open, RunsOnlyNamed
<1> QED
  BY <1>1, Invariant, PTL
(***************************************************************************)
(* The refinement.  Until a failure nobody past its claim has lost it, and *)
(* nobody has started an execution that does not exist.                    *)
(***************************************************************************)
LeaseInv ==
  /\ \A e \in Executions : state[e] = "unborn" => starter[e] = None
  /\ SomeExecution("FAILED")
     \/ \A r \in Requests : PastTheClaim(r) => claim[r] = "held"

\* A step keeps the claim of a request that is past it, until a failure.
LEMMA LeaseKept ==
  ASSUME IndInv, LeaseInv, [Next]_vars PROVE LeaseInv'
<1> TypeOK /\ StarterInv
  BY DEF IndInv
<1>1. ASSUME NEW e \in Executions, state'[e] = "unborn" PROVE starter'[e] = None
  <2>1. CASE UNCHANGED executions
    BY <1>1, <2>1 DEF executions, LeaseInv
  <2>2. ASSUME NEW r \in Requests, NEW d \in Executions, Starts(r, d)
        PROVE  starter'[e] = None
    <3>1. d # e
      BY <2>2, <1>1 DEF Starts, TypeOK
    <3>2. state'[e] = state[e] /\ starter'[e] = starter[e]
      BY <2>2, <3>1 DEF Starts, TypeOK
    <3> QED
      BY <3>2, <1>1 DEF LeaseInv
  <2>3. ASSUME NEW d \in Executions, Verify(d) \/ VerifyFails(d) \/ End(d), UNCHANGED starter
        PROVE  starter'[e] = None
    <3>1. \E how \in {"running", "SUCCEEDED", "FAILED"} : state' = [state EXCEPT ![d] = how]
      BY <2>3 DEF Verify, VerifyFails, End, EvaluateIdempotency
    <3>2. state[e] = "unborn"
      BY <3>1, <1>1 DEF TypeOK
    <3> QED
      BY <3>2, <2>3 DEF LeaseInv
  <2> QED
    BY <2>1, <2>2, <2>3, ExecutionWriters
<1>2. ASSUME ~SomeExecution("FAILED")', NEW r \in Requests, PastTheClaim(r)'
      PROVE  claim'[r] = "held"
  <2>1. ~SomeExecution("FAILED")
    BY <1>2, Lasting
  <2>2. CASE Claim(r) \/ Reclaim(r)
    BY <2>2, Gaining DEF Claim, Reclaim
  <2>3. CASE PastTheClaim(r)
    <3>1. claim[r] = "held" /\ r \in item.ttl /\ r \notin Done
      BY <2>1, <2>3 DEF LeaseInv, StarterInv, PastTheClaim, Done, Answers
    <3>2. ~Expire
      BY <3>1 DEF Expire
    <3>3. \A e \in Executions : state[e] # "FAILED"
      BY <2>1 DEF SomeExecution
    <3> QED
      BY <3>1, <3>2, <3>3, ClaimWriters, Gaining
  <2>4. PastTheClaim(r) \/ Claim(r) \/ Reclaim(r)
    BY <1>2, AtStep DEF PastTheClaim, Start, Calls
  <2> QED
    BY <2>2, <2>3, <2>4
<1> QED
  BY <1>1, <1>2 DEF LeaseInv

\* A step that changes a claim grants the lease, or takes it from its holder.
LEMMA ClaimMaps ==
  ASSUME IndInv, [Next]_vars, UNCHANGED executions, claim' # claim
  PROVE  Lease!LeaseNext
<1> TypeOK /\ ClaimInv
  BY DEF IndInv
<1>1. UNCHANGED SomeExecution("FAILED")
  BY DEF SomeExecution, executions
<1>2. CASE LoseClaims
  BY <1>1, <1>2 DEF LoseClaims, Lease!LeaseNext, Lease!Revoke, executions
<1>3. ASSUME NEW r \in Requests, Claim(r) \/ Reclaim(r), GainClaim(r)
      PROVE  Lease!LeaseNext
  <2>1. \A s \in Requests : claim[s] # "held"
    BY <1>3 DEF ClaimInv, Claim, Reclaim
  <2>2. Lease!Grant(r)
    BY <1>1, <1>3, <2>1 DEF Lease!Grant, GainClaim, executions
  <2> QED
    BY <2>2 DEF Lease!LeaseNext
<1> QED
  BY <1>2, <1>3, ClaimWriters DEF Expire

\* A call of start_execution that takes effect is one the lease allows.
LEMMA StartMaps ==
  ASSUME IndInv, LeaseInv, NEW r \in Requests, NEW e \in Executions,
         Starts(r, e), at[r] = "start", UNCHANGED claim
  PROVE  Lease!LeaseNext
<1> TypeOK /\ ClaimInv
  BY DEF IndInv
<1>1. UNCHANGED SomeExecution("FAILED")
  <2>1. \A d \in Executions : state'[d] = "FAILED" <=> state[d] = "FAILED"
    BY DEF Starts, TypeOK
  <2> QED
    BY <2>1 DEF SomeExecution
<1>2. claim[r] = "held" \/ (SomeExecution("FAILED") /\ claim[r] = "lost")
  BY DEF LeaseInv, ClaimInv, PastTheClaim, TypeOK
<1>3. Lease!Begin(r, e)
  BY <1>1, <1>2 DEF Starts, LeaseInv, Lease!Begin
<1> QED
  BY <1>3 DEF Lease!LeaseNext

\* A step of an execution is its failure, the first of the key, or no step of
\* the lease.
LEMMA EndMaps ==
  ASSUME IndInv, NEW e \in Executions, Verify(e) \/ VerifyFails(e) \/ End(e),
         UNCHANGED <<starter, claim>>
  PROVE  Lease!LeaseNext \/ UNCHANGED Lease!leaseVars
<1> TypeOK /\ ClaimInv
  BY DEF IndInv
<1>1. [Next]_vars
  BY DEF Next
<1>2. CASE UNCHANGED SomeExecution("FAILED")
  BY <1>2 DEF Lease!leaseVars
<1>3. CASE SomeExecution("FAILED")' /\ ~SomeExecution("FAILED")
  <2>1. state[e] # "unborn"
    BY DEF Verify, VerifyFails, End
  <2>2. starter[e] # None
    BY <2>1, NoneAssumption DEF ClaimInv
  <2>3. Lease!Fail
    BY <1>3, <2>2 DEF Lease!Fail
  <2> QED
    BY <2>3 DEF Lease!LeaseNext
<1>4. SomeExecution("FAILED") => SomeExecution("FAILED")'
  BY <1>1, Lasting
<1> QED
  BY <1>2, <1>3, <1>4 DEF SomeExecution

\* Every step of the key is a step of the lease, or none.
LEMMA LeaseStep ==
  ASSUME IndInv, LeaseInv, [Next]_vars PROVE [Lease!LeaseNext]_(Lease!leaseVars)
<1> TypeOK
  BY DEF IndInv
<1>1. CASE UNCHANGED executions /\ claim' # claim
  BY <1>1, ClaimMaps
<1>2. CASE UNCHANGED executions /\ claim' = claim
  BY <1>2 DEF executions, SomeExecution, Lease!leaseVars
<1>3. ASSUME NEW r \in Requests, NEW e \in Executions,
             Starts(r, e), at[r] = "start", UNCHANGED <<table, claim>>
      PROVE  Lease!LeaseNext
  BY <1>3, StartMaps
<1>4. ASSUME NEW e \in Executions, Verify(e) \/ VerifyFails(e) \/ End(e), UNCHANGED starter
      PROVE  Lease!LeaseNext \/ UNCHANGED Lease!leaseVars
  BY <1>4, EndMaps DEF Verify, VerifyFails, End
<1> QED
  BY <1>1, <1>2, <1>3, <1>4, ExecutionWriters

\* Claims, re-claims, the ttl, the finalizer and the calls of start_execution
\* implement a lease: for any number of requests one at a time holds the key, and
\* until an execution of it has failed only the holder starts one.
THEOREM ImplementsLease == Spec => RefinesKeyLease
<1>1. Init => LeaseInv
  BY DEF Init, LeaseInv, PastTheClaim
<1>2. Init => Lease!LeaseInit
  BY DEF Init, Lease!LeaseInit, SomeExecution
<1>3. IndInv /\ LeaseInv /\ [Next]_vars => LeaseInv'
  BY LeaseKept
<1>4. IndInv /\ LeaseInv /\ [Next]_vars => [Lease!LeaseNext]_(Lease!leaseVars)
  BY LeaseStep
<1> QED
  BY <1>1, <1>2, <1>3, <1>4, Invariant, PTL DEF Spec, RefinesKeyLease, Lease!LeaseSpec
==============================================================================
