----------------------------- MODULE BackgroundGC -----------------------------
(***************************************************************************)
(* The calls of EventualConsistencyGuard together with the consumers of    *)
(* the GC queue.  Two exist in the code:                                   *)
(*   "background_gc"          handlers/core/background_gc.py, the Lambda   *)
(*                            the template wires to the queue: it looks    *)
(*                            whether the object exists, then deletes it;  *)
(*   "process_dlq_gc_message" the method of the guard: it reads the tags   *)
(*                            and compares status and nonce first.         *)
(* Both look and delete in two S3 calls, between which other calls run.    *)
(* SQS delivers at least once: an unacknowledged message comes back.       *)
(***************************************************************************)
EXTENDS EventualConsistencyGuard

CONSTANT Consumers
ASSUME ConsumersAssumption ==
  Consumers \subseteq {"background_gc", "process_dlq_gc_message"}

VARIABLE checked  \* messages each consumer has looked at and is to delete

vars == <<guardVars, checked>>

Init == GuardInit /\ checked = [c \in Consumers |-> {}]

Receives(c, m) == c \in Consumers /\ m \in queue /\ m \notin checked[c]
Ack(m) == queue' = queue \ {m}
GuardIdle == UNCHANGED <<markers, refs, manifests, locals>>

\* head_object: a 404 ends the handler successfully.
HeadMissing(m) ==
  /\ Receives("background_gc", m)
  /\ s3[Key(m)] = Absent
  /\ Ack(m)
  /\ UNCHANGED <<s3, checked>>
  /\ GuardIdle

HeadFound(m) ==
  /\ Receives("background_gc", m)
  /\ s3[Key(m)] # Absent
  /\ checked' = [checked EXCEPT !["background_gc"] = @ \cup {m}]
  /\ UNCHANGED <<s3, queue>>
  /\ GuardIdle

\* get_object_tagging of process_dlq_gc_message: the message is skipped when
\* the block is gone, committed, or carries the nonce of another upload.
Skips(m) ==
  \/ s3[Key(m)].status \in {"absent", "committed"}
  \/ s3[Key(m)].nonce # m

TagsSkip(m) ==
  /\ Receives("process_dlq_gc_message", m)
  /\ Skips(m)
  /\ Ack(m)
  /\ UNCHANGED <<s3, checked>>
  /\ GuardIdle

TagsMatch(m) ==
  /\ Receives("process_dlq_gc_message", m)
  /\ ~Skips(m)
  /\ checked' = [checked EXCEPT !["process_dlq_gc_message"] = @ \cup {m}]
  /\ UNCHANGED <<s3, queue>>
  /\ GuardIdle

\* An unreadable tag set is logged and the method returns False.
TagsUnreadable(m) ==
  /\ Receives("process_dlq_gc_message", m)
  /\ Ack(m)
  /\ UNCHANGED <<s3, checked>>
  /\ GuardIdle

\* delete_object; the message is redelivered when the acknowledgement is
\* lost or another message of the same SQS batch raises.
DeleteObject(c, m, acked) ==
  /\ c \in Consumers
  /\ m \in checked[c]
  /\ s3' = [s3 EXCEPT ![Key(m)] = Absent]
  /\ checked' = [checked EXCEPT ![c] = @ \ {m}]
  /\ IF acked THEN Ack(m) ELSE UNCHANGED queue
  /\ GuardIdle

\* Faulty variant: background_gc logs the error and acknowledges.
DeleteFailsSilently(c, m) ==
  /\ c \in Consumers
  /\ m \in checked[c]
  /\ checked' = [checked EXCEPT ![c] = @ \ {m}]
  /\ Ack(m)
  /\ UNCHANGED s3
  /\ GuardIdle

\* An error of delete_object: background_gc raises and the message comes
\* back; process_dlq_gc_message returns False.
DeleteFails(c, m) ==
  /\ c \in Consumers
  /\ m \in checked[c]
  /\ checked' = [checked EXCEPT ![c] = @ \ {m}]
  /\ IF c = "background_gc" THEN UNCHANGED queue ELSE Ack(m)
  /\ UNCHANGED s3
  /\ GuardIdle

Look(m) == HeadMissing(m) \/ HeadFound(m) \/ TagsSkip(m) \/ TagsMatch(m) \/ TagsUnreadable(m)
Delete(c, m) == (\E acked \in BOOLEAN : DeleteObject(c, m, acked)) \/ DeleteFails(c, m)

CollectNext ==
  \/ \E m \in queue : Look(m)
  \/ \E c \in Consumers : \E m \in checked[c] : Delete(c, m)

Next == (GuardNext /\ UNCHANGED checked) \/ CollectNext

Spec == Init /\ [][Next]_vars

Message(t, i) == [txn |-> t, idx |-> i]

(* A Lambda that has not crashed runs on; SQS hands out a message that is  *)
(* not acknowledged again and again (the queue has no redrive policy), and *)
(* S3 does not refuse the same delete for ever.                            *)
Fairness ==
  /\ \A t \in Txns : WF_vars(Create(t) /\ UNCHANGED checked)
  /\ \A t \in Txns : \A i \in DOMAIN BlockList[t] :
       /\ WF_vars(Look(Message(t, i)))
       /\ \A c \in Consumers : SF_vars(DeleteObject(c, Message(t, i), TRUE))

FairSpec == Spec /\ Fairness

------------------------------------------------------------------------------

TypeOK == GuardTypeOK /\ checked \in [Consumers -> SUBSET Uploads]

(* Every call ends or its Lambda dies: no phase retries for ever, no loop  *)
(* over the blocks stalls on a failed or missing block.                    *)
EveryCallEnds == \A t \in Txns : <>(pc[t] \in Ended \/ t \in crashed)

(* What a failed call left in S3 and handed to the GC queue does not stay: *)
(* the very upload a message is about is deleted, overwritten or promoted, *)
(* through failed deletes and redeliveries (background_gc raises so that   *)
(* SQS delivers again).                                                    *)
OrphansCollected ==
  \A t \in Txns : \A i \in DOMAIN BlockList[t] :
    LET m == Message(t, i) IN
    (m \in queue /\ s3[Key(m)] = Pending(m)) ~> s3[Key(m)] # Pending(m)
==============================================================================
