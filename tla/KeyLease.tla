------------------------------- MODULE KeyLease -------------------------------
(***************************************************************************)
(* What an idempotency key promises, without its item, its ttl, stale      *)
(* reads or lost answers: a lease that one request at a time holds.  Until *)
(* an execution of the key has failed only the holder starts executions;   *)
(* after that, one who lost the lease may still come through with a start. *)
(***************************************************************************)
CONSTANTS
  Requests,
  Executions,
  None        \* no request

VARIABLES
  lease,    \* of each request: none, held or lost
  started,  \* the request that started each execution
  failed    \* an execution of the key has failed

leaseVars == <<lease, started, failed>>

LeaseInit ==
  /\ lease = [r \in Requests |-> "none"]
  /\ started = [e \in Executions |-> None]
  /\ failed = FALSE

Grant(r) ==
  /\ \A s \in Requests : lease[s] # "held"
  /\ lease' = [lease EXCEPT ![r] = "held"]
  /\ UNCHANGED <<started, failed>>

Revoke ==
  /\ lease' = [r \in Requests |-> IF lease[r] = "held" THEN "lost" ELSE lease[r]]
  /\ UNCHANGED <<started, failed>>

Begin(r, e) ==
  /\ started[e] = None
  /\ lease[r] = "held" \/ (failed /\ lease[r] = "lost")
  /\ started' = [started EXCEPT ![e] = r]
  /\ UNCHANGED <<lease, failed>>

Fail ==
  /\ \E e \in Executions : started[e] # None
  /\ failed' = TRUE
  /\ UNCHANGED <<lease, started>>

LeaseNext ==
  \/ \E r \in Requests : Grant(r) \/ \E e \in Executions : Begin(r, e)
  \/ Revoke
  \/ Fail

LeaseSpec == LeaseInit /\ [][LeaseNext]_leaseVars
==============================================================================
