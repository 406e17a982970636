---------------------------- MODULE ManifestCommit ----------------------------
(***************************************************************************)
(* What create_manifest_with_consistency promises its callers, without S3, *)
(* batches, retries or crashes: a manifest is stored at most once and for  *)
(* ever, only after the references of its blocks are counted, and a call   *)
(* returns its id only if the manifest is stored.  A call that raises may  *)
(* have stored it all the same (the put took effect, its answer was lost). *)
(***************************************************************************)
CONSTANTS
  Calls,
  Empty   \* calls without blocks, whose references need no counting

VARIABLES
  credited,  \* calls that counted all their references
  store,     \* calls whose manifest is in the table
  answer     \* what each call told its caller

vars == <<credited, store, answer>>

Init ==
  /\ credited = Empty
  /\ store = {}
  /\ answer = [t \in Calls |-> "none"]

Credit(t) ==
  /\ answer[t] = "none"
  /\ credited' = credited \cup {t}
  /\ UNCHANGED <<store, answer>>

Store(t) ==
  /\ answer[t] = "none"
  /\ t \in credited
  /\ t \notin store
  /\ store' = store \cup {t}
  /\ UNCHANGED <<credited, answer>>

\* The put took effect and its answer was lost.
StoreAndRaise(t) ==
  /\ answer[t] = "none"
  /\ t \in credited
  /\ t \notin store
  /\ store' = store \cup {t}
  /\ answer' = [answer EXCEPT ![t] = "error"]
  /\ UNCHANGED credited

Return(t) ==
  /\ answer[t] = "none"
  /\ t \in store
  /\ answer' = [answer EXCEPT ![t] = "ok"]
  /\ UNCHANGED <<credited, store>>

Raise(t) ==
  /\ answer[t] = "none"
  /\ answer' = [answer EXCEPT ![t] = "error"]
  /\ UNCHANGED <<credited, store>>

Next ==
  \E t \in Calls :
    \/ Credit(t)
    \/ Store(t)
    \/ StoreAndRaise(t)
    \/ Return(t)
    \/ Raise(t)

Spec == Init /\ [][Next]_vars
==============================================================================
