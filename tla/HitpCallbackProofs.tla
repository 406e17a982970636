-------------------------- MODULE HitpCallbackProofs --------------------------
(***************************************************************************)
(* Theorems of HitpCallback for any number of requests and pauses.  The    *)
(* inductive invariant adds to the properties that a pause which waits has *)
(* no answer yet, and that a request about to delete gave the answer of    *)
(* the token it holds: so the item it deletes is not that of the pause     *)
(* that waits.                                                             *)
(***************************************************************************)
EXTENDS HitpCallback, TLAPS

\* A pause that has no answer yet, or does not exist yet.
AnswerInv ==
  /\ sfn = "waiting" => pause # 0 /\ output[pause] = "none"
  /\ \A n \in Pauses : n > pause => output[n] = "none" /\ store[n] = "none"

IndInv == TypeOK /\ AnswerInv /\ OkMeansTaken /\ StoredTokenStays

\* Pauses are numbers, and each has a token.
LEMMA PausesInTokens == Pauses \subseteq Nat /\ Pauses \subseteq Tokens /\ Tokens \subseteq Nat
  BY SMT, PausesAssumption DEF Pauses, Tokens

\* The invariant holds before the first pause.
LEMMA InitInv == Init => IndInv
<1> SUFFICES ASSUME Init PROVE IndInv
  OBVIOUS
<1> USE PausesAssumption, PausesInTokens
<1>1. TypeOK
  BY ContextsAssumption, SMT DEF Init, TypeOK, Tokens
<1>2. AnswerInv
  BY DEF Init, AnswerInv
<1>3. OkMeansTaken
  BY DEF Init, OkMeansTaken
<1>4. StoredTokenStays
  BY DEF Init, StoredTokenStays, Waiting
<1> QED
  BY <1>1, <1>2, <1>3, <1>4 DEF IndInv

\* Steps of the state machine keep the invariant.
LEMMA MachineStep ==
  ASSUME IndInv, Machine PROVE IndInv'
<1> USE PausesAssumption, RequestsAssumption, PausesInTokens
<1> USE DEF IndInv
<1>1. CASE Pause
  <2> USE DEF Pause, tables, requests, machine, storing
  <2>1. pause' \in Pauses /\ pause' = pause + 1 /\ pause' \in Tokens
    BY <1>1, SMT DEF TypeOK, Tokens, Pauses
  <2>2. TypeOK'
    BY <1>1, <2>1, SMT DEF TypeOK
  <2>3. AnswerInv'
    <3>1. output[pause'] = "none"
      BY <1>1, <2>1, SMT DEF AnswerInv, TypeOK, Tokens
    <3>2. \A n \in Pauses : n > pause' => n > pause /\ n # pause'
      BY <2>1, SMT DEF TypeOK, Tokens
    <3> QED
      BY <1>1, <2>1, <3>1, <3>2, SMT DEF AnswerInv, TypeOK, Tokens
  <2>4. OkMeansTaken'
    BY <1>1 DEF OkMeansTaken
  <2>5. StoredTokenStays'
    BY <1>1, <2>1 DEF StoredTokenStays, Waiting, Reported, TypeOK
  <2> QED
    BY <2>2, <2>3, <2>4, <2>5
<1>2. CASE Finish \/ HeartbeatTimeout \/ Merge \/ MergeFails
  <2> USE DEF Finish, HeartbeatTimeout, Merge, MergeFails, tables, requests, machine, storing
  <2>1. TypeOK'
    <3>1. sfn' \in {"segment", "merge", "ended"}
      BY <1>2
    <3>2. UNCHANGED <<pause, output, auto, config, item, index, store, skipped, req, token>>
      BY <1>2
    <3> QED
      BY <3>1, <3>2 DEF TypeOK
  <2>2. sfn' # "waiting"
    BY <1>2
  <2>3. AnswerInv'
    BY <1>2, <2>2, SMT DEF AnswerInv, TypeOK
  <2>4. OkMeansTaken'
    BY <1>2 DEF OkMeansTaken
  <2>5. StoredTokenStays'
    BY <2>2 DEF StoredTokenStays, Waiting
  <2> QED
    BY <2>1, <2>3, <2>4, <2>5
<1> QED
  BY <1>1, <1>2 DEF Machine

\* An answer that Step Functions takes ends the waiting.
LEMMA AcceptStep ==
  ASSUME IndInv, NEW n \in Tokens, NEW who \in Requests \cup {"auto"},
         Accept(n, who), UNCHANGED pause
  PROVE  /\ sfn' = "merge"
         /\ n \in Pauses
         /\ output' \in [Pauses -> Requests \cup {"auto", "none"}]
         /\ output'[n] = who
         /\ \A m \in Pauses : m > pause => output'[m] = "none"
         /\ \A r \in Requests : req[r] = "delete" => output'[token[r]] = r
<1> USE PausesAssumption, RequestsAssumption, PausesInTokens
<1> USE DEF IndInv
<1>1. n \in Pauses /\ n = pause /\ output[n] = "none" /\ sfn' = "merge"
  BY SMT DEF Accept, Waiting, AnswerInv, Pauses, Tokens
<1>2. output' = [output EXCEPT ![n] = who] /\ output \in [Pauses -> Requests \cup {"auto", "none"}]
  BY DEF Accept, TypeOK
<1>3. \A m \in Pauses : m > pause => output'[m] = "none"
  BY <1>1, <1>2, SMT DEF AnswerInv
<1>4. ASSUME NEW r \in Requests, req[r] = "delete" PROVE output'[token[r]] = r
  <2>1. output[token[r]] = r /\ r # "none"
    BY <1>4 DEF OkMeansTaken
  <2>2. token[r] \in Pauses
    BY <1>4, SMT DEF TypeOK, Tokens, Pauses
  <2> QED
    BY <1>1, <1>2, <2>1, <2>2
<1> QED
  BY <1>1, <1>2, <1>3, <1>4

\* Steps of store_task_token keep the invariant.
LEMMA StoreStep ==
  ASSUME IndInv, NEW n \in Pauses, Store(n) PROVE IndInv'
<1> USE PausesAssumption, RequestsAssumption, PausesInTokens
<1> USE DEF IndInv
<1>1. CASE \E answered \in BOOLEAN : Put(n, answered)
  <2> PICK answered \in BOOLEAN : Put(n, answered)
    BY <1>1
  <2> USE DEF Put, requests, machine
  <2>1. TypeOK'
    BY SMT DEF TypeOK
  <2>2. AnswerInv'
    BY SMT DEF AnswerInv, TypeOK
  <2>3. OkMeansTaken'
    BY DEF OkMeansTaken
  <2>4. StoredTokenStays'
    <3> SUFFICES ASSUME NEW m \in Pauses, Waiting(m)', Reported(m)', m \notin skipped'
                 PROVE  item' = m
      BY DEF StoredTokenStays
    <3>1. CASE m = n
      BY <3>1, SMT DEF TypeOK
    <3>2. CASE m # n
      <4>1. Waiting(m) /\ Reported(m) /\ m \notin skipped
        BY <3>2, SMT DEF Waiting, Reported, TypeOK
      <4>2. item = m /\ m # 0
        BY <4>1, SMT DEF StoredTokenStays, Pauses
      <4> QED
        BY <4>2
    <3> QED
      BY <3>1, <3>2
  <2> QED
    BY <2>1, <2>2, <2>3, <2>4
<1>2. CASE StoreRaises(n)
  <2> USE <1>2 DEF StoreRaises, requests, tables
  <2>1. TypeOK'
    BY SMT DEF TypeOK
  <2>2. AnswerInv'
    BY SMT DEF AnswerInv, TypeOK
  <2>3. OkMeansTaken'
    BY DEF OkMeansTaken
  <2>4. StoredTokenStays'
    BY SMT DEF StoredTokenStays, Waiting, Reported, TypeOK
  <2> QED
    BY <2>1, <2>2, <2>3, <2>4
<1>3. CASE AutoResume(n)
  <2> USE <1>3 DEF AutoResume, requests, tables
  <2>1. /\ sfn' = "merge"
        /\ output' \in [Pauses -> Requests \cup {"auto", "none"}]
        /\ \A m \in Pauses : m > pause => output'[m] = "none"
        /\ \A r \in Requests : req[r] = "delete" => output'[token[r]] = r
    BY AcceptStep
  <2>2. TypeOK'
    <3>1. store' \in [Pauses -> {"none", "put", "resume", "returned", "raised"}]
      BY DEF TypeOK
    <3>2. UNCHANGED <<pause, auto, config, item, index, skipped, req, token>>
      OBVIOUS
    <3> QED
      BY <2>1, <3>1, <3>2 DEF TypeOK
  <2>3. AnswerInv'
    BY <2>1, SMT DEF AnswerInv, TypeOK
  <2>4. OkMeansTaken'
    BY <2>1 DEF OkMeansTaken
  <2>5. StoredTokenStays'
    BY <2>1 DEF StoredTokenStays, Waiting
  <2> QED
    BY <2>2, <2>3, <2>4, <2>5
<1>4. CASE AutoResumeLate(n) \/ AutoResumeInvalid(n)
  <2> USE <1>4 DEF AutoResumeLate, AutoResumeInvalid, machine, requests, tables
  <2>1. TypeOK'
    <3>1. store' \in [Pauses -> {"none", "put", "resume", "returned", "raised"}]
      BY DEF TypeOK
    <3>2. UNCHANGED <<sfn, pause, output, auto, config, item, index, skipped, req, token>>
      OBVIOUS
    <3> QED
      BY <3>1, <3>2 DEF TypeOK
  <2>2. AnswerInv'
    BY SMT DEF AnswerInv, TypeOK
  <2>3. OkMeansTaken'
    BY DEF OkMeansTaken
  <2>4. StoredTokenStays'
    BY SMT DEF StoredTokenStays, Waiting, Reported, TypeOK
  <2> QED
    BY <2>1, <2>2, <2>3, <2>4
<1> QED
  BY <1>1, <1>2, <1>3, <1>4 DEF Store

\* Replication and expiry of the table keep the invariant.
LEMMA TableStep ==
  ASSUME IndInv, Table PROVE IndInv'
<1> USE PausesAssumption, PausesInTokens
<1> USE DEF IndInv, machine, storing, requests
<1>1. TypeOK'
  <2>1. item' \in Tokens /\ index' \in Tokens
    BY SMT DEF Table, Replicate, Expire, TypeOK, Tokens
  <2>2. UNCHANGED <<sfn, pause, output, auto, config, store, skipped, req, token>>
    BY DEF Table, Replicate, Expire
  <2> QED
    BY <2>1, <2>2 DEF TypeOK
<1>2. AnswerInv'
  BY SMT DEF Table, Replicate, Expire, AnswerInv
<1>3. OkMeansTaken'
  BY DEF Table, Replicate, Expire, OkMeansTaken
<1>4. StoredTokenStays'
  BY SMT DEF Table, Replicate, Expire, StoredTokenStays, Waiting, Reported
<1> QED
  BY <1>1, <1>2, <1>3, <1>4

\* Steps of resume requests keep the invariant.
LEMMA ResumeStep ==
  ASSUME IndInv, NEW r \in Requests, Resume(r) PROVE IndInv'
<1> USE PausesAssumption, RequestsAssumption, PausesInTokens
<1> USE DEF IndInv, ReqGoto, Leave
<1>1. CASE \/ Ask(r) \/ Query(r) \/ LookupFails(r) \/ Refuse(r) \/ SendLate(r)
          \/ RequestFails(r)
  <2> USE <1>1 DEF Ask, Query, Found, LookupFails, Refuse, SendLate, RequestFails, machine,
         tables, storing
  <2>1. TypeOK'
    <3>1. req' \in [Requests -> {"idle", "query", "send", "delete"}]
      BY DEF TypeOK
    <3>2. token' \in [Requests -> Tokens]
      BY SMT DEF TypeOK, Tokens
    <3>3. \A q \in Requests : req'[q] \in {"send", "delete"} => token'[q] # 0
      BY SMT DEF TypeOK
    <3>4. UNCHANGED <<sfn, pause, output, auto, config, item, index, store, skipped>>
      OBVIOUS
    <3> QED
      BY <3>1, <3>2, <3>3, <3>4 DEF TypeOK
  <2>2. AnswerInv'
    BY SMT DEF AnswerInv
  <2>3. OkMeansTaken'
    BY SMT DEF OkMeansTaken, TypeOK
  <2>4. StoredTokenStays'
    BY SMT DEF StoredTokenStays, Waiting, Reported
  <2> QED
    BY <2>1, <2>2, <2>3, <2>4
<1>2. CASE Send(r) \/ SendUnanswered(r)
  <2> USE <1>2 DEF Send, SendUnanswered, tables, storing
  <2>1. token[r] \in Tokens /\ UNCHANGED pause /\ Accept(token[r], r)
    BY DEF TypeOK
  <2>2. /\ sfn' = "merge"
        /\ token[r] \in Pauses
        /\ output' \in [Pauses -> Requests \cup {"auto", "none"}]
        /\ output'[token[r]] = r
        /\ \A m \in Pauses : m > pause => output'[m] = "none"
        /\ \A q \in Requests : req[q] = "delete" => output'[token[q]] = q
    BY <2>1, AcceptStep
  <2>3. TypeOK'
    <3>1. req' \in [Requests -> {"idle", "query", "send", "delete"}]
      BY DEF TypeOK
    <3>2. token' \in [Requests -> Tokens]
      BY SMT DEF TypeOK, Tokens
    <3>3. \A q \in Requests : req'[q] \in {"send", "delete"} => token'[q] # 0
      BY SMT DEF TypeOK
    <3>4. UNCHANGED <<pause, auto, config, item, index, store, skipped>>
      OBVIOUS
    <3> QED
      BY <2>2, <3>1, <3>2, <3>3, <3>4 DEF TypeOK
  <2>4. AnswerInv'
    BY <2>2, SMT DEF AnswerInv, TypeOK
  <2>5. OkMeansTaken'
    BY <2>2, SMT DEF OkMeansTaken, TypeOK
  <2>6. StoredTokenStays'
    BY <2>2 DEF StoredTokenStays, Waiting
  <2> QED
    BY <2>3, <2>4, <2>5, <2>6
<1>3. CASE \E answered \in BOOLEAN : Delete(r, answered)
  <2> PICK answered \in BOOLEAN : Delete(r, answered)
    BY <1>3
  <2> USE DEF Delete, requests, machine, storing
  <2>1. TypeOK'
    BY SMT DEF TypeOK, Tokens
  <2>2. AnswerInv'
    BY SMT DEF AnswerInv
  <2>3. OkMeansTaken'
    BY SMT DEF OkMeansTaken, TypeOK
  <2>4. StoredTokenStays'
    <3> SUFFICES ASSUME NEW m \in Pauses, Waiting(m)', Reported(m)', m \notin skipped'
                 PROVE  item' = m
      BY DEF StoredTokenStays
    <3>1. Waiting(m) /\ Reported(m) /\ m \notin skipped
      BY DEF Waiting, Reported
    <3>2. item = m /\ output[m] = "none"
      BY <3>1 DEF StoredTokenStays, Waiting, AnswerInv
    <3>3. output[token[r]] = r /\ r # "none"
      BY DEF OkMeansTaken
    <3> QED
      BY <3>2, <3>3
  <2> QED
    BY <2>1, <2>2, <2>3, <2>4
<1> QED
  BY <1>1, <1>2, <1>3 DEF Resume

\* Every step keeps the invariant.
LEMMA StepInv == IndInv /\ [Next]_vars => IndInv'
<1> SUFFICES ASSUME IndInv, [Next]_vars PROVE IndInv'
  OBVIOUS
<1>1. CASE UNCHANGED vars
  BY <1>1 DEF vars, machine, tables, storing, requests, IndInv, TypeOK, AnswerInv,
    OkMeansTaken, StoredTokenStays, Waiting, Reported
<1>2. CASE Next
  BY <1>2, MachineStep, StoreStep, TableStep, ResumeStep DEF Next
<1> QED
  BY <1>1, <1>2

(* The properties below and the strengthening that makes them inductive    *)
(* hold in every state the pauses, Lambdas and requests can reach.         *)
THEOREM Invariant == Spec => []IndInv
  BY InitInv, StepInv, PTL DEF Spec

(* Every state of the callback protocol is well-typed, and no request      *)
(* sends or deletes with a token it has not found in the index.            *)
THEOREM TypeCorrect == Spec => []TypeOK
  BY Invariant, PTL DEF IndInv

(* store_task_token and resume_handler: the token put for a pause stays in *)
(* the table while the pause waits, whatever older requests delete.        *)
THEOREM TokenStays == Spec => []StoredTokenStays
  BY Invariant, PTL DEF IndInv

(* resume_handler: only the request whose answer Step Functions took for a *)
(* pause gets to delete its token and to be answered 200.                  *)
THEOREM OneAnswerTaken == Spec => []OkMeansTaken
  BY Invariant, PTL DEF IndInv

------------------------------------------------------------------------------

(***************************************************************************)
(* The pauses implement OneAnswer.  Behind a pause that is over and did    *)
(* not end the execution, and behind all earlier ones, there is an answer. *)
(***************************************************************************)
AnsweredInv ==
  /\ sfn \in {"segment", "merge"} =>
       \A m \in Pauses : m <= pause => output[m] # "none"
  /\ sfn = "waiting" => \A m \in Pauses : m < pause => output[m] # "none"

OpenPause == IF sfn = "waiting" THEN pause ELSE 0
Confirmed ==
  {c \in Requests \X Pauses : req[c[1]] = "delete" /\ token[c[1]] = c[2]}
Stutter == OpenPause' = OpenPause /\ output' = output /\ Confirmed' = Confirmed

\* Who is told of success changes with the request that moves only.
LEMMA ConfirmedStep ==
  ASSUME TypeOK, NEW r \in Requests,
         req' = [req EXCEPT ![r] = req'[r]], token' = [token EXCEPT ![r] = token'[r]]
  PROVE  /\ req[r] # "delete" /\ req'[r] # "delete" => Confirmed' = Confirmed
         /\ req[r] # "delete" /\ req'[r] = "delete" /\ token'[r] \in Pauses =>
              Confirmed' = Confirmed \cup {<<r, token'[r]>>}
         /\ req[r] = "delete" /\ req'[r] # "delete" =>
              Confirmed' = Confirmed \ {<<r, token[r]>>}
<1>1. \A q \in Requests : q # r => req'[q] = req[q] /\ token'[q] = token[q]
  BY DEF TypeOK
<1>2. ASSUME NEW c
      PROVE  c \in Confirmed' <=>
               /\ c \in Requests \X Pauses
               /\ IF c[1] = r THEN req'[r] = "delete" /\ token'[r] = c[2]
                              ELSE c \in Confirmed
  <2>1. c \in Confirmed' <=>
          c \in Requests \X Pauses /\ req'[c[1]] = "delete" /\ token'[c[1]] = c[2]
    BY DEF Confirmed
  <2>2. c \in Requests \X Pauses => c[1] \in Requests
    OBVIOUS
  <2> QED BY <1>1, <2>1, <2>2 DEF Confirmed
<1>3. ASSUME NEW c
      PROVE  c \in Confirmed <=>
               c \in Requests \X Pauses /\ req[c[1]] = "delete" /\ token[c[1]] = c[2]
  BY DEF Confirmed
<1>4. ASSUME NEW c \in Requests \X Pauses PROVE c = <<c[1], c[2]>>
  OBVIOUS
<1>5. ASSUME req[r] # "delete", req'[r] # "delete" PROVE Confirmed' = Confirmed
  <2>1. \A c : c \in Confirmed' <=> c \in Confirmed
    BY <1>2, <1>3, <1>5
  <2> QED BY <2>1
<1>6. ASSUME req[r] # "delete", req'[r] = "delete", token'[r] \in Pauses
      PROVE  Confirmed' = Confirmed \cup {<<r, token'[r]>>}
  <2>1. <<r, token'[r]>> \in Requests \X Pauses
    BY <1>6
  <2>2. \A c : c \in Confirmed' <=> c \in Confirmed \cup {<<r, token'[r]>>}
    BY <1>2, <1>3, <1>4, <1>6, <2>1
  <2> QED BY <2>2
<1>7. ASSUME req[r] = "delete", req'[r] # "delete"
      PROVE  Confirmed' = Confirmed \ {<<r, token[r]>>}
  <2>1. \A c : c \in Confirmed' <=> c \in Confirmed \ {<<r, token[r]>>}
    BY <1>2, <1>3, <1>4, <1>7
  <2> QED BY <2>1
<1> QED
  BY <1>5, <1>6, <1>7

\* The state machine opens the next pause, or closes the one that waits.
LEMMA MachineMaps ==
  ASSUME IndInv, AnsweredInv, Machine
  PROVE  Stutter \/ Callbacks!Close \/ \E n \in Pauses : Callbacks!Open(n)
<1> USE PausesInTokens
<1>1. UNCHANGED <<output, req, token>> /\ Confirmed' = Confirmed
  BY DEF Machine, Pause, Finish, HeartbeatTimeout, Merge, MergeFails, requests, Confirmed
<1>2. CASE Pause
  <2>1. pause' \in Pauses /\ pause' = pause + 1 /\ pause \in Nat
    BY <1>2, PausesAssumption, SMT DEF IndInv, Pause, TypeOK, Tokens, Pauses
  <2>2. OpenPause = 0 /\ OpenPause' = pause'
    BY <1>2 DEF Pause, OpenPause
  <2>3. output[pause'] = "none"
    BY <2>1, SMT DEF IndInv, AnswerInv
  <2>4. \A m \in Pauses : m < pause' => output[m] # "none"
    BY <1>2, <2>1, SMT DEF AnsweredInv, Pause
  <2>5. Callbacks!Open(pause')
    BY <1>1, <2>2, <2>3, <2>4 DEF Callbacks!Open, OpenPause, Confirmed
  <2> QED BY <2>1, <2>5
<1>3. CASE HeartbeatTimeout
  <2>1. OpenPause # 0 /\ OpenPause' = 0
    BY <1>3 DEF HeartbeatTimeout, OpenPause, IndInv, AnswerInv
  <2> QED BY <1>1, <2>1 DEF Callbacks!Close, OpenPause, Confirmed
<1>4. CASE Finish \/ Merge \/ MergeFails
  <2>1. OpenPause = 0 /\ OpenPause' = 0
    BY <1>4 DEF Finish, Merge, MergeFails, OpenPause
  <2> QED BY <1>1, <2>1 DEF Stutter
<1> QED
  BY <1>2, <1>3, <1>4 DEF Machine

\* What Step Functions takes is the one answer of the pause that waits.
LEMMA AcceptMaps ==
  ASSUME IndInv, NEW n \in Tokens, NEW who \in Requests \cup {"auto"},
         Accept(n, who), UNCHANGED pause,
         Confirmed' \in {Confirmed, Confirmed \cup {<<who, n>>}}
  PROVE  n \in Pauses /\ Callbacks!Take(n, who)
<1>1. n \in Pauses /\ sfn' = "merge" /\ output' = [output EXCEPT ![n] = who]
  BY AcceptStep DEF Accept
<1>2. OpenPause = n /\ OpenPause' = 0 /\ output[n] = "none"
  BY <1>1 DEF Accept, Waiting, OpenPause, IndInv, AnswerInv
<1> QED
  BY <1>1, <1>2 DEF Callbacks!Take, OpenPause, Confirmed

\* store_task_token closes the pause, or answers it, with its own token.
LEMMA StoreMaps ==
  ASSUME IndInv, NEW n \in Pauses, Store(n)
  PROVE  Stutter \/ Callbacks!Close \/ Callbacks!Take(n, "auto")
<1>1. UNCHANGED <<pause, req, token>> /\ Confirmed' = Confirmed
  BY DEF Store, Put, StoreRaises, AutoResume, AutoResumeLate, AutoResumeInvalid,
         machine, requests, Confirmed
<1>2. CASE AutoResume(n)
  <2>1. Accept(n, "auto") /\ n \in Tokens
    BY <1>2, PausesInTokens DEF AutoResume
  <2> QED BY <1>1, <2>1, AcceptMaps
<1>3. CASE StoreRaises(n)
  <2>1. output' = output
    BY <1>3 DEF StoreRaises
  <2>2. CASE Waiting(n)
    <3>1. OpenPause # 0 /\ OpenPause' = 0
      BY <1>3, <2>2 DEF StoreRaises, Waiting, OpenPause, IndInv, AnswerInv
    <3> QED BY <1>1, <2>1, <3>1 DEF Callbacks!Close, OpenPause, Confirmed
  <2>3. CASE ~Waiting(n)
    BY <1>1, <1>3, <2>1, <2>3 DEF StoreRaises, Stutter, OpenPause
  <2> QED BY <2>2, <2>3
<1>4. CASE (\E answered \in BOOLEAN : Put(n, answered)) \/ AutoResumeLate(n)
           \/ AutoResumeInvalid(n)
  BY <1>1, <1>4 DEF Put, AutoResumeLate, AutoResumeInvalid, machine, Stutter, OpenPause
<1> QED
  BY <1>2, <1>3, <1>4 DEF Store

\* A resume request answers the pause that waits, is told of it, or neither.
LEMMA ResumeMaps ==
  ASSUME IndInv, IndInv', NEW r \in Requests, Resume(r)
  PROVE  \/ Stutter
         \/ \E n \in Pauses : Callbacks!Take(n, r) \/ Callbacks!Told(r, n)
<1>0. TypeOK /\ TypeOK' /\ OkMeansTaken
  BY DEF IndInv
<1>1. req' = [req EXCEPT ![r] = req'[r]] /\ token' = [token EXCEPT ![r] = token'[r]]
  BY <1>0 DEF Resume, Ask, Query, Found, LookupFails, Refuse, Send, SendLate, SendUnanswered,
     Delete, RequestFails, Leave, ReqGoto, requests, TypeOK
<1>2. token[r] \in Tokens /\ (req[r] \in {"send", "delete"} => token[r] \in Pauses)
  BY <1>0, SMT DEF TypeOK, Tokens, Pauses
<1>3. CASE Send(r) \/ SendUnanswered(r)
  <2>1. Accept(token[r], r) /\ UNCHANGED pause /\ req[r] = "send"
    BY <1>3 DEF Send, SendUnanswered
  <2>2. \/ req'[r] = "delete" /\ token'[r] = token[r]
        \/ req'[r] = "idle"
    BY <1>0, <1>3 DEF Send, SendUnanswered, Leave, ReqGoto, TypeOK
  <2>3. Confirmed' \in {Confirmed, Confirmed \cup {<<r, token[r]>>}}
    BY <1>0, <1>1, <1>2, <2>1, <2>2, ConfirmedStep
  <2> QED BY <1>2, <2>1, <2>3, AcceptMaps
<1>4. CASE ~(Send(r) \/ SendUnanswered(r))
  <2>1. UNCHANGED machine
    BY <1>4 DEF Resume, Ask, Query, LookupFails, Refuse, SendLate, Delete, RequestFails
  <2>2. OpenPause' = OpenPause /\ output' = output
    BY <2>1 DEF machine, OpenPause
  <2>3. CASE req[r] # "delete"
    <3>1. req'[r] # "delete"
      BY <1>0, <1>4, <2>3 DEF Resume, Ask, Query, Found, LookupFails, Refuse, SendLate, Delete, RequestFails,
         Leave, ReqGoto, TypeOK
    <3> QED BY <1>0, <1>1, <2>2, <2>3, <3>1, ConfirmedStep DEF Stutter
  <2>4. CASE req[r] = "delete"
    <3>1. CASE UNCHANGED requests
      BY <2>2, <3>1 DEF requests, Stutter, Confirmed
    <3>2. CASE ~UNCHANGED requests
      <4>1. Leave(r)
        BY <1>4, <2>4, <3>2 DEF Resume, Ask, Query, LookupFails, Refuse, SendLate, Delete, RequestFails
      <4>2. req'[r] # "delete"
        BY <1>0, <4>1 DEF Leave, ReqGoto, TypeOK
      <4>3. Confirmed' = Confirmed \ {<<r, token[r]>>}
        BY <1>0, <1>1, <2>4, <4>2, ConfirmedStep
      <4> QED BY <1>2, <2>2, <2>4, <4>3 DEF Callbacks!Told, OpenPause, Confirmed
    <3> QED BY <3>1, <3>2
  <2> QED BY <2>3, <2>4
<1> QED
  BY <1>3, <1>4

\* Every step of the callbacks is one of OneAnswer, or shows nothing there.
LEMMA StepMaps ==
  ASSUME IndInv, IndInv', AnsweredInv, [Next]_vars
  PROVE  Stutter \/ Callbacks!AnswerNext
<1>1. CASE Machine
  BY <1>1, MachineMaps DEF Callbacks!AnswerNext
<1>2. ASSUME NEW n \in Pauses, Store(n) PROVE Stutter \/ Callbacks!AnswerNext
  BY <1>2, StoreMaps DEF Callbacks!AnswerNext
<1>3. CASE Table
  BY <1>3 DEF Table, Replicate, Expire, machine, requests, Stutter, OpenPause, Confirmed
<1>4. ASSUME NEW r \in Requests, Resume(r) PROVE Stutter \/ Callbacks!AnswerNext
  BY <1>4, ResumeMaps DEF Callbacks!AnswerNext
<1>5. CASE UNCHANGED vars
  BY <1>5 DEF vars, machine, requests, Stutter, OpenPause, Confirmed
<1> QED
  BY <1>1, <1>2, <1>3, <1>4, <1>5 DEF Next

\* The workflow goes on only from pauses that were answered.
LEMMA AnsweredStep ==
  ASSUME IndInv, AnsweredInv, [Next]_vars PROVE AnsweredInv'
<1> USE PausesInTokens, RequestsAssumption
<1>0. /\ pause \in Nat /\ Pauses \subseteq Nat
      /\ output \in [Pauses -> Requests \cup {"auto", "none"}]
  BY SMT DEF IndInv, TypeOK, Tokens
<1>1. CASE Pause
  <2>1. sfn' = "waiting" /\ pause' = pause + 1 /\ output' = output /\ sfn = "segment"
    BY <1>1 DEF Pause
  <2> QED BY <1>0, <2>1, SMT DEF AnsweredInv
<1>2. ASSUME NEW n \in Tokens, NEW who \in Requests \cup {"auto"}, Accept(n, who),
             UNCHANGED pause
      PROVE  AnsweredInv'
  <2>1. sfn = "waiting" /\ pause = n /\ sfn' = "merge" /\ who # "none"
        /\ output' = [output EXCEPT ![n] = who]
    BY <1>2 DEF Accept, Waiting
  <2>2. ASSUME NEW m \in Pauses, m <= pause PROVE output'[m] # "none"
    <3>1. CASE m = n
      BY <1>0, <2>1, <3>1
    <3>2. CASE m # n
      <4>1. m < pause
        BY <1>0, <2>1, <2>2, <3>2, SMT
      <4> QED BY <1>0, <2>1, <3>2, <4>1 DEF AnsweredInv
    <3> QED BY <3>1, <3>2
  <2> QED BY <1>2, <2>1, <2>2 DEF AnsweredInv
<1>3. CASE \E n \in Pauses : AutoResume(n)
  BY <1>2, <1>3 DEF AutoResume
<1>4. CASE \E r \in Requests : Send(r) \/ SendUnanswered(r)
  BY <1>2, <1>4 DEF Send, SendUnanswered, IndInv, TypeOK
<1>5. ASSUME UNCHANGED <<pause, output>>,
             sfn' = sfn \/ sfn' = "ended" \/ (sfn = "merge" /\ sfn' = "segment")
      PROVE  AnsweredInv'
  BY <1>5 DEF AnsweredInv
<1>6. CASE Finish \/ HeartbeatTimeout \/ Merge \/ MergeFails \/ Table \/ UNCHANGED vars
  BY <1>5, <1>6 DEF Finish, HeartbeatTimeout, Merge, MergeFails, Table, Replicate, Expire,
     vars, machine
<1>7. CASE \E n \in Pauses : Store(n) /\ ~AutoResume(n)
  BY <1>5, <1>7 DEF Store, Put, StoreRaises, AutoResumeLate, AutoResumeInvalid, machine
<1>8. CASE \E r \in Requests : Resume(r) /\ ~Send(r) /\ ~SendUnanswered(r)
  BY <1>5, <1>8 DEF Resume, Ask, Query, LookupFails, Refuse, SendLate, Delete, RequestFails, machine
<1> QED
  BY <1>1, <1>3, <1>4, <1>6, <1>7, <1>8 DEF Next, Machine

(* resume_handler, store_task_token and the waiting task implement         *)
(* OneAnswer for any number of pauses and concurrent requests: one answer  *)
(* to a pause, none lost before the next, and 200 only for the taken one.  *)
THEOREM ImplementsOneAnswer == Spec => RefinesOneAnswer
<1>1. Init => AnsweredInv /\ Callbacks!AnswerInit
  <2> SUFFICES ASSUME Init PROVE AnsweredInv /\ Callbacks!AnswerInit
    OBVIOUS
  <2>1. AnsweredInv
    BY SMT DEF Init, AnsweredInv, Pauses
  <2>2. Confirmed = {} /\ OpenPause = 0
    BY DEF Init, Confirmed, OpenPause
  <2> QED BY <2>1, <2>2 DEF Init, Callbacks!AnswerInit, Confirmed, OpenPause
<1>2. IndInv /\ AnsweredInv /\ [Next]_vars => AnsweredInv'
  BY AnsweredStep
<1>3. IndInv /\ IndInv' /\ AnsweredInv /\ [Next]_vars =>
        [Callbacks!AnswerNext]_Callbacks!answerVars
  BY StepMaps DEF Callbacks!answerVars, Stutter, OpenPause, Confirmed
<1> QED
  BY <1>1, <1>2, <1>3, Invariant, PTL DEF Spec, RefinesOneAnswer, Callbacks!AnswerSpec
==============================================================================
