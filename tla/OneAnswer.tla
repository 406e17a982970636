------------------------------ MODULE OneAnswer ------------------------------
(***************************************************************************)
(* What the human-in-the-loop callbacks promise the workflow and its       *)
(* users, without tokens, tables, clicks or retries.  Pauses open one at a *)
(* time, the next one only after the one before was answered.  An open     *)
(* pause takes one answer, for good, or is closed without one.  A user is  *)
(* told of success only about an answer that was taken, and was theirs.    *)
(***************************************************************************)
EXTENDS Naturals

CONSTANTS
  Pauses,    \* 1, 2, ...
  Answerers  \* whoever may answer, "none" excepted

VARIABLES
  open,      \* the pause that waits for its answer; 0: none does
  answers,   \* of each pause: who answered
  confirmed  \* who is being told of success, and for which pause

answerVars == <<open, answers, confirmed>>

AnswerInit ==
  open = 0 /\ answers = [n \in Pauses |-> "none"] /\ confirmed = {}

Open(n) ==
  /\ open = 0 /\ answers[n] = "none"
  /\ \A m \in Pauses : m < n => answers[m] # "none"
  /\ open' = n
  /\ UNCHANGED <<answers, confirmed>>

Take(n, who) ==
  /\ open = n /\ answers[n] = "none"
  /\ open' = 0
  /\ answers' = [answers EXCEPT ![n] = who]
  /\ confirmed' \in {confirmed, confirmed \cup {<<who, n>>}}

Close ==
  /\ open # 0
  /\ open' = 0
  /\ UNCHANGED <<answers, confirmed>>

Told(who, n) ==
  /\ confirmed' = confirmed \ {<<who, n>>}
  /\ UNCHANGED <<open, answers>>

AnswerNext ==
  \/ \E n \in Pauses :
       \/ Open(n)
       \/ \E who \in Answerers : Take(n, who) \/ Told(who, n)
  \/ Close

AnswerSpec == AnswerInit /\ [][AnswerNext]_answerVars
==============================================================================
