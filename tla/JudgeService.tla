---------------------------- MODULE JudgeService ----------------------------
(***************************************************************************)
(* What the pipeline promises of a submission, without queues, workers,    *)
(* replicas or failures: a request is answered once, a row is created once *)
(* and never comes back, and a verdict is in the row only after a judge    *)
(* has given one.                                                          *)
(***************************************************************************)
CONSTANTS Submissions,   \* ids of the submissions
          Terminal       \* the verdicts a judge may give

VARIABLES answer,   \* what the client knows of its request
          column,   \* the verdict in the submission's row, or "ABSENT"
          judged    \* the submissions a judge has given a verdict of

serviceVars == <<answer, column, judged>>

Init == /\ answer = [s \in Submissions |-> "none"]
        /\ column = [s \in Submissions |-> "ABSENT"]
        /\ judged = {}

\* A request begins, and with it the row of the submission.
Open(s) == /\ answer[s] = "none"
           /\ answer' = [answer EXCEPT ![s] = "open"]
           /\ column' = [column EXCEPT ![s] = "PENDING"]
           /\ UNCHANGED judged

\* A request that cannot be stored is refused at once; whether it has left a
\* row is not known.
Decline(s) == /\ answer[s] = "none"
              /\ answer' = [answer EXCEPT ![s] = "refused"]
              /\ \E v \in {"ABSENT", "PENDING"} : column' = [column EXCEPT ![s] = v]
              /\ UNCHANGED judged

Accept(s) == /\ answer[s] = "open"
             /\ answer' = [answer EXCEPT ![s] = "accepted"]
             /\ UNCHANGED <<column, judged>>

\* The row goes, unless its removal fails.
Refuse(s) == /\ answer[s] = "open"
             /\ answer' = [answer EXCEPT ![s] = "refused"]
             /\ column' = [column EXCEPT ![s] = "ABSENT"] \/ UNCHANGED column
             /\ UNCHANGED judged

\* Requests that will never be answered.
Abandon(S) == /\ \A s \in S : answer[s] = "open"
              /\ answer' = [s \in Submissions |-> IF s \in S THEN "lost" ELSE answer[s]]
              /\ UNCHANGED <<column, judged>>

Judge(s) == /\ answer[s] # "none"
            /\ judged' = judged \cup {s}
            /\ UNCHANGED <<answer, column>>

\* The row of a submission shows that it is being judged, or a verdict.
Show(s, v) == /\ column[s] # "ABSENT"
              /\ v = "JUDGING" \/ (v \in Terminal /\ s \in judged)
              /\ column' = [column EXCEPT ![s] = v]
              /\ UNCHANGED <<answer, judged>>

Next == \/ \E s \in Submissions : \/ Open(s) \/ Decline(s) \/ Accept(s) \/ Refuse(s) \/ Judge(s)
                                  \/ \E v \in {"JUDGING"} \cup Terminal : Show(s, v)
        \/ \E S \in SUBSET Submissions : Abandon(S)

Spec == Init /\ [][Next]_serviceVars
=============================================================================
