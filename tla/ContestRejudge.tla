---------------------------- MODULE ContestRejudge ----------------------------
(***************************************************************************)
(* Submissions to one problem of a contest and its rejudging, while the    *)
(* problem's testcases change.  A job carries the problem, its testcase    *)
(* groups with points and keys included, as whoever enqueued the job had   *)
(* read it; a rejudge resets the rows it listed one after the other and    *)
(* enqueues a job after each reset.  Verdicts of older jobs keep arriving. *)
(*                                                                         *)
(* The files come by key: from the worker's volume when there is one under *)
(* the key, however old, else from object storage, where an upload         *)
(* overwrites the keys of the one before.  A version here is that of one   *)
(* file; TestcaseCache has the steps of fetching it and what can fail.     *)
(*                                                                         *)
(* Queues and workers lose nothing here: SubmissionPipeline is about that. *)
(* Results are applied in the order in which they are published.  Changes  *)
(* of the testcases come one after the other.                              *)
(***************************************************************************)
EXTENDS Naturals, Sequences, Functions

CONSTANTS
    Submissions,   \* ids of contest_submissions
    Workers,       \* workers on the queue "contest-submissions"
    MaxVersion,    \* bound on the changes of the testcases
    MaxRejudges,   \* bound on the rejudge requests
    MaxFaults      \* bound on the number of faults

\* The steps of a rejudge between two rows.
Between == {"idle", "read", "reset"}

ASSUME RejudgeAssumption ==
    /\ MaxVersion \in Nat /\ MaxRejudges \in Nat /\ MaxFaults \in Nat
    /\ Between \cap Submissions = {}

Versions == 0..MaxVersion
Job      == [id : Submissions, tests : Versions]
NoJob    == [tests |-> MaxVersion + 1]
Kept     == MaxVersion + 1   \* a file from before the job, of any version
NoFile   == MaxVersion + 2
Verdicts == {"JUDGING", "JUDGED"}
Row      == [verdict : {"ABSENT", "PENDING"} \cup Verdicts,
             tests : Versions, behind : BOOLEAN]

VARIABLES
    tests,      \* version of the problem's testcase groups
    uploaded,   \* version of its files in object storage
    rows,       \* verdict column, and (history) the groups judged with and
                \* whether the file fetched for that was behind them
    request,    \* how far the request of a submission is
    read,       \* the testcase groups it read
    rejudge,    \* the rejudge request in progress
    rejudges,   \* rejudge requests so far
    jobs,       \* queue "contest-submissions"
    working,    \* the job of each worker
    file,       \* the file it has for that job
    results,    \* queue "contest-submission-results"
    promised,   \* history: groups of the last rejudge of a submission
    abandoned,  \* history: reset by a rejudge that ended before its publish
    faults      \* faults so far

requestVars == <<request, read>>
rejudgeVars == <<rejudge, rejudges, promised, abandoned>>
judgeVars   == <<jobs, working, file, results>>
vars == <<tests, uploaded, rows, faults, requestVars, rejudgeVars, judgeVars>>

Unjudged(verdict) == [verdict |-> verdict, tests |-> 0, behind |-> FALSE]

Absent  == Unjudged("ABSENT")

\* Mutant: the verdict is cleared like the other columns of a reset.
Cleared == Unjudged("")

Pending == Unjudged("PENDING")
NoRejudge == [step |-> "idle", tests |-> 0, todo |-> {}]

TypeOK ==
    /\ tests \in Versions
    /\ uploaded \in Versions
    /\ rows \in [Submissions -> Row]
    /\ request \in [Submissions ->
            {"new", "read", "inserted", "accepted", "rejected"}]
    /\ read \in [Submissions -> Versions]
    /\ rejudge \in [step : Between \cup Submissions, tests : Versions,
                    todo : SUBSET Submissions]
    /\ rejudges \in 0..MaxRejudges
    /\ jobs \in Seq(Job)
    /\ working \in [Workers -> Job \cup {NoJob}]
    /\ file \in [Workers -> Versions \cup {Kept, NoFile}]
    /\ results \in Seq([id : Submissions, verdict : Verdicts, tests : Versions,
                       behind : BOOLEAN])
    /\ promised \in [Submissions -> Versions]
    /\ abandoned \subseteq Submissions
    /\ faults \in 0..MaxFaults

Init ==
    /\ tests = 0
    /\ uploaded = 0
    /\ rows = [s \in Submissions |-> Absent]
    /\ request = [s \in Submissions |-> "new"]
    /\ read = [s \in Submissions |-> 0]
    /\ rejudge = NoRejudge
    /\ rejudges = 0
    /\ jobs = <<>>
    /\ working = [w \in Workers |-> NoJob]
    /\ file = [w \in Workers |-> NoFile]
    /\ results = <<>>
    /\ promised = [s \in Submissions |-> 0]
    /\ abandoned = {}
    /\ faults = 0

Fault == faults < MaxFaults /\ faults' = faults + 1

\* The problem's editor uploads files under the keys of the old ones, and
\* saves the groups afterwards; the request may end between the two.
UploadTestcases ==
    /\ uploaded < MaxVersion
    /\ uploaded' = uploaded + 1
    /\ UNCHANGED <<tests, rows, faults, requestVars, rejudgeVars, judgeVars>>

SaveTestcases ==
    /\ tests < uploaded
    /\ tests' = uploaded
    /\ UNCHANGED <<uploaded, rows, faults, requestVars, rejudgeVars, judgeVars>>

-----------------------------------------------------------------------------
(* CreateContestSubmission: the problem is read, eligibility is checked,   *)
(* the row is inserted, the source is uploaded and the job published.      *)

Moves(s, from, to) ==
    request[s] = from /\ request' = [request EXCEPT ![s] = to]

ReadProblem(s) ==
    /\ Moves(s, "new", "read")
    /\ read' = [read EXCEPT ![s] = tests]
    /\ UNCHANGED <<tests, uploaded, rows, faults, rejudgeVars, judgeVars>>

Insert(s) ==
    /\ Moves(s, "read", "inserted")
    /\ rows' = [rows EXCEPT ![s] = Pending]
    /\ UNCHANGED <<tests, uploaded, read, faults, rejudgeVars, judgeVars>>

Enqueue(s) ==
    /\ Moves(s, "inserted", "accepted")
    /\ jobs' = Append(jobs, [id |-> s, tests |-> read[s]])
    /\ UNCHANGED <<tests, uploaded, rows, read, faults, working, file, results,
                   rejudgeVars>>

\* The upload or the publish fails; the deletion of the row may fail too.
EnqueueFails(s) ==
    /\ Moves(s, "inserted", "rejected")
    /\ Fault
    /\ jobs' \in {jobs, Append(jobs, [id |-> s, tests |-> read[s]])}
    /\ rows' \in {rows, [rows EXCEPT ![s] = Absent]}
    /\ UNCHANGED <<tests, uploaded, read, working, file, results, rejudgeVars>>

-----------------------------------------------------------------------------
(* RejudgeContestProblem, one request at a time.                           *)

RejudgeRead ==
    /\ rejudge.step = "idle"
    /\ rejudges < MaxRejudges
    /\ rejudges' = rejudges + 1
    /\ rejudge' = [step |-> "read", tests |-> tests, todo |-> {}]
    /\ UNCHANGED <<tests, uploaded, rows, faults, promised, abandoned,
                   requestVars, judgeVars>>

Present == {s \in Submissions : rows[s] # Absent}

\* Mutant: the rows are reset all at once, before the first publish.
ListAndReset ==
    /\ rejudge.step = "read"
    /\ rejudge' = [rejudge EXCEPT !.step = "reset", !.todo = Present]
    /\ rows' = [s \in Submissions |-> IF s \in Present THEN Pending ELSE Absent]
    /\ UNCHANGED <<tests, uploaded, faults, rejudges, promised, abandoned,
                   requestVars, judgeVars>>

RejudgeList ==
    /\ rejudge.step = "read"
    /\ rejudge' = [rejudge EXCEPT !.step = "reset", !.todo = Present]
    /\ UNCHANGED <<tests, uploaded, rows, faults, rejudges, promised, abandoned,
                   requestVars, judgeVars>>

\* The order of the list, by time of submission, does not matter.
RejudgeReset(s) ==
    /\ rejudge.step = "reset"
    /\ s \in rejudge.todo \cap Present
    /\ rows' = [rows EXCEPT ![s] = Pending]
    /\ rejudge' = [rejudge EXCEPT !.step = s, !.todo = @ \ {s}]
    /\ UNCHANGED <<tests, uploaded, faults, rejudges, promised, abandoned,
                   requestVars, judgeVars>>

\* A row of the list is gone: the request ends there.
RejudgeNotFound(s) ==
    /\ rejudge.step = "reset"
    /\ s \in rejudge.todo \ Present
    /\ rejudge' = NoRejudge
    /\ UNCHANGED <<tests, uploaded, rows, faults, rejudges, promised, abandoned,
                   requestVars, judgeVars>>

\* Mutant: the job carries the problem of the submission's own request.
EnqueueWithProblemOfRequest(s) ==
    /\ rejudge.step = s
    /\ jobs' = Append(jobs, [id |-> s, tests |-> read[s]])
    /\ promised' = [promised EXCEPT
            ![s] = IF request[s] = "accepted" THEN rejudge.tests ELSE @]
    /\ abandoned' = abandoned \ {s}
    /\ rejudge' = [rejudge EXCEPT !.step = "reset"]
    /\ UNCHANGED <<tests, uploaded, rows, faults, rejudges, working, file, results,
                   requestVars>>

RejudgeEnqueue(s) ==
    /\ rejudge.step = s
    /\ jobs' = Append(jobs, [id |-> s, tests |-> rejudge.tests])
    /\ promised' = [promised EXCEPT
            ![s] = IF request[s] = "accepted" THEN rejudge.tests ELSE @]
    /\ abandoned' = abandoned \ {s}
    /\ rejudge' = [rejudge EXCEPT !.step = "reset"]
    /\ UNCHANGED <<tests, uploaded, rows, faults, rejudges, working, file, results,
                   requestVars>>

\* The UPDATE or the publish fails, or the request's deadline passes: rows
\* after this one stay as they are, and this one is reset without a job.
RejudgeFails(s) ==
    /\ Fault
    /\ \/ /\ rejudge.step = "reset"
          /\ s \in rejudge.todo \cap Present
          /\ \/ UNCHANGED <<rows, abandoned>>
             \/ /\ rows' = [rows EXCEPT ![s] = Pending]
                /\ abandoned' = abandoned \cup {s}
          /\ UNCHANGED jobs
       \/ /\ rejudge.step = s
          /\ \/ /\ jobs' = Append(jobs, [id |-> s, tests |-> rejudge.tests])
                /\ UNCHANGED abandoned
             \/ /\ abandoned' = abandoned \cup {s}
                /\ UNCHANGED jobs
          /\ UNCHANGED rows
    /\ rejudge' = NoRejudge
    /\ UNCHANGED <<tests, uploaded, rejudges, promised, working, file, results,
                   requestVars>>

RejudgeDone ==
    /\ rejudge.step = "reset"
    /\ rejudge.todo = {}
    /\ rejudge' = NoRejudge
    /\ UNCHANGED <<tests, uploaded, rows, faults, rejudges, promised, abandoned,
                   requestVars, judgeVars>>

-----------------------------------------------------------------------------
(* processContestJob and the contest result consumer.                      *)

Announcement(job) ==
    [id |-> job.id, verdict |-> "JUDGING", tests |-> 0, behind |-> FALSE]

Verdict(job, version) ==
    [id |-> job.id, verdict |-> "JUDGED", tests |-> job.tests,
     behind |-> version # Kept /\ version < job.tests]

StartJob(w) ==
    /\ working[w] = NoJob
    /\ jobs # <<>>
    /\ working' = [working EXCEPT ![w] = Head(jobs)]
    /\ jobs' = Tail(jobs)
    /\ results' = Append(results, Announcement(Head(jobs)))
    /\ UNCHANGED <<tests, uploaded, rows, faults, file, requestVars, rejudgeVars>>

\* A file that the worker has under the key is taken, whatever it holds: an
\* earlier job, of this contest or another, may have left one.
Fetch(w) ==
    /\ working[w] # NoJob
    /\ file[w] = NoFile
    /\ \E version \in {Kept, uploaded} : file' = [file EXCEPT ![w] = version]
    /\ UNCHANGED <<tests, uploaded, rows, faults, jobs, working, results,
                   requestVars, rejudgeVars>>

FinishJob(w) ==
    /\ working[w] # NoJob
    /\ file[w] # NoFile
    /\ results' = Append(results, Verdict(working[w], file[w]))
    /\ working' = [working EXCEPT ![w] = NoJob]
    /\ file' = [file EXCEPT ![w] = NoFile]
    /\ UNCHANGED <<tests, uploaded, rows, faults, jobs, requestVars, rejudgeVars>>

RowOf(m) ==
    [verdict |-> m.verdict, tests |-> m.tests, behind |-> m.behind]

\* Mutant: a verdict is only written over PENDING or JUDGING.
ApplyToUnjudged ==
    LET m == Head(results) IN
    /\ results # <<>>
    /\ results' = Tail(results)
    /\ rows' = IF rows[m.id].verdict \in {"PENDING", "JUDGING"}
               THEN [rows EXCEPT ![m.id] = RowOf(m)]
               ELSE rows
    /\ UNCHANGED <<tests, uploaded, faults, jobs, working, file,
                   requestVars, rejudgeVars>>

ApplyResult ==
    LET m == Head(results) IN
    /\ results # <<>>
    /\ results' = Tail(results)
    /\ rows' = IF m.id \in Present
               THEN [rows EXCEPT ![m.id] = RowOf(m)]
               ELSE rows
    /\ UNCHANGED <<tests, uploaded, faults, jobs, working, file,
                   requestVars, rejudgeVars>>

-----------------------------------------------------------------------------

WorkerStep(w) == StartJob(w) \/ Fetch(w) \/ FinishJob(w)

RejudgeStep ==
    \/ RejudgeList \/ RejudgeDone
    \/ \E s \in Submissions :
            RejudgeReset(s) \/ RejudgeNotFound(s) \/ RejudgeEnqueue(s)

Next ==
    \/ UploadTestcases \/ SaveTestcases
    \/ \E s \in Submissions :
            ReadProblem(s) \/ Insert(s) \/ Enqueue(s) \/ EnqueueFails(s)
    \/ RejudgeRead \/ RejudgeList \/ RejudgeDone
    \/ \E s \in Submissions :
            \/ RejudgeReset(s) \/ RejudgeNotFound(s)
            \/ RejudgeEnqueue(s) \/ RejudgeFails(s)
    \/ \E w \in Workers : WorkerStep(w)
    \/ ApplyResult

Spec == Init /\ [][Next]_vars

\* Running code makes progress; nobody has to submit or rejudge.
Fairness ==
    /\ WF_vars(RejudgeStep)
    /\ \A s \in Submissions : WF_vars(Insert(s) \/ Enqueue(s))
    /\ \A w \in Workers : WF_vars(WorkerStep(w))
    /\ WF_vars(ApplyResult)

FairSpec == Spec /\ Fairness

-----------------------------------------------------------------------------

\* A job of s is queued or being judged, or its verdict is on its way.
BeingJudged(s) ==
    \/ \E job \in Range(jobs) : job.id = s
    \/ \E w \in Workers : working[w] # NoJob /\ working[w].id = s
    \/ \E m \in Range(results) : m.id = s /\ m.verdict = "JUDGED"

\* RejudgeContestProblem "resets all submissions ... to PENDING and
\* re-enqueues them": an accepted submission that is not judged is going to
\* be, unless a rejudge failed between its reset and its publish.  At most
\* one row at a time is reset and not enqueued yet.
ResetIsJudged ==
    \A s \in Submissions :
        request[s] = "accepted" /\ rows[s].verdict # "JUDGED" =>
            BeingJudged(s) \/ rejudge.step = s \/ s \in abandoned

\* Judged with the groups of version v or later, and with no file that was
\* fetched for it and is older than they are.
JudgedWith(row, v) ==
    /\ row.verdict = "JUDGED"
    /\ row.tests >= v
    /\ ~row.behind

\* When nothing of a submission is in flight any more, its verdict is of the
\* testcase groups its last rejudge had read, or later ones: the old verdicts
\* that arrived after the reset did not survive.  The files fetched for it
\* are as new; those that the worker kept from earlier jobs are what they
\* are, a rejudge does nothing about them.  Needs jobs finished in the order
\* of the queue, so one worker, and a submission that was enqueued by its own
\* request before the rejudge enqueued it again.
RejudgeTakesEffect ==
    \A s \in Submissions :
        /\ request[s] = "accepted"
        /\ ~BeingJudged(s) /\ rejudge.step # s /\ s \notin abandoned
        => JudgedWith(rows[s], promised[s])

\* Whatever arrives late, an accepted submission always comes back to a verdict
\* of the groups of its last rejudge (of any, if there was none), unless a
\* rejudge failed between its reset and its publish.  A file that the worker
\* kept may be older here too.
RejudgedEventually ==
    \A s \in Submissions :
        request[s] = "accepted" ~>
            JudgedWith(rows[s], promised[s]) \/ s \in abandoned
=============================================================================
