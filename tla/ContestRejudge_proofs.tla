------------------------- MODULE ContestRejudge_proofs -------------------------
(***************************************************************************)
(* Machine-checked proofs about ContestRejudge, for any number of          *)
(* submissions, versions of the testcases, rejudges and faults; of         *)
(* workers too, as far as no order of verdicts is promised.                *)
(***************************************************************************)
EXTENDS ContestRejudge, QueueLemmas

Results == [id : Submissions, verdict : Verdicts, tests : Versions, behind : BOOLEAN]

(* The three places in which the judging of s may be.                      *)
Queued(s)     == \E k \in DOMAIN jobs : jobs[k].id = s
AtWork(s)     == \E w \in Workers : working[w] # NoJob /\ working[w].id = s
VerdictDue(s) == \E k \in DOMAIN results : results[k].id = s /\ results[k].verdict = "JUDGED"

(* A verdict of s comes after place k of the queue of results.             *)
VerdictAfter(k, s) ==
    \E l \in DOMAIN results : l > k /\ results[l].id = s /\ results[l].verdict = "JUDGED"

JobAfter(k, s) == \E l \in DOMAIN jobs : l > k /\ jobs[l].id = s

(* A submission that a request has stored is there.                        *)
Stored == \A s \in Submissions : request[s] \in {"inserted", "accepted"} => rows[s] # Absent

(* After the announcement that s is being judged its verdict is to come.   *)
Announced ==
    \A k \in DOMAIN results :
        results[k].verdict = "JUDGING" => AtWork(results[k].id) \/ VerdictAfter(k, results[k].id)

JudgedInv == TypeOK /\ Stored /\ Announced /\ ResetIsJudged

(* What a rejudge has promised is of testcases it had read.                *)
PromisesRead ==
    /\ rejudge.tests <= tests
    /\ \A s \in Submissions :
        /\ promised[s] <= tests
        /\ rejudge.step # "idle" => promised[s] <= rejudge.tests
        /\ request[s] # "accepted" => promised[s] = 0

Outdated(m) == m.tests < promised[m.id]

(* Whatever is outdated is followed by something of the same submission.   *)
JobsFollowed == \A k \in DOMAIN jobs : Outdated(jobs[k]) => JobAfter(k, jobs[k].id)

WorkFollowed == \A w \in Workers :
                    working[w] # NoJob /\ Outdated(working[w]) => Queued(working[w].id)

VerdictsFollowed ==
    \A k \in DOMAIN results :
        results[k].verdict = "JUDGED" /\ Outdated(results[k]) =>
            \/ Queued(results[k].id) \/ AtWork(results[k].id)
            \/ VerdictAfter(k, results[k].id)

RowsFollowed ==
    \A s \in Submissions :
        request[s] = "accepted" /\ rows[s].tests < promised[s] =>
            BeingJudged(s) \/ rejudge.step = s \/ s \in abandoned

EffectInv == /\ JudgedInv /\ PromisesRead
             /\ JobsFollowed /\ WorkFollowed /\ VerdictsFollowed /\ RowsFollowed

(***************************************************************************)
(* Queues.                                                                 *)
(***************************************************************************)

LEMMA AppendPlaces ==
    ASSUME NEW S, NEW q \in Seq(S), NEW x \in S
    PROVE  /\ Append(q, x) \in Seq(S)
           /\ Len(q) \in Nat /\ DOMAIN q = 1..Len(q)
           /\ DOMAIN Append(q, x) = 1..(Len(q) + 1)
           /\ \A k \in DOMAIN q : Append(q, x)[k] = q[k]
           /\ Append(q, x)[Len(q) + 1] = x
OBVIOUS

LEMMA TailPlaces ==
    ASSUME NEW S, NEW q \in Seq(S), q # <<>>
    PROVE  /\ Tail(q) \in Seq(S) /\ Head(q) \in S
           /\ Len(q) \in Nat \ {0} /\ DOMAIN q = 1..Len(q)
           /\ DOMAIN Tail(q) = 1..(Len(q) - 1)
           /\ \A k \in 1..(Len(q) - 1) : Tail(q)[k] = q[k + 1]
           /\ Head(q) = q[1]
OBVIOUS

(* A job is appended.                                                      *)
LEMMA JobsGrow ==
    ASSUME jobs \in Seq(Job), NEW j \in Job, jobs' = Append(jobs, j)
    PROVE  /\ jobs' \in Seq(Job)
           /\ \A s : Queued(s) => Queued(s)'
           /\ Queued(j.id)'
           /\ \A k \in DOMAIN jobs' : \/ jobs'[k] = j
                                      \/ k \in DOMAIN jobs /\ jobs'[k] = jobs[k]
           /\ \A k \in DOMAIN jobs : JobAfter(k, j.id)'
           /\ \A k \in DOMAIN jobs : \A s : JobAfter(k, s) => JobAfter(k, s)'
<1> DEFINE n == Len(jobs)
<1>1. /\ jobs' \in Seq(Job)
      /\ n \in Nat /\ DOMAIN jobs = 1..n /\ DOMAIN jobs' = 1..(n + 1)
      /\ \A k \in 1..n : jobs'[k] = jobs[k]
      /\ jobs'[n + 1] = j
  BY AppendPlaces
<1> HIDE DEF n
<1>2. n + 1 \in DOMAIN jobs' /\ \A k \in DOMAIN jobs : k \in DOMAIN jobs' /\ n + 1 > k
  BY <1>1
<1>3. \A k \in DOMAIN jobs' : k = n + 1 \/ k \in DOMAIN jobs
  BY <1>1
<1>4. QED
  BY ONLY <1>1, <1>2, <1>3 DEF Queued, JobAfter

(* The first job is taken.                                                 *)
LEMMA JobsShrink ==
    ASSUME jobs \in Seq(Job), jobs # <<>>, jobs' = Tail(jobs)
    PROVE  /\ jobs' \in Seq(Job) /\ Head(jobs) \in Job
           /\ Head(jobs) = jobs[1] /\ 1 \in DOMAIN jobs
           /\ \A s : Queued(s) => Queued(s)' \/ s = Head(jobs).id
           /\ \A k \in DOMAIN jobs' : k + 1 \in DOMAIN jobs /\ jobs'[k] = jobs[k + 1]
           /\ \A k \in DOMAIN jobs' : \A s : JobAfter(k + 1, s) => JobAfter(k, s)'
           /\ \A s : JobAfter(1, s) => Queued(s)'
<1> DEFINE n == Len(jobs)
<1>1. /\ jobs' \in Seq(Job) /\ Head(jobs) \in Job
      /\ n \in Nat \ {0} /\ DOMAIN jobs = 1..n /\ DOMAIN jobs' = 1..(n - 1)
      /\ \A k \in 1..(n - 1) : jobs'[k] = jobs[k + 1]
      /\ Head(jobs) = jobs[1]
  BY TailPlaces
<1> HIDE DEF n
<1>2. \A l \in DOMAIN jobs : l # 1 => /\ l - 1 \in DOMAIN jobs' /\ jobs'[l - 1] = jobs[l]
  BY <1>1
<1>3. 1 \in DOMAIN jobs /\ \A k \in DOMAIN jobs' : k + 1 \in DOMAIN jobs
  BY <1>1
<1>4. ASSUME NEW k \in DOMAIN jobs', NEW s, JobAfter(k + 1, s)
      PROVE  JobAfter(k, s)'
  <2>1. PICK l \in DOMAIN jobs : l > k + 1 /\ jobs[l].id = s
    BY <1>4 DEF JobAfter
  <2>2. l # 1 /\ l - 1 > k
    BY <1>1, <2>1
  <2>3. QED
    BY <1>2, <2>1, <2>2 DEF JobAfter
<1>5. ASSUME NEW s, JobAfter(1, s) PROVE Queued(s)'
  <2>1. PICK l \in DOMAIN jobs : l > 1 /\ jobs[l].id = s
    BY <1>5 DEF JobAfter
  <2>2. l # 1
    BY <1>1, <2>1
  <2>3. QED
    BY <1>2, <2>1, <2>2 DEF Queued
<1>6. ASSUME NEW s, Queued(s), s # Head(jobs).id PROVE Queued(s)'
  BY <1>1, <1>2, <1>6 DEF Queued
<1>7. QED
  BY <1>1, <1>3, <1>4, <1>5, <1>6

(* A result is published.                                                  *)
LEMMA ResultsGrow ==
    ASSUME results \in Seq(Results), NEW m \in Results, results' = Append(results, m)
    PROVE  /\ results' \in Seq(Results)
           /\ \A s : VerdictDue(s) => VerdictDue(s)'
           /\ m.verdict = "JUDGED" => VerdictDue(m.id)'
           /\ \A k \in DOMAIN results' : \/ results'[k] = m
                                         \/ k \in DOMAIN results /\ results'[k] = results[k]
           /\ \A k \in DOMAIN results : m.verdict = "JUDGED" => VerdictAfter(k, m.id)'
           /\ \A k \in DOMAIN results : \A s : VerdictAfter(k, s) => VerdictAfter(k, s)'
<1> DEFINE n == Len(results)
<1>1. /\ results' \in Seq(Results)
      /\ n \in Nat /\ DOMAIN results = 1..n /\ DOMAIN results' = 1..(n + 1)
      /\ \A k \in 1..n : results'[k] = results[k]
      /\ results'[n + 1] = m
  BY AppendPlaces
<1> HIDE DEF n
<1>2. n + 1 \in DOMAIN results' /\ \A k \in DOMAIN results : k \in DOMAIN results' /\ n + 1 > k
  BY <1>1
<1>3. \A k \in DOMAIN results' : k = n + 1 \/ k \in DOMAIN results
  BY <1>1
<1>4. QED
  BY ONLY <1>1, <1>2, <1>3 DEF VerdictDue, VerdictAfter

(* The first result is applied.                                            *)
LEMMA ResultsShrink ==
    ASSUME results \in Seq(Results), results # <<>>, results' = Tail(results)
    PROVE  /\ results' \in Seq(Results) /\ Head(results) \in Results
           /\ Head(results) = results[1] /\ 1 \in DOMAIN results
           /\ \A s : VerdictDue(s) => \/ VerdictDue(s)'
                                      \/ s = Head(results).id /\ Head(results).verdict = "JUDGED"
           /\ \A k \in DOMAIN results' : k + 1 \in DOMAIN results /\ results'[k] = results[k + 1]
           /\ \A k \in DOMAIN results' : \A s : VerdictAfter(k + 1, s) => VerdictAfter(k, s)'
           /\ \A s : VerdictAfter(1, s) => VerdictDue(s)'
<1> DEFINE n == Len(results)
<1>1. /\ results' \in Seq(Results) /\ Head(results) \in Results
      /\ n \in Nat \ {0} /\ DOMAIN results = 1..n /\ DOMAIN results' = 1..(n - 1)
      /\ \A k \in 1..(n - 1) : results'[k] = results[k + 1]
      /\ Head(results) = results[1]
  BY TailPlaces
<1> HIDE DEF n
<1>2. \A l \in DOMAIN results :
          l # 1 => /\ l - 1 \in DOMAIN results' /\ results'[l - 1] = results[l]
  BY <1>1
<1>3. 1 \in DOMAIN results /\ \A k \in DOMAIN results' : k + 1 \in DOMAIN results
  BY <1>1
<1>4. ASSUME NEW k \in DOMAIN results', NEW s, VerdictAfter(k + 1, s)
      PROVE  VerdictAfter(k, s)'
  <2>1. PICK l \in DOMAIN results :
            l > k + 1 /\ results[l].id = s /\ results[l].verdict = "JUDGED"
    BY <1>4 DEF VerdictAfter
  <2>2. l # 1 /\ l - 1 > k
    BY <1>1, <2>1
  <2>3. QED
    BY <1>2, <2>1, <2>2 DEF VerdictAfter
<1>5. ASSUME NEW s, VerdictAfter(1, s) PROVE VerdictDue(s)'
  <2>1. PICK l \in DOMAIN results :
            l > 1 /\ results[l].id = s /\ results[l].verdict = "JUDGED"
    BY <1>5 DEF VerdictAfter
  <2>2. l # 1
    BY <1>1, <2>1
  <2>3. QED
    BY <1>2, <2>1, <2>2 DEF VerdictDue
<1>6. ASSUME NEW s, VerdictDue(s), ~(s = Head(results).id /\ Head(results).verdict = "JUDGED")
      PROVE  VerdictDue(s)'
  BY <1>1, <1>2, <1>6 DEF VerdictDue
<1>7. QED
  BY <1>1, <1>3, <1>4, <1>5, <1>6

LEMMA JudgingPlaces ==
    ASSUME NEW s
    PROVE  /\ BeingJudged(s) <=> Queued(s) \/ AtWork(s) \/ VerdictDue(s)
           /\ BeingJudged(s)' <=> Queued(s)' \/ AtWork(s)' \/ VerdictDue(s)'
BY DEF BeingJudged, Queued, AtWork, VerdictDue, Range

LEMMA NoJobIsNoJob == NoJob \notin Job
<1>1. NoJob.tests = MaxVersion + 1 /\ \A j \in Job : j.tests \in 0..MaxVersion
  BY DEF NoJob, Job, Versions
<1>2. MaxVersion \in Nat
  BY RejudgeAssumption
<1>3. \A j \in Job : j.tests # NoJob.tests
  BY <1>1, <1>2
<1>4. QED
  BY <1>3

(***************************************************************************)
(* Types.                                                                  *)
(***************************************************************************)

(* Steps that are not about one submission.                                *)
LEMMA PlainTypes ==
    ASSUME TypeOK,
           \/ UploadTestcases \/ SaveTestcases
           \/ RejudgeRead \/ RejudgeList \/ RejudgeDone
    PROVE  TypeOK'
<1> USE RejudgeAssumption DEF TypeOK, requestVars, rejudgeVars, judgeVars, Versions, Between
<1>1. CASE UploadTestcases \/ SaveTestcases
  BY <1>1 DEF UploadTestcases, SaveTestcases
<1>2. CASE RejudgeRead
  BY <1>2 DEF RejudgeRead
<1>3. CASE RejudgeList
  BY <1>3 DEF RejudgeList, Present
<1>4. CASE RejudgeDone
  BY <1>4 DEF RejudgeDone, NoRejudge
<1>5. QED
  BY <1>1, <1>2, <1>3, <1>4

(* What a request of a contestant or of the problem's editor does.         *)
LEMMA RequestTypes ==
    ASSUME TypeOK, NEW s \in Submissions,
           ReadProblem(s) \/ Insert(s) \/ Enqueue(s) \/ EnqueueFails(s)
    PROVE  TypeOK'
<1> USE RejudgeAssumption DEF TypeOK, requestVars, rejudgeVars, judgeVars, Moves, Versions
<1>1. Append(jobs, [id |-> s, tests |-> read[s]]) \in Seq(Job)
  <2>1. [id |-> s, tests |-> read[s]] \in Job
    BY DEF Job
  <2>2. QED
    BY <2>1
<1>2. Pending \in Row
      /\ Absent \in Row
  BY DEF Pending, Absent, Unjudged, Row
<1>3. CASE ReadProblem(s)
  BY <1>3 DEF ReadProblem
<1>4. CASE Insert(s)
  BY <1>2, <1>4 DEF Insert
<1>5. CASE Enqueue(s)
  BY <1>1, <1>5 DEF Enqueue
<1>6. CASE EnqueueFails(s)
  <2>1. jobs' \in Seq(Job)
    BY <1>1, <1>6 DEF EnqueueFails
  <2>2. rows' = rows \/ rows' = [rows EXCEPT ![s] = Absent]
    BY <1>6 DEF EnqueueFails
  <2>3. rows' \in [Submissions ->
            Row]
    BY ONLY TypeOK, <1>2, <2>2 DEF TypeOK
  <2>4. /\ UNCHANGED <<tests, uploaded, read, working, file, results, rejudgeVars>>
        /\ faults < MaxFaults /\ faults' = faults + 1
        /\ request' = [request EXCEPT ![s] = "rejected"]
    BY <1>6 DEF EnqueueFails, Fault
  <2>5. faults' \in 0..MaxFaults
    BY <2>4
  <2>6. request' \in [Submissions -> {"new", "read", "inserted", "accepted", "rejected"}]
    BY <2>4
  <2>7. QED
    BY ONLY TypeOK, <2>1, <2>3, <2>4, <2>5, <2>6 DEF TypeOK, rejudgeVars
<1>7. QED
  BY <1>3, <1>4, <1>5, <1>6

LEMMA RejudgeTypes ==
    ASSUME TypeOK, NEW s \in Submissions,
           \/ RejudgeReset(s) \/ RejudgeNotFound(s) \/ RejudgeEnqueue(s) \/ RejudgeFails(s)
    PROVE  TypeOK'
<1> USE RejudgeAssumption DEF TypeOK, requestVars, rejudgeVars, judgeVars, Versions, Between
<1>1. Append(jobs, [id |-> s, tests |-> rejudge.tests]) \in Seq(Job)
  <2>1. [id |-> s, tests |-> rejudge.tests] \in Job
    BY DEF Job
  <2>2. QED
    BY <2>1
<1>2. Pending \in Row
  BY DEF Pending, Unjudged, Row
<1>3. NoRejudge \in [step : Between \cup Submissions, tests : Versions,
                     todo : SUBSET Submissions]
  BY DEF NoRejudge
<1>4. CASE RejudgeReset(s)
  BY <1>2, <1>4 DEF RejudgeReset
<1>5. CASE RejudgeNotFound(s)
  BY <1>3, <1>5 DEF RejudgeNotFound
<1>6. CASE RejudgeEnqueue(s)
  BY <1>1, <1>6 DEF RejudgeEnqueue
<1>7. CASE RejudgeFails(s)
  <2>1. jobs' \in Seq(Job) /\ abandoned' \subseteq Submissions
    BY <1>1, <1>7 DEF RejudgeFails
  <2> HIDE DEF TypeOK
  <2>2. rows' = rows \/ rows' = [rows EXCEPT ![s] = Pending]
    BY <1>7 DEF RejudgeFails
  <2>3. rows' \in [Submissions ->
            Row]
    BY ONLY TypeOK, <1>2, <2>2 DEF TypeOK
  <2>4. /\ UNCHANGED <<tests, uploaded, rejudges, promised, working, file, results,
                         requestVars>>
        /\ faults < MaxFaults /\ faults' = faults + 1 /\ rejudge' = NoRejudge
    BY <1>7 DEF RejudgeFails, Fault
  <2>5. faults' \in 0..MaxFaults
    BY <2>4 DEF TypeOK
  <2>6. QED
    BY ONLY TypeOK, <1>3, <2>1, <2>3, <2>4, <2>5 DEF TypeOK, requestVars
<1>8. QED
  BY <1>4, <1>5, <1>6, <1>7

LEMMA JudgeTypes ==
    ASSUME TypeOK, NEW w \in Workers, WorkerStep(w)
    PROVE  TypeOK'
<1> USE RejudgeAssumption DEF TypeOK, requestVars, rejudgeVars, judgeVars, Versions, Verdicts
<1>1. ASSUME NEW j \in Job, NEW v
      PROVE  Announcement(j) \in Results /\ Verdict(j, v) \in Results
  BY <1>1 DEF Announcement, Verdict, Results, Job
<1>2. results \in Seq(Results)
  BY DEF Results
<1>3. CASE StartJob(w)
  <2>1. Head(jobs) \in Job /\ Tail(jobs) \in Seq(Job)
    BY <1>3, TailPlaces DEF StartJob
  <2>2. results' \in Seq(Results)
    <3>1. PICK j \in Job : j = Head(jobs)
      BY <2>1
    <3>2. results' = Append(results, Announcement(j))
      BY <1>3, <3>1 DEF StartJob
    <3>3. QED
      BY ONLY <1>1, <1>2, <3>1, <3>2
  <2>3. QED
    BY <1>3, <2>1, <2>2 DEF StartJob, Results
<1>4. CASE FinishJob(w)
  <2>1. working[w] \in Job
    BY <1>4 DEF FinishJob
  <2>2. results' \in Seq(Results)
    <3>1. PICK j \in Job : j = working[w]
      BY <2>1
    <3>2. results' = Append(results, Verdict(j, file[w]))
      BY <1>4, <3>1 DEF FinishJob
    <3>3. QED
      BY ONLY <1>1, <1>2, <3>1, <3>2
  <2>3. QED
    BY <1>4, <2>2 DEF FinishJob, Results
<1>5. CASE Fetch(w)
  BY <1>5 DEF Fetch
<1>6. QED
  BY <1>3, <1>4, <1>5 DEF WorkerStep

LEMMA ApplyTypes ==
    ASSUME TypeOK, ApplyResult
    PROVE  TypeOK'
<1> USE RejudgeAssumption DEF TypeOK, requestVars, rejudgeVars, judgeVars, Versions, Verdicts
<1>1. results \in Seq(Results)
  BY DEF Results
<1> DEFINE m == Head(results)
<1>2. m \in Results /\ Tail(results) \in Seq(Results)
  BY <1>1, TailPlaces DEF ApplyResult
<1>3. RowOf(m) \in Row
  BY <1>2 DEF Results, RowOf, Row
<1>4. QED
  BY <1>2, <1>3 DEF ApplyResult, Results

(***************************************************************************)
(* What is judged stays judged.                                            *)
(***************************************************************************)

(* Why an accepted row may be without its verdict.                         *)
Covered(s) == BeingJudged(s) \/ rejudge.step = s \/ s \in abandoned

(* What a step gives s: a new row, a new promise, or its acceptance.       *)
News(s) == \/ rows'[s] # rows[s] \/ promised'[s] # promised[s]
           \/ request'[s] # request[s]

LEMMA QuietPlaces ==
    ASSUME UNCHANGED <<jobs, working, results>>, NEW s
    PROVE  /\ Queued(s)' <=> Queued(s)
           /\ AtWork(s)' <=> AtWork(s)
           /\ VerdictDue(s)' <=> VerdictDue(s)
           /\ BeingJudged(s)' <=> BeingJudged(s)
BY DEF Queued, AtWork, VerdictDue, BeingJudged, Range

LEMMA WorkPlaces ==
    ASSUME UNCHANGED working, NEW s
    PROVE  AtWork(s)' <=> AtWork(s)
BY DEF AtWork

LEMMA VerdictPlaces ==
    ASSUME UNCHANGED results, NEW s
    PROVE  /\ VerdictDue(s)' <=> VerdictDue(s)
           /\ \A k : VerdictAfter(k, s)' <=> VerdictAfter(k, s)
BY DEF VerdictDue, VerdictAfter

LEMMA JobPlaces ==
    ASSUME UNCHANGED jobs, NEW s
    PROVE  /\ Queued(s)' <=> Queued(s)
           /\ \A k : JobAfter(k, s)' <=> JobAfter(k, s)
BY DEF Queued, JobAfter

(* A worker takes the first job, which is announced.                       *)
LEMMA StartPlaces ==
    ASSUME TypeOK, NEW w \in Workers, StartJob(w), NEW j, j = Head(jobs)
    PROVE  /\ j \in Job /\ results \in Seq(Results)
           /\ Announcement(j) \in Results
           /\ \A s : AtWork(s) => AtWork(s)'
           /\ AtWork(j.id)'
           /\ \A s : BeingJudged(s) => BeingJudged(s)'
<1>1. jobs \in Seq(Job) /\ jobs # <<>> /\ jobs' = Tail(jobs)
      /\ working' = [working EXCEPT ![w] = j] /\ working[w] = NoJob
      /\ results \in Seq(Results)
      /\ results' = Append(results, Announcement(j))
      /\ working \in [Workers -> Job \cup {NoJob}]
  BY DEF StartJob, TypeOK, Results
<1>2. j \in Job /\ \A s : Queued(s) => Queued(s)' \/ s = j.id
  BY <1>1, JobsShrink
<1>3. Announcement(j) \in Results
  BY <1>2, RejudgeAssumption DEF Announcement, Results, Job, Verdicts, Versions
<1>4. \A s : VerdictDue(s) => VerdictDue(s)'
  BY ONLY <1>1, <1>3, ResultsGrow
<1>5. working'[w] = j /\ j # NoJob
      /\ \A v \in Workers : v # w => working'[v] = working[v]
  BY <1>1, <1>2, NoJobIsNoJob
<1>6. (\A s : AtWork(s) => AtWork(s)') /\ AtWork(j.id)'
  BY <1>1, <1>5 DEF AtWork
<1>7. ASSUME NEW s, BeingJudged(s) PROVE BeingJudged(s)'
  BY ONLY <1>2, <1>4, <1>6, <1>7, JudgingPlaces
<1>8. QED
  BY <1>1, <1>2, <1>3, <1>6, <1>7

(* A worker publishes the verdict of its job.                              *)
LEMMA FinishPlaces ==
    ASSUME TypeOK, NEW w \in Workers, FinishJob(w), NEW j, j = working[w]
    PROVE  /\ j \in Job /\ results \in Seq(Results)
           /\ Verdict(j, file[w]) \in Results
           /\ \A v \in Workers : working'[v] = working[v] \/ working'[v] = NoJob
           /\ \A s : AtWork(s) => AtWork(s)' \/ s = j.id
           /\ VerdictDue(j.id)'
           /\ \A s : BeingJudged(s) => BeingJudged(s)'
<1>1. j # NoJob /\ working' = [working EXCEPT ![w] = NoJob]
      /\ results \in Seq(Results)
      /\ results' = Append(results, Verdict(j, file[w]))
      /\ working \in [Workers -> Job \cup {NoJob}] /\ UNCHANGED jobs
  BY DEF FinishJob, TypeOK, Results
<1>2. j \in Job
  BY <1>1
<1>3. PICK m \in Results : m = Verdict(j, file[w]) /\ m.id = j.id /\ m.verdict = "JUDGED"
  <2>1. Verdict(j, file[w]) \in Results
    BY <1>2, RejudgeAssumption DEF Verdict, Results, Job, Verdicts, Versions
  <2>2. QED
    BY <2>1 DEF Verdict
<1>4. (\A s : VerdictDue(s) => VerdictDue(s)') /\ VerdictDue(j.id)'
  <2>1. (\A s : VerdictDue(s) => VerdictDue(s)') /\ VerdictDue(m.id)'
    BY ONLY <1>1, <1>3, ResultsGrow
  <2>2. QED
    BY ONLY <2>1, <1>3
<1>5. /\ \A v \in Workers : working'[v] = working[v] \/ working'[v] = NoJob
      /\ \A v \in Workers : v # w => working'[v] = working[v]
  BY <1>1
<1>6. \A s : AtWork(s) => AtWork(s)' \/ s = j.id
  BY <1>5 DEF AtWork
<1>7. ASSUME NEW s, BeingJudged(s) PROVE BeingJudged(s)'
  <2>1. Queued(s)' <=> Queued(s)
    BY ONLY <1>1, JobPlaces
  <2>2. QED
    BY ONLY <1>4, <1>6, <1>7, <2>1, JudgingPlaces
<1>8. QED
  BY <1>1, <1>2, <1>3, <1>4, <1>5, <1>6, <1>7

(* Who puts a job of s at the end of the queue covers s; the steps that    *)
(* add a job, or none.                                                     *)
LEMMA GrowPlaces ==
    ASSUME TypeOK, NEW j \in Job, jobs' \in {jobs, Append(jobs, j)},
           UNCHANGED <<working, results>>
    PROVE  /\ \A s : BeingJudged(s) => BeingJudged(s)'
           /\ jobs' = Append(jobs, j) => BeingJudged(j.id)'
<1>1. CASE jobs' = jobs
  <2>1. \A s : BeingJudged(s)' <=> BeingJudged(s)
    BY ONLY <1>1, QuietPlaces, UNCHANGED <<working, results>>
  <2>2. jobs \in Seq(Job)
    BY DEF TypeOK
  <2>3. jobs # Append(jobs, j)
    BY <2>2
  <2>4. QED
    BY <1>1, <2>1, <2>3
<1>2. CASE jobs' = Append(jobs, j)
  <2>1. (\A s : Queued(s) => Queued(s)') /\ Queued(j.id)'
    BY <1>2, JobsGrow DEF TypeOK
  <2>2. ASSUME NEW s PROVE (AtWork(s)' <=> AtWork(s)) /\ (VerdictDue(s)' <=> VerdictDue(s))
    BY ONLY WorkPlaces, VerdictPlaces, UNCHANGED <<working, results>>
  <2>3. QED
    BY ONLY <2>1, <2>2, JudgingPlaces
<1>3. QED
  BY <1>1, <1>2

(* Whoever is covered stays covered, and whoever has news is covered or    *)
(* not accepted yet, as long as no result is applied.                      *)
LEMMA RequestCovers ==
    ASSUME TypeOK, NEW t \in Submissions,
           \/ UploadTestcases \/ SaveTestcases \/ ReadProblem(t) \/ Insert(t)
           \/ Enqueue(t) \/ EnqueueFails(t),
           NEW s \in Submissions
    PROVE  /\ Covered(s) => Covered(s)'
           /\ News(s) => Covered(s)' \/ request'[s] # "accepted"
<1> USE DEF requestVars, rejudgeVars, judgeVars, Moves
<1>1. UNCHANGED <<rejudge, abandoned, promised, working, results>>
  BY DEF UploadTestcases, SaveTestcases, ReadProblem, Insert, Enqueue, EnqueueFails
<1>2. PICK j \in Job : j = [id |-> t, tests |-> read[t]] /\ j.id = t
  <2>1. [id |-> t, tests |-> read[t]] \in Job
    BY DEF TypeOK, Job
  <2>2. QED
    BY <2>1
<1>3. jobs' \in {jobs, Append(jobs, j)}
  BY <1>2 DEF UploadTestcases, SaveTestcases, ReadProblem, Insert, Enqueue, EnqueueFails
<1>4. /\ BeingJudged(s) => BeingJudged(s)'
      /\ jobs' = Append(jobs, j) => BeingJudged(j.id)'
  BY ONLY TypeOK, <1>1, <1>3, GrowPlaces
<1>5. Covered(s) => Covered(s)'
  BY ONLY <1>1, <1>4 DEF Covered
<1>6. News(s) => s = t /\ (request'[t] = "accepted" => jobs' = Append(jobs, j))
  BY <1>1, <1>2 DEF TypeOK, News, UploadTestcases, SaveTestcases, ReadProblem, Insert, Enqueue, EnqueueFails
<1>7. News(s) => BeingJudged(s)' \/ request'[s] # "accepted"
  BY ONLY <1>2, <1>4, <1>6
<1>8. QED
  BY ONLY <1>5, <1>7 DEF Covered

LEMMA RejudgeCovers ==
    ASSUME TypeOK, NEW t \in Submissions,
           \/ RejudgeRead \/ RejudgeList \/ RejudgeDone
           \/ RejudgeReset(t) \/ RejudgeNotFound(t) \/ RejudgeEnqueue(t) \/ RejudgeFails(t),
           NEW s \in Submissions
    PROVE  /\ Covered(s) => Covered(s)'
           /\ News(s) => Covered(s)'
<1> USE DEF requestVars, rejudgeVars, judgeVars
<1>1. UNCHANGED <<request, working, results>>
  BY DEF RejudgeRead, RejudgeList, RejudgeDone, RejudgeReset, RejudgeNotFound,
         RejudgeEnqueue, RejudgeFails
<1>2. PICK j \in Job : j = [id |-> t, tests |-> rejudge.tests] /\ j.id = t
  <2>1. [id |-> t, tests |-> rejudge.tests] \in Job
    BY DEF TypeOK, Job
  <2>2. QED
    BY <2>1
<1>3. s # "idle" /\ s # "read" /\ s # "reset"
  BY RejudgeAssumption DEF Between
<1>4. CASE RejudgeRead \/ RejudgeList \/ RejudgeDone \/ RejudgeNotFound(t)
  <2>1. UNCHANGED <<rows, promised, abandoned, jobs>> /\ rejudge.step # s
    BY <1>3, <1>4 DEF RejudgeRead, RejudgeList, RejudgeDone, RejudgeNotFound
  <2>2. BeingJudged(s)' <=> BeingJudged(s)
    BY ONLY <1>1, <2>1, QuietPlaces
  <2>3. QED
    BY ONLY <1>1, <2>1, <2>2 DEF Covered, News
<1>5. CASE RejudgeReset(t)
  <2>1. UNCHANGED <<promised, abandoned, jobs>> /\ rejudge.step # s
        /\ rows' = [rows EXCEPT ![t] = Pending] /\ rejudge'.step = t
    BY <1>3, <1>5 DEF RejudgeReset, TypeOK
  <2>2. BeingJudged(s)' <=> BeingJudged(s)
    BY ONLY <1>1, <2>1, QuietPlaces
  <2>3. News(s) => s = t
    BY ONLY TypeOK, <1>1, <2>1 DEF News, TypeOK
  <2>4. QED
    BY ONLY <1>1, <2>1, <2>2, <2>3 DEF Covered
<1>6. CASE RejudgeEnqueue(t)
  <2>1. /\ UNCHANGED rows /\ rejudge.step = t /\ jobs' = Append(jobs, j)
        /\ abandoned' = abandoned \ {t}
        /\ promised' = [promised EXCEPT
                ![t] = IF request[t] = "accepted" THEN rejudge.tests ELSE @]
    BY <1>2, <1>6 DEF RejudgeEnqueue
  <2>2. (BeingJudged(s) => BeingJudged(s)') /\ BeingJudged(j.id)'
    BY ONLY TypeOK, <1>1, <2>1, GrowPlaces
  <2>3. News(s) => s = t
    BY ONLY TypeOK, <1>1, <2>1 DEF News, TypeOK
  <2>4. QED
    BY ONLY <1>2, <2>1, <2>2, <2>3 DEF Covered
<1>7. CASE RejudgeFails(t)
  <2>1. /\ UNCHANGED promised /\ jobs' \in {jobs, Append(jobs, j)}
        /\ abandoned \subseteq abandoned'
        /\ rejudge.step = s => (jobs' = Append(jobs, j) /\ s = t) \/ s \in abandoned'
        /\ \/ rows' = rows
           \/ rows' = [rows EXCEPT ![t] = Pending] /\ t \in abandoned'
    <3>1. CASE rejudge.step = "reset"
      <4>1. t # "reset"
        BY RejudgeAssumption DEF Between
      <4>2. /\ UNCHANGED <<jobs, promised>>
            /\ \/ rows' = rows /\ abandoned' = abandoned
               \/ rows' = [rows EXCEPT ![t] = Pending] /\ abandoned' = abandoned \cup {t}
        BY <1>7, <3>1, <4>1 DEF RejudgeFails
      <4>3. QED
        BY ONLY <1>3, <3>1, <4>2
    <3>2. CASE rejudge.step # "reset"
      <4>1. rejudge.step = t /\ UNCHANGED <<rows, promised>>
            /\ \/ jobs' = Append(jobs, j) /\ abandoned' = abandoned
               \/ jobs' = jobs /\ abandoned' = abandoned \cup {t}
        BY <1>2, <1>7, <3>2 DEF RejudgeFails
      <4>2. QED
        BY ONLY <4>1
    <3>3. QED
      BY <3>1, <3>2
  <2>2. /\ BeingJudged(s) => BeingJudged(s)'
        /\ jobs' = Append(jobs, j) => BeingJudged(j.id)'
    BY ONLY TypeOK, <1>1, <2>1, GrowPlaces
  <2>3. News(s) => s = t /\ t \in abandoned'
    BY ONLY TypeOK, <1>1, <2>1 DEF News, TypeOK
  <2>4. QED
    BY ONLY <1>2, <2>1, <2>2, <2>3 DEF Covered
<1>8. QED
  BY <1>4, <1>5, <1>6, <1>7

LEMMA WorkerCovers ==
    ASSUME TypeOK, NEW w \in Workers, WorkerStep(w),
           NEW s \in Submissions
    PROVE  (Covered(s) => Covered(s)') /\ ~News(s)
<1>1. UNCHANGED <<rejudge, abandoned, rows, promised, request>>
  BY DEF WorkerStep, StartJob, Fetch, FinishJob, requestVars, rejudgeVars
<1>2. BeingJudged(s) => BeingJudged(s)'
  <2>0. CASE Fetch(w)
    <3>1. UNCHANGED <<jobs, working, results>>
      BY <2>0 DEF Fetch
    <3>2. QED
      BY ONLY <3>1, QuietPlaces
  <2>1. CASE StartJob(w)
    <3>1. PICK j : j = Head(jobs)
      OBVIOUS
    <3>2. QED
      BY ONLY TypeOK, <2>1, <3>1, StartPlaces
  <2>2. CASE FinishJob(w)
    <3>1. PICK j : j = working[w]
      OBVIOUS
    <3>2. QED
      BY ONLY TypeOK, <2>2, <3>1, FinishPlaces
  <2>3. QED
    BY <2>0, <2>1, <2>2 DEF WorkerStep
<1>3. QED
  BY ONLY <1>1, <1>2 DEF Covered, News

LEMMA StepCovers ==
    ASSUME TypeOK, Next, ~ApplyResult, NEW s \in Submissions
    PROVE  /\ Covered(s) => Covered(s)'
           /\ News(s) => Covered(s)' \/ request'[s] # "accepted"
<1>1. CASE \/ UploadTestcases \/ SaveTestcases
           \/ \E t \in Submissions :
                  ReadProblem(t) \/ Insert(t) \/ Enqueue(t) \/ EnqueueFails(t)
  BY ONLY TypeOK, <1>1, RequestCovers, s \in Submissions
<1>2. CASE \/ RejudgeRead \/ RejudgeList \/ RejudgeDone
           \/ \E t \in Submissions :
                  \/ RejudgeReset(t) \/ RejudgeNotFound(t)
                  \/ RejudgeEnqueue(t) \/ RejudgeFails(t)
  BY ONLY TypeOK, <1>2, RejudgeCovers, s \in Submissions
<1>3. CASE \E w \in Workers : WorkerStep(w)
  BY ONLY TypeOK, <1>3, WorkerCovers, s \in Submissions
<1>4. QED
  BY <1>1, <1>2, <1>3 DEF Next

(* The result m is applied: the others are left alone, an announcement is  *)
(* still to be followed by its verdict, and a verdict reaches a row that   *)
(* is there.                                                               *)
LEMMA ApplyCovers ==
    ASSUME TypeOK, Stored, Announced, ApplyResult, NEW m, m = Head(results),
           NEW s \in Submissions
    PROVE  /\ m \in Results
           /\ s # m.id => rows'[s] = rows[s] /\ (Covered(s) => Covered(s)')
           /\ s = m.id /\ m.verdict = "JUDGING" => Covered(s)'
           /\ s = m.id /\ m.verdict = "JUDGED" /\ request[s] = "accepted" =>
                  rows'[s].verdict = "JUDGED" /\ rows'[s].tests = m.tests
           /\ VerdictAfter(1, s) \/ AtWork(s) \/ Queued(s) => Covered(s)'
<1>1. /\ results \in Seq(Results) /\ results # <<>> /\ results' = Tail(results)
      /\ UNCHANGED <<rejudge, abandoned, promised, request, jobs, working>>
  BY DEF TypeOK, ApplyResult, Results, requestVars, rejudgeVars
<1>2. /\ m \in Results /\ m = results[1] /\ 1 \in DOMAIN results
      /\ \A i : VerdictDue(i) => VerdictDue(i)' \/ (i = m.id /\ m.verdict = "JUDGED")
      /\ VerdictAfter(1, s) => VerdictDue(s)'
  <2>1. Head(results) \in Results /\ Head(results) = results[1] /\ 1 \in DOMAIN results
    BY ONLY <1>1, ResultsShrink
  <2>2. \A i : VerdictDue(i) => \/ VerdictDue(i)'
                                \/ i = Head(results).id /\ Head(results).verdict = "JUDGED"
    BY ONLY <1>1, ResultsShrink
  <2>3. VerdictAfter(1, s) => VerdictDue(s)'
    BY ONLY <1>1, ResultsShrink
  <2>4. QED
    BY ONLY <2>1, <2>2, <2>3, m = Head(results)
<1>3. (Queued(s)' <=> Queued(s)) /\ (AtWork(s)' <=> AtWork(s))
  BY ONLY <1>1, JobPlaces, WorkPlaces
<1>4. VerdictAfter(1, s) \/ AtWork(s) \/ Queued(s) => Covered(s)'
  BY ONLY <1>2, <1>3, JudgingPlaces DEF Covered
<1>5. s # m.id /\ Covered(s) => Covered(s)'
  BY ONLY <1>1, <1>2, <1>3, JudgingPlaces DEF Covered
<1>6. s = m.id /\ m.verdict = "JUDGING" => AtWork(s) \/ VerdictAfter(1, s)
  BY ONLY Announced, <1>2 DEF Announced
<1>7. rows' = IF m.id \in Present
              THEN [rows EXCEPT ![m.id] = RowOf(m)]
              ELSE rows
  BY m = Head(results) DEF ApplyResult
<1>8. s # m.id => rows'[s] = rows[s]
  BY ONLY <1>7, TypeOK DEF TypeOK
<1>9. s = m.id /\ m.verdict = "JUDGED" /\ request[s] = "accepted" =>
          rows'[s].verdict = "JUDGED" /\ rows'[s].tests = m.tests
  <2>1. s = m.id /\ request[s] = "accepted" => m.id \in Present
    BY ONLY Stored, s \in Submissions DEF Stored, Present
  <2>2. QED
    BY ONLY <1>7, <2>1, TypeOK, s \in Submissions DEF TypeOK, RowOf
<1>10. QED
  BY ONLY <1>2, <1>4, <1>5, <1>6, <1>8, <1>9

LEMMA StoredStep ==
    ASSUME TypeOK, Stored, Next
    PROVE  Stored'
<1> SUFFICES ASSUME NEW s \in Submissions, request'[s] \in {"inserted", "accepted"}
             PROVE  rows'[s] # Absent
  BY DEF Stored
<1> USE DEF requestVars, rejudgeVars, judgeVars, Moves
<1>1. Pending # Absent /\ (request[s] \in {"inserted", "accepted"} => rows[s] # Absent)
  BY DEF Pending, Absent, Unjudged, Stored
<1>2. ASSUME NEW t \in Submissions,
             ReadProblem(t) \/ Insert(t) \/ Enqueue(t) \/ EnqueueFails(t)
      PROVE  rows'[s] # Absent
  <2>1. CASE ReadProblem(t) \/ Enqueue(t)
    BY <1>1, <2>1 DEF ReadProblem, Enqueue, TypeOK
  <2>2. CASE Insert(t)
    BY <1>1, <2>2 DEF Insert, TypeOK
  <2>3. CASE EnqueueFails(t)
    <3>1. /\ request' = [request EXCEPT ![t] = "rejected"]
          /\ rows' = rows \/ rows' = [rows EXCEPT ![t] = Absent]
      BY <2>3 DEF EnqueueFails
    <3>2. s # t /\ request'[s] = request[s]
      BY <3>1 DEF TypeOK
    <3>3. QED
      BY <1>1, <3>1, <3>2 DEF TypeOK
  <2>4. QED
    BY <1>2, <2>1, <2>2, <2>3
<1>3. ASSUME NEW t \in Submissions,
             \/ RejudgeReset(t) \/ RejudgeNotFound(t)
             \/ RejudgeEnqueue(t) \/ RejudgeFails(t)
      PROVE  rows'[s] # Absent
  <2>1. /\ UNCHANGED request
        /\ rows' = rows \/ rows' = [rows EXCEPT ![t] = Pending]
    BY <1>3 DEF RejudgeReset, RejudgeNotFound, RejudgeEnqueue, RejudgeFails
  <2>2. QED
    BY <1>1, <2>1 DEF TypeOK
<1>4. CASE ApplyResult
  <2>1. PICK m : m = Head(results)
    OBVIOUS
  <2>2. /\ UNCHANGED request
        /\ \/ rows' = rows
           \/ rows' = [rows EXCEPT ![m.id] = RowOf(m)]
    BY <1>4, <2>1 DEF ApplyResult
  <2>3. m.verdict # "ABSENT"
    <3>1. results \in Seq(Results) /\ results # <<>>
      BY <1>4 DEF ApplyResult, TypeOK, Results
    <3>2. m \in Results
      BY ONLY <3>1, <2>1, TailPlaces
    <3>3. QED
      BY <3>2 DEF Results, Verdicts
  <2>4. QED
    BY <1>1, <2>2, <2>3 DEF TypeOK, Absent, Unjudged, RowOf
<1>5. CASE \/ UploadTestcases \/ SaveTestcases \/ RejudgeRead \/ RejudgeList \/ RejudgeDone
           \/ \E w \in Workers : WorkerStep(w)
  BY <1>1, <1>5 DEF UploadTestcases, SaveTestcases, RejudgeRead, RejudgeList, RejudgeDone,
                    WorkerStep, StartJob, Fetch, FinishJob
<1>6. QED
  BY <1>2, <1>3, <1>4, <1>5 DEF Next

LEMMA AnnouncedStep ==
    ASSUME TypeOK, Announced, Next
    PROVE  Announced'
<1> SUFFICES ASSUME NEW k \in DOMAIN results', NEW i, i = results'[k].id,
                    results'[k].verdict = "JUDGING"
             PROVE  AtWork(i)' \/ VerdictAfter(k, i)'
  <2>1. \A k \in DOMAIN results' : \A i :
            i = results'[k].id /\ results'[k].verdict = "JUDGING" =>
                AtWork(i)' \/ VerdictAfter(k, i)'
    OBVIOUS
  <2>2. (\A k \in DOMAIN results :
            results[k].verdict = "JUDGING" => AtWork(results[k].id) \/ VerdictAfter(k, results[k].id))'
    BY <2>1 DEF AtWork, VerdictAfter
  <2>3. QED
    BY <2>2 DEF Announced
<1>1. ASSUME UNCHANGED <<working, results>>
      PROVE  AtWork(i)' \/ VerdictAfter(k, i)'
  <2>1. AtWork(i) \/ VerdictAfter(k, i)
    BY <1>1 DEF Announced
  <2>2. QED
    BY ONLY <1>1, <2>1, WorkPlaces, VerdictPlaces
<1>2. ASSUME NEW w \in Workers, StartJob(w)
      PROVE  AtWork(i)' \/ VerdictAfter(k, i)'
  <2>1. PICK j : j = Head(jobs)
    OBVIOUS
  <2>2. /\ results \in Seq(Results) /\ Announcement(j) \in Results
        /\ (\A s : AtWork(s) => AtWork(s)') /\ AtWork(j.id)'
    BY ONLY TypeOK, <1>2, <2>1, StartPlaces
  <2>3. results' = Append(results, Announcement(j))
    BY <1>2, <2>1 DEF StartJob
  <2>4. CASE results'[k] = Announcement(j)
    <3>1. i = j.id
      BY <2>4 DEF Announcement
    <3>2. QED
      BY ONLY <2>2, <3>1
  <2>5. CASE k \in DOMAIN results /\ results'[k] = results[k]
    <3>1. AtWork(i) \/ VerdictAfter(k, i)
      BY <2>5 DEF Announced
    <3>2. VerdictAfter(k, i) => VerdictAfter(k, i)'
      BY ONLY <2>2, <2>3, <2>5, ResultsGrow
    <3>3. QED
      BY ONLY <2>2, <3>1, <3>2
  <2>6. QED
    BY ONLY <2>2, <2>3, <2>4, <2>5, ResultsGrow, k \in DOMAIN results'
<1>3. ASSUME NEW w \in Workers, FinishJob(w)
      PROVE  AtWork(i)' \/ VerdictAfter(k, i)'
  <2>1. PICK j : j = working[w]
    OBVIOUS
  <2>2. /\ results \in Seq(Results) /\ Verdict(j, file[w]) \in Results
        /\ \A s : AtWork(s) => AtWork(s)' \/ s = j.id
    BY ONLY TypeOK, <1>3, <2>1, FinishPlaces
  <2>3. results' = Append(results, Verdict(j, file[w]))
    BY <1>3, <2>1 DEF FinishJob
  <2>4. results'[k] # Verdict(j, file[w])
    BY DEF Verdict
  <2>5. k \in DOMAIN results /\ results'[k] = results[k]
    BY ONLY <2>2, <2>3, <2>4, ResultsGrow, k \in DOMAIN results'
  <2>6. AtWork(i) \/ VerdictAfter(k, i)
    BY <2>5 DEF Announced
  <2>7. PICK m \in Results : m = Verdict(j, file[w]) /\ m.id = j.id /\ m.verdict = "JUDGED"
    BY <2>2 DEF Verdict
  <2>8. VerdictAfter(k, m.id)' /\ (VerdictAfter(k, i) => VerdictAfter(k, i)')
    BY ONLY <2>2, <2>3, <2>5, <2>7, ResultsGrow
  <2>9. QED
    BY ONLY <2>2, <2>6, <2>7, <2>8
<1>4. CASE ApplyResult
  <2>1. /\ results \in Seq(Results) /\ results # <<>> /\ results' = Tail(results)
        /\ UNCHANGED working
    BY <1>4 DEF TypeOK, ApplyResult, Results
  <2>2. /\ k + 1 \in DOMAIN results /\ results'[k] = results[k + 1]
        /\ VerdictAfter(k + 1, i) => VerdictAfter(k, i)'
    BY ONLY <2>1, ResultsShrink, k \in DOMAIN results'
  <2>3. AtWork(i) \/ VerdictAfter(k + 1, i)
    BY <2>2 DEF Announced
  <2>4. QED
    BY ONLY <2>1, <2>2, <2>3, WorkPlaces
<1>5. QED
  <2>1. \/ UNCHANGED <<working, results>>
        \/ \E w \in Workers : StartJob(w) \/ FinishJob(w)
        \/ ApplyResult
    BY DEF Next, UploadTestcases, SaveTestcases, ReadProblem, Insert, Enqueue, EnqueueFails,
           RejudgeRead, RejudgeList, RejudgeDone, RejudgeReset, RejudgeNotFound,
           RejudgeEnqueue, RejudgeFails, WorkerStep, Fetch, judgeVars
  <2>2. QED
    BY <1>1, <1>2, <1>3, <1>4, <2>1

LEMMA JudgedStep ==
    ASSUME TypeOK, Stored, Announced, ResetIsJudged, Next
    PROVE  ResetIsJudged'
<1> SUFFICES ASSUME NEW s \in Submissions,
                    request'[s] = "accepted", rows'[s].verdict # "JUDGED"
             PROVE  Covered(s)'
  BY DEF ResetIsJudged, Covered, BeingJudged, Range
<1>1. request[s] = "accepted" /\ rows[s].verdict # "JUDGED" => Covered(s)
  BY DEF ResetIsJudged, Covered
<1>2. CASE ~ApplyResult
  <2>1. /\ Covered(s) => Covered(s)'
        /\ News(s) => Covered(s)' \/ request'[s] # "accepted"
    BY ONLY TypeOK, Next, <1>2, StepCovers, s \in Submissions
  <2>2. ~News(s) => request[s] = "accepted" /\ rows[s].verdict # "JUDGED"
    BY DEF News
  <2>3. QED
    BY <1>1, <2>1, <2>2
<1>3. CASE ApplyResult
  <2>1. PICK m : m = Head(results)
    OBVIOUS
  <2>2. request' = request
    BY <1>3 DEF ApplyResult, requestVars
  <2>3. /\ m \in Results
        /\ s # m.id => rows'[s] = rows[s] /\ (Covered(s) => Covered(s)')
        /\ s = m.id /\ m.verdict = "JUDGING" => Covered(s)'
        /\ s = m.id /\ m.verdict = "JUDGED" /\ request[s] = "accepted" =>
              rows'[s].verdict = "JUDGED" /\ rows'[s].tests = m.tests
    BY ONLY TypeOK, Stored, Announced, <1>3, <2>1, ApplyCovers, s \in Submissions
  <2>4. m.verdict \in {"JUDGING", "JUDGED"}
    BY <2>3 DEF Results, Verdicts
  <2>5. QED
    BY <1>1, <2>2, <2>3, <2>4
<1>4. QED
  BY <1>2, <1>3

LEMMA NextTypes ==
    ASSUME TypeOK, Next
    PROVE  TypeOK'
<1>1. CASE UploadTestcases \/ SaveTestcases \/ RejudgeRead \/ RejudgeList \/ RejudgeDone
  BY ONLY TypeOK, <1>1, PlainTypes
<1>2. ASSUME NEW s \in Submissions,
             ReadProblem(s) \/ Insert(s) \/ Enqueue(s) \/ EnqueueFails(s)
      PROVE  TypeOK'
  BY ONLY TypeOK, <1>2, RequestTypes
<1>3. ASSUME NEW s \in Submissions,
             \/ RejudgeReset(s) \/ RejudgeNotFound(s)
             \/ RejudgeEnqueue(s) \/ RejudgeFails(s)
      PROVE  TypeOK'
  BY ONLY TypeOK, <1>3, RejudgeTypes
<1>4. ASSUME NEW w \in Workers, WorkerStep(w)
      PROVE  TypeOK'
  BY ONLY TypeOK, <1>4, JudgeTypes
<1>5. CASE ApplyResult
  BY ONLY TypeOK, <1>5, ApplyTypes
<1>6. QED
  BY <1>1, <1>2, <1>3, <1>4, <1>5 DEF Next

LEMMA InitJudged == Init => JudgedInv
<1> SUFFICES ASSUME Init PROVE JudgedInv
  OBVIOUS
<1> USE RejudgeAssumption DEF Init
<1>1. TypeOK
  <2>1. 0 \in Versions /\ 0 \in 0..MaxRejudges /\ 0 \in 0..MaxFaults
    BY DEF Versions
  <2>2. Absent \in Row
    BY <2>1 DEF Absent, Unjudged, Row
  <2>3. NoRejudge \in [step : Between \cup Submissions, tests : Versions,
                       todo : SUBSET Submissions]
    BY <2>1 DEF NoRejudge, Between
  <2>4. jobs \in Seq(Job)
        /\ results \in Seq([id : Submissions, verdict : Verdicts, tests : Versions,
                           behind : BOOLEAN])
    OBVIOUS
  <2>5. QED
    BY ONLY Init, <2>1, <2>2, <2>3, <2>4 DEF Init, TypeOK
<1>2. Stored /\ Announced /\ ResetIsJudged
  BY DEF Stored, Announced, ResetIsJudged
<1>3. QED
  BY <1>1, <1>2 DEF JudgedInv

LEMMA NextJudged == JudgedInv /\ [Next]_vars => JudgedInv'
<1>1. ASSUME JudgedInv, Next PROVE JudgedInv'
  <2>1. TypeOK /\ Stored /\ Announced /\ ResetIsJudged
    BY <1>1 DEF JudgedInv
  <2>2. TypeOK' /\ Stored' /\ Announced' /\ ResetIsJudged'
    BY ONLY <1>1, <2>1, NextTypes, StoredStep, AnnouncedStep, JudgedStep
  <2>3. QED
    BY <2>2 DEF JudgedInv
<1>2. ASSUME JudgedInv, UNCHANGED vars PROVE JudgedInv'
  BY <1>2 DEF JudgedInv, TypeOK, Stored, Announced, ResetIsJudged, BeingJudged, AtWork,
              VerdictAfter, vars, requestVars, rejudgeVars, judgeVars, Range
<1>3. QED
  BY <1>1, <1>2

LEMMA AlwaysJudgedInv == Spec => []JudgedInv
BY InitJudged, NextJudged, PTL DEF Spec

(* Every variable of a contest problem's submissions and of its rejudge    *)
(* keeps its type, whatever fails.                                         *)
THEOREM RejudgeTypeOK == Spec => []TypeOK
<1>1. JudgedInv => TypeOK
  BY DEF JudgedInv
<1>2. QED
  BY <1>1, AlwaysJudgedInv, PTL

(* RejudgeContestProblem and CreateContestSubmission with any number of    *)
(* workers: an accepted submission without a verdict is queued, at work,   *)
(* reported, or held by a rejudge that runs or died.                       *)
THEOREM NobodyIsForgotten == Spec => []ResetIsJudged
<1>1. JudgedInv => ResetIsJudged
  BY DEF JudgedInv
<1>2. QED
  BY <1>1, AlwaysJudgedInv, PTL

(***************************************************************************)
(* One worker: the last rejudge takes effect.                              *)
(***************************************************************************)

(* A job with testcases as new as anything promised to its submission is   *)
(* put at the end of the queue; promises to others stay.                   *)
Grown(j) ==
    /\ jobs' = Append(jobs, j) /\ UNCHANGED <<working, results>>
    /\ j.tests >= promised'[j.id]
    /\ \A s \in Submissions : s # j.id => promised'[s] = promised[s]

LEMMA EffectCases ==
    ASSUME TypeOK, PromisesRead, Next
    PROVE  \/ UNCHANGED <<jobs, working, results, promised>>
           \/ \E j \in Job : Grown(j)
           \/ /\ \E w \in Workers : StartJob(w) \/ FinishJob(w)
              /\ UNCHANGED promised
           \/ ApplyResult /\ UNCHANGED promised
<1> USE DEF requestVars, rejudgeVars, judgeVars, Moves
<1>1. CASE \/ UploadTestcases \/ SaveTestcases \/ RejudgeRead \/ RejudgeList \/ RejudgeDone
           \/ \E s \in Submissions :
                  ReadProblem(s) \/ Insert(s) \/ RejudgeReset(s) \/ RejudgeNotFound(s)
           \/ \E w \in Workers : Fetch(w)
  BY <1>1 DEF UploadTestcases, SaveTestcases, RejudgeRead, RejudgeList, RejudgeDone,
              ReadProblem, Insert, RejudgeReset, RejudgeNotFound, Fetch
<1>2. ASSUME NEW s \in Submissions, Enqueue(s) \/ EnqueueFails(s)
      PROVE  \/ UNCHANGED <<jobs, working, results, promised>>
             \/ \E j \in Job : Grown(j)
  <2> DEFINE j == [id |-> s, tests |-> read[s]]
  <2>1. j \in Job /\ j.id = s /\ j.tests \in Nat
    BY RejudgeAssumption DEF TypeOK, Job, Versions
  <2>2. /\ UNCHANGED <<working, results, promised>> /\ request[s] = "inserted"
        /\ jobs' \in {jobs, Append(jobs, j)}
    BY <1>2 DEF Enqueue, EnqueueFails
  <2>3. promised'[s] = 0
    BY <2>2 DEF PromisesRead
  <2>4. jobs' = Append(jobs, j) => Grown(j)
    BY <2>1, <2>2, <2>3 DEF Grown
  <2>5. QED
    BY ONLY <2>1, <2>2, <2>4
<1>3. ASSUME NEW s \in Submissions, RejudgeEnqueue(s) \/ RejudgeFails(s)
      PROVE  \/ UNCHANGED <<jobs, working, results, promised>>
             \/ \E j \in Job : Grown(j)
  <2> DEFINE j == [id |-> s, tests |-> rejudge.tests]
  <2>1. /\ j \in Job /\ j.id = s /\ j.tests \in Nat /\ rejudge.tests \in Nat
        /\ promised[s] \in Nat
    BY RejudgeAssumption DEF TypeOK, Job, Versions
  <2>2. s # "idle" /\ s # "reset"
    BY RejudgeAssumption DEF Between
  <2>3. UNCHANGED <<working, results>>
    BY <1>3 DEF RejudgeEnqueue, RejudgeFails
  <2>4. CASE RejudgeEnqueue(s)
    <3>1. /\ jobs' = Append(jobs, j) /\ rejudge.step = s
          /\ promised' = [promised EXCEPT
                  ![s] = IF request[s] = "accepted" THEN rejudge.tests ELSE @]
      BY <2>4 DEF RejudgeEnqueue
    <3>2. /\ promised'[s] = rejudge.tests \/ promised'[s] = promised[s]
          /\ \A t \in Submissions : t # s => promised'[t] = promised[t]
      BY <3>1 DEF TypeOK
    <3>3. promised[s] <= rejudge.tests
      BY <2>2, <3>1 DEF PromisesRead
    <3>4. QED
      BY <2>1, <2>3, <3>1, <3>2, <3>3 DEF Grown
  <2>5. CASE RejudgeFails(s)
    <3>1. UNCHANGED promised
          /\ (UNCHANGED jobs \/ (jobs' = Append(jobs, j) /\ rejudge.step = s))
      BY <2>5 DEF RejudgeFails
    <3>2. rejudge.step = s => promised[s] <= rejudge.tests
      BY <2>2 DEF PromisesRead
    <3>3. QED
      BY <2>1, <2>3, <3>1, <3>2 DEF Grown
  <2>6. QED
    BY <1>3, <2>4, <2>5
<1>4. CASE \E w \in Workers : StartJob(w) \/ FinishJob(w)
  BY <1>4 DEF StartJob, FinishJob
<1>5. CASE ApplyResult
  BY <1>5 DEF ApplyResult
<1>6. QED
  BY <1>1, <1>2, <1>3, <1>4, <1>5 DEF Next, WorkerStep

LEMMA PromisesStep ==
    ASSUME TypeOK, PromisesRead, Next
    PROVE  PromisesRead'
<1> USE RejudgeAssumption DEF requestVars, rejudgeVars, judgeVars, Moves, Versions
<1>1. /\ tests \in Nat /\ uploaded \in Nat /\ rejudge.tests \in Nat
      /\ \A s \in Submissions : promised[s] \in Nat
  BY DEF TypeOK
<1>2. CASE UNCHANGED <<rejudge, promised>>
  <2>1. tests' \in Nat /\ tests <= tests'
    <3>1. tests' = tests \/ (tests < uploaded /\ tests' = uploaded)
      BY <1>2 DEF Next, UploadTestcases, SaveTestcases, ReadProblem, Insert, Enqueue,
                  EnqueueFails, RejudgeRead, RejudgeList, RejudgeDone, RejudgeReset,
                  RejudgeNotFound, RejudgeEnqueue, RejudgeFails, WorkerStep, StartJob,
                  Fetch, FinishJob, ApplyResult
    <3>2. QED
      BY ONLY <1>1, <3>1
  <2>2. \A s \in Submissions : request'[s] # "accepted" => request[s] # "accepted"
    BY <1>2 DEF TypeOK, Next, UploadTestcases, SaveTestcases, ReadProblem, Insert, Enqueue, EnqueueFails,
                RejudgeRead, RejudgeList, RejudgeDone, RejudgeReset, RejudgeNotFound,
                RejudgeEnqueue, RejudgeFails, WorkerStep, StartJob, Fetch, FinishJob,
                ApplyResult
  <2>3. QED
    BY <1>1, <1>2, <2>1, <2>2 DEF PromisesRead
<1>3. CASE RejudgeRead
  BY <1>1, <1>3 DEF RejudgeRead, PromisesRead
<1>4. CASE RejudgeList \/ RejudgeDone
  <2>1. /\ UNCHANGED <<tests, promised, request>>
        /\ \/ rejudge'.step = "idle" /\ rejudge'.tests = 0
           \/ rejudge.step # "idle" /\ rejudge'.tests = rejudge.tests
    <3>1. CASE RejudgeList
      BY <3>1 DEF RejudgeList, TypeOK
    <3>2. CASE RejudgeDone
      BY <3>2 DEF RejudgeDone, NoRejudge
    <3>3. QED
      BY <1>4, <3>1, <3>2
  <2>2. QED
    BY ONLY <1>1, <2>1, PromisesRead DEF PromisesRead
<1>5. ASSUME NEW s \in Submissions,
             \/ RejudgeReset(s) \/ RejudgeNotFound(s)
             \/ RejudgeEnqueue(s) \/ RejudgeFails(s)
      PROVE  PromisesRead'
  <2>1. UNCHANGED <<tests, request>>
    BY <1>5 DEF RejudgeReset, RejudgeNotFound, RejudgeEnqueue, RejudgeFails
  <2>2. CASE RejudgeReset(s)
    BY <1>1, <2>1, <2>2 DEF RejudgeReset, PromisesRead, TypeOK
  <2>3. CASE RejudgeNotFound(s) \/ RejudgeFails(s)
    <3>1. UNCHANGED promised /\ rejudge' = NoRejudge
      BY <2>3 DEF RejudgeNotFound, RejudgeFails
    <3>2. QED
      BY <1>1, <2>1, <3>1 DEF PromisesRead, NoRejudge
  <2>4. CASE RejudgeEnqueue(s)
    <3>1. /\ rejudge.step = s /\ rejudge'.tests = rejudge.tests
          /\ promised' = [promised EXCEPT
                  ![s] = IF request[s] = "accepted" THEN rejudge.tests ELSE @]
      BY <2>4 DEF RejudgeEnqueue, TypeOK
    <3>2. s # "idle"
      BY DEF Between
    <3>3. \A t \in Submissions :
              \/ promised'[t] = promised[t]
              \/ promised'[t] = rejudge.tests /\ request[t] = "accepted"
      BY <3>1 DEF TypeOK
    <3>4. QED
      BY ONLY <1>1, <2>1, <3>1, <3>2, <3>3, PromisesRead DEF PromisesRead
  <2>5. QED
    BY <1>5, <2>2, <2>3, <2>4
<1>6. QED
  <2>1. \/ UNCHANGED <<rejudge, promised>>
        \/ RejudgeRead \/ RejudgeList \/ RejudgeDone
        \/ \E s \in Submissions :
               \/ RejudgeReset(s) \/ RejudgeNotFound(s)
               \/ RejudgeEnqueue(s) \/ RejudgeFails(s)
    BY DEF Next, UploadTestcases, SaveTestcases, ReadProblem, Insert, Enqueue, EnqueueFails,
           WorkerStep, StartJob, Fetch, FinishJob, ApplyResult
  <2>2. QED
    BY <1>2, <1>3, <1>4, <1>5, <2>1

(* What an appended job does to what is outdated.                          *)
LEMMA GrownPlaces ==
    ASSUME TypeOK, TypeOK', NEW j \in Job, Grown(j)
    PROVE  /\ ~Outdated(j)'
           /\ Queued(j.id)' /\ \A s : Queued(s) => Queued(s)'
           /\ \A k \in DOMAIN jobs : JobAfter(k, j.id)'
           /\ \A k \in DOMAIN jobs : \A s : JobAfter(k, s) => JobAfter(k, s)'
           /\ \A k \in DOMAIN jobs' : \/ jobs'[k] = j
                                      \/ k \in DOMAIN jobs /\ jobs'[k] = jobs[k]
           /\ \A x : x.id \in Submissions /\ x.id # j.id => (Outdated(x)' <=> Outdated(x))
<1>1. jobs \in Seq(Job) /\ jobs' = Append(jobs, j)
  BY DEF TypeOK, Grown
<1>2. /\ Queued(j.id)' /\ \A s : Queued(s) => Queued(s)'
      /\ \A k \in DOMAIN jobs : JobAfter(k, j.id)'
      /\ \A k \in DOMAIN jobs : \A s : JobAfter(k, s) => JobAfter(k, s)'
      /\ \A k \in DOMAIN jobs' : \/ jobs'[k] = j
                                 \/ k \in DOMAIN jobs /\ jobs'[k] = jobs[k]
  BY ONLY <1>1, JobsGrow
<1>3. ~Outdated(j)'
  <2>1. j.tests \in Nat /\ j.id \in Submissions
    BY RejudgeAssumption DEF Job, Versions
  <2>2. promised'[j.id] <= j.tests /\ promised'[j.id] \in Nat
    BY <2>1, RejudgeAssumption DEF Grown, TypeOK, Versions
  <2>3. QED
    BY <2>1, <2>2 DEF Outdated
<1>4. \A x : x.id \in Submissions /\ x.id # j.id => (Outdated(x)' <=> Outdated(x))
  BY DEF Grown, Outdated
<1>5. QED
  BY ONLY <1>2, <1>3, <1>4

LEMMA JobsFollowedStep ==
    ASSUME TypeOK, TypeOK', PromisesRead, JobsFollowed, Next
    PROVE  JobsFollowed'
<1> SUFFICES ASSUME NEW k \in DOMAIN jobs', NEW x, x = jobs'[k], Outdated(x)'
             PROVE  JobAfter(k, x.id)'
  <2>1. (\A k \in DOMAIN jobs : Outdated(jobs[k]) => JobAfter(k, jobs[k].id))'
    BY DEF Outdated, JobAfter
  <2>2. QED
    BY <2>1 DEF JobsFollowed
<1>1. \A l \in DOMAIN jobs : x = jobs[l] /\ Outdated(x) => JobAfter(l, x.id)
  BY DEF JobsFollowed, Outdated, JobAfter
<1>2. x.id \in Submissions
  <2>1. jobs' \in Seq(Job)
    BY DEF TypeOK
  <2>2. x \in Job
    BY ONLY <2>1, x = jobs'[k], k \in DOMAIN jobs'
  <2>3. QED
    BY <2>2 DEF Job
<1>3. CASE UNCHANGED <<jobs, promised>>
  BY ONLY <1>1, <1>3, JobPlaces, x = jobs'[k], k \in DOMAIN jobs', Outdated(x)' DEF Outdated
<1>4. ASSUME NEW j \in Job, Grown(j)
      PROVE  JobAfter(k, x.id)'
  <2>1. /\ ~Outdated(j)'
        /\ \A l \in DOMAIN jobs : JobAfter(l, j.id)'
        /\ \A l \in DOMAIN jobs : \A s : JobAfter(l, s) => JobAfter(l, s)'
        /\ \A l \in DOMAIN jobs' : \/ jobs'[l] = j
                                   \/ l \in DOMAIN jobs /\ jobs'[l] = jobs[l]
        /\ x.id \in Submissions /\ x.id # j.id => (Outdated(x)' <=> Outdated(x))
    BY ONLY TypeOK, TypeOK', <1>4, GrownPlaces
  <2>2. k \in DOMAIN jobs /\ x = jobs[k]
    BY ONLY <2>1, x = jobs'[k], k \in DOMAIN jobs', Outdated(x)' DEF Outdated
  <2>3. CASE x.id = j.id
    BY ONLY <2>1, <2>2, <2>3
  <2>4. CASE x.id # j.id
    BY ONLY <1>1, <1>2, <2>1, <2>2, <2>4, Outdated(x)'
  <2>5. QED
    BY <2>3, <2>4
<1>5. ASSUME NEW w \in Workers, StartJob(w), UNCHANGED promised
      PROVE  JobAfter(k, x.id)'
  <2>1. jobs \in Seq(Job) /\ jobs # <<>> /\ jobs' = Tail(jobs)
    BY <1>5 DEF TypeOK, StartJob
  <2>2. /\ k + 1 \in DOMAIN jobs /\ jobs'[k] = jobs[k + 1]
        /\ JobAfter(k + 1, x.id) => JobAfter(k, x.id)'
    BY ONLY <2>1, JobsShrink, k \in DOMAIN jobs'
  <2>3. Outdated(x)
    BY <1>5 DEF Outdated
  <2>4. QED
    BY <1>1, <2>2, <2>3
<1>6. CASE \E w \in Workers : FinishJob(w)
  BY <1>3, <1>6 DEF FinishJob, rejudgeVars
<1>7. CASE ApplyResult
  BY <1>3, <1>7 DEF ApplyResult, rejudgeVars, judgeVars
<1>8. QED
  BY ONLY TypeOK, PromisesRead, Next, EffectCases, <1>3, <1>4, <1>5, <1>6, <1>7

LEMMA VerdictsFollowedStep ==
    ASSUME TypeOK, TypeOK', PromisesRead, WorkFollowed, VerdictsFollowed, Next
    PROVE  VerdictsFollowed'
<1> DEFINE Follows(k, s) == Queued(s) \/ AtWork(s) \/ VerdictAfter(k, s)
<1> SUFFICES ASSUME NEW k \in DOMAIN results', NEW x, x = results'[k],
                    x.verdict = "JUDGED", Outdated(x)'
             PROVE  Follows(k, x.id)'
  <2>1. (\A k \in DOMAIN results :
            results[k].verdict = "JUDGED" /\ Outdated(results[k]) => Follows(k, results[k].id))'
    BY DEF Outdated, Queued, AtWork, VerdictAfter
  <2>2. QED
    BY <2>1 DEF VerdictsFollowed
<1>1. \A l \in DOMAIN results :
          x = results[l] /\ Outdated(x) => Follows(l, x.id)
  BY DEF VerdictsFollowed, Outdated, Queued, AtWork, VerdictAfter
<1>2. x.id \in Submissions
  <2>1. results' \in Seq(Results)
    BY DEF TypeOK, Results
  <2>2. x \in Results
    BY ONLY <2>1, x = results'[k], k \in DOMAIN results'
  <2>3. QED
    BY <2>2 DEF Results
<1>3. CASE UNCHANGED <<jobs, working, results, promised>>
  <2>1. Follows(k, x.id)
    BY <1>1, <1>3 DEF Outdated
  <2>2. QED
    BY ONLY <1>3, <2>1, JobPlaces, WorkPlaces, VerdictPlaces
<1>4. ASSUME NEW j \in Job, Grown(j)
      PROVE  Follows(k, x.id)'
  <2>1. /\ Queued(j.id)' /\ \A s : Queued(s) => Queued(s)'
        /\ x.id \in Submissions /\ x.id # j.id => (Outdated(x)' <=> Outdated(x))
    BY ONLY TypeOK, TypeOK', <1>4, GrownPlaces
  <2>2. UNCHANGED <<working, results>>
    BY <1>4 DEF Grown
  <2>3. CASE x.id = j.id
    BY ONLY <2>1, <2>3
  <2>4. CASE x.id # j.id
    <3>1. Follows(k, x.id)
      BY <1>1, <1>2, <2>1, <2>2, <2>4
    <3>2. QED
      BY ONLY <2>1, <2>2, <3>1, WorkPlaces, VerdictPlaces
  <2>5. QED
    BY <2>3, <2>4
<1>5. ASSUME NEW w \in Workers, StartJob(w), UNCHANGED promised
      PROVE  Follows(k, x.id)'
  <2>1. PICK j : j = Head(jobs)
    OBVIOUS
  <2>2. /\ results \in Seq(Results) /\ Announcement(j) \in Results
        /\ (\A s : AtWork(s) => AtWork(s)') /\ AtWork(j.id)'
    BY ONLY TypeOK, <1>5, <2>1, StartPlaces
  <2>3. /\ results' = Append(results, Announcement(j))
        /\ jobs \in Seq(Job) /\ jobs # <<>> /\ jobs' = Tail(jobs)
    BY <1>5, <2>1 DEF TypeOK, StartJob
  <2>4. x # Announcement(j)
    BY DEF Announcement
  <2>5. k \in DOMAIN results /\ x = results[k]
        /\ (VerdictAfter(k, x.id) => VerdictAfter(k, x.id)')
    BY ONLY <2>2, <2>3, <2>4, ResultsGrow, k \in DOMAIN results', x = results'[k]
  <2>6. Queued(x.id) => Queued(x.id)' \/ x.id = j.id
    BY ONLY <2>1, <2>3, JobsShrink
  <2>7. Follows(k, x.id)
    BY <1>1, <1>5, <2>5 DEF Outdated
  <2>8. QED
    BY ONLY <2>2, <2>5, <2>6, <2>7
<1>6. ASSUME NEW w \in Workers, FinishJob(w), UNCHANGED promised
      PROVE  Follows(k, x.id)'
  <2>1. PICK j : j = working[w]
    OBVIOUS
  <2>2. /\ j \in Job /\ results \in Seq(Results) /\ Verdict(j, file[w]) \in Results
        /\ \A s : AtWork(s) => AtWork(s)' \/ s = j.id
    BY ONLY TypeOK, <1>6, <2>1, FinishPlaces
  <2>3. PICK m \in Results : /\ results' = Append(results, m)
                             /\ m.id = j.id /\ m.verdict = "JUDGED" /\ m.tests = j.tests
    BY <1>6, <2>1, <2>2 DEF FinishJob, Verdict
  <2>4. Queued(x.id)' <=> Queued(x.id)
    <3>1. UNCHANGED jobs
      BY <1>6 DEF FinishJob
    <3>2. QED
      BY ONLY <3>1, JobPlaces
  <2>5. CASE x = m
    <3>1. working[w] # NoJob /\ Outdated(working[w])
      BY <1>6, <2>1, <2>3, <2>5 DEF FinishJob, Outdated
    <3>2. Queued(x.id)
      BY <2>1, <2>3, <2>5, <3>1 DEF WorkFollowed
    <3>3. QED
      BY ONLY <2>4, <3>2
  <2>6. CASE k \in DOMAIN results /\ x = results[k]
    <3>1. Follows(k, x.id)
      BY <1>1, <1>6, <2>6 DEF Outdated
    <3>2. VerdictAfter(k, m.id)' /\ (VerdictAfter(k, x.id) => VerdictAfter(k, x.id)')
      BY ONLY <2>2, <2>3, <2>6, ResultsGrow
    <3>3. QED
      BY ONLY <2>2, <2>3, <2>4, <3>1, <3>2
  <2>7. QED
    BY ONLY <2>2, <2>3, <2>5, <2>6, ResultsGrow, k \in DOMAIN results', x = results'[k]
<1>7. CASE ApplyResult /\ UNCHANGED promised
  <2>1. /\ results \in Seq(Results) /\ results # <<>> /\ results' = Tail(results)
        /\ UNCHANGED <<jobs, working>>
    BY <1>7 DEF TypeOK, ApplyResult, Results
  <2>2. /\ k + 1 \in DOMAIN results /\ results'[k] = results[k + 1]
        /\ VerdictAfter(k + 1, x.id) => VerdictAfter(k, x.id)'
    BY ONLY <2>1, ResultsShrink, k \in DOMAIN results'
  <2>3. Follows(k + 1, x.id)
    BY <1>1, <1>7, <2>2 DEF Outdated
  <2>4. QED
    BY ONLY <2>1, <2>2, <2>3, JobPlaces, WorkPlaces
<1>8. QED
  BY ONLY TypeOK, PromisesRead, Next, EffectCases, <1>3, <1>4, <1>5, <1>6, <1>7

(* The only worker takes the first job; what follows it is still queued.   *)
LEMMA WorkFollowedStep ==
    ASSUME NEW only, Workers = {only},
           TypeOK, TypeOK', PromisesRead, JobsFollowed, WorkFollowed, Next
    PROVE  WorkFollowed'
<1> SUFFICES ASSUME NEW x, x = working'[only], x # NoJob, Outdated(x)'
             PROVE  Queued(x.id)'
  <2>1. (\A w \in Workers :
            working[w] # NoJob /\ Outdated(working[w]) => Queued(working[w].id))'
    BY Workers = {only} DEF Outdated, Queued
  <2>2. QED
    BY <2>1 DEF WorkFollowed
<1>1. x = working[only] /\ Outdated(x) => Queued(x.id)
  BY Workers = {only} DEF WorkFollowed, Outdated, Queued
<1>2. x.id \in Submissions
  <2>1. x \in Job \cup {NoJob}
    BY Workers = {only} DEF TypeOK
  <2>2. QED
    BY <2>1 DEF Job
<1>3. CASE UNCHANGED <<jobs, working, promised>>
  <2>1. Queued(x.id)
    BY <1>1, <1>3 DEF Outdated
  <2>2. QED
    BY ONLY <1>3, <2>1, JobPlaces
<1>4. ASSUME NEW j \in Job, Grown(j)
      PROVE  Queued(x.id)'
  <2>1. /\ Queued(j.id)' /\ \A s : Queued(s) => Queued(s)'
        /\ x.id \in Submissions /\ x.id # j.id => (Outdated(x)' <=> Outdated(x))
    BY ONLY TypeOK, TypeOK', <1>4, GrownPlaces
  <2>2. UNCHANGED working
    BY <1>4 DEF Grown
  <2>3. CASE x.id = j.id
    BY ONLY <2>1, <2>3
  <2>4. CASE x.id # j.id
    BY <1>1, <1>2, <2>1, <2>2, <2>4
  <2>5. QED
    BY <2>3, <2>4
<1>5. ASSUME StartJob(only), UNCHANGED promised
      PROVE  Queued(x.id)'
  <2>1. /\ jobs \in Seq(Job) /\ jobs # <<>> /\ jobs' = Tail(jobs) /\ x = Head(jobs)
    BY <1>5, Workers = {only} DEF TypeOK, StartJob
  <2>2. Head(jobs) = jobs[1] /\ 1 \in DOMAIN jobs /\ \A s : JobAfter(1, s) => Queued(s)'
    BY ONLY <2>1, JobsShrink
  <2>3. Outdated(jobs[1])
    BY <1>5, <2>1, <2>2 DEF Outdated
  <2>4. JobAfter(1, x.id)
    BY <2>1, <2>2, <2>3 DEF JobsFollowed
  <2>5. QED
    BY ONLY <2>2, <2>4
<1>6. ASSUME FinishJob(only)
      PROVE  Queued(x.id)'
  <2>1. working'[only] = NoJob
    BY <1>6, Workers = {only} DEF FinishJob, TypeOK
  <2>2. QED
    BY <2>1
<1>7. CASE ApplyResult /\ UNCHANGED promised
  BY <1>3, <1>7 DEF ApplyResult
<1>8. QED
  <2>1. \/ UNCHANGED <<jobs, working, results, promised>>
        \/ \E j \in Job : Grown(j)
        \/ (StartJob(only) \/ FinishJob(only)) /\ UNCHANGED promised
        \/ ApplyResult /\ UNCHANGED promised
    BY ONLY TypeOK, PromisesRead, Next, EffectCases, Workers = {only}
  <2>2. QED
    BY ONLY <2>1, <1>3, <1>4, <1>5, <1>6, <1>7

LEMMA RowsFollowedStep ==
    ASSUME TypeOK, Stored, Announced, PromisesRead, VerdictsFollowed, RowsFollowed, Next
    PROVE  RowsFollowed'
<1> SUFFICES ASSUME NEW s \in Submissions,
                    request'[s] = "accepted", rows'[s].tests < promised'[s]
             PROVE  Covered(s)'
  BY DEF RowsFollowed, Covered, BeingJudged, Range
<1>1. request[s] = "accepted" /\ rows[s].tests < promised[s] => Covered(s)
  BY DEF RowsFollowed, Covered
<1>2. CASE ~ApplyResult
  <2>1. /\ Covered(s) => Covered(s)'
        /\ News(s) => Covered(s)' \/ request'[s] # "accepted"
    BY ONLY TypeOK, Next, <1>2, StepCovers, s \in Submissions
  <2>2. ~News(s) => request[s] = "accepted" /\ rows[s].tests < promised[s]
    BY DEF News
  <2>3. QED
    BY <1>1, <2>1, <2>2
<1>3. CASE ApplyResult
  <2>1. PICK m : m = Head(results)
    OBVIOUS
  <2>2. /\ request' = request /\ promised' = promised
        /\ results \in Seq(Results) /\ results # <<>> /\ results' = Tail(results)
    BY <1>3 DEF ApplyResult, requestVars, rejudgeVars, TypeOK, Results
  <2>3. /\ m \in Results
        /\ s # m.id => rows'[s] = rows[s] /\ (Covered(s) => Covered(s)')
        /\ s = m.id /\ m.verdict = "JUDGING" => Covered(s)'
        /\ s = m.id /\ m.verdict = "JUDGED" /\ request[s] = "accepted" =>
              rows'[s].verdict = "JUDGED" /\ rows'[s].tests = m.tests
        /\ VerdictAfter(1, s) \/ AtWork(s) \/ Queued(s) => Covered(s)'
    BY ONLY TypeOK, Stored, Announced, <1>3, <2>1, ApplyCovers, s \in Submissions
  <2>4. m.verdict \in {"JUDGING", "JUDGED"}
    BY <2>3 DEF Results, Verdicts
  <2>5. CASE s # m.id
    BY <1>1, <2>2, <2>3, <2>5
  <2>6. CASE s = m.id /\ m.verdict = "JUDGED"
    <3>1. rows'[s].tests = m.tests
      BY <2>2, <2>3, <2>6
    <3>2. Outdated(m)
      BY <2>2, <2>6, <3>1 DEF Outdated
    <3>3. 1 \in DOMAIN results /\ results[1] = m
      BY ONLY <2>1, <2>2, ResultsShrink
    <3>4. Queued(s) \/ AtWork(s) \/ VerdictAfter(1, s)
      BY <2>6, <3>2, <3>3 DEF VerdictsFollowed
    <3>5. QED
      BY ONLY <2>3, <3>4
  <2>7. QED
    BY <2>3, <2>4, <2>5, <2>6
<1>4. QED
  BY <1>2, <1>3

LEMMA InitEffect == Init => EffectInv
<1> SUFFICES ASSUME Init PROVE EffectInv
  OBVIOUS
<1>1. JudgedInv
  BY InitJudged
<1>2. PromisesRead /\ RowsFollowed
  BY DEF Init, PromisesRead, RowsFollowed, NoRejudge, Absent, Unjudged
<1>3. JobsFollowed /\ WorkFollowed /\ VerdictsFollowed
  BY DEF Init, JobsFollowed, WorkFollowed, VerdictsFollowed
<1>4. QED
  BY <1>1, <1>2, <1>3 DEF EffectInv

LEMMA NextEffect ==
    ASSUME NEW only, Workers = {only}
    PROVE  EffectInv /\ [Next]_vars => EffectInv'
<1>1. ASSUME EffectInv, Next PROVE EffectInv'
  <2>1. /\ TypeOK /\ Stored /\ Announced /\ ResetIsJudged /\ PromisesRead
        /\ JobsFollowed /\ WorkFollowed /\ VerdictsFollowed /\ RowsFollowed
    BY <1>1 DEF EffectInv, JudgedInv
  <2>2. TypeOK' /\ JudgedInv'
    BY <1>1, NextJudged DEF EffectInv, JudgedInv
  <2>3. PromisesRead'
    BY ONLY <1>1, <2>1, PromisesStep
  <2>4. JobsFollowed' /\ VerdictsFollowed'
    BY ONLY <1>1, <2>1, <2>2, JobsFollowedStep, VerdictsFollowedStep
  <2>5. WorkFollowed'
    BY ONLY Workers = {only}, <1>1, <2>1, <2>2, WorkFollowedStep
  <2>6. RowsFollowed'
    BY ONLY <1>1, <2>1, RowsFollowedStep
  <2>7. QED
    BY <2>2, <2>3, <2>4, <2>5, <2>6 DEF EffectInv
<1>2. ASSUME EffectInv, UNCHANGED vars PROVE EffectInv'
  <2>1. JudgedInv'
    BY <1>2, NextJudged DEF EffectInv
  <2>2. /\ PromisesRead' /\ JobsFollowed' /\ WorkFollowed'
        /\ VerdictsFollowed' /\ RowsFollowed'
    BY <1>2 DEF EffectInv, PromisesRead, JobsFollowed, WorkFollowed, VerdictsFollowed,
                RowsFollowed, BeingJudged, Outdated, Queued, AtWork, JobAfter, VerdictAfter,
                Range, vars, requestVars, rejudgeVars, judgeVars
  <2>3. QED
    BY <2>1, <2>2 DEF EffectInv
<1>3. QED
  BY <1>1, <1>2

(***************************************************************************)
(* The files a verdict is of, with any number of workers.                  *)
(***************************************************************************)

(* Groups are saved after the files they speak of have been uploaded, so   *)
(* nobody has read groups, or carries them in a job, that are ahead of the *)
(* files; what is fetched for a job is not behind the job's groups.        *)
FilesInv ==
    /\ tests <= uploaded
    /\ rejudge.tests <= uploaded
    /\ \A s \in Submissions : read[s] <= uploaded
    /\ \A k \in DOMAIN jobs : jobs[k].tests <= uploaded
    /\ \A w \in Workers : IF working[w] = NoJob
                          THEN file[w] = NoFile
                          ELSE working[w].tests <= uploaded /\ working[w].tests <= file[w]
    /\ \A s \in Submissions : ~rows[s].behind
    /\ \A k \in DOMAIN results : ~results[k].behind

LEMMA InitFiles == Init => FilesInv
BY RejudgeAssumption DEF Init, FilesInv, NoRejudge, Absent, Unjudged

LEMMA JobsOfReadGroups ==
    ASSUME TypeOK, FilesInv, NEW t \in Submissions, NEW v \in Versions, v <= uploaded,
           jobs' \in {jobs, Append(jobs, [id |-> t, tests |-> v])}
    PROVE  \A k \in DOMAIN jobs' : jobs'[k].tests <= uploaded
<1>1. PICK j \in Job : j = [id |-> t, tests |-> v] /\ j.tests = v
  <2>1. [id |-> t, tests |-> v] \in Job
    BY DEF Job
  <2>2. QED
    BY <2>1
<1>2. CASE jobs' = jobs
  BY <1>2 DEF FilesInv
<1>3. CASE jobs' = Append(jobs, j)
  <2>1. jobs \in Seq(Job)
    BY DEF TypeOK
  <2>2. \A k \in DOMAIN jobs' : \/ jobs'[k] = j
                                \/ k \in DOMAIN jobs /\ jobs'[k] = jobs[k]
    BY ONLY <1>3, <2>1, JobsGrow
  <2>3. QED
    BY <1>1, <2>2 DEF FilesInv
<1>4. QED
  BY <1>1, <1>2, <1>3

LEMMA NextFiles == TypeOK /\ FilesInv /\ [Next]_vars => FilesInv'
<1> SUFFICES ASSUME TypeOK, FilesInv, [Next]_vars PROVE FilesInv'
  OBVIOUS
<1> USE DEF requestVars, rejudgeVars, judgeVars, Moves
<1>1. /\ tests \in Nat /\ uploaded \in Nat /\ uploaded \in Versions /\ MaxVersion \in Nat
      /\ tests \in Versions /\ tests <= uploaded
      /\ rejudge.tests \in Versions /\ rejudge.tests <= uploaded
      /\ \A s \in Submissions : read[s] \in Versions /\ read[s] <= uploaded
      /\ rejudge \in [step : Between \cup Submissions, tests : Versions,
                      todo : SUBSET Submissions]
  BY RejudgeAssumption DEF TypeOK, FilesInv, Versions
<1>2. CASE UploadTestcases
  <2>1. /\ uploaded' = uploaded + 1
        /\ UNCHANGED <<tests, rejudge, read, jobs, working, file, rows, results>>
    BY <1>2 DEF UploadTestcases
  <2>2. \A v \in Versions : v <= uploaded => v <= uploaded'
    BY ONLY <1>1, <2>1 DEF Versions
  <2>3. \A k \in DOMAIN jobs : jobs[k].tests \in Versions
    <3>1. \A k \in DOMAIN jobs : jobs[k] \in Job
      BY DEF TypeOK
    <3>2. QED
      BY ONLY <3>1 DEF Job
  <2>4. \A w \in Workers : working[w] # NoJob => working[w].tests \in Versions
    BY DEF TypeOK, Job
  <2>5. QED
    BY ONLY FilesInv, <1>1, <2>1, <2>2, <2>3, <2>4 DEF FilesInv
<1>3. CASE SaveTestcases
  BY <1>1, <1>3 DEF SaveTestcases, FilesInv
<1>4. ASSUME NEW t \in Submissions,
             ReadProblem(t) \/ Insert(t) \/ Enqueue(t) \/ EnqueueFails(t)
      PROVE  FilesInv'
  <2>1. UNCHANGED <<tests, uploaded, rejudge, working, file, results>>
    BY <1>4 DEF ReadProblem, Insert, Enqueue, EnqueueFails
  <2>2. \A s \in Submissions : read'[s] <= uploaded
    BY <1>1, <1>4 DEF ReadProblem, Insert, Enqueue, EnqueueFails, TypeOK
  <2>3. jobs' \in {jobs, Append(jobs, [id |-> t, tests |-> read[t]])}
    BY <1>4 DEF ReadProblem, Insert, Enqueue, EnqueueFails
  <2>4. \A k \in DOMAIN jobs' : jobs'[k].tests <= uploaded
    BY <1>1, <2>3, JobsOfReadGroups
  <2>5. \A s \in Submissions : rows'[s] \in {rows[s], Pending, Absent}
    BY <1>4 DEF ReadProblem, Insert, Enqueue, EnqueueFails, TypeOK
  <2>6. \A s \in Submissions : ~rows'[s].behind
    BY <2>5 DEF FilesInv, Pending, Absent, Unjudged
  <2>7. QED
    BY ONLY FilesInv, <2>1, <2>2, <2>4, <2>6 DEF FilesInv
<1>5. CASE RejudgeRead \/ RejudgeList \/ RejudgeDone
  <2>1. /\ UNCHANGED <<tests, uploaded, read, jobs, working, file, rows, results>>
        /\ \/ rejudge' = [step |-> "read", tests |-> tests, todo |-> {}]
           \/ rejudge' = [rejudge EXCEPT !.step = "reset", !.todo = Present]
           \/ rejudge' = NoRejudge
    BY <1>5 DEF RejudgeRead, RejudgeList, RejudgeDone
  <2>2. rejudge'.tests \in {tests, rejudge.tests, 0}
    <3>1. ASSUME NEW a, NEW b PROVE [rejudge EXCEPT !.step = a, !.todo = b].tests = rejudge.tests
      BY <1>1
    <3>2. CASE rejudge' = [step |-> "read", tests |-> tests, todo |-> {}]
      BY ONLY <3>2
    <3>3. CASE rejudge' = [rejudge EXCEPT !.step = "reset", !.todo = Present]
      BY ONLY <3>1, <3>3
    <3>4. CASE rejudge' = NoRejudge
      BY ONLY <3>4 DEF NoRejudge
    <3>5. QED
      BY ONLY <2>1, <3>2, <3>3, <3>4
  <2>3. rejudge'.tests <= uploaded
    BY ONLY <1>1, <2>2
  <2>4. QED
    BY ONLY FilesInv, <2>1, <2>3 DEF FilesInv
<1>6. ASSUME NEW t \in Submissions,
             \/ RejudgeReset(t) \/ RejudgeNotFound(t)
             \/ RejudgeEnqueue(t) \/ RejudgeFails(t)
      PROVE  FilesInv'
  <2>1. /\ UNCHANGED <<tests, uploaded, read, working, file, results>>
        /\ \/ rejudge' = NoRejudge
           \/ rejudge' = [rejudge EXCEPT !.step = t, !.todo = @ \ {t}]
           \/ rejudge' = [rejudge EXCEPT !.step = "reset"]
    BY <1>6 DEF RejudgeReset, RejudgeNotFound, RejudgeEnqueue, RejudgeFails
  <2>2. rejudge'.tests <= uploaded
    <3>1. rejudge'.tests \in {rejudge.tests, 0}
      <4>1. ASSUME NEW a, NEW b
            PROVE  /\ [rejudge EXCEPT !.step = a, !.todo = b].tests = rejudge.tests
                   /\ [rejudge EXCEPT !.step = a].tests = rejudge.tests
        BY <1>1
      <4>2. CASE rejudge' = NoRejudge
        BY ONLY <4>2 DEF NoRejudge
      <4>3. CASE \/ rejudge' = [rejudge EXCEPT !.step = t, !.todo = @ \ {t}]
                 \/ rejudge' = [rejudge EXCEPT !.step = "reset"]
        BY ONLY <4>1, <4>3
      <4>4. QED
        BY ONLY <2>1, <4>2, <4>3
    <3>2. QED
      BY ONLY <1>1, <3>1
  <2>3. jobs' \in {jobs, Append(jobs, [id |-> t, tests |-> rejudge.tests])}
    BY <1>6 DEF RejudgeReset, RejudgeNotFound, RejudgeEnqueue, RejudgeFails
  <2>4. \A k \in DOMAIN jobs' : jobs'[k].tests <= uploaded
    BY <1>1, <2>3, JobsOfReadGroups
  <2>5. \A s \in Submissions : rows'[s] \in {rows[s], Pending}
    BY <1>6 DEF RejudgeReset, RejudgeNotFound, RejudgeEnqueue, RejudgeFails, TypeOK
  <2>6. \A s \in Submissions : ~rows'[s].behind
    BY <2>5 DEF FilesInv, Pending, Unjudged
  <2>7. QED
    BY ONLY FilesInv, <2>1, <2>2, <2>4, <2>6 DEF FilesInv
<1>7. ASSUME NEW w \in Workers, StartJob(w)
      PROVE  FilesInv'
  <2>1. /\ UNCHANGED <<tests, uploaded, rejudge, read, file, rows>>
        /\ working[w] = NoJob /\ working' = [working EXCEPT ![w] = Head(jobs)]
        /\ jobs # <<>> /\ jobs' = Tail(jobs) /\ jobs \in Seq(Job)
        /\ results' = Append(results, Announcement(Head(jobs)))
    BY <1>7 DEF StartJob, TypeOK
  <2>2. /\ Head(jobs) = jobs[1] /\ 1 \in DOMAIN jobs
        /\ \A k \in DOMAIN jobs' : k + 1 \in DOMAIN jobs /\ jobs'[k] = jobs[k + 1]
    BY ONLY <2>1, JobsShrink
  <2>3. PICK j \in Job : j = Head(jobs)
    BY <2>1, JobsShrink
  <2>4. results \in Seq(Results) /\ Announcement(j) \in Results /\ ~Announcement(j).behind
    BY RejudgeAssumption DEF TypeOK, Announcement, Results, Job, Verdicts, Versions
  <2>5. \A k \in DOMAIN results' : \/ results'[k] = Announcement(j)
                                   \/ k \in DOMAIN results /\ results'[k] = results[k]
    BY ONLY <2>1, <2>3, <2>4, ResultsGrow
  <2>6. j.tests <= uploaded /\ j.tests <= file[w]
    <3>1. j.tests <= uploaded
      BY <2>2, <2>3 DEF FilesInv
    <3>2. file[w] = MaxVersion + 2 /\ j.tests \in 0..MaxVersion
      BY <2>1, <2>3 DEF FilesInv, NoFile, Job, Versions
    <3>3. QED
      BY ONLY <1>1, <3>1, <3>2
  <2>7. \A v \in Workers : working'[v] = IF v = w THEN j ELSE working[v]
    BY <2>1, <2>3 DEF TypeOK
  <2>8. \A v \in Workers : IF working'[v] = NoJob
                           THEN file[v] = NoFile
                           ELSE working'[v].tests <= uploaded /\ working'[v].tests <= file[v]
    BY <2>6, <2>7, NoJobIsNoJob DEF FilesInv
  <2>9. \A k \in DOMAIN results' : ~results'[k].behind
    BY <2>4, <2>5 DEF FilesInv
  <2>10. \A k \in DOMAIN jobs' : jobs'[k].tests <= uploaded
    BY <2>2 DEF FilesInv
  <2>11. QED
    BY ONLY FilesInv, <2>1, <2>8, <2>9, <2>10 DEF FilesInv
<1>8. ASSUME NEW w \in Workers, Fetch(w)
      PROVE  FilesInv'
  <2>1. /\ UNCHANGED <<tests, uploaded, rejudge, read, jobs, working, rows, results>>
        /\ working[w] # NoJob
    BY <1>8 DEF Fetch
  <2>2. PICK version \in {Kept, uploaded} : file' = [file EXCEPT ![w] = version]
    BY <1>8 DEF Fetch
  <2>3. working[w].tests <= uploaded /\ working[w].tests \in 0..MaxVersion
    BY <2>1 DEF FilesInv, TypeOK, Job, Versions
  <2>4. working[w].tests <= version
    <3>1. version = MaxVersion + 1 \/ version = uploaded
      BY <2>2 DEF Kept
    <3>2. QED
      BY ONLY <1>1, <2>3, <3>1
  <2>5. \A v \in Workers : file'[v] = IF v = w THEN version ELSE file[v]
    BY <2>2 DEF TypeOK
  <2>6. QED
    BY ONLY FilesInv, <2>1, <2>3, <2>4, <2>5 DEF FilesInv
<1>9. ASSUME NEW w \in Workers, FinishJob(w)
      PROVE  FilesInv'
  <2>1. /\ UNCHANGED <<tests, uploaded, rejudge, read, jobs, rows>>
        /\ working[w] # NoJob /\ working' = [working EXCEPT ![w] = NoJob]
        /\ file' = [file EXCEPT ![w] = NoFile]
        /\ results' = Append(results, Verdict(working[w], file[w]))
    BY <1>9 DEF FinishJob
  <2>2. PICK j \in Job : j = working[w]
    BY <2>1 DEF TypeOK
  <2>3. j.tests <= file[w] /\ j.tests \in Nat /\ file[w] \in Nat
    <3>1. working[w].tests <= file[w] /\ working[w] \in Job
      BY <2>1, <2>2 DEF FilesInv
    <3>2. file[w] \in Versions \/ file[w] = Kept \/ file[w] = NoFile
      BY DEF TypeOK
    <3>3. file[w] \in Nat
      BY ONLY <1>1, <3>2 DEF Versions, Kept, NoFile
    <3>4. QED
      BY ONLY <2>2, <3>1, <3>3 DEF Job, Versions
  <2>4. /\ results \in Seq(Results) /\ Verdict(j, file[w]) \in Results
    BY RejudgeAssumption DEF TypeOK, Verdict, Results, Job, Verdicts, Versions
  <2>5. ~Verdict(j, file[w]).behind
    <3>1. Verdict(j, file[w]).behind => file[w] < j.tests
      BY DEF Verdict
    <3>2. QED
      BY <2>3, <3>1
  <2>6. \A k \in DOMAIN results' : \/ results'[k] = Verdict(j, file[w])
                                   \/ k \in DOMAIN results /\ results'[k] = results[k]
    BY ONLY <2>1, <2>2, <2>4, ResultsGrow
  <2>7. \A k \in DOMAIN results' : ~results'[k].behind
    BY <2>5, <2>6 DEF FilesInv
  <2>8. \A v \in Workers : /\ working'[v] = IF v = w THEN NoJob ELSE working[v]
                           /\ file'[v] = IF v = w THEN NoFile ELSE file[v]
    BY <2>1 DEF TypeOK
  <2>9. QED
    BY ONLY FilesInv, <2>1, <2>7, <2>8 DEF FilesInv
<1>10. CASE ApplyResult
  <2>1. PICK m : m = Head(results)
    OBVIOUS
  <2>2. /\ UNCHANGED <<tests, uploaded, rejudge, read, jobs, working, file>>
        /\ results \in Seq(Results) /\ results # <<>> /\ results' = Tail(results)
        /\ rows' = rows \/ rows' = [rows EXCEPT ![m.id] = RowOf(m)]
    BY <1>10, <2>1 DEF ApplyResult, TypeOK, Results
  <2>3. /\ m = results[1] /\ 1 \in DOMAIN results
        /\ \A k \in DOMAIN results' : k + 1 \in DOMAIN results /\ results'[k] = results[k + 1]
    BY ONLY <2>1, <2>2, ResultsShrink
  <2>4. ~RowOf(m).behind
    BY <2>3 DEF FilesInv, RowOf
  <2>5. \A s \in Submissions : ~rows'[s].behind
    BY <2>2, <2>4 DEF FilesInv, TypeOK
  <2>6. QED
    BY ONLY FilesInv, <2>2, <2>3, <2>5 DEF FilesInv
<1>11. CASE UNCHANGED vars
  BY <1>11 DEF FilesInv, vars
<1>12. QED
  BY <1>2, <1>3, <1>4, <1>5, <1>6, <1>7, <1>8, <1>9, <1>10, <1>11 DEF Next, WorkerStep

(* With one worker a rejudge takes effect: whatever verdicts of older jobs *)
(* arrive after its reset, an accepted submission of which nothing is in   *)
(* flight any more has a verdict of the groups RejudgeContestProblem had   *)
(* read, or of later ones, unless a rejudge died over it; and no file that *)
(* processJob fetched for that verdict is older than its groups.  Files    *)
(* that GetOrFetch found on the worker's volume may be.                    *)
THEOREM RejudgeWins ==
    ASSUME NEW only, Workers = {only}
    PROVE  Spec => []RejudgeTakesEffect
<1>1. EffectInv /\ FilesInv => RejudgeTakesEffect
  <2> SUFFICES ASSUME EffectInv, FilesInv, NEW s \in Submissions, request[s] = "accepted",
                      ~BeingJudged(s), rejudge.step # s, s \notin abandoned
               PROVE  JudgedWith(rows[s], promised[s])
    BY DEF RejudgeTakesEffect
  <2>1. rows[s].tests \in Nat /\ promised[s] \in Nat
    BY RejudgeAssumption DEF EffectInv, JudgedInv, TypeOK, Versions, Row
  <2>2. rows[s].verdict = "JUDGED"
    BY DEF EffectInv, JudgedInv, ResetIsJudged
  <2>3. ~(rows[s].tests < promised[s])
    BY DEF EffectInv, RowsFollowed
  <2>4. ~rows[s].behind
    BY DEF FilesInv
  <2>5. QED
    BY ONLY <2>1, <2>2, <2>3, <2>4 DEF JudgedWith
<1>2. EffectInv => TypeOK
  BY DEF EffectInv, JudgedInv
<1>3. QED
  BY <1>1, <1>2, InitEffect, NextEffect, InitFiles, NextFiles, PTL DEF Spec
=============================================================================
