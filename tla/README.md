# jjudge in TLA+

jjudge is an online judge. An **apiserver** stores users, problems, contests
and submissions in PostgreSQL, source files and testcases in object storage,
and publishes judging jobs to RabbitMQ. **Workers** take the jobs, compile and
run the programs in the **lime** sandbox, ask a **grader** about the output and
publish verdicts, which a consumer in the apiserver writes back to the
submission's row. A **web client** (Next.js, React) shows all of it and polls
for verdicts.

These modules model the path of a submission through all of this, the pool of
execution slots, the cache of testcases, the judging of one job, the rejudging
of a contest's problem, the client's session and the pages through which users,
managers and admins work. TLC checks each on small instances; TLAPS proves the
safety properties that the runs check, and the refinement of the pipeline's
abstract promise, for every value of the constants.

      client_pages: forms, lists, polling          session: tabs, tokens, guard
            | requests, answers late or lost (ApiClient)
            v
    request --INSERT--> submissions <--UPDATE-- result consumer
       |                                             ^
       +- "submissions" -> worker - "submission-results" -+
                             +-- TestcaseCache: object storage -> local files
                             +-- SlotPool: CPU + UID for each sandbox
                             +-- Judging: verdict and score of the job

## Inventory

| Component | State | Operations | Hard behaviour | Correct when | Model |
|---|---|---|---|---|---|
| Submission service (`services/submission.go`, `store/submission.go`) | rows, source objects | insert, upload, publish, compensate | every step can fail after taking effect; the process can die between steps | the answer agrees with the stores; an accepted submission is judged | `SubmissionPipeline` |
| Result consumer (`server/server.go`, `mq/rabbitmq.go`) | unacknowledged results | subscribe, update, ack, nack | requeue reorders; several replicas; a consumer that ends is not restarted | a verdict reaches its row and stays | `SubmissionPipeline` |
| Worker loop (`worker/worker.go`, `worker/processor.go`, `mq/rabbitmq.go`) | unacknowledged jobs | judge, publish, ack, nack | death at any moment, redelivery, failed publishes | at-least-once judging | `SubmissionPipeline` |
| Judging of a job (`processor.go`, `lime/report.go`) | running totals | compile, run, map, aggregate | errors half way, order of groups, cancellation | verdict of the first failure; score of whole groups | `Judging` |
| Execution slots (`lime/allocator.go`, `lime/lime.go`) | channel of slots, owners of work directories | allocate, chown, run, restore, release | concurrent calls, cancellation, error returns, order of defers | no slot lost or shared | `SlotPool` |
| Testcase cache (`tccache/*.go`) | files, LRU list | fetch, hit, evict | eviction between two calls, partial copies, restart, overwritten objects | a returned path leads to the testcase | `TestcaseCache` |
| Testcase bundles (`services/testcase_bundle.go`) | objects under fixed keys | parse, upload | overwriting, key collisions | every testcase has its own object | only the overwriting (`Upload`) |
| Contests (`services/contest.go`, `store/contest.go`) | contests, registrations, contest submissions | submit, rejudge, leaderboard | rejudge against verdicts in flight, failures half way | a rejudge takes effect; nobody is forgotten | `ContestRejudge`; window and registration in `ContestPage`, rows in `ContestConsole`; not the leaderboard |
| Problems and approval (`handlers/problem.go`, `handlers/approval.go`) | problems, approval | create, update, approve | lost answers, lost updates | what a page reports is what is stored | `ProblemConsole` (row, files and groups one after the other), `ApprovalDesk` (read and write of a row) |
| Users (`handlers/auth.go`, `store/user.go`) | users, tokens | register, sign in, edit, change role | read-modify-write of whole rows, expiry | no change is undone by another unnoticed | `Session`, `UserDesk` |
| Session of the client (`lib/auth.ts`, `auth-guard.tsx`, `navbar.tsx`, `login`, `register`) | snapshot and timer of a tab, localStorage | sign in, sign out, expire, navigate, reload | several tabs over one storage, timers that outlive what they were set for, effects after renders | a session ends when its token does and not before; nobody stays where the guard does not admit them | `Session` |
| Requests of the client (`lib/api.ts`) | requests in flight | send, answer, fail | answers late, lost, out of order | – (a building block) | `ApiClient` |
| Submission pages (`submission-form.tsx`, `submission-detail.tsx`, `submissions/mine`) | verdicts shown, polling interval | submit, poll, leave | an interval per effect run, answers after sign-out | one interval while something is pending; final verdicts are seen | `SubmissionPages` |
| Contest page (`contest-body.tsx`, `register-button.tsx`, `contest-submission-form.tsx`) | phase by the browser's clock, button | register, unregister, submit | the contest starts while requests are in flight | the button tells the truth | `ContestPage` |
| Problem console (`admin/problems`) | list, one form for all problems | edit, save, delete | loads that come in after other clicks; saves in several steps, an upload that a load does not reset | heading and fields belong together; saved means stored | `ProblemConsole` |
| Contest console (`admin/contests`) | list, form, one panel for all contests | add, remove, rejudge | answers that name no contest | the panel is true | `ContestConsole` |
| Users and profile (`admin/users`, `profile/[username]/edit`) | table of roles, profile form | change role, save, upload avatar | two changes at once, whole-row writes | the table is true | `UserDesk` |
| Approvals (`admin/approvals`, `manager/contests/[id]`, the save of `manager/problems`) | lists of what is pending, contest form | approve, reject, edit | stale lists, decisions overtaken by edits | a reported decision stands | `ApprovalDesk` |
| Other pages (the manager's copies, blog, leaderboard, lists, profile view) | what was loaded | load | – | – | not modelled |
| lime (`lime/src/run.c` …) | processes, pipes, cgroup | handshake, run, reap | child dies before the handshake | it always ends | ends within its timeout in `SlotPool` |
| Grader (`grader/main.go`) | none | compare | – | pure function | three answers in `Judging` |
| Blog, deployment, adapters of storage | – | – | – | – | not modelled |

`PROJECT.json` lists the hazards line by line, with the properties that cover
them.

## Modules

### SubmissionPipeline

One action per step of `CreateAndEnqueue`, of the worker's handler and of the
result consumer; a step ends where another process can see or disturb it.

* `rows` is the verdict column (`"ABSENT"`: no row), `artifacts` the objects in
  storage, `jobs` and `results` the two queues, `deliveries` and `inbox` what
  the broker delivered and was not told about yet.
* `request` is how far a handler is: `created`, `uploaded`, then `accepted` (201)
  or `undoArtifact`, `undoRow`, `rejected` (500). `aborted` is a request whose
  replica died.
* `stage` and `consumer` are where the handler of a worker or a replica is
  between publish or update and acknowledgement.
* `announced`, `swallowed` and `consumed` are history: what was published, which
  CE had its publish error ignored, what a consumer has handled.
* `faults` bounds the failures; `FaultKinds` selects which ones an instance has.
  A call that reports an error may have taken effect (`PublishJobFails`,
  `CreateRowFails`, `FinishJobFails`, `ApplyResultFails`).

The broker is external: FIFO queues, at-least-once delivery, and a requeued
delivery returns to the front of its queue, as RabbitMQ's classic queues do.
It loses no message; a broker restart is not modelled. The handlers' input
checks, which end a request before it changes anything, are left out. The
contest queues are served by the same code with other names.

### JudgeService

What a client may rely on, without queues, workers or replicas: `answer` (of the
request), `column` (of the row) and `judged` (submissions a judge has given a
verdict of). A request is answered once, its row is created once and never comes
back, and the row shows a verdict only after a judge has given one.
`SubmissionPipeline` ends with the refinement mapping (`AnswerOf`, its `rows` and
`announced`) and `ImplementsService`, checked by a run and proved.

### SlotPool

`pool` is the channel's buffer, `slot` the allocation of each call of
`lime.Run`, `owner` the owner of its work directory. The defers of `lime.Run`
run in reverse order: `Restore`, then `Release`. `os.Chown` back to root is
taken to succeed (its error is dropped; the worker runs as root). The worker's
loop has one call at a time; the pool is made for as many as there are CPUs, and
is checked for more calls than slots.

### TestcaseCache

`GetOrFetch` in its steps (`stat`, `open`, `copy`), once for the input and once
for the output of a testcase, then the two reads. A hit is decided by `os.Stat`
alone, so keys leave the LRU list in the order in which they were fetched.
`files` survives a restart (`Crash`), `tracked` does not. An eviction drops the
entry first and then removes the file; a removal that fails is printed and nothing
else (`RemoveFails`), so the file stays and is hit, with nothing to evict it. `Upload` is the
apiserver overwriting an object. MinIO opens objects lazily, so an absent object
or a network error shows up either before the local file is created (`OpenFails`)
or after (`CopyFails`); GCS has the first for an absent object.

### Judging

What `processJobWithPublisher` does with a delivery, one action per call that
can fail or be cancelled. A sandbox report is CPU time, wall time and memory
against one `Limit` and whether the program crashed; the grader says ok, wrong or
error. `tally` is the function's local totals. Sorting is `ByOrdinal`, along an
`Order` of the elements that some choice fixes: `sort.Slice` is not stable, and
nothing in the schema or the handlers keeps the ordinals of two groups apart, so
what it makes of equal ones is left open. Ids of testcases are unique, they are
the key of their table. The properties speak of groups and testcases by where
the job lists them (`Places`) and of their order only as far as the ordinals give
one (`Before`). Publishing does not fail here: that is `SubmissionPipeline`'s
subject.

### ContestRejudge

`RejudgeContestProblem` reads the problem, lists the rows of a contest problem,
and for each row in turn resets it and publishes a job (`RejudgeRead`,
`RejudgeList`, `RejudgeReset`, `RejudgeEnqueue`). It ends at the first error
(`RejudgeFails`), which the 60-second deadline of a request can cause too, or at a
row that is gone (`RejudgeNotFound`). Meanwhile contestants submit, the worker
judges and verdicts arrive. A job carries the testcase groups its creator read:
`tests` is their version, and `rows[s].tests` remembers which of them a verdict is
of. The files are another matter, as the worker asks for them by key, and an
upload overwrites the keys of the one before (`UploadTestcases`) earlier than its
groups are saved (`SaveTestcases`). `Fetch` takes what is in object storage, or the
file the worker has under the key (`Kept`) from any earlier job, of this contest or
another; every worker has a volume of its own. `rows[s].behind` remembers whether
a file that was fetched for the verdict is older than the groups. Changes of the
testcases come one after the other, and a version is that of one file. The checks of registration and contest window come before the INSERT and
end a request without effect; they are left out, as is one request's failing
INSERT or listing. Nothing is lost or reordered by the queues here, and the
consumer's UPDATE does not fail: `SubmissionPipeline` covers that.

### Session

`lib/auth.ts` in the tabs of one browser. `cached[t]` is a tab's snapshot
(`Unread` until its effects have run), `timers[t]` its pending timeouts, `storage`
the localStorage all tabs share. A document is first rendered with the server's
snapshot, so the guard's effect in `Hydrate` judges no session first and the
stored one next. A call of `setAuth` renders synchronously; its effects, the
guard's redirect among them, belong to the same step (`SetAuth`). `Load` is a
typed address or a reload, `Navigate` a link of the bar, `LoginAnswered` and
`RegisterAnswered` the continuations of the two forms, which run whether the form
is still on the screen or not. `left` is history: whose last session ended by the
user's own sign-out.

### ApiClient

The requests of a page: `net` is a list of records, each with the status `sent`,
`read` (the server has read the row it is going to write back), `ok` or `error`. A
request may fail before or after the server has handled it, and the page cannot
tell. Answers come in any order; `late` is history, the answer to a later request
of the kind came in before. The page modules add what their pages do.

### SubmissionPages, ContestPage, ProblemConsole, ContestConsole, UserDesk, ApprovalDesk

One module per page or pair of pages, each with the API server's handlers as
far as the pages notice them. The names of actions are those of the handlers and
effects (`SaveProfile`, `CancelEdit`) or of the continuation of a request
(`DetailAnswered`, `PanelLoaded`).

* `SubmissionPages`: the form, the page of a submission and the list of one's
  own. `intervals` counts the intervals that run and `pollRef` says whether the
  ref holds one; the effect's clean-up is `Remaining`.
* `ContestPage`: `Phase` by a browser clock that may be wrong by `Skews`, the
  button (mounted anew when the contest starts), the form of a contest problem.
* `ProblemConsole`: `editing` is what the heading names and the form saves to,
  `fields` whose fields it shows. They are the text (title to visibility) and the
  groups with the files chosen in them; `uploadMode` and `zipFile` are beside them, as
  a load leaves both. A problem is loaded without its groups, so a load shows the
  default ones. Changes of the form are numbered, and the numbers tell what was
  sent from what is stored. The server takes a save in the order of the code: a
  POST inserts the row (`InsertRow`) and then stores files and groups
  (`StoreTestcases`); a PUT stores these first, if files came with it, and updates the
  row last (`UpdateRow`). It may fail between any two of them, and then leaves what it
  has done. The files of one upload are stored or not stored together, and in ZIP
  mode, where the archive says which groups there are, the form's names and points
  count as its groups.
* `ContestConsole`: `managing` is the contest the panel names, `panel` the
  problems it lists.
* `UserDesk`: an admin's table of roles in one browser and a user's profile form
  in another. They meet in the users' rows, which the server reads (`ReadRow`) and
  writes whole (`WriteRow`).
* `ApprovalDesk`: an admin's list of what waits for approval, and the manager's
  page of the contest and save of a problem, which meet in the row of the contest
  or the problem in the same way.

The variables called `doubt`, `raced`, `upset`, `untold`, `crossed`, `undone`,
`doubled` and `overtaken` are history. Each names the only causes after which the
page may say something untrue, and they are defined by those causes, not by the
untruth: a lost answer, a failed or overtaken load, two changes on their way at
once, a whole-row write of something read before. The properties say that
nothing else makes the page lie.

`ClientPages` composes the six over one `net`: a tab shows one of them (or two
browsers the two pages of a desk).

### The proof modules

`SubmissionPipeline_proofs` (with the refinement of `JudgeService`),
`SlotPool_proofs`, `TestcaseCache_proofs`, `Judging_proofs`,
`ContestRejudge_proofs`, `Session_proofs` and `ClientPages_proofs` (with the lemmas
about `ApiClient`), each of the module it is named after, and `QueueLemmas`, which
most of them extend. `MCSubmissionPipeline`, `MCTestcaseCache` and
`MCJudging` hold the instances of their modules; the others need none. Operators
marked "Mutant" are wrong variants of the definition after them, such as a
plausible bug would make, and take part in no specification; each property is
violated under one of them.

## Runs

| Run | Question | Bounds |
|---|---|---|
| `pipeline_safety` | Is anything lost, whatever fails? Does the pipeline implement `JudgeService`? | 2 submissions, 2 replicas, each with a request, results prefetch 2, 2 faults of any kind: a fault and the failure of what repairs it; symmetric in the submissions, which change places together with their replicas (1.2 million states) |
| `pipeline_verdicts` | Do answers and verdicts come out right, and at all? | 2 submissions, 1 replica, job prefetch 2, result prefetch 1, 2 faults; without `store` and `connection` faults |
| `pipeline_swallowed_ce` | Is an acknowledged job always announced? **No** | 1 submission, 1 failing publish |
| `pipeline_stuck_judging` | Does JUDGING mean it is being judged? **Not with result prefetch 2** | 1 submission, 1 failing UPDATE |
| `slots` | Are slots conserved, private and handed on? | 3 slots, 4 calls: always one call waiting |
| `cache` | Do list, files and returned paths agree? | 2 testcases (4 keys), capacity 2, 2 versions, one fault of each kind |
| `cache_truncated` | Is what is read whole? **Not after a failed copy** | one failing copy |
| `judging` | Are verdict and score those of the testcases? | 4 problems: groups and tests listed out of order, an empty group, no group, groups and tests with equal ordinals; 2 deliveries, amounts at and above the limit, one fault |
| `contest_rejudge` | Does a rejudge take effect, and on every row? | 2 submissions, 1 worker, one upload and save of the testcases, 1 rejudge, 1 fault |
| `judging_shutdown` | Does SE mean a failure of the system? **Not on SIGTERM** | no faults |
| `session` | Do sessions end when their tokens do? Does anybody stay on a page the guard refuses? | 2 tabs, 2 sign-ins, tokens of 1 tick over 2 ticks: a second session while the first one's timer is pending, in the same tab and in the other |
| `client_pages` | Do the pages tell the truth, and do verdicts arrive? | 2 requests in flight (3 while a page mounts): one overtakes another, or one is handled between another's read and write; 2 submissions, 2 stored problems and contests and one to create, 2 users; 3 clicks, on the approvals 2; 1 change of the problem form, of its text, its groups and files, or its ZIP (0.7 million states) |

Two submissions are what it takes for one to disturb the other's place in a
queue, two replicas for a requeued result to overtake another, and two faults
for a failure during a repair. Verdicts are `AC` and `CE`, the one verdict whose
publish error is handled differently. Runs say `CHECK_DEADLOCK FALSE` where the
system may stop: when every request was made and every queue is empty, or when
the worker has stopped. `slots` and the cache run check for deadlock.

### Fairness

* `pipeline_verdicts` assumes weak fairness of each request, worker and consumer
  taken as a whole: running code goes on. No failing step and no particular
  verdict is ever fair. Two kinds of fault are left out because the code does not
  recover from them: a consumer whose connection dropped is not restarted, and a
  failed DELETE leaves a row for good (compensation is best effort).
* `slots` assumes weak fairness of a call that holds a slot, because
  `RunContext` kills the sandbox after its timeout, and strong fairness of
  `Allocate`, because Go's channels serve waiting receivers in order. The signal
  is not fair.
* `contest_rejudge` assumes weak fairness of a request after its first read, of
  the rejudge loop, the worker and the consumer. Submitting, rejudging, editing
  and failing are not fair.
* `session` assumes weak fairness of `Hydrate` and `Expire`: a browser runs the
  effects of a render and the timers that are due. No user action is fair.
* `client_pages` assumes, for the submission pages, that intervals fire and
  requests end (weak), and that a read and its answer succeed now and then
  (strong: losses and errors may happen for ever, but not every poll fails). The
  judge is not fair; `PendingLeavesScreen` only asks something once it has judged.

### What the violations show

1. **A lost CE** (`pipeline_swallowed_ce`). `compile` drops the error of its
   publish, the caller reports success, and the job is acknowledged with no
   verdict anywhere. Every other verdict returns the error and is retried.
   `NoLostJob` and `AcceptedIsJudged` name these jobs (`swallowed`) and hold for
   all others.
2. **JUDGING for good** (`pipeline_stuck_judging`). The apiserver's prefetch is
   unlimited by default. If the UPDATE to JUDGING fails it is requeued while the
   verdict, already delivered, is applied; the requeued JUDGING then overwrites
   it. With a prefetch of 1 and one replica the order is kept, as
   `pipeline_verdicts` shows.
3. **Partial testcases** (`cache_truncated`): a file's existence is all a hit
   asks for. `api/types/problem.go:105` gives a testcase hashes of its files, which
   the cache never compares, so an object that is uploaded again is not noticed
   either.
4. **SE on shutdown** (`judging_shutdown`): a scale-in of the workers ends the
   jobs in progress as system errors instead of returning them to the queue.

`RejudgeTakesEffect` has limits of its own. It speaks of a submission whose own
request was answered before the rejudge enqueued it again, because otherwise the
older job can be published last, and of one worker: with two, or a requeued
result, the older verdict can be applied last. A submission that was read
before and inserted after a rejudge's listing is judged with the old groups.
And it speaks of groups and of files that are fetched: a worker that has judged the
problem before keeps the old files under the same keys, finds them there
(`tccache.go:53`), and rejudges the new groups with them until they are evicted.

Observations that have no run of their own:

* The submission's `CPUTime` is documented as a total (`api/types/submission.go:41`)
  and is the maximum over the testcases (`processor.go:190`).
* After a failed fetch of an output, a later hit on its input can be followed by
  the eviction of that input before it is read (the premise of `PathStillThere`).
* A reload of a guarded page takes a signed-in user to the sign-in page, because
  the guard judges the server's snapshot first (`Hydrate`).
* Nothing listens to changes of localStorage: the timer or the sign-out of one
  tab wipes the session another tab has just stored; the other tab goes on with
  its snapshot until it is reloaded.
* The submission form is enabled again before the router has loaded the page of
  the submission, and the problem form is never disabled: a second click makes a
  second submission or problem.
* On the list of one's own submissions, an answer that arrives after the sign-out
  clears the notice and shows the list again (`MineAnswered`).
* When the contest starts, the register button is mounted anew and is not told of
  a click that is still on its way (`doubt`).
* The problem form saves to a problem as soon as Edit is clicked, before its
  fields have been loaded: a save in between stores another problem's fields
  under it. `SavedMeansStored` holds, the server has what was sent.
* Editing another problem keeps the upload mode and the ZIP (only `resetForm` clears
  them), so the archive chosen for one problem is uploaded to the next.
* Groups and points that are typed without files are sent, ignored
  (`handlers/problem.go:208`) and reported: "Update succeeded." The form shows
  default groups in any case, as `GET /problems/{id}` returns none.
* A POST that fails after its INSERT leaves the problem without testcases, and a PUT
  that fails after its files has changed them (`InsertRow`, `StoreTestcases`).
* In the contest console, a problem added to one contest and answered after
  another's panel was opened shows the first one's list under the second.
* A failed role change replaces the table for good; a profile whose load failed is
  shown blank, and saving it erases the old one.
* `handlers/contest.go:323` keeps the "existing approval_status (no self-approval)" by
  writing back what it had read, and `handlers/problem.go:235` does the same, so an
  edit can also undo a decision taken meanwhile (`overtaken`); role and profile in `handlers/auth.go` likewise
  (`undone`).

## Proofs

`tlapm` checks every step. The assumptions are the `ASSUME`s of the modules, which
say that bounds are natural numbers, that null values are none of the real
ones and that no two testcases of a problem have the same id; none bounds the
numbers of submissions, replicas, workers, calls, slots, testcases, tabs, requests
or faults from above. Six theorems have a hypothesis of their own, which says when
the property holds; each is named below. Passing runs of the property satisfy it, and
`pipeline_swallowed_ce` and `pipeline_stuck_judging` are what happens without it.

**SubmissionPipeline.** `IInv` is type correctness, `NoLostJob`, `NoLostResult` and
two conjuncts that make them inductive. `Handling`: what a worker or consumer is
handling is at the head of its unacknowledged deliveries, and whoever is about
to acknowledge has published or updated before; without it an acknowledgement
could remove a job that nobody announced. `CreatedFirst`: jobs and results only
exist for submissions whose request has begun, and a handled verdict's row is no
longer PENDING; without it a row could be created under a result in flight.
One lemma per kind of step says what becomes of jobs and of results, so that
each conjunct is proved from a few facts about `JobHeld` and `InFlight` and not
from the actions. From `Invariance` follow `TypeCorrect`, `JobsConserved`,
`ResultsConserved` and `PendingNotStranded`; `DeletedRowsStayDeleted` is the action
property: only `CreateRow` and `CreateRowFails` of a new request make a row.

Three theorems say when a run's counterexample cannot happen or a special
configuration is all that a property needs:

* `PublishedBeforeAcknowledged`: if no publish of a worker reports an error,
  nothing is `swallowed`, and an acknowledged job was announced. This is what
  `pipeline_swallowed_ce` refutes, so the dropped error is the only cause.
* `AnswersMatchStores`: if rows can be inserted and deleted, 201 means that row
  and source file are there and 500 that there is no row. `StoresFollow` says it of
  every step the request has reached. Uploads, publishes and updates may fail, and
  replicas may die.
* `JudgingIsExplained`: with one replica and a result prefetch of 1, JUDGING in a
  row means that the submission is being judged, or its verdict is under way, or
  its CE was dropped. The argument is about the `Stream` of results as the replica
  is going to see them, its inbox and then the queue: behind every JUDGING comes a
  verdict, unless the job is still held (`Followed`, `Settled`). It needs
  `OneJobPerSubmission` (`OneJobEach`: queue and workers together hold a job once,
  so that no second worker announces JUDGING behind the first one's verdict), one
  replica, as two would have two streams, and the prefetch, as a requeued result
  changes places with those delivered after it (`AppliesInOrder`).
  `pipeline_stuck_judging` is the counterexample without it. The number of workers
  and the kinds of faults are open.

Three more are about the end of it all. `AnswersAreFinal` says that an answer is
given once. A submission is `AtRest` when its request has ended and no job or
result of it is in a queue or in anybody's hands. `RestIsFinal`: nothing revives
it, as jobs come from requests only and results from jobs. `RestIsJudged`: under
the hypotheses of `AnswersMatchStores` and `JudgingIsExplained` an accepted one has
its verdict and its source file, unless its CE was dropped. This is the part of
`AcceptedIsJudged` that needs no fairness: the pipeline never comes to rest
without having judged what it accepted.

**JudgeService** (in `SubmissionPipeline_proofs`). `PipelineImplementsService`:
`Spec => Service!Spec` under the mapping. A step of the pipeline moves at most one request's answer, one row, or the set of
verdicts announced; the lemmas group the actions by which of the three they
move. The one step that needs an invariant is a row that takes a verdict:
`PublishedFirst` says that no verdict is in flight that was not announced.
`ApiserverRestarts` maps to `Abandon`, for all requests of the replica at once.
`VerdictsAreTheJudges` is then proved of the service's few steps and carried over:
no verdict in a row that no worker has announced.

**SlotPool.** `IInv` adds to `SlotsConserved` that a directory belongs to a UID
only while its call has the slot and has not restored it. `ReleaseHasRoom` is a
counting argument: the buffer is injective and lacks the slot being released,
so it is shorter than its capacity. `PoolBoundsTheCalls` counts both sides: the
calls with a slot and the slots in the buffer add up to the capacity, so a waiter
waits for a call at work and never for a slot that got lost.

**TestcaseCache.** `CacheInv` is `TypeOK`, `TrackedHaveFiles`, `DiskAccounted` and
`FetchedOnce`: a file is only opened when there is none, and only counted once it
is whole, so that `Put` always puts a new key. `DiskAccounted` counts the files
that escape the list (`Stray`): one for each failed copy, one for each eviction
whose file could not be removed, and for each death of the process what the list
held and the copy in hand, so a worker's volume grows with its faults and with
nothing else. `PutMoves` then says all a `Put` does: the key in front, the others a
place back, the last one gone if the list was full, with its file unless the
removal fails. `PathsOutliveTheirUse` is the deeper one. Why is a returned path
not evicted before it is read, when only one key of the two is as new as the
fetch? Because keys enter, and so leave, in pairs: an input is counted right
behind its output (`Adjacent`), so one eviction takes the input of some other
testcase and the next one its output (`InPairs`; `HalfPair` while the pair is
being fetched). A file whose removal failed does no harm here: it is never on the
list again, so it stays. The theorem holds for every capacity but 1, in which no pair fits; odd
capacities leave a lone output at the end, which is the next to go.
`PartsNeedAFault`: a part of a file is only read after a failed copy or a death, so
`cache_truncated` shows the only way.

**Judging.** `JudgeInv` says what the totals are half way through: there is a map
of the testcases passed by the loop (`Done`) to their verdicts such that the
counts and the list of results are theirs, `worst` is AC or the verdict of a
failed one with no failed one before it, and the score is that of the groups
that ended with all passed (`Counted`, `Earliest`, `Scored`). From that, at the end,
where everything is done, `FirstFailureDecides` and `ScoreIsOfWholeGroups`
follow; equal ids would let the results of two testcases be mistaken for one
another, equal ordinals change nothing. Before the steps come two matters of
data. `OrderSorts`: every sequence has an order by its ordinals, by the ranks of
its elements, with ties broken by their place. `PointsAdd`: one more group adds
its points to the sum, for which the sum that `FoldSet` computes must first be
shown to be a function of the set. Both are for problems of any size.
`SystemErrorNeedsASignal` is the other side of `judging_shutdown`: without a signal
`SystemErrorExplained` holds.

**ContestRejudge.** `NobodyIsForgotten` holds for any number of workers, from two
more conjuncts: a stored submission's row is there (`Stored`), and after an
announcement that a submission is being judged comes its verdict (`Announced`),
so that a JUDGING that overwrites a verdict is itself going to be overwritten.
`RejudgeWins` is about one worker, as the property is. Its invariant `EffectInv`
says that whatever is outdated, that is, of older testcases than the last
rejudge has promised, is followed by something of the same submission: a job by
a later job, a job at work by a queued one, a verdict by any of these or by a
later verdict, a row by anything (`JobsFollowed`, `WorkFollowed`,
`VerdictsFollowed`, `RowsFollowed`). A promise is only made together with a job at
the end of the queue that keeps it (`PromisesRead`, `Grown`). One worker is needed
in one place: a second one could hold an outdated job while the first takes the
job that follows it. The files need an invariant of their own, for any number of
workers: groups are saved after their files were uploaded, so whoever has read
groups, or carries them in a job, fetches no older file (`FilesInv`). The theorem
says nothing of the files that a worker had before.

**Session.** `SessionInv` is types, `TimerIsCurrent` and `NoStrandedPage` together:
which timer fires is known from the second, where the tab ends up from the
types. `SignOutsAreDue` is the action property `NoEarlySignOut`: a timer that fires
is the current one, by `TimerIsCurrent`, so its token has expired.

**ClientPages.** The lemmas about `ApiClient` say what sending, failing and
answering do to the requests in flight: which are still there, at which place,
and that nothing but the status of a served one has changed (`Same`, `Served`).
Each page has its invariant over them, and one lemma per group of actions.

* `PollingNeverLeaks`: what the clean-up leaves is no interval, by the invariant, so
  each run of the effect leaves one exactly if it should; every other step
  leaves list and effect alone.
* `FormAlwaysNamesItsProblem`: `FormInv` adds that the data of a load are those of
  the problem it asked for (`LoadedAsAsked`).
* `SavedIsStored`: `SaveInv` says that, unless saves are raced, one is on its way
  at most, and that the server has stored as much of it as it has got through: a
  POST that is midway its text, a PUT that is midway its files and groups, one that
  is answered all of it (`SaveStored`).
* `ButtonTellsTheTruth`: `ButtonInv` says that the button that is mounted has one
  request at a time (`OneAtATime`) and that its answer, once the server has given
  one, is the truth, or becomes it with the toggle that was answered (`Told`).
* `ReportedDecisionIsStored`: of a kind that is not `doubled` one decision is on
  its way at most and none while one is reported; what the server handled is in
  force unless `overtaken` (`Orderly`).
* `PanelShowsTheContest`: a panel, or a load, that is stale is followed by a later
  load, or will be: the continuation of the change that made it stale sends one
  (`PanelFollows`). When nothing is in flight nothing follows, so nothing is
  stale.
* `TableShowsTheRoles`: the table is empty until the users are loaded, so no
  assignment is on its way before (`RolesLoaded`), and an assignment that the
  server has answered is in force unless `crossed` or `undone` (`RolesAssigned`).

`PageTypes` is `TypeOK` of all pages, which takes the longest proof. A page puts
into its variables what an answer carries, so the invariant (`PagesInv`: one
conjunct for each of the pages, such as `ContestTypes`) says of every request in
flight what it asks about and, once it is answered, what it holds. And a page's
requests must go on being few: the length of `net` is bounded by what the page
has on its way and by what it may still send, which rests on the other
invariants (`PollingMatchesScreen` for the polls of the submission pages,
`ButtonInv` for the checks and toggles of the contest page, `RoleInv` for the users'
table). There are two stored problems or contests at least, as the pages start
with two.

None depends on the bounds of the run.

**QueueLemmas** says what `Append`, `Tail`, concatenation, a push to the front and a
removal at the end do to the range, the injectivity and the places of a queue.

Only model-checked: all liveness (`AcceptedIsJudged`, `WaiterServed`,
`RejudgedEventually`, `ExpiredSessionLeaves`, `PendingLeavesScreen`), because the
prover handles neither `ENABLED` nor fairness. Every other property of a passing
run is proved. The library's induction theorems have an operator as parameter,
which the provers cannot instantiate. Where
`Judging_proofs` needs induction it has a lemma about sets of numbers instead
(`SetInduction`, from the well-foundedness of < on Nat). No module with a proof
declares a RECURSIVE operator.

## Not modelled

* **The manager's problem and contest consoles** (`manager/problems`,
  `manager/contests`) and the problem panel of `manager/contests/[id]` repeat the
  admin's pages, which are modelled, with fewer rights; a second copy would say
  nothing new. `ApprovalDesk` has the one step of them that concerns the other side,
  the save of a problem.
* **Pages that load once and show what they have loaded**: problem and contest
  lists, contest submissions, profiles, the blog. The **leaderboard** is a read
  over finished rows (its ICPC penalty counts every attempt, those after the
  accepted one and compilation errors included, `contest.go:323`); it changes no
  state and nothing runs against it.
* **Finer steps of one request**: the single files of one upload
  (`testcase_bundle.go:66`), which a failure can leave half replaced, and the
  registration and contest window read before the INSERT (`contest.go:190`).
* **A broker restart**: what it keeps depends on queue settings taken from the
  environment. **An UPDATE that ends after its connection dropped**: its effect, an
  older verdict written last, is that of the requeued JUDGING in
  `pipeline_stuck_judging`.
* **lime's handshake** over its socket pair (`lime/src/run.c`): the worker sees a
  response, an error or its own timeout, which is what `SlotPool` and `Judging`
  have. The grader's comparison and the parsing of archives and CPU sets are pure
  functions. Adapters, migrations, manifests and images hold no behaviour of their
  own.

What would come next: two uploads of one problem's testcases at once, file by file,
and a problem update against a rejudge that reads the groups half way.
