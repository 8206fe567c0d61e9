-------------------------- MODULE SubmissionPipeline --------------------------
(***************************************************************************)
(* The life of a submission, from the HTTP request that creates it to the  *)
(* verdict in its database row:                                            *)
(*                                                                         *)
(*   request --row--> submissions table      worker --JUDGING, verdict-->  *)
(*      |                                      ^                  |        *)
(*      +--job--> queue "submissions" ---------+   "submission-results"    *)
(*                                                                |        *)
(*   submissions table <-- Update -- result consumer <------------+        *)
(*                                                                         *)
(* A request runs inside one apiserver replica (Home), and every replica   *)
(* also runs one result consumer.  A worker handles one delivery at a time *)
(* and holds up to WorkerPrefetch unacknowledged ones.                     *)
(*                                                                         *)
(* The broker is external: FIFO queues, at-least-once delivery, a requeued *)
(* delivery returns to the front of its queue.  A call that reports an     *)
(* error may have taken effect or not.                                     *)
(***************************************************************************)
EXTENDS Naturals, Sequences, Functions

CONSTANTS
    Submissions,     \* ids of the submissions table
    Replicas,        \* apiserver processes
    Workers,         \* judge worker processes
    Home,            \* the replica that serves the request of a submission
    Terminal,        \* the verdicts a judged job can end with
    WorkerPrefetch,  \* unacknowledged jobs the broker lets a worker hold
    ResultPrefetch,  \* unacknowledged results the broker lets a consumer hold
    FaultKinds,      \* the faults of an instance, a subset of AllFaultKinds
    MaxFaults        \* bound on the number of faults

AllFaultKinds ==
    {"store",       \* a request's INSERT or DELETE fails
     "storage",     \* a request's object upload or deletion fails
     "enqueue",     \* a request's publish fails
     "publish",     \* a worker's publish fails
     "worker",      \* a worker dies, or loses its broker connection
     "database",    \* a result consumer's UPDATE fails
     "connection",  \* a replica loses its broker connection
     "apiserver"}   \* a replica dies and is restarted

ASSUME PipelineAssumption ==
    /\ Home \in [Submissions -> Replicas]
    /\ "CE" \in Terminal
    /\ {"ABSENT", "PENDING", "JUDGING"} \cap Terminal = {}
    /\ WorkerPrefetch \in Nat \ {0}
    /\ ResultPrefetch \in Nat \ {0}
    /\ FaultKinds \subseteq AllFaultKinds
    /\ MaxFaults \in Nat

VARIABLES
    rows,        \* submissions table: verdict column, or "ABSENT"
    artifacts,   \* submissions whose source file is in object storage
    request,     \* how far the request of a submission is
    jobs,        \* queue "submissions"
    deliveries,  \* jobs delivered to a worker and not acknowledged yet
    stage,       \* what a worker is doing with the first of them
    results,     \* queue "submission-results"
    inbox,       \* results delivered to a replica and not acknowledged yet
    consumer,    \* what the replica's result consumer is doing
    faults,      \* faults so far
    announced,   \* history: submissions with a terminal result published
    swallowed,   \* history: CE results whose publish error was ignored
    consumed     \* history: submissions with a terminal result handled

requestVars  == <<artifacts, request>>
workerVars   == <<deliveries, stage>>
consumerVars == <<inbox, consumer>>
history      == <<announced, swallowed, consumed>>
vars == <<rows, jobs, results, faults,
          requestVars, workerVars, consumerVars, history>>

RowVerdict == {"ABSENT", "PENDING", "JUDGING"} \cup Terminal
Result     == [id : Submissions, verdict : {"JUDGING"} \cup Terminal]

InHandler  == {"created", "uploaded", "undoArtifact", "undoRow"}
Stage      == {"idle", "judging", "acking", "nacking"}

TypeOK ==
    /\ rows \in [Submissions -> RowVerdict]
    /\ artifacts \subseteq Submissions
    /\ request \in [Submissions ->
            {"new", "accepted", "rejected", "aborted"} \cup InHandler]
    /\ jobs \in Seq(Submissions)
    /\ deliveries \in [Workers -> Seq(Submissions)]
    /\ stage \in [Workers -> Stage]
    /\ results \in Seq(Result)
    /\ inbox \in [Replicas -> Seq(Result)]
    /\ consumer \in [Replicas -> {"receiving", "applied", "exited"}]
    /\ faults \in Nat
    /\ announced \subseteq Submissions
    /\ swallowed \subseteq Submissions
    /\ consumed \subseteq Submissions

Init ==
    /\ rows = [s \in Submissions |-> "ABSENT"]
    /\ artifacts = {}
    /\ request = [s \in Submissions |-> "new"]
    /\ jobs = <<>>
    /\ deliveries = [w \in Workers |-> <<>>]
    /\ stage = [w \in Workers |-> "idle"]
    /\ results = <<>>
    /\ inbox = [r \in Replicas |-> <<>>]
    /\ consumer = [r \in Replicas |-> "receiving"]
    /\ faults = 0
    /\ announced = {}
    /\ swallowed = {}
    /\ consumed = {}

Fault(kind) ==
    /\ kind \in FaultKinds
    /\ faults < MaxFaults
    /\ faults' = faults + 1

Requeue(messages, queue) == messages \o queue

Connected(r) == consumer[r] # "exited"

-----------------------------------------------------------------------------
(* The request: SubmissionService.CreateAndEnqueue.                        *)

CreateRow(s) ==
    /\ request[s] = "new"
    /\ rows' = [rows EXCEPT ![s] = "PENDING"]
    /\ request' = [request EXCEPT ![s] = "created"]
    /\ UNCHANGED <<artifacts, jobs, results, faults,
                   workerVars, consumerVars, history>>

\* The error leaves nothing to undo for the caller, who has no id yet.
CreateRowFails(s) ==
    /\ request[s] = "new"
    /\ Fault("store")
    /\ \E verdict \in {"ABSENT", "PENDING"} :
            rows' = [rows EXCEPT ![s] = verdict]
    /\ request' = [request EXCEPT ![s] = "rejected"]
    /\ UNCHANGED <<artifacts, jobs, results,
                   workerVars, consumerVars, history>>

UploadSource(s) ==
    /\ request[s] = "created"
    /\ artifacts' = artifacts \cup {s}
    /\ request' = [request EXCEPT ![s] = "uploaded"]
    /\ UNCHANGED <<rows, jobs, results, faults,
                   workerVars, consumerVars, history>>

\* Mutant: the failed upload does not delete the row.
UploadFailsWithoutUndo(s) ==
    /\ request[s] = "created"
    /\ Fault("storage")
    /\ artifacts' \in {artifacts, artifacts \cup {s}}
    /\ request' = [request EXCEPT ![s] = "rejected"]
    /\ UNCHANGED <<rows, jobs, results, workerVars, consumerVars, history>>

UploadSourceFails(s) ==
    /\ request[s] = "created"
    /\ Fault("storage")
    /\ artifacts' \in {artifacts, artifacts \cup {s}}
    /\ request' = [request EXCEPT ![s] = "undoRow"]
    /\ UNCHANGED <<rows, jobs, results, workerVars, consumerVars, history>>

PublishJob(s) ==
    /\ request[s] = "uploaded"
    /\ Connected(Home[s])
    /\ jobs' = Append(jobs, s)
    /\ request' = [request EXCEPT ![s] = "accepted"]
    /\ UNCHANGED <<rows, artifacts, results, faults,
                   workerVars, consumerVars, history>>

PublishJobFails(s) ==
    /\ request[s] = "uploaded"
    /\ \/ /\ ~Connected(Home[s])
          /\ UNCHANGED <<jobs, faults>>
       \/ /\ Connected(Home[s])
          /\ Fault("enqueue")
          /\ jobs' \in {jobs, Append(jobs, s)}
    /\ request' = [request EXCEPT ![s] = "undoArtifact"]
    /\ UNCHANGED <<rows, artifacts, results,
                   workerVars, consumerVars, history>>

\* Compensation is best effort: the error of either deletion is dropped.
DeleteArtifact(s) ==
    /\ request[s] = "undoArtifact"
    /\ \/ artifacts' = artifacts \ {s} /\ UNCHANGED faults
       \/ Fault("storage") /\ UNCHANGED artifacts
    /\ request' = [request EXCEPT ![s] = "undoRow"]
    /\ UNCHANGED <<rows, jobs, results, workerVars, consumerVars, history>>

DeleteRow(s) ==
    /\ request[s] = "undoRow"
    /\ \/ rows' = [rows EXCEPT ![s] = "ABSENT"] /\ UNCHANGED faults
       \/ Fault("store") /\ UNCHANGED rows
    /\ request' = [request EXCEPT ![s] = "rejected"]
    /\ UNCHANGED <<artifacts, jobs, results,
                   workerVars, consumerVars, history>>

RequestStep(s) ==
    \/ UploadSource(s) \/ PublishJob(s) \/ PublishJobFails(s)
    \/ DeleteArtifact(s) \/ DeleteRow(s)

-----------------------------------------------------------------------------
(* The worker: Subscribe's loop around processJobWithPublisher.            *)

DeliverJob(w) ==
    /\ jobs # <<>>
    /\ Len(deliveries[w]) < WorkerPrefetch
    /\ deliveries' = [deliveries EXCEPT ![w] = Append(@, Head(jobs))]
    /\ jobs' = Tail(jobs)
    /\ UNCHANGED <<rows, results, faults, stage,
                   requestVars, consumerVars, history>>

\* Mutant: the verdict is not set before the first publish.
StillPending(s) == [id |-> s, verdict |-> "PENDING"]

Judging(s) == [id |-> s, verdict |-> "JUDGING"]

\* A failure to publish JUDGING is only logged.
StartJob(w) ==
    /\ stage[w] = "idle"
    /\ deliveries[w] # <<>>
    /\ \/ /\ results' = Append(results, Judging(Head(deliveries[w])))
          /\ UNCHANGED faults
       \/ /\ Fault("publish")
          /\ UNCHANGED results
    /\ stage' = [stage EXCEPT ![w] = "judging"]
    /\ UNCHANGED <<rows, jobs, deliveries,
                   requestVars, consumerVars, history>>

Announce(s, verdict) ==
    /\ results' = Append(results, [id |-> s, verdict |-> verdict])
    /\ announced' = announced \cup {s}

FinishJob(w, verdict) ==
    /\ stage[w] = "judging"
    /\ Announce(Head(deliveries[w]), verdict)
    /\ stage' = [stage EXCEPT ![w] = "acking"]
    /\ UNCHANGED <<rows, jobs, deliveries, faults, swallowed, consumed,
                   requestVars, consumerVars>>

\* Mutant: every verdict's publish error is dropped.
FinishJobRegardless(w, verdict) ==
    /\ stage[w] = "judging"
    /\ Fault("publish")
    /\ stage' = [stage EXCEPT ![w] = "acking"]
    /\ UNCHANGED <<rows, jobs, results, deliveries, history,
                   requestVars, consumerVars>>

\* compile() drops the error of its publish and reports the job as done;
\* every other verdict returns the error, and Subscribe rejects the delivery.
FinishJobFails(w, verdict) ==
    /\ stage[w] = "judging"
    /\ Fault("publish")
    /\ \/ Announce(Head(deliveries[w]), verdict)
       \/ UNCHANGED <<results, announced>>
    /\ \/ /\ verdict = "CE"
          /\ stage' = [stage EXCEPT ![w] = "acking"]
          /\ swallowed' = swallowed \cup {Head(deliveries[w])}
       \/ /\ verdict # "CE"
          /\ stage' = [stage EXCEPT ![w] = "nacking"]
          /\ UNCHANGED swallowed
    /\ UNCHANGED <<rows, jobs, deliveries, consumed,
                   requestVars, consumerVars>>

AckJob(w) ==
    /\ stage[w] = "acking"
    /\ deliveries' = [deliveries EXCEPT ![w] = Tail(@)]
    /\ stage' = [stage EXCEPT ![w] = "idle"]
    /\ UNCHANGED <<rows, jobs, results, faults,
                   requestVars, consumerVars, history>>

NackJob(w) ==
    /\ stage[w] = "nacking"
    /\ jobs' = Requeue(<<Head(deliveries[w])>>, jobs)
    /\ deliveries' = [deliveries EXCEPT ![w] = Tail(@)]
    /\ stage' = [stage EXCEPT ![w] = "idle"]
    /\ UNCHANGED <<rows, results, faults,
                   requestVars, consumerVars, history>>

\* The broker requeues what the worker had not acknowledged; the process is
\* started again by its supervisor (log.Fatalf on a closed delivery channel).
WorkerDies(w) ==
    /\ Fault("worker")
    /\ jobs' = Requeue(deliveries[w], jobs)
    /\ deliveries' = [deliveries EXCEPT ![w] = <<>>]
    /\ stage' = [stage EXCEPT ![w] = "idle"]
    /\ UNCHANGED <<rows, results, requestVars, consumerVars, history>>

WorkerStep(w) ==
    \/ DeliverJob(w) \/ StartJob(w) \/ AckJob(w) \/ NackJob(w)
    \/ \E verdict \in Terminal : FinishJob(w, verdict)

-----------------------------------------------------------------------------
(* The result consumer of a replica, and the replica itself.               *)

DeliverResult(r) ==
    /\ Connected(r)
    /\ results # <<>>
    /\ Len(inbox[r]) < ResultPrefetch
    /\ inbox' = [inbox EXCEPT ![r] = Append(@, Head(results))]
    /\ results' = Tail(results)
    /\ UNCHANGED <<rows, jobs, faults, consumer,
                   requestVars, workerVars, history>>

\* Mutant: INSERT ... ON CONFLICT UPDATE.
Upserted(table, m) == [table EXCEPT ![m.id] = m.verdict]

\* UPDATE ... WHERE id: unconditional, and without effect on a missing row.
Updated(table, m) ==
    [s \in Submissions |->
        IF s = m.id /\ table[s] # "ABSENT" THEN m.verdict ELSE table[s]]

\* A result for a missing row is discarded: acknowledged like any other.
ApplyResult(r) ==
    LET m == Head(inbox[r]) IN
    /\ consumer[r] = "receiving"
    /\ inbox[r] # <<>>
    /\ rows' = Updated(rows, m)
    /\ consumed' = IF m.verdict \in Terminal THEN consumed \cup {m.id}
                                             ELSE consumed
    /\ consumer' = [consumer EXCEPT ![r] = "applied"]
    /\ UNCHANGED <<jobs, results, faults, inbox, announced, swallowed,
                   requestVars, workerVars>>

AckResult(r) ==
    /\ consumer[r] = "applied"
    /\ inbox' = [inbox EXCEPT ![r] = Tail(@)]
    /\ consumer' = [consumer EXCEPT ![r] = "receiving"]
    /\ UNCHANGED <<rows, jobs, results, faults,
                   requestVars, workerVars, history>>

\* Mutant: any error of the update counts as permanent.
DiscardOnError(r) ==
    /\ consumer[r] = "receiving"
    /\ inbox[r] # <<>>
    /\ Fault("database")
    /\ inbox' = [inbox EXCEPT ![r] = Tail(@)]
    /\ UNCHANGED <<rows, jobs, results, consumer,
                   requestVars, workerVars, history>>

\* Mutant: a retry is a message of its own, behind the later ones.
RetryByRepublish(r) ==
    /\ consumer[r] = "receiving"
    /\ inbox[r] # <<>>
    /\ Fault("database")
    /\ rows' \in {rows, Updated(rows, Head(inbox[r]))}
    /\ results' = Append(results, Head(inbox[r]))
    /\ inbox' = [inbox EXCEPT ![r] = Tail(@)]
    /\ UNCHANGED <<jobs, consumer, requestVars, workerVars, history>>

ApplyResultFails(r) ==
    /\ consumer[r] = "receiving"
    /\ inbox[r] # <<>>
    /\ Fault("database")
    /\ rows' \in {rows, Updated(rows, Head(inbox[r]))}
    /\ results' = Requeue(<<Head(inbox[r])>>, results)
    /\ inbox' = [inbox EXCEPT ![r] = Tail(@)]
    /\ UNCHANGED <<jobs, consumer, requestVars, workerVars, history>>

\* Subscribe returns, its goroutine logs the error and ends; the connection
\* is never dialled again, while the HTTP server keeps serving.
ConnectionDrops(r) ==
    /\ Connected(r)
    /\ Fault("connection")
    /\ results' = Requeue(inbox[r], results)
    /\ inbox' = [inbox EXCEPT ![r] = <<>>]
    /\ consumer' = [consumer EXCEPT ![r] = "exited"]
    /\ UNCHANGED <<rows, jobs, requestVars, workerVars, history>>

ApiserverRestarts(r) ==
    /\ Fault("apiserver")
    /\ results' = Requeue(inbox[r], results)
    /\ inbox' = [inbox EXCEPT ![r] = <<>>]
    /\ consumer' = [consumer EXCEPT ![r] = "receiving"]
    /\ request' = [s \in Submissions |->
            IF Home[s] = r /\ request[s] \in InHandler THEN "aborted"
                                                       ELSE request[s]]
    /\ UNCHANGED <<rows, artifacts, jobs, workerVars, history>>

ConsumerStep(r) == DeliverResult(r) \/ ApplyResult(r) \/ AckResult(r)

-----------------------------------------------------------------------------

Next ==
    \/ \E s \in Submissions :
            \/ CreateRow(s) \/ CreateRowFails(s)
            \/ UploadSource(s) \/ UploadSourceFails(s)
            \/ PublishJob(s) \/ PublishJobFails(s)
            \/ DeleteArtifact(s) \/ DeleteRow(s)
    \/ \E w \in Workers :
            \/ DeliverJob(w) \/ StartJob(w)
            \/ \E verdict \in Terminal :
                    FinishJob(w, verdict) \/ FinishJobFails(w, verdict)
            \/ AckJob(w) \/ NackJob(w) \/ WorkerDies(w)
    \/ \E r \in Replicas :
            \/ DeliverResult(r) \/ ApplyResult(r) \/ AckResult(r)
            \/ ApplyResultFails(r) \/ ConnectionDrops(r)
            \/ ApiserverRestarts(r)

Spec == Init /\ [][Next]_vars

\* Running code makes progress; nobody has to send a request, nothing has
\* to fail, and no particular verdict has to come out.
Fairness ==
    /\ \A s \in Submissions : WF_vars(RequestStep(s))
    /\ \A w \in Workers : WF_vars(WorkerStep(w))
    /\ \A r \in Replicas : WF_vars(ConsumerStep(r))

FairSpec == Spec /\ Fairness

-----------------------------------------------------------------------------
(* Correctness.                                                            *)

\* The job of s is in the queue or with a worker that has not acknowledged it.
JobHeld(s) ==
    \/ s \in Range(jobs)
    \/ \E w \in Workers : s \in Range(deliveries[w])

InFlight(m) ==
    \/ m \in Range(results)
    \/ \E r \in Replicas : m \in Range(inbox[r])

TerminalInFlight(s) ==
    \E v \in Terminal : InFlight([id |-> s, verdict |-> v])

\* At-least-once judging: through worker deaths, rejected deliveries and
\* lost connections, the job of an accepted request is held until a terminal
\* result of it was published, unless the publish error of a CE was ignored.
NoLostJob ==
    \A s \in Submissions :
        request[s] = "accepted" => JobHeld(s) \/ s \in announced \cup swallowed

\* A terminal result, once published, stays in flight until a consumer has
\* written it to its row (or found the row gone): acknowledging, rejecting,
\* losing the connection and dying lose none.
NoLostResult == \A s \in announced : TerminalInFlight(s) \/ s \in consumed

\* The inductive invariant behind the two: what is being handled is still
\* unacknowledged, an acknowledgement follows the publish or the update, and
\* jobs and results exist only for rows that were created before them.
Handling ==
    /\ \A w \in Workers :
            /\ stage[w] # "idle" => deliveries[w] # <<>>
            /\ stage[w] = "acking" =>
                    Head(deliveries[w]) \in announced \cup swallowed
    /\ \A r \in Replicas :
            consumer[r] = "applied" =>
                /\ inbox[r] # <<>>
                /\ Head(inbox[r]).verdict \in Terminal =>
                        Head(inbox[r]).id \in consumed

CreatedFirst ==
    /\ \A s \in Submissions : JobHeld(s) => request[s] # "new"
    /\ \A m \in Result : InFlight(m) => request[m.id] # "new"
    /\ \A s \in consumed : request[s] # "new" /\ rows[s] # "PENDING"

IInv == TypeOK /\ Handling /\ CreatedFirst /\ NoLostJob /\ NoLostResult

\* A row that reads PENDING after the client was told 201 is going to be
\* judged: its job is held or its verdict is on its way.
NoStrandedPending ==
    \A s \in Submissions :
        request[s] = "accepted" /\ rows[s] = "PENDING" =>
            JobHeld(s) \/ TerminalInFlight(s) \/ s \in swallowed

\* JUDGING means what it says: the submission is still being judged, or its
\* verdict is on its way.  Needs results applied in the order published: one
\* consumer, one unacknowledged result at a time.
JudgingExplained ==
    \A s \in Submissions :
        rows[s] = "JUDGING" =>
            JobHeld(s) \/ TerminalInFlight(s) \/ s \in swallowed

\* What the worker's comment promises of a finished job: no job of an
\* accepted request is acknowledged before its result is published.
AcknowledgedIsAnnounced ==
    \A s \in Submissions :
        request[s] = "accepted" => JobHeld(s) \/ s \in announced

\* A row that a rejected request removed never comes back: a verdict for it
\* (its publish failed, yet the job was delivered) is discarded.
DeletedStaysDeleted ==
    [][\A s \in Submissions :
         request[s] # "new" /\ rows[s] = "ABSENT" => rows'[s] = "ABSENT"]_vars

\* The answer of the request matches the stores: 201 has its row and its
\* source file, 500 has undone its row.  Holds while the rows themselves can
\* be written and the replica survives.
AnswerMatchesStore ==
    \A s \in Submissions :
        /\ request[s] = "accepted" => rows[s] # "ABSENT" /\ s \in artifacts
        /\ request[s] = "rejected" => rows[s] = "ABSENT"

\* Every accepted submission ends with a terminal verdict in its row, for
\* good, whichever worker, consumer or replica failed on the way.
AcceptedIsJudged ==
    \A s \in Submissions :
        request[s] = "accepted" ~>
            [](rows[s] \in Terminal) \/ s \in swallowed

-----------------------------------------------------------------------------
(* The service the pipeline implements.                                    *)

\* What a client knows of its request.
AnswerOf(stageOfRequest) ==
    CASE stageOfRequest = "new"        -> "none"
      [] stageOfRequest \in InHandler  -> "open"
      [] stageOfRequest = "accepted"   -> "accepted"
      [] stageOfRequest = "rejected"   -> "refused"
      [] stageOfRequest = "aborted"    -> "lost"

Service == INSTANCE JudgeService
           WITH answer <- [s \in Submissions |-> AnswerOf(request[s])],
                column <- rows,
                judged <- announced

\* Whatever fails, a client and the readers of the table see the service:
\* one answer per request, a row that is created once and never returns, and no
\* verdict in it that a judge has not given.
ImplementsService == Service!Spec
=============================================================================
