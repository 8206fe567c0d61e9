----------------------- MODULE SubmissionPipeline_proofs -----------------------
(***************************************************************************)
(* Machine-checked proofs about SubmissionPipeline, for any number of      *)
(* submissions, replicas and workers, any prefetch limits, and any number  *)
(* and mix of faults.                                                      *)
(***************************************************************************)
EXTENDS SubmissionPipeline, QueueLemmas

(***************************************************************************)
(* Types.                                                                  *)
(***************************************************************************)

(* The steps of a request keep the types. *)
LEMMA RequestTypes ==
    ASSUME TypeOK, NEW s \in Submissions,
           \/ CreateRow(s) \/ CreateRowFails(s)
           \/ UploadSource(s) \/ UploadSourceFails(s)
           \/ PublishJob(s) \/ PublishJobFails(s)
           \/ DeleteArtifact(s) \/ DeleteRow(s)
    PROVE  TypeOK'
<1> USE PipelineAssumption DEF TypeOK, requestVars, workerVars, consumerVars,
        history, Fault, RowVerdict, InHandler
<1>1. CASE CreateRow(s)
  BY <1>1 DEF CreateRow
<1>2. CASE CreateRowFails(s)
  BY <1>2 DEF CreateRowFails
<1>3. CASE UploadSource(s)
  BY <1>3 DEF UploadSource
<1>4. CASE UploadSourceFails(s)
  BY <1>4 DEF UploadSourceFails
<1>5. CASE PublishJob(s)
  BY <1>5 DEF PublishJob
<1>6. CASE PublishJobFails(s)
  <2>1. /\ jobs \in Seq(Submissions)
        /\ Append(jobs, s) \in Seq(Submissions)
    OBVIOUS
  <2>2. CASE ~Connected(Home[s])
    BY <1>6, <2>2 DEF PublishJobFails
  <2>3. CASE Connected(Home[s])
    <3>1. jobs' \in Seq(Submissions)
      BY <1>6, <2>1, <2>3 DEF PublishJobFails
    <3>2. faults' \in Nat
      BY <1>6, <2>3 DEF PublishJobFails
    <3>3. QED
      BY <1>6, <3>1, <3>2 DEF PublishJobFails
  <2>4. QED
    BY <2>2, <2>3
<1>7. CASE DeleteArtifact(s)
  BY <1>7 DEF DeleteArtifact
<1>8. CASE DeleteRow(s)
  <2>1. CASE UNCHANGED faults
    BY <1>8, <2>1 DEF DeleteRow
  <2>2. CASE Fault("store") /\ UNCHANGED rows
    BY <1>8, <2>2 DEF DeleteRow
  <2>3. QED
    BY <1>8, <2>1, <2>2 DEF DeleteRow
<1>9. QED
  BY <1>1, <1>2, <1>3, <1>4, <1>5, <1>6, <1>7, <1>8

(* The steps of a worker keep the types; the ones that look at the first   *)
(* delivery need that there is one.                                        *)
LEMMA WorkerTypes ==
    ASSUME TypeOK, Handling, NEW w \in Workers, NEW v \in Terminal,
           \/ DeliverJob(w) \/ StartJob(w)
           \/ FinishJob(w, v) \/ FinishJobFails(w, v)
           \/ AckJob(w) \/ NackJob(w) \/ WorkerDies(w)
    PROVE  TypeOK'
<1> USE DEF TypeOK, requestVars, workerVars, consumerVars, history, Fault, Stage
<1>1. deliveries[w] \in Seq(Submissions)
  OBVIOUS
<1>2. deliveries[w] # <<>> => /\ Head(deliveries[w]) \in Submissions
                              /\ Tail(deliveries[w]) \in Seq(Submissions)
  BY <1>1, RangeTail
<1>3. stage[w] # "idle" => deliveries[w] # <<>>
  BY DEF Handling
<1>4. ASSUME NEW m \in Result PROVE Append(results, m) \in Seq(Result)
  OBVIOUS
<1>5. CASE DeliverJob(w)
  <2>1. Head(jobs) \in Submissions /\ Tail(jobs) \in Seq(Submissions)
    BY <1>5, RangeTail DEF DeliverJob
  <2>2. Append(deliveries[w], Head(jobs)) \in Seq(Submissions)
    BY <1>1, <2>1
  <2>3. QED
    BY <1>5, <2>1, <2>2 DEF DeliverJob
<1>6. CASE StartJob(w)
  <2>1. Judging(Head(deliveries[w])) \in Result
    BY <1>2, <1>6 DEF StartJob, Judging, Result
  <2>2. Append(results, Judging(Head(deliveries[w]))) \in Seq(Result)
    BY <1>4, <2>1
  <2>3. CASE UNCHANGED faults
    BY <1>6, <2>2, <2>3 DEF StartJob
  <2>4. CASE Fault("publish") /\ UNCHANGED results
    BY <1>6, <2>4 DEF StartJob
  <2>5. QED
    BY <1>6, <2>3, <2>4 DEF StartJob
<1>7. CASE FinishJob(w, v)
  <2>1. [id |-> Head(deliveries[w]), verdict |-> v] \in Result
    BY <1>2, <1>3, <1>7 DEF FinishJob, Result
  <2>2. results' \in Seq(Result) /\ announced' \subseteq Submissions
    BY <1>2, <1>3, <1>4, <1>7, <2>1 DEF FinishJob, Announce
  <2>3. QED
    BY <1>7, <2>2 DEF FinishJob
<1>8. CASE FinishJobFails(w, v)
  <2>1. [id |-> Head(deliveries[w]), verdict |-> v] \in Result
    BY <1>2, <1>3, <1>8 DEF FinishJobFails, Result
  <2>2. results' \in Seq(Result) /\ announced' \subseteq Submissions
    BY <1>2, <1>3, <1>4, <1>8, <2>1 DEF FinishJobFails, Announce
  <2>3. /\ stage' \in [Workers -> Stage]
        /\ swallowed' \subseteq Submissions
    BY <1>2, <1>3, <1>8 DEF FinishJobFails
  <2>4. QED
    BY <1>8, <2>2, <2>3 DEF FinishJobFails
<1>9. CASE AckJob(w)
  BY <1>2, <1>3, <1>9 DEF AckJob
<1>10. CASE NackJob(w)
  <2>1. deliveries[w] # <<>>
    BY <1>3, <1>10 DEF NackJob
  <2>2. <<Head(deliveries[w])>> \o jobs \in Seq(Submissions)
    BY <1>2, <2>1
  <2>3. QED
    BY <1>2, <1>10, <2>1, <2>2 DEF NackJob, Requeue
<1>11. CASE WorkerDies(w)
  <2>1. deliveries[w] \o jobs \in Seq(Submissions)
    BY <1>1
  <2>2. QED
    BY <1>11, <2>1 DEF WorkerDies, Requeue
<1>12. QED
  BY <1>5, <1>6, <1>7, <1>8, <1>9, <1>10, <1>11

(* The steps of a replica's result consumer keep the types. *)
LEMMA ConsumerTypes ==
    ASSUME TypeOK, Handling, NEW r \in Replicas,
           \/ DeliverResult(r) \/ ApplyResult(r) \/ AckResult(r)
           \/ ApplyResultFails(r) \/ ConnectionDrops(r)
           \/ ApiserverRestarts(r)
    PROVE  TypeOK'
<1> USE DEF TypeOK, requestVars, workerVars, consumerVars, history, Fault,
            InHandler
<1>1. inbox[r] \in Seq(Result)
  OBVIOUS
<1>2. inbox[r] # <<>> => /\ Head(inbox[r]) \in Result
                         /\ Tail(inbox[r]) \in Seq(Result)
  BY <1>1, RangeTail
<1>3. ASSUME NEW m \in Result
      PROVE  Updated(rows, m) \in [Submissions -> RowVerdict]
  BY DEF Updated, Result, RowVerdict
<1>4. CASE DeliverResult(r)
  <2>1. Head(results) \in Result /\ Tail(results) \in Seq(Result)
    BY <1>4, RangeTail DEF DeliverResult
  <2>2. Append(inbox[r], Head(results)) \in Seq(Result)
    BY <1>1, <2>1
  <2>3. QED
    BY <1>4, <2>1, <2>2 DEF DeliverResult
<1>5. CASE ApplyResult(r)
  <2>1. Head(inbox[r]).id \in Submissions
    BY <1>2, <1>5 DEF ApplyResult, Result
  <2>2. consumed' \subseteq Submissions
    BY <1>5, <2>1 DEF ApplyResult
  <2>3. QED
    BY <1>2, <1>3, <1>5, <2>2 DEF ApplyResult
<1>6. CASE AckResult(r)
  <2>1. inbox[r] # <<>>
    BY <1>6 DEF AckResult, Handling
  <2>2. QED
    BY <1>2, <1>6, <2>1 DEF AckResult
<1>7. CASE ApplyResultFails(r)
  <2>1. <<Head(inbox[r])>> \o results \in Seq(Result)
    BY <1>2, <1>7 DEF ApplyResultFails
  <2>2. rows' \in [Submissions -> RowVerdict]
    BY <1>2, <1>3, <1>7 DEF ApplyResultFails
  <2>3. QED
    BY <1>2, <1>7, <2>1, <2>2 DEF ApplyResultFails, Requeue
<1>8. CASE ConnectionDrops(r)
  <2>1. inbox[r] \o results \in Seq(Result)
    BY <1>1
  <2>2. QED
    BY <1>8, <2>1 DEF ConnectionDrops, Requeue
<1>9. CASE ApiserverRestarts(r)
  <2>1. inbox[r] \o results \in Seq(Result)
    BY <1>1
  <2>2. QED
    BY <1>9, <2>1 DEF ApiserverRestarts, Requeue
<1>10. QED
  BY <1>4, <1>5, <1>6, <1>7, <1>8, <1>9

LEMMA TypeStep ==
    ASSUME TypeOK, Handling, [Next]_vars
    PROVE  TypeOK'
<1>1. CASE Next
  BY <1>1, RequestTypes, WorkerTypes, ConsumerTypes, PipelineAssumption DEF Next
<1>2. CASE UNCHANGED vars
  BY <1>2 DEF vars, requestVars, workerVars, consumerVars, history, TypeOK
<1>3. QED
  BY <1>1, <1>2

(***************************************************************************)
(* Conservation of jobs.                                                   *)
(***************************************************************************)

(* A delivery leaves a worker only after its job was announced or          *)
(* swallowed; every other way it goes, back to the queue, keeps it held.   *)
LEMMA WorkerHolds ==
    ASSUME TypeOK, Handling, NEW w \in Workers,
           \/ DeliverJob(w) \/ AckJob(w) \/ NackJob(w) \/ WorkerDies(w),
           NEW s \in Submissions
    PROVE  /\ JobHeld(s) => \/ JobHeld(s)'
                            \/ /\ AckJob(w) /\ s = Head(deliveries[w])
                               /\ s \in announced \cup swallowed
           /\ JobHeld(s)' => JobHeld(s)
<1>1. /\ deliveries[w] \in Seq(Submissions)
      /\ jobs \in Seq(Submissions)
  BY DEF TypeOK
<1>2. deliveries[w] # <<>> =>
        /\ Head(deliveries[w]) \in Submissions
        /\ Range(deliveries[w]) =
              Range(Tail(deliveries[w])) \cup {Head(deliveries[w])}
  BY <1>1, RangeTail
<1>3. ASSUME NEW u \in Workers, u # w PROVE deliveries'[u] = deliveries[u]
  BY <1>3 DEF TypeOK, DeliverJob, AckJob, NackJob, WorkerDies
<1>4. CASE DeliverJob(w)
  <2>1. /\ Head(jobs) \in Submissions
        /\ Range(jobs) = Range(jobs') \cup {Head(jobs)}
    BY <1>1, <1>4, RangeTail DEF DeliverJob
  <2>2. deliveries'[w] = Append(deliveries[w], Head(jobs))
    BY <1>4 DEF DeliverJob, TypeOK
  <2>3. Range(deliveries'[w]) = Range(deliveries[w]) \cup {Head(jobs)}
    BY <1>1, <2>1, <2>2, RangeAppend
  <2>4. QED
    BY <1>3, <2>1, <2>3 DEF JobHeld
<1>5. CASE AckJob(w)
  <2>1. /\ deliveries[w] # <<>>
        /\ Head(deliveries[w]) \in announced \cup swallowed
    BY <1>5 DEF AckJob, Handling
  <2>2. deliveries'[w] = Tail(deliveries[w]) /\ jobs' = jobs
    BY <1>5 DEF AckJob, TypeOK
  <2>3. QED
    BY <1>2, <1>3, <1>5, <2>1, <2>2 DEF JobHeld
<1>6. CASE NackJob(w)
  <2>1. deliveries[w] # <<>>
    BY <1>6 DEF NackJob, Handling
  <2>2. /\ deliveries'[w] = Tail(deliveries[w])
        /\ jobs' = <<Head(deliveries[w])>> \o jobs
    BY <1>6 DEF NackJob, Requeue, TypeOK
  <2>3. Range(jobs') = {Head(deliveries[w])} \cup Range(jobs)
    <3>1. <<Head(deliveries[w])>> \in Seq(Submissions)
      BY <1>2, <2>1
    <3>2. Range(jobs') = Range(<<Head(deliveries[w])>>) \cup Range(jobs)
      BY <1>1, <2>2, <3>1, RangeConcat
    <3>3. QED
      BY <1>2, <2>1, <3>2, RangeSmall
  <2>4. Range(deliveries[w]) =
            Range(deliveries'[w]) \cup {Head(deliveries[w])}
    BY <1>2, <2>1, <2>2
  <2>5. QED
    BY <1>3, <2>3, <2>4 DEF JobHeld
<1>7. CASE WorkerDies(w)
  <2>1. /\ deliveries'[w] = <<>>
        /\ jobs' = deliveries[w] \o jobs
    BY <1>7 DEF WorkerDies, Requeue, TypeOK
  <2>2. Range(jobs') = Range(deliveries[w]) \cup Range(jobs)
    BY <1>1, <2>1, RangeConcat
  <2>3. Range(deliveries'[w]) = {}
    BY <2>1, RangeSmall
  <2>4. QED
    BY <1>3, <2>2, <2>3 DEF JobHeld
<1>8. QED
  BY <1>4, <1>5, <1>6, <1>7

(* The publish of a request is the only source of jobs.                    *)
LEMMA PublishHolds ==
    ASSUME TypeOK, NEW t \in Submissions,
           PublishJob(t) \/ PublishJobFails(t),
           NEW s \in Submissions
    PROVE  /\ JobHeld(s) => JobHeld(s)'
           /\ JobHeld(s)' => JobHeld(s) \/ s = t
           /\ PublishJob(t) => JobHeld(t)'
<1>1. Range(Append(jobs, t)) = Range(jobs) \cup {t}
  BY RangeAppend DEF TypeOK
<1>2. deliveries' = deliveries
  BY DEF PublishJob, PublishJobFails, workerVars
<1>3. jobs' \in {jobs, Append(jobs, t)}
  BY DEF PublishJob, PublishJobFails
<1>4. PublishJob(t) => jobs' = Append(jobs, t)
  BY DEF PublishJob
<1>5. QED
  BY <1>1, <1>2, <1>3, <1>4 DEF JobHeld

(* No other step touches a job. *)
LEMMA OthersHold ==
    ASSUME [Next]_vars,
           \A t \in Submissions : ~PublishJob(t) /\ ~PublishJobFails(t),
           \A w \in Workers : /\ ~DeliverJob(w) /\ ~AckJob(w)
                              /\ ~NackJob(w) /\ ~WorkerDies(w)
    PROVE  UNCHANGED <<jobs, deliveries>>
BY DEF Next, vars, workerVars, CreateRow, CreateRowFails, UploadSource,
       UploadSourceFails, DeleteArtifact, DeleteRow, StartJob, FinishJob,
       FinishJobFails, DeliverResult, ApplyResult, AckResult,
       ApplyResultFails, ConnectionDrops, ApiserverRestarts

LEMMA JobStep ==
    ASSUME TypeOK, Handling, [Next]_vars, NEW s \in Submissions
    PROVE  /\ JobHeld(s) => JobHeld(s)' \/ s \in announced \cup swallowed
           /\ JobHeld(s)' => JobHeld(s) \/ request[s] = "uploaded"
<1>1. CASE \E t \in Submissions : PublishJob(t) \/ PublishJobFails(t)
  BY <1>1, PublishHolds DEF PublishJob, PublishJobFails
<1>2. CASE \E w \in Workers : \/ DeliverJob(w) \/ AckJob(w)
                              \/ NackJob(w) \/ WorkerDies(w)
  BY <1>2, WorkerHolds
<1>3. CASE UNCHANGED <<jobs, deliveries>>
  BY <1>3 DEF JobHeld
<1>4. QED
  BY <1>1, <1>2, <1>3, OthersHold

(***************************************************************************)
(* Conservation of results.                                                *)
(***************************************************************************)

(* A result leaves a replica only when it was handled; a lost connection,  *)
(* a failed update or a restart puts it back into the queue.               *)
LEMMA ReplicaHolds ==
    ASSUME TypeOK, Handling, NEW r \in Replicas,
           \/ DeliverResult(r) \/ AckResult(r) \/ ApplyResultFails(r)
           \/ ConnectionDrops(r) \/ ApiserverRestarts(r),
           NEW m \in Result
    PROVE  /\ InFlight(m) => \/ InFlight(m)'
                             \/ m.verdict \in Terminal => m.id \in consumed
           /\ InFlight(m)' => InFlight(m)
<1>1. /\ inbox[r] \in Seq(Result)
      /\ results \in Seq(Result)
  BY DEF TypeOK
<1>2. inbox[r] # <<>> =>
        /\ Head(inbox[r]) \in Result
        /\ Range(inbox[r]) = Range(Tail(inbox[r])) \cup {Head(inbox[r])}
  BY <1>1, RangeTail
<1>3. ASSUME NEW u \in Replicas, u # r PROVE inbox'[u] = inbox[u]
  BY <1>3 DEF TypeOK, DeliverResult, AckResult, ApplyResultFails,
              ConnectionDrops, ApiserverRestarts
<1>4. CASE DeliverResult(r)
  <2>1. /\ Head(results) \in Result
        /\ Range(results) = Range(results') \cup {Head(results)}
    BY <1>1, <1>4, RangeTail DEF DeliverResult
  <2>2. inbox'[r] = Append(inbox[r], Head(results))
    BY <1>4 DEF DeliverResult, TypeOK
  <2>3. Range(inbox'[r]) = Range(inbox[r]) \cup {Head(results)}
    BY <1>1, <2>1, <2>2, RangeAppend
  <2>4. QED
    BY <1>3, <2>1, <2>3 DEF InFlight
<1>5. CASE AckResult(r)
  <2>1. /\ inbox[r] # <<>>
        /\ Head(inbox[r]).verdict \in Terminal =>
                Head(inbox[r]).id \in consumed
    BY <1>5 DEF AckResult, Handling
  <2>2. inbox'[r] = Tail(inbox[r]) /\ results' = results
    BY <1>5 DEF AckResult, TypeOK
  <2>3. QED
    BY <1>2, <1>3, <2>1, <2>2 DEF InFlight
<1>6. CASE ApplyResultFails(r)
  <2>1. inbox[r] # <<>>
    BY <1>6 DEF ApplyResultFails
  <2>2. /\ inbox'[r] = Tail(inbox[r])
        /\ results' = <<Head(inbox[r])>> \o results
    BY <1>6 DEF ApplyResultFails, Requeue, TypeOK
  <2>3. Range(results') = {Head(inbox[r])} \cup Range(results)
    <3>1. <<Head(inbox[r])>> \in Seq(Result)
      BY <1>2, <2>1
    <3>2. Range(results') = Range(<<Head(inbox[r])>>) \cup Range(results)
      BY <1>1, <2>2, <3>1, RangeConcat
    <3>3. QED
      BY <1>2, <2>1, <3>2, RangeSmall
  <2>4. Range(inbox[r]) = Range(inbox'[r]) \cup {Head(inbox[r])}
    BY <1>2, <2>1, <2>2
  <2>5. QED
    BY <1>3, <2>3, <2>4 DEF InFlight
<1>7. CASE ConnectionDrops(r) \/ ApiserverRestarts(r)
  <2>1. /\ inbox'[r] = <<>>
        /\ results' = inbox[r] \o results
    BY <1>7 DEF ConnectionDrops, ApiserverRestarts, Requeue, TypeOK
  <2>2. Range(results') = Range(inbox[r]) \cup Range(results)
    BY <1>1, <2>1, RangeConcat
  <2>3. Range(inbox'[r]) = {}
    BY <2>1, RangeSmall
  <2>4. QED
    BY <1>3, <2>2, <2>3 DEF InFlight
<1>8. QED
  BY <1>4, <1>5, <1>6, <1>7

(* A worker only adds results, of the job it is handling, and a submission *)
(* counts as announced only with a terminal result in flight.              *)
LEMMA WorkerPublishes ==
    ASSUME TypeOK, Handling, NEW w \in Workers, NEW v \in Terminal,
           StartJob(w) \/ FinishJob(w, v) \/ FinishJobFails(w, v)
    PROVE  /\ \A m \in Result :
                 /\ InFlight(m) => InFlight(m)'
                 /\ InFlight(m)' => InFlight(m) \/ JobHeld(m.id)
           /\ \A s \in announced' : s \in announced \/ TerminalInFlight(s)'
<1> DEFINE s == Head(deliveries[w])
<1>1. /\ deliveries[w] \in Seq(Submissions)
      /\ deliveries[w] # <<>>
  BY DEF TypeOK, Handling, StartJob, FinishJob, FinishJobFails
<1>2. s \in Submissions /\ s \in Range(deliveries[w])
  BY <1>1, RangeTail
<1>3. JobHeld(s)
  BY <1>2 DEF JobHeld
<1>4. inbox' = inbox
  BY DEF StartJob, FinishJob, FinishJobFails, consumerVars
<1>5. PICK m \in Result : m.id = s /\ results' \in {results, Append(results, m)}
            /\ (announced' # announced =>
                    /\ announced' = announced \cup {s}
                    /\ results' = Append(results, m)
                    /\ m = [id |-> s, verdict |-> v])
  <2>1. CASE StartJob(w)
    <3>1. Judging(s) \in Result /\ Judging(s).id = s
      BY <1>2 DEF Judging, Result
    <3>2. announced' = announced
      BY <2>1 DEF StartJob, history
    <3>3. results' \in {results, Append(results, Judging(s))}
      BY <2>1 DEF StartJob
    <3>4. QED
      BY <3>1, <3>2, <3>3
  <2>2. CASE FinishJob(w, v) \/ FinishJobFails(w, v)
    <3>1. [id |-> s, verdict |-> v] \in Result
      BY <1>2 DEF Result
    <3>2. \/ /\ results' = Append(results, [id |-> s, verdict |-> v])
             /\ announced' = announced \cup {s}
          \/ UNCHANGED <<results, announced>>
      BY <2>2 DEF FinishJob, FinishJobFails, Announce
    <3>3. QED
      BY <3>1, <3>2
  <2>3. QED
    BY <2>1, <2>2
<1>6. Range(Append(results, m)) = Range(results) \cup {m}
  BY RangeAppend DEF TypeOK
<1>7. Range(results') \in {Range(results), Range(results) \cup {m}}
  BY <1>5, <1>6
<1>8. ASSUME NEW n \in Result
      PROVE  /\ InFlight(n) => InFlight(n)'
             /\ InFlight(n)' => InFlight(n) \/ JobHeld(n.id)
  BY <1>3, <1>4, <1>5, <1>7 DEF InFlight
<1>9. ASSUME NEW u \in announced', u \notin announced
      PROVE  TerminalInFlight(u)'
  <2>1. /\ u = s
        /\ m = [id |-> s, verdict |-> v]
        /\ m \in Range(results')
    <3>1. announced' # announced
      BY <1>9
    <3>2. /\ announced' = announced \cup {s}
          /\ results' = Append(results, m)
          /\ m = [id |-> s, verdict |-> v]
      BY <1>5, <3>1
    <3>3. m \in Range(results')
      BY <1>6, <3>2
    <3>4. QED
      BY <1>9, <3>2, <3>3
  <2>2. InFlight(m)'
    BY <2>1 DEF InFlight
  <2>3. InFlight([id |-> u, verdict |-> v])'
    BY <2>1, <2>2
  <2>4. QED
    BY <2>3 DEF TerminalInFlight
<1>10. QED
  BY <1>8, <1>9

(* No other step touches a result or announces one. *)
LEMMA OthersSilent ==
    ASSUME [Next]_vars,
           \A w \in Workers : \A v \in Terminal :
                ~StartJob(w) /\ ~FinishJob(w, v) /\ ~FinishJobFails(w, v)
    PROVE  /\ announced' = announced
           /\ \/ UNCHANGED <<results, inbox>>
              \/ \E r \in Replicas :
                    \/ DeliverResult(r) \/ AckResult(r) \/ ApplyResultFails(r)
                    \/ ConnectionDrops(r) \/ ApiserverRestarts(r)
<1> USE DEF vars, consumerVars, history
<1>1. CASE UNCHANGED vars
  BY <1>1
<1>2. CASE \E r \in Replicas :
              \/ DeliverResult(r) \/ AckResult(r) \/ ApplyResultFails(r)
              \/ ConnectionDrops(r) \/ ApiserverRestarts(r)
  BY <1>2 DEF DeliverResult, AckResult, ApplyResultFails, ConnectionDrops,
              ApiserverRestarts
<1>3. CASE \E r \in Replicas : ApplyResult(r)
  BY <1>3 DEF ApplyResult
<1>4. CASE \E s \in Submissions :
              \/ CreateRow(s) \/ CreateRowFails(s)
              \/ UploadSource(s) \/ UploadSourceFails(s)
              \/ PublishJob(s) \/ PublishJobFails(s)
              \/ DeleteArtifact(s) \/ DeleteRow(s)
  BY <1>4 DEF CreateRow, CreateRowFails, UploadSource, UploadSourceFails,
              PublishJob, PublishJobFails, DeleteArtifact, DeleteRow
<1>5. CASE \E w \in Workers : \/ DeliverJob(w) \/ AckJob(w)
                              \/ NackJob(w) \/ WorkerDies(w)
  BY <1>5 DEF DeliverJob, AckJob, NackJob, WorkerDies
<1>6. CASE \E w \in Workers : StartJob(w)
  BY <1>6, PipelineAssumption
<1>7. QED
  BY <1>1, <1>2, <1>3, <1>4, <1>5, <1>6 DEF Next

(***************************************************************************)
(* The inductive invariant.                                                *)
(***************************************************************************)

(* History variables only grow. *)
LEMMA HistoryGrows ==
    ASSUME [Next]_vars
    PROVE  /\ announced \subseteq announced'
           /\ swallowed \subseteq swallowed'
           /\ consumed \subseteq consumed'
<1> USE DEF vars, history
<1>1. CASE \E w \in Workers, v \in Terminal :
                FinishJob(w, v) \/ FinishJobFails(w, v)
  BY <1>1 DEF FinishJob, FinishJobFails, Announce
<1>2. CASE \E w \in Workers : \/ DeliverJob(w) \/ StartJob(w) \/ AckJob(w)
                              \/ NackJob(w) \/ WorkerDies(w)
  BY <1>2 DEF DeliverJob, StartJob, AckJob, NackJob, WorkerDies
<1>3. CASE \E r \in Replicas : ApplyResult(r)
  BY <1>3 DEF ApplyResult
<1>4. CASE \E r \in Replicas :
              \/ DeliverResult(r) \/ AckResult(r) \/ ApplyResultFails(r)
              \/ ConnectionDrops(r) \/ ApiserverRestarts(r)
  BY <1>4 DEF DeliverResult, AckResult, ApplyResultFails, ConnectionDrops,
              ApiserverRestarts
<1>5. CASE \E s \in Submissions :
              \/ CreateRow(s) \/ CreateRowFails(s)
              \/ UploadSource(s) \/ UploadSourceFails(s)
              \/ PublishJob(s) \/ PublishJobFails(s)
              \/ DeleteArtifact(s) \/ DeleteRow(s)
  BY <1>5 DEF CreateRow, CreateRowFails, UploadSource, UploadSourceFails,
              PublishJob, PublishJobFails, DeleteArtifact, DeleteRow
<1>6. CASE UNCHANGED vars
  BY <1>6
<1>7. QED
  BY <1>1, <1>2, <1>3, <1>4, <1>5, <1>6 DEF Next

(* A request never becomes new again, and is accepted by its publish only. *)
LEMMA RequestMoves ==
    ASSUME TypeOK, [Next]_vars, NEW s \in Submissions
    PROVE  /\ request[s] # "new" => request'[s] # "new"
           /\ request[s] # "accepted" /\ request'[s] = "accepted" => PublishJob(s)
           /\ rows'[s] = "PENDING" => rows[s] = "PENDING" \/ request[s] = "new"
           /\ request[s] # "new" /\ rows[s] = "ABSENT" => rows'[s] = "ABSENT"
<1> USE PipelineAssumption DEF TypeOK
<1>1. ASSUME NEW t \in Submissions, CreateRow(t) \/ CreateRowFails(t)
      PROVE  /\ request[t] = "new"
             /\ rows'[s] # rows[s] => s = t
             /\ request'[s] # request[s] => s = t
             /\ request'[t] \in {"created", "rejected"}
  BY <1>1 DEF CreateRow, CreateRowFails
<1>2. ASSUME NEW t \in Submissions,
             \/ UploadSource(t) \/ UploadSourceFails(t)
             \/ PublishJobFails(t) \/ DeleteArtifact(t) \/ DeleteRow(t)
      PROVE  /\ rows'[s] \in {rows[s], "ABSENT"}
             /\ request'[s] # request[s] =>
                    request'[s] \in {"uploaded", "undoRow", "undoArtifact",
                                     "rejected"}
  BY <1>2 DEF UploadSource, UploadSourceFails, PublishJobFails,
              DeleteArtifact, DeleteRow
<1>3. ASSUME NEW t \in Submissions, PublishJob(t)
      PROVE  /\ rows' = rows
             /\ request'[s] # request[s] => s = t
             /\ request'[t] = "accepted"
  BY <1>3 DEF PublishJob
<1>4. ASSUME NEW w \in Workers, NEW v \in Terminal,
             \/ DeliverJob(w) \/ StartJob(w)
             \/ FinishJob(w, v) \/ FinishJobFails(w, v)
             \/ AckJob(w) \/ NackJob(w) \/ WorkerDies(w)
      PROVE  rows' = rows /\ request' = request
  BY <1>4 DEF DeliverJob, StartJob, FinishJob, FinishJobFails, AckJob,
              NackJob, WorkerDies, requestVars
<1>5. ASSUME NEW r \in Replicas,
             DeliverResult(r) \/ AckResult(r) \/ ConnectionDrops(r)
      PROVE  rows' = rows /\ request' = request
  BY <1>5 DEF DeliverResult, AckResult, ConnectionDrops, requestVars
<1>6. ASSUME NEW r \in Replicas, ApplyResult(r) \/ ApplyResultFails(r)
      PROVE  /\ request' = request
             /\ rows[s] = "ABSENT" => rows'[s] = "ABSENT"
             /\ rows'[s] # rows[s] => rows'[s] # "PENDING"
  <2>1. Head(inbox[r]) \in Result
    <3>1. inbox[r] \in Seq(Result) /\ inbox[r] # <<>>
      BY <1>6 DEF ApplyResult, ApplyResultFails
    <3>2. QED
      BY <3>1, RangeTail
  <2>2. Head(inbox[r]).verdict # "PENDING"
    BY <2>1 DEF Result
  <2>3. rows' \in {rows, Updated(rows, Head(inbox[r]))} /\ request' = request
    BY <1>6 DEF ApplyResult, ApplyResultFails, requestVars
  <2>4. QED
    BY <2>2, <2>3 DEF Updated
<1>7. ASSUME NEW r \in Replicas, ApiserverRestarts(r)
      PROVE  /\ rows' = rows
             /\ request'[s] # request[s] => request'[s] = "aborted"
  BY <1>7 DEF ApiserverRestarts
<1>8. CASE UNCHANGED vars
  BY <1>8 DEF vars, requestVars
<1>9. CASE Next
  BY <1>1, <1>2, <1>3, <1>4, <1>5, <1>6, <1>7, <1>9 DEF Next
<1>10. QED
  BY <1>8, <1>9

(* What a worker or a consumer is handling stays unacknowledged, and is    *)
(* acknowledged only after the publish or the update.                      *)
LEMMA HandlingStep ==
    ASSUME TypeOK, Handling, [Next]_vars
    PROVE  Handling'
<1> USE DEF TypeOK
<1>1. /\ announced \cup swallowed \subseteq announced' \cup swallowed'
      /\ consumed \subseteq consumed'
  BY HistoryGrows
<1>2. ASSUME UNCHANGED <<deliveries, stage, inbox, consumer>>
      PROVE  Handling'
  BY <1>1, <1>2 DEF Handling
<1>3. ASSUME NEW w \in Workers, UNCHANGED <<inbox, consumer>>,
             \A u \in Workers \ {w} : /\ deliveries'[u] = deliveries[u]
                                      /\ stage'[u] = stage[u],
             stage'[w] # "idle" => deliveries'[w] # <<>>,
             stage'[w] = "acking" =>
                    Head(deliveries'[w]) \in announced' \cup swallowed'
      PROVE  Handling'
  BY <1>1, <1>3 DEF Handling
<1>4. ASSUME NEW r \in Replicas, UNCHANGED <<deliveries, stage>>,
             \A u \in Replicas \ {r} : /\ inbox'[u] = inbox[u]
                                       /\ consumer'[u] = consumer[u],
             consumer'[r] = "applied" =>
                /\ inbox'[r] # <<>>
                /\ Head(inbox'[r]).verdict \in Terminal =>
                        Head(inbox'[r]).id \in consumed'
      PROVE  Handling'
  BY <1>1, <1>4 DEF Handling
<1>5. ASSUME NEW w \in Workers, DeliverJob(w)
      PROVE  Handling'
  <2>1. /\ deliveries[w] \in Seq(Submissions)
        /\ Head(jobs) \in Submissions
        /\ deliveries'[w] = Append(deliveries[w], Head(jobs))
    BY <1>5, RangeTail DEF DeliverJob
  <2>2. /\ deliveries'[w] # <<>>
        /\ deliveries[w] # <<>> => Head(deliveries'[w]) = Head(deliveries[w])
    BY ONLY <2>1, AppendHead
  <2>3. /\ UNCHANGED <<inbox, consumer, stage>>
        /\ \A u \in Workers \ {w} : deliveries'[u] = deliveries[u]
    BY <1>5 DEF DeliverJob, consumerVars
  <2>4. stage[w] = "acking" =>
            Head(deliveries'[w]) \in announced' \cup swallowed'
    BY <1>1, <2>2 DEF Handling
  <2>5. QED
    BY <1>3, <2>2, <2>3, <2>4
<1>6. ASSUME NEW w \in Workers, StartJob(w)
      PROVE  Handling'
  BY <1>3, <1>6 DEF StartJob, consumerVars
<1>7. ASSUME NEW w \in Workers, NEW v \in Terminal,
             FinishJob(w, v) \/ FinishJobFails(w, v)
      PROVE  Handling'
  <2>1. /\ UNCHANGED <<inbox, consumer, deliveries>>
        /\ deliveries[w] # <<>>
        /\ \A u \in Workers \ {w} : stage'[u] = stage[u]
        /\ stage'[w] = "acking" =>
                Head(deliveries[w]) \in announced' \cup swallowed'
    BY <1>7 DEF FinishJob, FinishJobFails, Announce, consumerVars, Handling
  <2>2. QED
    BY <1>3, <2>1
<1>8. ASSUME NEW w \in Workers, AckJob(w) \/ NackJob(w) \/ WorkerDies(w)
      PROVE  Handling'
  BY <1>3, <1>8 DEF AckJob, NackJob, WorkerDies, consumerVars
<1>9. ASSUME NEW r \in Replicas, DeliverResult(r)
      PROVE  Handling'
  <2>1. /\ inbox[r] \in Seq(Result)
        /\ Head(results) \in Result
        /\ inbox'[r] = Append(inbox[r], Head(results))
    BY <1>9, RangeTail DEF DeliverResult
  <2>2. /\ inbox'[r] # <<>>
        /\ inbox[r] # <<>> => Head(inbox'[r]) = Head(inbox[r])
    BY ONLY <2>1, AppendHead
  <2>3. /\ UNCHANGED <<deliveries, stage, consumer>>
        /\ \A u \in Replicas \ {r} : inbox'[u] = inbox[u]
    BY <1>9 DEF DeliverResult, workerVars
  <2>4. consumer[r] = "applied" =>
            (Head(inbox'[r]).verdict \in Terminal =>
                Head(inbox'[r]).id \in consumed')
    BY <1>1, <2>2 DEF Handling
  <2>5. QED
    BY <1>4, <2>2, <2>3, <2>4
<1>10. ASSUME NEW r \in Replicas, ApplyResult(r)
       PROVE  Handling'
  BY <1>4, <1>10 DEF ApplyResult, workerVars
<1>11. ASSUME NEW r \in Replicas,
              \/ AckResult(r) \/ ApplyResultFails(r)
              \/ ConnectionDrops(r) \/ ApiserverRestarts(r)
       PROVE  Handling'
  <2>1. /\ consumer'[r] # "applied"
        /\ \A u \in Replicas \ {r} : /\ inbox'[u] = inbox[u]
                                       /\ consumer'[u] = consumer[u]
    BY <1>11 DEF AckResult, ApplyResultFails, ConnectionDrops,
                 ApiserverRestarts
  <2>2. UNCHANGED <<deliveries, stage>>
    BY <1>11 DEF AckResult, ApplyResultFails, ConnectionDrops,
                 ApiserverRestarts, workerVars
  <2>3. QED
    BY <1>4, <2>1, <2>2
<1>12. ASSUME NEW s \in Submissions,
              \/ CreateRow(s) \/ CreateRowFails(s)
              \/ UploadSource(s) \/ UploadSourceFails(s)
              \/ PublishJob(s) \/ PublishJobFails(s)
              \/ DeleteArtifact(s) \/ DeleteRow(s)
       PROVE  Handling'
  BY <1>2, <1>12 DEF CreateRow, CreateRowFails, UploadSource,
       UploadSourceFails, PublishJob, PublishJobFails, DeleteArtifact,
       DeleteRow, workerVars, consumerVars
<1>13. CASE UNCHANGED vars
  BY <1>2, <1>13 DEF vars, workerVars, consumerVars
<1>14. QED
  BY <1>5, <1>6, <1>7, <1>8, <1>9, <1>10, <1>11, <1>12, <1>13 DEF Next

(* A result in flight after a step was in flight before it, or belongs to  *)
(* a job that was held; the converse unless the result was handled.        *)
LEMMA ResultStep ==
    ASSUME TypeOK, Handling, [Next]_vars
    PROVE  /\ \A m \in Result :
                 /\ InFlight(m) =>
                        \/ InFlight(m)'
                        \/ m.verdict \in Terminal => m.id \in consumed
                 /\ InFlight(m)' => InFlight(m) \/ JobHeld(m.id)
           /\ \A s \in announced' : s \in announced \/ TerminalInFlight(s)'
<1>1. CASE \E w \in Workers, v \in Terminal :
                StartJob(w) \/ FinishJob(w, v) \/ FinishJobFails(w, v)
  BY <1>1, WorkerPublishes
<1>2. CASE \A w \in Workers : \A v \in Terminal :
                ~StartJob(w) /\ ~FinishJob(w, v) /\ ~FinishJobFails(w, v)
  <2>1. announced' = announced
    BY <1>2, OthersSilent
  <2>2. CASE UNCHANGED <<results, inbox>>
    BY <2>1, <2>2 DEF InFlight
  <2>3. CASE \E r \in Replicas :
                \/ DeliverResult(r) \/ AckResult(r) \/ ApplyResultFails(r)
                \/ ConnectionDrops(r) \/ ApiserverRestarts(r)
    BY <2>1, <2>3, ReplicaHolds
  <2>4. QED
    BY <1>2, <2>2, <2>3, OthersSilent
<1>3. QED
  BY <1>1, <1>2

LEMMA CreatedFirstStep ==
    ASSUME TypeOK, Handling, CreatedFirst, [Next]_vars
    PROVE  CreatedFirst'
<1>1. ASSUME NEW s \in Submissions, JobHeld(s)'
      PROVE  request'[s] # "new"
  BY <1>1, JobStep, RequestMoves DEF CreatedFirst
<1>2. ASSUME NEW m \in Result, InFlight(m)'
      PROVE  request'[m.id] # "new"
  BY <1>2, ResultStep, RequestMoves DEF CreatedFirst, Result
<1>3. ASSUME NEW s \in consumed'
      PROVE  request'[s] # "new" /\ rows'[s] # "PENDING"
  <2>1. CASE s \in consumed
    BY <2>1, RequestMoves DEF CreatedFirst, TypeOK
  <2>2. CASE s \notin consumed
    <3>1. PICK r \in Replicas : ApplyResult(r)
      BY <1>3, <2>2 DEF Next, vars, history, CreateRow, CreateRowFails,
         UploadSource, UploadSourceFails, PublishJob, PublishJobFails,
         DeleteArtifact, DeleteRow, DeliverJob, StartJob, FinishJob,
         FinishJobFails, AckJob, NackJob, WorkerDies, DeliverResult,
         AckResult, ApplyResultFails, ConnectionDrops, ApiserverRestarts
    <3> DEFINE m == Head(inbox[r])
    <3>2. inbox[r] \in Seq(Result) /\ inbox[r] # <<>>
      BY <3>1 DEF ApplyResult, TypeOK
    <3>3. m \in Result /\ m \in Range(inbox[r])
      BY <3>2, RangeTail
    <3>4. s = m.id /\ m.verdict \in Terminal
      BY <1>3, <2>2, <3>1 DEF ApplyResult
    <3>5. InFlight(m)
      BY <3>3 DEF InFlight
    <3>6. request[s] # "new" /\ s \in Submissions
      BY <3>3, <3>4, <3>5 DEF CreatedFirst, Result
    <3>7. rows'[s] \in {m.verdict, "ABSENT"}
      BY <3>1, <3>4, <3>6 DEF ApplyResult, Updated
    <3>8. QED
      BY <3>4, <3>6, <3>7, RequestMoves, PipelineAssumption
  <2>3. QED
    BY <2>1, <2>2
<1>4. QED
  BY <1>1, <1>2, <1>3 DEF CreatedFirst

LEMMA NoLostJobStep ==
    ASSUME TypeOK, Handling, NoLostJob, [Next]_vars
    PROVE  NoLostJob'
<1> SUFFICES ASSUME NEW s \in Submissions, request'[s] = "accepted"
             PROVE  JobHeld(s)' \/ s \in announced' \cup swallowed'
  BY DEF NoLostJob
<1>1. CASE request[s] = "accepted"
  BY <1>1, JobStep, HistoryGrows DEF NoLostJob
<1>2. CASE request[s] # "accepted"
  BY <1>2, RequestMoves, PublishHolds
<1>3. QED
  BY <1>1, <1>2

LEMMA NoLostResultStep ==
    ASSUME TypeOK, Handling, NoLostResult, [Next]_vars
    PROVE  NoLostResult'
<1> SUFFICES ASSUME NEW s \in announced'
             PROVE  TerminalInFlight(s)' \/ s \in consumed'
  BY DEF NoLostResult
<1>1. CASE s \in announced
  <2>1. CASE s \in consumed
    BY <2>1, HistoryGrows
  <2>2. CASE TerminalInFlight(s)
    <3>1. PICK v \in Terminal : InFlight([id |-> s, verdict |-> v])
      BY <2>2 DEF TerminalInFlight
    <3>2. [id |-> s, verdict |-> v] \in Result
      BY <1>1 DEF Result, TypeOK
    <3>3. InFlight([id |-> s, verdict |-> v])' \/ s \in consumed
      BY <3>1, <3>2, ResultStep
    <3>4. QED
      BY <3>3, HistoryGrows DEF TerminalInFlight
  <2>3. QED
    BY <1>1, <2>1, <2>2 DEF NoLostResult
<1>2. CASE s \notin announced
  BY <1>2, ResultStep
<1>3. QED
  BY <1>1, <1>2

(* The invariant holds of the empty system. *)
LEMMA IInvInit == Init => IInv
<1> SUFFICES ASSUME Init
             PROVE  IInv
  OBVIOUS
<1>1. Range(<<>>) = {}
  BY RangeSmall
<1>2. TypeOK
  BY PipelineAssumption DEF Init, TypeOK, RowVerdict, InHandler, Stage
<1>3. Handling
  BY DEF Init, Handling
<1>4. /\ \A s \in Submissions : ~JobHeld(s)
      /\ \A m \in Result : ~InFlight(m)
  BY <1>1 DEF Init, JobHeld, InFlight
<1>5. CreatedFirst
  BY <1>4 DEF Init, CreatedFirst
<1>6. NoLostJob /\ NoLostResult
  BY DEF Init, NoLostJob, NoLostResult
<1>7. QED
  BY <1>2, <1>3, <1>5, <1>6 DEF IInv

(* The inductive invariant holds in every reachable state: whatever fails, *)
(* and however often, the queues and their consumers account for every job *)
(* and every result.                                                       *)
THEOREM Invariance == Spec => []IInv
<1>1. IInv /\ [Next]_vars => IInv'
  BY TypeStep, HandlingStep, CreatedFirstStep, NoLostJobStep,
     NoLostResultStep DEF IInv
<1>2. QED
  BY <1>1, IInvInit, PTL DEF Spec

(* The variables of the pipeline keep their types. *)
THEOREM TypeCorrect == Spec => []TypeOK
<1>1. IInv => TypeOK
  BY DEF IInv
<1>2. QED
  BY <1>1, Invariance, PTL

(* At-least-once judging: the job of an accepted submission stays held     *)
(* until a terminal result is published, or a CE publish error is ignored. *)
THEOREM JobsConserved == Spec => []NoLostJob
<1>1. IInv => NoLostJob
  BY DEF IInv
<1>2. QED
  BY <1>1, Invariance, PTL

(* What the worker's comment promises does hold as long as no publish of a *)
(* worker fails: the run pipeline_swallowed_ce needs such a failure.       *)
THEOREM PublishedBeforeAcknowledged ==
    ASSUME "publish" \notin FaultKinds
    PROVE  Spec => []AcknowledgedIsAnnounced
<1> DEFINE NoneSwallowed == swallowed = {}
<1>1. Init => NoneSwallowed
  BY DEF Init
<1>2. NoneSwallowed /\ [Next]_vars => NoneSwallowed'
  <2> SUFFICES ASSUME swallowed = {}, [Next]_vars PROVE swallowed' = {}
    OBVIOUS
  <2> USE DEF vars, history
  <2>1. \A w \in Workers, v \in Terminal : ~FinishJobFails(w, v)
    BY DEF FinishJobFails, Fault
  <2>2. CASE \E s \in Submissions :
                \/ CreateRow(s) \/ CreateRowFails(s)
                \/ UploadSource(s) \/ UploadSourceFails(s)
                \/ PublishJob(s) \/ PublishJobFails(s)
                \/ DeleteArtifact(s) \/ DeleteRow(s)
    BY <2>2 DEF CreateRow, CreateRowFails, UploadSource, UploadSourceFails,
                PublishJob, PublishJobFails, DeleteArtifact, DeleteRow
  <2>3. CASE \E w \in Workers :
                \/ DeliverJob(w) \/ StartJob(w) \/ AckJob(w) \/ NackJob(w)
                \/ WorkerDies(w) \/ \E v \in Terminal : FinishJob(w, v)
    BY <2>3 DEF DeliverJob, StartJob, FinishJob, AckJob, NackJob, WorkerDies
  <2>4. CASE \E r \in Replicas :
                \/ DeliverResult(r) \/ ApplyResult(r) \/ AckResult(r)
                \/ ApplyResultFails(r) \/ ConnectionDrops(r)
                \/ ApiserverRestarts(r)
    BY <2>4 DEF DeliverResult, ApplyResult, AckResult, ApplyResultFails,
                ConnectionDrops, ApiserverRestarts
  <2>5. CASE UNCHANGED vars
    BY <2>5
  <2>6. swallowed' = swallowed
    BY <2>1, <2>2, <2>3, <2>4, <2>5 DEF Next
  <2>7. QED
    BY <2>6
<1>3. NoLostJob /\ NoneSwallowed => AcknowledgedIsAnnounced
  BY DEF NoLostJob, AcknowledgedIsAnnounced
<1> HIDE DEF NoneSwallowed
<1>4. QED
  BY <1>1, <1>2, <1>3, JobsConserved, PTL DEF Spec

(* A published terminal result is in flight until a consumer handled it. *)
THEOREM ResultsConserved == Spec => []NoLostResult
<1>1. IInv => NoLostResult
  BY DEF IInv
<1>2. QED
  BY <1>1, Invariance, PTL

(* An accepted submission still PENDING has its job or its verdict under   *)
(* way: the row of a 201 answer is never stranded at its first verdict.    *)
THEOREM PendingNotStranded == Spec => []NoStrandedPending
<1>1. IInv => NoStrandedPending
  BY DEF IInv, NoStrandedPending, NoLostJob, NoLostResult, CreatedFirst
<1>2. QED
  BY <1>1, Invariance, PTL

(* A deleted or never inserted row is not brought back by a late result. *)
THEOREM DeletedRowsStayDeleted == Spec => DeletedStaysDeleted
<1> DEFINE Kept == \A s \in Submissions :
                     request[s] # "new" /\ rows[s] = "ABSENT" => rows'[s] = "ABSENT"
<1>1. IInv /\ [Next]_vars => [Kept]_vars
  BY RequestMoves DEF IInv
<1>2. QED
  BY <1>1, Invariance, PTL DEF Spec, DeletedStaysDeleted

(***************************************************************************)
(* The answer of a request and the stores.                                 *)
(***************************************************************************)

(* What the request has reached is in the stores: its row from the INSERT  *)
(* on, its source file from the upload on, and neither after a rejection.  *)
StoresFollow ==
    \A s \in Submissions :
        /\ request[s] \in {"created", "uploaded", "accepted"} =>
                rows[s] # "ABSENT"
        /\ request[s] \in {"uploaded", "accepted"} => s \in artifacts
        /\ request[s] = "rejected" => rows[s] = "ABSENT"

(* Only requests create and delete rows: an update does neither.           *)
LEMMA UpdateKeepsRows ==
    ASSUME TypeOK, NEW r \in Replicas, ApplyResult(r) \/ ApplyResultFails(r),
           NEW s \in Submissions
    PROVE  rows'[s] = "ABSENT" <=> rows[s] = "ABSENT"
<1>1. inbox[r] \in Seq(Result) /\ inbox[r] # <<>>
  BY DEF ApplyResult, ApplyResultFails, TypeOK
<1>2. Head(inbox[r]) \in Result
  BY <1>1, RangeTail
<1>3. Head(inbox[r]).verdict # "ABSENT"
  BY <1>2, PipelineAssumption DEF Result
<1>4. rows' \in {rows, Updated(rows, Head(inbox[r]))}
  BY DEF ApplyResult, ApplyResultFails
<1>5. QED
  BY <1>3, <1>4 DEF Updated

LEMMA StoresFollowStep ==
    ASSUME "store" \notin FaultKinds, TypeOK, StoresFollow, [Next]_vars
    PROVE  StoresFollow'
<1> USE DEF TypeOK
<1>1. ASSUME UNCHANGED <<rows, artifacts, request>>
      PROVE  StoresFollow'
  BY <1>1 DEF StoresFollow
<1>2. ASSUME NEW s \in Submissions,
             \/ CreateRow(s) \/ CreateRowFails(s)
             \/ UploadSource(s) \/ UploadSourceFails(s)
             \/ PublishJob(s) \/ PublishJobFails(s)
             \/ DeleteArtifact(s) \/ DeleteRow(s)
      PROVE  StoresFollow'
  <2> SUFFICES ASSUME NEW t \in Submissions
               PROVE  /\ request'[t] \in {"created", "uploaded", "accepted"} =>
                            rows'[t] # "ABSENT"
                      /\ request'[t] \in {"uploaded", "accepted"} =>
                            t \in artifacts'
                      /\ request'[t] = "rejected" => rows'[t] = "ABSENT"
    BY DEF StoresFollow
  <2>1. CASE t # s
    <3>1. /\ rows'[t] = rows[t] /\ request'[t] = request[t]
          /\ t \in artifacts => t \in artifacts'
      BY <1>2, <2>1 DEF CreateRow, CreateRowFails, UploadSource,
         UploadSourceFails, PublishJob, PublishJobFails, DeleteArtifact,
         DeleteRow, requestVars
    <3>2. QED
      BY <3>1 DEF StoresFollow
  <2>2. CASE t = s
    <3>1. CASE CreateRow(s)
      BY <2>2, <3>1 DEF CreateRow
    <3>2. ~CreateRowFails(s)
      BY DEF CreateRowFails, Fault
    <3>3. CASE UploadSource(s)
      BY <2>2, <3>3 DEF UploadSource, StoresFollow
    <3>4. CASE UploadSourceFails(s)
      BY <2>2, <3>4 DEF UploadSourceFails
    <3>5. CASE PublishJob(s)
      BY <2>2, <3>5 DEF PublishJob, StoresFollow
    <3>6. CASE PublishJobFails(s)
      BY <2>2, <3>6 DEF PublishJobFails
    <3>7. CASE DeleteArtifact(s)
      BY <2>2, <3>7 DEF DeleteArtifact
    <3>8. CASE DeleteRow(s)
      BY <2>2, <3>8 DEF DeleteRow, Fault
    <3>9. QED
      BY <1>2, <3>1, <3>2, <3>3, <3>4, <3>5, <3>6, <3>7, <3>8
  <2>3. QED
    BY <2>1, <2>2
<1>3. ASSUME NEW w \in Workers, NEW v \in Terminal,
             \/ DeliverJob(w) \/ StartJob(w)
             \/ FinishJob(w, v) \/ FinishJobFails(w, v)
             \/ AckJob(w) \/ NackJob(w) \/ WorkerDies(w)
      PROVE  StoresFollow'
  BY <1>1, <1>3 DEF DeliverJob, StartJob, FinishJob, FinishJobFails, AckJob,
              NackJob, WorkerDies, requestVars
<1>4. ASSUME NEW r \in Replicas,
             DeliverResult(r) \/ AckResult(r) \/ ConnectionDrops(r)
      PROVE  StoresFollow'
  BY <1>1, <1>4 DEF DeliverResult, AckResult, ConnectionDrops, requestVars
<1>5. ASSUME NEW r \in Replicas, ApplyResult(r) \/ ApplyResultFails(r)
      PROVE  StoresFollow'
  <2>1. UNCHANGED <<artifacts, request>>
    BY <1>5 DEF ApplyResult, ApplyResultFails, requestVars
  <2>2. \A s \in Submissions : rows'[s] = "ABSENT" <=> rows[s] = "ABSENT"
    BY <1>5, UpdateKeepsRows
  <2>3. QED
    BY <2>1, <2>2 DEF StoresFollow
<1>6. ASSUME NEW r \in Replicas, ApiserverRestarts(r)
      PROVE  StoresFollow'
  <2>1. UNCHANGED <<rows, artifacts>>
    BY <1>6 DEF ApiserverRestarts
  <2>2. \A s \in Submissions : request'[s] \in {request[s], "aborted"}
    BY <1>6 DEF ApiserverRestarts
  <2>3. QED
    BY <2>1, <2>2 DEF StoresFollow
<1>7. CASE UNCHANGED vars
  BY <1>1, <1>7 DEF vars, requestVars
<1>8. \E v : v \in Terminal
  BY PipelineAssumption
<1>9. QED
  BY <1>2, <1>3, <1>4, <1>5, <1>6, <1>7, <1>8 DEF Next

(* As long as the rows of the table can be inserted and deleted, the       *)
(* client's answer agrees with the stores: 201 has its row and its source  *)
(* file, 500 has no row.  Failing uploads, publishes and updates, deaths   *)
(* and lost connections do not change that.                                *)
THEOREM AnswersMatchStores ==
    ASSUME "store" \notin FaultKinds
    PROVE  Spec => []AnswerMatchesStore
<1>1. Init => StoresFollow
  BY DEF Init, StoresFollow
<1>2. IInv /\ StoresFollow /\ [Next]_vars => StoresFollow'
  BY StoresFollowStep DEF IInv
<1>3. StoresFollow => AnswerMatchesStore
  BY DEF StoresFollow, AnswerMatchesStore
<1>4. QED
  BY <1>1, <1>2, <1>3, Invariance, PTL DEF Spec

(***************************************************************************)
(* One job for each submission.                                            *)
(***************************************************************************)

(* A request publishes its job once and the broker moves it, so that no    *)
(* two copies of it are around: no two workers judge the same submission.  *)
OneJobEach ==
    /\ IsInjective(jobs)
    /\ \A w \in Workers :
            /\ IsInjective(deliveries[w])
            /\ Range(deliveries[w]) \cap Range(jobs) = {}
            /\ \A u \in Workers \ {w} :
                    Range(deliveries[w]) \cap Range(deliveries[u]) = {}
    /\ \A s \in Submissions :
            request[s] \in {"new", "created", "uploaded"} => ~JobHeld(s)

LEMMA OneJobWorker ==
    ASSUME TypeOK, Handling, OneJobEach, NEW w \in Workers,
           DeliverJob(w) \/ AckJob(w) \/ NackJob(w) \/ WorkerDies(w)
    PROVE  OneJobEach'
<1>1. /\ deliveries[w] \in Seq(Submissions)
      /\ jobs \in Seq(Submissions)
  BY DEF TypeOK
<1>2. /\ IsInjective(jobs) /\ IsInjective(deliveries[w])
      /\ Range(deliveries[w]) \cap Range(jobs) = {}
  BY DEF OneJobEach
<1>3. \A u \in Workers \ {w} : deliveries'[u] = deliveries[u]
  BY DEF TypeOK, DeliverJob, AckJob, NackJob, WorkerDies
<1>4. SUFFICES /\ IsInjective(jobs') /\ IsInjective(deliveries'[w])
               /\ Range(deliveries'[w]) \cap Range(jobs') = {}
               /\ Range(deliveries'[w]) \cup Range(jobs')
                    \subseteq Range(deliveries[w]) \cup Range(jobs)
  <2>1. \A u \in Workers \ {w} :
            /\ IsInjective(deliveries[u])
            /\ Range(deliveries[u]) \cap
                    (Range(deliveries[w]) \cup Range(jobs)) = {}
            /\ \A x \in Workers \ {u} :
                    Range(deliveries[u]) \cap Range(deliveries[x]) = {}
    BY DEF OneJobEach
  <2>2. \A u \in Workers :
            /\ IsInjective(deliveries'[u])
            /\ Range(deliveries'[u]) \cap Range(jobs') = {}
            /\ \A x \in Workers \ {u} :
                    Range(deliveries'[u]) \cap Range(deliveries'[x]) = {}
    BY <1>3, <1>4, <2>1
  <2>3. request' = request
    BY DEF DeliverJob, AckJob, NackJob, WorkerDies, requestVars
  <2>4. \A s \in Submissions : JobHeld(s)' => JobHeld(s)
    BY WorkerHolds
  <2>5. QED
    BY <1>4, <2>2, <2>3, <2>4 DEF OneJobEach
<1>5. CASE DeliverJob(w)
  <2>1. jobs # <<>> /\ jobs' = Tail(jobs)
        /\ deliveries'[w] = Append(deliveries[w], Head(jobs))
    BY <1>5 DEF DeliverJob, TypeOK
  <2>2. /\ Head(jobs) \in Submissions
        /\ Range(jobs) = Range(jobs') \cup {Head(jobs)}
    BY <1>1, <2>1, RangeTail
  <2>3. IsInjective(jobs') /\ Head(jobs) \notin Range(jobs')
    BY <1>1, <1>2, <2>1, InjectiveTail
  <2>4. Range(deliveries'[w]) = Range(deliveries[w]) \cup {Head(jobs)}
    BY <1>1, <2>1, <2>2, RangeAppend
  <2>5. IsInjective(deliveries'[w])
    BY <1>1, <1>2, <2>1, <2>2, InjectiveAppend
  <2>6. QED
    BY <1>2, <2>2, <2>3, <2>4, <2>5
<1>6. CASE AckJob(w) \/ NackJob(w)
  <2>1. deliveries[w] # <<>> /\ deliveries'[w] = Tail(deliveries[w])
    BY <1>6 DEF AckJob, NackJob, Handling, TypeOK
  <2>2. /\ Head(deliveries[w]) \in Submissions
        /\ Range(deliveries[w]) =
                Range(deliveries'[w]) \cup {Head(deliveries[w])}
    BY <1>1, <2>1, RangeTail
  <2>3. /\ IsInjective(deliveries'[w])
        /\ Head(deliveries[w]) \notin Range(deliveries'[w])
    BY <1>1, <1>2, <2>1, InjectiveTail
  <2>4. CASE jobs' = jobs
    BY <1>2, <2>2, <2>3, <2>4
  <2>5. CASE jobs' = <<Head(deliveries[w])>> \o jobs
    <3>1. Head(deliveries[w]) \notin Range(jobs)
      BY <1>2, <2>2
    <3>2. /\ IsInjective(jobs')
          /\ Range(jobs') = {Head(deliveries[w])} \cup Range(jobs)
      BY <1>1, <1>2, <2>2, <2>5, <3>1, PushFront
    <3>3. QED
      BY <1>2, <2>2, <2>3, <3>2
  <2>6. QED
    BY <1>6, <2>4, <2>5 DEF AckJob, NackJob, Requeue
<1>7. CASE WorkerDies(w)
  <2>1. deliveries'[w] = <<>> /\ jobs' = deliveries[w] \o jobs
    BY <1>7 DEF WorkerDies, Requeue, TypeOK
  <2>2. Range(jobs') = Range(deliveries[w]) \cup Range(jobs)
    BY <1>1, <2>1, RangeConcat
  <2>3. IsInjective(jobs')
    BY <1>1, <1>2, <2>1, InjectiveConcat
  <2>4. IsInjective(deliveries'[w]) /\ Range(deliveries'[w]) = {}
    BY <2>1 DEF IsInjective, Range
  <2>5. QED
    BY <2>2, <2>3, <2>4
<1>8. QED
  BY <1>5, <1>6, <1>7

LEMMA OneJobPublish ==
    ASSUME TypeOK, OneJobEach, NEW t \in Submissions,
           PublishJob(t) \/ PublishJobFails(t)
    PROVE  OneJobEach'
<1>1. request[t] = "uploaded" /\ ~JobHeld(t)
  BY DEF PublishJob, PublishJobFails, OneJobEach
<1>2. jobs \in Seq(Submissions) /\ t \notin Range(jobs)
  BY <1>1 DEF TypeOK, JobHeld
<1>3. /\ IsInjective(Append(jobs, t))
      /\ Range(Append(jobs, t)) = Range(jobs) \cup {t}
  BY <1>2, InjectiveAppend, RangeAppend DEF OneJobEach
<1>4. jobs' \in {jobs, Append(jobs, t)} /\ deliveries' = deliveries
  BY DEF PublishJob, PublishJobFails, workerVars
<1>5. \A w \in Workers : t \notin Range(deliveries[w])
  BY <1>1 DEF JobHeld
<1>6. ASSUME NEW s \in Submissions,
             request'[s] \in {"new", "created", "uploaded"}
      PROVE  ~JobHeld(s)'
  <2>1. s # t /\ request'[s] = request[s]
    BY <1>6 DEF PublishJob, PublishJobFails, TypeOK
  <2>2. QED
    BY <1>6, <2>1, PublishHolds DEF OneJobEach
<1>7. QED
  BY <1>3, <1>4, <1>5, <1>6 DEF OneJobEach

LEMMA OneJobStep ==
    ASSUME TypeOK, Handling, OneJobEach, [Next]_vars
    PROVE  OneJobEach'
<1>1. CASE \E t \in Submissions : PublishJob(t) \/ PublishJobFails(t)
  BY <1>1, OneJobPublish
<1>2. CASE \E w \in Workers : \/ DeliverJob(w) \/ AckJob(w)
                              \/ NackJob(w) \/ WorkerDies(w)
  BY <1>2, OneJobWorker
<1>3. CASE /\ \A t \in Submissions : ~PublishJob(t) /\ ~PublishJobFails(t)
           /\ UNCHANGED <<jobs, deliveries>>
  <2>1. ASSUME NEW s \in Submissions
        PROVE  request'[s] \in {"new", "created", "uploaded"} =>
                    request[s] \in {"new", "created", "uploaded"}
    <3>1. CASE \E t \in Submissions :
                  \/ CreateRow(t) \/ CreateRowFails(t)
                  \/ UploadSource(t) \/ UploadSourceFails(t)
                  \/ DeleteArtifact(t) \/ DeleteRow(t)
      BY <3>1 DEF TypeOK, CreateRow, CreateRowFails, UploadSource,
         UploadSourceFails, DeleteArtifact, DeleteRow
    <3>2. CASE \E r \in Replicas : ApiserverRestarts(r)
      BY <3>2 DEF ApiserverRestarts
    <3>3. CASE request' = request
      BY <3>3
    <3>4. QED
      BY <1>3, <3>1, <3>2, <3>3 DEF Next, vars, requestVars, DeliverJob,
         StartJob, FinishJob, FinishJobFails, AckJob, NackJob, WorkerDies,
         DeliverResult, ApplyResult, AckResult, ApplyResultFails,
         ConnectionDrops
  <2>2. \A s \in Submissions : JobHeld(s)' <=> JobHeld(s)
    BY <1>3 DEF JobHeld
  <2>3. QED
    BY <1>3, <2>1, <2>2 DEF OneJobEach
<1>4. QED
  BY <1>1, <1>2, <1>3, OthersHold

LEMMA OneJobInit == Init => OneJobEach
<1> SUFFICES ASSUME Init PROVE OneJobEach
  OBVIOUS
<1>1. IsInjective(<<>>) /\ Range(<<>>) = {}
  BY DEF IsInjective, Range
<1>2. QED
  BY <1>1 DEF Init, OneJobEach, JobHeld

(* No submission is ever with two workers, or twice in the queue.          *)
THEOREM OneJobPerSubmission == Spec => []OneJobEach
<1>1. IInv /\ OneJobEach /\ [Next]_vars => OneJobEach'
  BY OneJobStep DEF IInv
<1>2. QED
  BY OneJobInit, <1>1, Invariance, PTL DEF Spec

(***************************************************************************)
(* JUDGING and the order of results.                                       *)
(***************************************************************************)

(* The results as replica r is going to see them.                          *)
Stream(r) == inbox[r] \o results

IsVerdict(m, s) == m.id = s /\ m.verdict \in Terminal

(* A verdict of s is on its way; one follows every JUDGING of s.           *)
Awaited(q, s) == \E i \in DOMAIN q : IsVerdict(q[i], s)

Followed(q, s) ==
    \A i \in DOMAIN q :
        q[i] = Judging(s) =>
            \E j \in DOMAIN q : i < j /\ IsVerdict(q[j], s)

(* Nothing of s is going to end with JUDGING in its row.                   *)
Settled(r, s) ==
    /\ Followed(Stream(r), s)
    /\ rows[s] = "JUDGING" => Awaited(Stream(r), s)

(* With one result at a time a replica applies them in their order.  What  *)
(* is no longer going to be judged is settled, and so is what is about to  *)
(* be acknowledged.                                                        *)
AppliesInOrder(r) ==
    /\ Len(inbox[r]) <= 1
    /\ consumer[r] = "applied" =>
            rows[Head(inbox[r]).id] \in {Head(inbox[r]).verdict, "ABSENT"}

Settling(r) ==
    /\ \A s \in Submissions : JobHeld(s) \/ s \in swallowed \/ Settled(r, s)
    /\ \A w \in Workers :
            stage[w] = "acking" =>
                \/ Head(deliveries[w]) \in swallowed
                \/ Settled(r, Head(deliveries[w]))

(* Publishing something else than JUDGING leaves a stream followed.        *)
LEMMA AppendFollows ==
    ASSUME NEW q \in Seq(Result), NEW m \in Result, NEW s \in Submissions,
           m # Judging(s), Followed(q, s)
    PROVE  Followed(Append(q, m), s)
<1> DEFINE p == Append(q, m)
<1>1. /\ Len(q) \in Nat /\ DOMAIN q = 1..Len(q)
      /\ DOMAIN p = 1..(Len(q) + 1)
      /\ \A i \in 1..Len(q) : p[i] = q[i]
      /\ p[Len(q)+1] = m
  BY AppendFacts
<1> HIDE DEF p
<1>2. ASSUME NEW i \in 1..(Len(q) + 1), p[i] = Judging(s)
      PROVE  \E j \in 1..(Len(q) + 1) : i < j /\ IsVerdict(p[j], s)
  <2>1. i \in 1..Len(q) /\ q[i] = Judging(s)
    BY <1>1, <1>2
  <2>2. PICK j \in 1..Len(q) : i < j /\ IsVerdict(q[j], s)
    BY <1>1, <2>1 DEF Followed
  <2>3. j \in 1..(Len(q) + 1) /\ p[j] = q[j]
    BY <1>1
  <2>4. QED
    BY <2>2, <2>3
<1>3. Followed(p, s)
  BY <1>1, <1>2 DEF Followed
<1>4. QED
  BY <1>3 DEF p

LEMMA AppendAwaits ==
    ASSUME NEW q \in Seq(Result), NEW m \in Result, NEW s \in Submissions,
           Awaited(q, s)
    PROVE  Awaited(Append(q, m), s)
<1> DEFINE p == Append(q, m)
<1>1. /\ Len(q) \in Nat /\ DOMAIN q = 1..Len(q)
      /\ DOMAIN p = 1..(Len(q) + 1)
      /\ \A i \in 1..Len(q) : p[i] = q[i]
  BY AppendFacts
<1> HIDE DEF p
<1>2. PICK i \in 1..Len(q) : IsVerdict(q[i], s)
  BY <1>1 DEF Awaited
<1>3. i \in DOMAIN p /\ p[i] = q[i]
  BY <1>1
<1>4. Awaited(p, s)
  BY <1>2, <1>3 DEF Awaited
<1>5. QED
  BY <1>4 DEF p

(* Publishing a verdict settles the submission.                            *)
LEMMA VerdictSettles ==
    ASSUME NEW q \in Seq(Result), NEW m \in Result, NEW s \in Submissions,
           IsVerdict(m, s)
    PROVE  Followed(Append(q, m), s) /\ Awaited(Append(q, m), s)
<1> DEFINE p == Append(q, m)
<1>1. /\ Len(q) \in Nat /\ DOMAIN q = 1..Len(q)
      /\ DOMAIN p = 1..(Len(q) + 1)
      /\ p[Len(q)+1] = m
  BY AppendFacts
<1> HIDE DEF p
<1>2. m # Judging(s)
  BY PipelineAssumption DEF IsVerdict, Judging
<1>3. Len(q)+1 \in DOMAIN p /\ IsVerdict(p[Len(q)+1], s)
  BY <1>1
<1>4. \A i \in DOMAIN p : p[i] = Judging(s) => i < Len(q)+1
  BY <1>1, <1>2
<1>5. Followed(p, s) /\ Awaited(p, s)
  BY <1>3, <1>4 DEF Followed, Awaited
<1>6. QED
  BY <1>5 DEF p

(* Acknowledging the first result leaves the others followed; a JUDGING at *)
(* the front has its verdict behind it.                                    *)
LEMMA TailFollows ==
    ASSUME NEW q \in Seq(Result), q # <<>>, NEW s \in Submissions
    PROVE  /\ Followed(q, s) => Followed(Tail(q), s)
           /\ Followed(q, s) /\ Head(q) = Judging(s) => Awaited(q, s)
           /\ Awaited(q, s) /\ ~IsVerdict(Head(q), s) => Awaited(Tail(q), s)
<1> DEFINE p == Tail(q)
<1>1. /\ Len(q) \in Nat \ {0} /\ DOMAIN q = 1..Len(q)
      /\ DOMAIN p = 1..(Len(q) - 1)
      /\ \A i \in 1..(Len(q) - 1) : p[i] = q[i+1]
      /\ Head(q) = q[1]
  OBVIOUS
<1> HIDE DEF p
<1>2. ASSUME Followed(q, s), NEW i \in 1..(Len(q) - 1), p[i] = Judging(s)
      PROVE  \E j \in 1..(Len(q) - 1) : i < j /\ IsVerdict(p[j], s)
  <2>1. i + 1 \in 1..Len(q) /\ q[i+1] = Judging(s)
    BY <1>1, <1>2
  <2>2. PICK j \in 1..Len(q) : i + 1 < j /\ IsVerdict(q[j], s)
    BY <1>1, <1>2, <2>1 DEF Followed
  <2>3. j - 1 \in 1..(Len(q) - 1) /\ i < j - 1 /\ p[j-1] = q[j]
    BY <1>1, <2>2
  <2>4. QED
    BY <2>2, <2>3
<1>3. Followed(q, s) => Followed(p, s)
  BY <1>1, <1>2 DEF Followed
<1>4. Followed(q, s) /\ Head(q) = Judging(s) => Awaited(q, s)
  BY <1>1 DEF Followed, Awaited
<1>5. ASSUME Awaited(q, s), ~IsVerdict(Head(q), s) PROVE Awaited(p, s)
  <2>1. PICK i \in 1..Len(q) : IsVerdict(q[i], s)
    BY <1>1, <1>5 DEF Awaited
  <2>2. i # 1
    BY <1>1, <1>5, <2>1
  <2>3. i - 1 \in 1..(Len(q) - 1) /\ p[i-1] = q[i]
    BY <1>1, <2>2
  <2>4. QED
    BY <1>1, <2>1, <2>3 DEF Awaited
<1>6. QED
  BY <1>3, <1>4, <1>5 DEF p

(* The stream: a publish adds to its end, an acknowledgement takes from    *)
(* its front, deliveries and requeues leave it alone.                      *)
LEMMA StreamTypes ==
    ASSUME TypeOK, NEW r \in Replicas
    PROVE  /\ inbox[r] \in Seq(Result) /\ results \in Seq(Result)
           /\ Stream(r) \in Seq(Result)
<1>1. inbox[r] \in Seq(Result) /\ results \in Seq(Result)
  BY DEF TypeOK
<1>2. QED
  BY <1>1 DEF Stream

LEMMA StreamKept ==
    ASSUME TypeOK, TypeOK', NEW r \in Replicas, Len(inbox[r]) <= 1, ResultPrefetch = 1,
           \/ DeliverResult(r) \/ ApplyResult(r) \/ ApplyResultFails(r)
           \/ ConnectionDrops(r) \/ ApiserverRestarts(r)
    PROVE  Stream(r)' = Stream(r) /\ Len(inbox'[r]) <= 1
<1>1. inbox[r] \in Seq(Result) /\ results \in Seq(Result)
  BY StreamTypes
<1>2. Len(<<>>) = 0
  OBVIOUS
<1>3. CASE DeliverResult(r)
  <2>1. Len(inbox[r]) < 1 /\ results # <<>> /\ results' = Tail(results)
    BY <1>3 DEF DeliverResult
  <2>2. inbox[r] = <<>>
    BY <1>1, <2>1, EmptyQueue
  <2>3. inbox'[r] = Append(inbox[r], Head(results))
    BY <1>3 DEF DeliverResult, TypeOK
  <2>4. inbox'[r] = <<Head(results)>> /\ Len(inbox'[r]) = 1
    BY <2>2, <2>3
  <2>5. <<Head(results)>> \o Tail(results) = results
    BY <1>1, <2>1, ConcatOne
  <2>6. <<>> \o results = results
    BY <1>1, EmptyQueue
  <2>7. Stream(r)' = inbox'[r] \o results'
    BY DEF Stream
  <2>8. QED
    BY <2>1, <2>2, <2>4, <2>5, <2>6, <2>7 DEF Stream
<1>4. CASE ApplyResult(r)
  BY <1>4 DEF ApplyResult, Stream
<1>5. CASE ApplyResultFails(r)
  <2>1. /\ inbox[r] # <<>> /\ inbox'[r] = Tail(inbox[r])
        /\ results' = <<Head(inbox[r])>> \o results
    BY <1>5 DEF ApplyResultFails, Requeue, TypeOK
  <2>2. inbox[r] = <<Head(inbox[r])>> /\ Tail(inbox[r]) = <<>>
    BY <1>1, <2>1, SingleQueue
  <2>3. results' \in Seq(Result)
    BY DEF TypeOK
  <2>4. <<>> \o results' = results'
    BY <2>3, EmptyQueue
  <2>5. Stream(r)' = results'
    BY <2>1, <2>2, <2>4 DEF Stream
  <2>6. results' = Stream(r)
    BY <2>1, <2>2 DEF Stream
  <2>7. QED
    BY <1>2, <2>1, <2>2, <2>5, <2>6
<1>6. CASE ConnectionDrops(r) \/ ApiserverRestarts(r)
  <2>1. inbox'[r] = <<>> /\ results' = inbox[r] \o results
    BY <1>6 DEF ConnectionDrops, ApiserverRestarts, Requeue, TypeOK
  <2>2. results' \in Seq(Result)
    BY DEF TypeOK
  <2>3. <<>> \o results' = results'
    BY <2>2, EmptyQueue
  <2>4. Stream(r)' = inbox'[r] \o results'
    BY DEF Stream
  <2>5. QED
    BY <1>2, <2>1, <2>3, <2>4 DEF Stream
<1>7. QED
  BY <1>3, <1>4, <1>5, <1>6

LEMMA StreamAcked ==
    ASSUME TypeOK, Handling, NEW r \in Replicas, AckResult(r), Len(inbox[r]) <= 1
    PROVE  /\ inbox[r] # <<>> /\ Stream(r) # <<>>
           /\ Head(Stream(r)) = Head(inbox[r])
           /\ Stream(r)' = Tail(Stream(r)) /\ Len(inbox'[r]) <= 1
<1>1. inbox[r] \in Seq(Result) /\ results \in Seq(Result)
  BY StreamTypes
<1>2. inbox[r] # <<>>
  BY DEF AckResult, Handling
<1>3. inbox'[r] = Tail(inbox[r]) /\ results' = results
  BY DEF AckResult, TypeOK
<1>4. Tail(inbox[r]) = <<>>
  BY <1>1, <1>2, SingleQueue
<1>5. Stream(r)' = Tail(inbox[r]) \o results
  BY <1>3 DEF Stream
<1>6. Len(inbox'[r]) <= 1
  BY <1>3, <1>4
<1>7. QED
  BY <1>1, <1>2, <1>5, <1>6, ConcatTail DEF Stream

(* A worker publishes at most one result, of its own job.                  *)
LEMMA StreamPublished ==
    ASSUME TypeOK, Handling, NEW r \in Replicas,
           NEW w \in Workers, NEW v \in Terminal,
           StartJob(w) \/ FinishJob(w, v) \/ FinishJobFails(w, v)
    PROVE  /\ Head(deliveries[w]) \in Submissions
           /\ Judging(Head(deliveries[w])) \in Result
           /\ [id |-> Head(deliveries[w]), verdict |-> v] \in Result
           /\ inbox' = inbox /\ rows' = rows
           /\ StartJob(w) =>
                Stream(r)' \in {Stream(r),
                                Append(Stream(r), Judging(Head(deliveries[w])))}
           /\ ~StartJob(w) =>
                Stream(r)' \in {Stream(r),
                    Append(Stream(r), [id |-> Head(deliveries[w]), verdict |-> v])}
           /\ FinishJob(w, v) =>
                Stream(r)' =
                    Append(Stream(r), [id |-> Head(deliveries[w]), verdict |-> v])
<1> DEFINE h == Head(deliveries[w])
<1>1. deliveries[w] \in Seq(Submissions) /\ deliveries[w] # <<>>
  BY DEF TypeOK, Handling, StartJob, FinishJob, FinishJobFails
<1>2. h \in Submissions
  BY <1>1, RangeTail
<1>3. Judging(h) \in Result /\ [id |-> h, verdict |-> v] \in Result
  BY <1>2 DEF Judging, Result
<1>4. inbox[r] \in Seq(Result) /\ results \in Seq(Result)
  BY StreamTypes
<1>5. inbox' = inbox /\ rows' = rows
  BY DEF StartJob, FinishJob, FinishJobFails, consumerVars
<1>6. ASSUME NEW m \in Result, results' = Append(results, m)
      PROVE  Stream(r)' = Append(Stream(r), m)
  <2>1. Stream(r)' = inbox[r] \o Append(results, m)
    BY <1>5, <1>6 DEF Stream
  <2>2. \A p, q \in Seq(Result) : p \o Append(q, m) = Append(p \o q, m)
    BY ConcatAppend
  <2>3. inbox[r] \o Append(results, m) = Append(inbox[r] \o results, m)
    BY ONLY <1>4, <2>2
  <2>4. QED
    BY <2>1, <2>3 DEF Stream
<1>7. results' = results => Stream(r)' = Stream(r)
  BY <1>5 DEF Stream
<1>8. CASE StartJob(w)
  <2>1. stage[w] = "idle" /\ results' \in {results, Append(results, Judging(h))}
    BY <1>8 DEF StartJob
  <2>2. ~FinishJob(w, v)
    BY <2>1 DEF FinishJob
  <2>3. QED
    BY <1>2, <1>3, <1>5, <1>6, <1>7, <1>8, <2>1, <2>2
<1>9. CASE ~StartJob(w)
  <2>1. results' \in {results, Append(results, [id |-> h, verdict |-> v])}
    BY <1>9 DEF FinishJob, FinishJobFails, Announce
  <2>2. FinishJob(w, v) => results' = Append(results, [id |-> h, verdict |-> v])
    BY DEF FinishJob, Announce
  <2>3. QED
    BY <1>2, <1>3, <1>5, <1>6, <1>7, <1>9, <2>1, <2>2
<1>10. QED
  BY <1>8, <1>9

(* No other step touches the stream, and none but an update makes a row    *)
(* read JUDGING.                                                           *)
LEMMA StreamUntouched ==
    ASSUME TypeOK, [Next]_vars, NEW r, Replicas = {r},
           \A w \in Workers : \A v \in Terminal :
                ~StartJob(w) /\ ~FinishJob(w, v) /\ ~FinishJobFails(w, v),
           ~DeliverResult(r), ~ApplyResult(r), ~AckResult(r),
           ~ApplyResultFails(r), ~ConnectionDrops(r), ~ApiserverRestarts(r)
    PROVE  /\ UNCHANGED <<inbox, results, consumer>>
           /\ \A s \in Submissions : rows'[s] # rows[s] =>
                \/ rows'[s] = "ABSENT"
                \/ rows'[s] = "PENDING" /\ request[s] = "new"
<1> USE DEF vars, consumerVars
<1>1. CASE UNCHANGED vars
  BY <1>1
<1>2. ASSUME NEW s \in Submissions,
              \/ CreateRow(s) \/ CreateRowFails(s)
              \/ UploadSource(s) \/ UploadSourceFails(s)
              \/ PublishJob(s) \/ PublishJobFails(s)
              \/ DeleteArtifact(s) \/ DeleteRow(s)
      PROVE  /\ UNCHANGED <<inbox, results, consumer>>
             /\ \A t \in Submissions : rows'[t] # rows[t] =>
                  \/ rows'[t] = "ABSENT"
                  \/ rows'[t] = "PENDING" /\ request[t] = "new"
  BY <1>2 DEF CreateRow, CreateRowFails, UploadSource, UploadSourceFails,
              PublishJob, PublishJobFails, DeleteArtifact, DeleteRow, TypeOK
<1>3. ASSUME NEW w \in Workers,
             DeliverJob(w) \/ AckJob(w) \/ NackJob(w) \/ WorkerDies(w)
      PROVE  UNCHANGED <<inbox, results, consumer, rows>>
  BY <1>3 DEF DeliverJob, AckJob, NackJob, WorkerDies
<1>4. \E v : v \in Terminal
  BY PipelineAssumption
<1>5. QED
  BY <1>1, <1>2, <1>3, <1>4 DEF Next

(* A submission, once settled, stays so until its next JUDGING is published.*)
LEMMA SettledKept ==
    ASSUME IInv, TypeOK', [Next]_vars, NEW r, Replicas = {r},
           ResultPrefetch = 1, AppliesInOrder(r),
           NEW s \in Submissions, Settled(r, s),
           \A w \in Workers : ~(StartJob(w) /\ Head(deliveries[w]) = s)
    PROVE  Settled(r, s)'
<1> DEFINE q == Stream(r)
<1>1. TypeOK /\ Handling /\ r \in Replicas
  BY DEF IInv
<1>2. q \in Seq(Result) /\ inbox[r] \in Seq(Result) /\ results \in Seq(Result)
  BY <1>1, StreamTypes
<1>3. Followed(q, s) /\ (rows[s] = "JUDGING" => Awaited(q, s))
  BY DEF Settled
<1>4. Len(inbox[r]) <= 1
  BY DEF AppliesInOrder
<1>5. SUFFICES Followed(Stream(r)', s) /\ (rows'[s] = "JUDGING" => Awaited(Stream(r)', s))
  BY DEF Settled, Followed, Awaited, IsVerdict, Judging
<1> HIDE DEF q
<1>6. CASE \E w \in Workers, v \in Terminal :
                StartJob(w) \/ FinishJob(w, v) \/ FinishJobFails(w, v)
  <2>1. PICK w \in Workers, v \in Terminal :
                StartJob(w) \/ FinishJob(w, v) \/ FinishJobFails(w, v)
    BY <1>6
  <2>2. rows' = rows
    BY <1>1, <2>1, StreamPublished
  <2>3. Stream(r)' = q \/ \E m \in Result : /\ Stream(r)' = Append(q, m)
                                           /\ m # Judging(s)
    <3>1. CASE StartJob(w)
      <4>1. Judging(Head(deliveries[w])) # Judging(s)
        BY <3>1 DEF Judging
      <4>2. QED
        BY <1>1, <2>1, <3>1, <4>1, StreamPublished DEF q
    <3>2. CASE ~StartJob(w)
      <4>1. [id |-> Head(deliveries[w]), verdict |-> v] # Judging(s)
        BY PipelineAssumption DEF Judging
      <4>2. QED
        BY <1>1, <2>1, <3>2, <4>1, StreamPublished DEF q
    <3>3. QED
      BY <3>1, <3>2
  <2>4. CASE Stream(r)' = q
    BY <1>3, <2>2, <2>4
  <2>5. CASE \E m \in Result : Stream(r)' = Append(q, m) /\ m # Judging(s)
    BY <1>2, <1>3, <2>2, <2>5, AppendFollows, AppendAwaits
  <2>6. QED
    BY <2>3, <2>4, <2>5
<1>7. CASE DeliverResult(r) \/ ConnectionDrops(r) \/ ApiserverRestarts(r)
  <2>1. Stream(r)' = q
    BY <1>1, <1>4, <1>7, StreamKept DEF q
  <2>2. rows' = rows
    BY <1>7 DEF DeliverResult, ConnectionDrops, ApiserverRestarts
  <2>3. QED
    BY <1>3, <2>1, <2>2
<1>8. CASE ApplyResult(r) \/ ApplyResultFails(r)
  <2>1. Stream(r)' = q
    BY <1>1, <1>4, <1>8, StreamKept DEF q
  <2>2. inbox[r] # <<>> /\ rows' \in {rows, Updated(rows, Head(inbox[r]))}
    BY <1>8 DEF ApplyResult, ApplyResultFails
  <2>3. q # <<>> /\ Head(q) = Head(inbox[r])
    BY <1>2, <2>2, ConcatTail DEF q, Stream
  <2>4. Head(q) \in Result
    BY <1>2, <2>3, RangeTail
  <2>5. rows'[s] = "JUDGING" => rows[s] = "JUDGING" \/ Head(q) = Judging(s)
    BY <2>2, <2>3, <2>4 DEF Updated, Result, Judging
  <2>6. Head(q) = Judging(s) => Awaited(q, s)
    BY <1>2, <1>3, <2>3, TailFollows
  <2>7. QED
    BY <1>3, <2>1, <2>5, <2>6
<1>9. CASE AckResult(r)
  <2>1. /\ inbox[r] # <<>> /\ q # <<>>
        /\ Head(q) = Head(inbox[r]) /\ Stream(r)' = Tail(q)
    BY <1>1, <1>4, <1>9, StreamAcked DEF q
  <2>2. rows' = rows /\ consumer[r] = "applied"
    BY <1>9 DEF AckResult
  <2>3. rows[s] = "JUDGING" => ~IsVerdict(Head(q), s)
    BY <2>1, <2>2, PipelineAssumption DEF AppliesInOrder, IsVerdict
  <2>4. QED
    BY <1>2, <1>3, <2>1, <2>2, <2>3, TailFollows
<1>10. CASE /\ UNCHANGED <<inbox, results>>
            /\ rows'[s] # rows[s] => rows'[s] \in {"ABSENT", "PENDING"}
  <2>1. Stream(r)' = q
    BY <1>10 DEF q, Stream
  <2>2. rows'[s] = "JUDGING" => rows[s] = "JUDGING"
    BY <1>10
  <2>3. QED
    BY <1>3, <2>1, <2>2
<1>11. QED
  BY <1>1, <1>6, <1>7, <1>8, <1>9, <1>10, StreamUntouched

(* One result at a time, written when it is acknowledged. *)
LEMMA AppliesInOrderStep ==
    ASSUME IInv, TypeOK', [Next]_vars, NEW r, Replicas = {r},
           ResultPrefetch = 1, AppliesInOrder(r)
    PROVE  AppliesInOrder(r)'
<1>1. TypeOK /\ Handling /\ r \in Replicas
  BY DEF IInv
<1>2. Len(inbox[r]) <= 1
  BY DEF AppliesInOrder
<1>3. CASE DeliverResult(r) \/ ApplyResultFails(r) \/ ConnectionDrops(r)
           \/ ApiserverRestarts(r) \/ AckResult(r)
  <2>1. Len(inbox'[r]) <= 1
    BY <1>1, <1>2, <1>3, StreamKept, StreamAcked
  <2>2. consumer'[r] # "applied"
    <3>1. CASE DeliverResult(r)
      <4>1. Len(inbox[r]) < 1 /\ consumer' = consumer
        BY <3>1 DEF DeliverResult
      <4>2. inbox[r] = <<>>
        BY <1>1, <4>1, StreamTypes, EmptyQueue
      <4>3. QED
        BY <1>1, <4>1, <4>2 DEF Handling
    <3>2. CASE \/ ApplyResultFails(r) \/ ConnectionDrops(r)
               \/ ApiserverRestarts(r) \/ AckResult(r)
      BY <1>1, <3>2 DEF ApplyResultFails, ConnectionDrops, ApiserverRestarts,
         AckResult, TypeOK
    <3>3. QED
      BY <1>3, <3>1, <3>2
  <2>3. QED
    BY <2>1, <2>2 DEF AppliesInOrder
<1>4. CASE ApplyResult(r)
  <2>1. inbox' = inbox /\ rows' = Updated(rows, Head(inbox[r])) /\ inbox[r] # <<>>
    BY <1>4 DEF ApplyResult
  <2>2. Head(inbox[r]) \in Result
    BY <1>1, <2>1, StreamTypes, RangeTail
  <2>3. rows'[Head(inbox[r]).id] \in {Head(inbox[r]).verdict, "ABSENT"}
    BY <2>1, <2>2 DEF Updated, Result
  <2>4. QED
    BY <1>2, <2>1, <2>3 DEF AppliesInOrder
<1>5. CASE /\ UNCHANGED <<inbox, consumer>>
           /\ \A s \in Submissions : rows'[s] # rows[s] =>
                \/ rows'[s] = "ABSENT"
                \/ rows'[s] = "PENDING" /\ request[s] = "new"
  <2>1. SUFFICES ASSUME consumer[r] = "applied"
                 PROVE  rows'[Head(inbox[r]).id] \in {Head(inbox[r]).verdict, "ABSENT"}
    BY <1>2, <1>5 DEF AppliesInOrder
  <2>2. inbox[r] \in Seq(Result) /\ inbox[r] # <<>>
    BY <1>1, <2>1, StreamTypes DEF Handling
  <2>3. Head(inbox[r]) \in Result /\ Head(inbox[r]) \in Range(inbox[r])
    BY <2>2, RangeTail
  <2>4. request[Head(inbox[r]).id] # "new" /\ Head(inbox[r]).id \in Submissions
    BY <1>1, <2>3 DEF IInv, CreatedFirst, InFlight, Result
  <2>5. QED
    BY <1>5, <2>1, <2>4 DEF AppliesInOrder
<1>6. CASE \E w \in Workers, v \in Terminal :
                StartJob(w) \/ FinishJob(w, v) \/ FinishJobFails(w, v)
  <2>1. UNCHANGED <<inbox, consumer, rows>>
    BY <1>6 DEF StartJob, FinishJob, FinishJobFails, consumerVars
  <2>2. QED
    BY <1>5, <2>1
<1>7. QED
  BY <1>1, <1>3, <1>4, <1>5, <1>6, StreamUntouched

(* A job leaves with an acknowledgement only. *)
LEMMA HeldUntilAck ==
    ASSUME TypeOK, Handling, [Next]_vars, NEW s \in Submissions,
           JobHeld(s), ~JobHeld(s)'
    PROVE  \E w \in Workers : AckJob(w) /\ Head(deliveries[w]) = s
<1>1. CASE \E t \in Submissions : PublishJob(t) \/ PublishJobFails(t)
  BY <1>1, PublishHolds
<1>2. CASE \E w \in Workers : \/ DeliverJob(w) \/ AckJob(w)
                              \/ NackJob(w) \/ WorkerDies(w)
  BY <1>2, WorkerHolds
<1>3. CASE UNCHANGED <<jobs, deliveries>>
  BY <1>3 DEF JobHeld
<1>4. QED
  BY <1>1, <1>2, <1>3, OthersHold

(* Whoever starts a job holds it, and goes on holding it. *)
LEMMA StartedIsHeld ==
    ASSUME TypeOK, NEW w \in Workers, StartJob(w)
    PROVE  /\ Head(deliveries[w]) \in Range(deliveries[w])
           /\ \A s \in Submissions :
                s = Head(deliveries[w]) => JobHeld(s) /\ JobHeld(s)'
<1>1. deliveries[w] \in Seq(Submissions) /\ deliveries[w] # <<>>
  BY DEF TypeOK, StartJob
<1>2. Head(deliveries[w]) \in Range(deliveries[w])
  BY <1>1, RangeTail
<1>3. UNCHANGED <<jobs, deliveries>>
  BY DEF StartJob
<1>4. QED
  BY <1>2, <1>3 DEF JobHeld

(* A worker becomes about to acknowledge when it has published, or dropped *)
(* a publish error; until it does so its job stays the first one.          *)
LEMMA AckingStep ==
    ASSUME TypeOK, Handling, [Next]_vars, NEW w \in Workers,
           stage'[w] = "acking"
    PROVE  /\ Head(deliveries'[w]) = Head(deliveries[w])
           /\ \/ stage[w] = "acking"
              \/ \E v \in Terminal : FinishJob(w, v)
              \/ Head(deliveries[w]) \in swallowed'
<1> USE DEF TypeOK
<1>1. ASSUME NEW u \in Workers, DeliverJob(u)
      PROVE  /\ stage' = stage
             /\ Head(deliveries'[w]) = Head(deliveries[w])
  <2>1. stage' = stage
    BY <1>1 DEF DeliverJob
  <2>2. deliveries[w] # <<>>
    BY <2>1 DEF Handling
  <2>3. CASE u # w
    BY <1>1, <2>1, <2>3 DEF DeliverJob
  <2>4. CASE u = w
    <3>1. /\ deliveries[w] \in Seq(Submissions)
          /\ Head(jobs) \in Submissions
          /\ deliveries'[w] = Append(deliveries[w], Head(jobs))
      BY <1>1, <2>4, RangeTail DEF DeliverJob
    <3>2. QED
      BY ONLY <2>1, <2>2, <3>1, AppendHead
  <2>5. QED
    BY <2>3, <2>4
<1>2. ASSUME NEW u \in Workers,
             StartJob(u) \/ AckJob(u) \/ NackJob(u) \/ WorkerDies(u)
      PROVE  stage[w] = "acking" /\ deliveries'[w] = deliveries[w]
  BY <1>2 DEF StartJob, AckJob, NackJob, WorkerDies
<1>3. ASSUME NEW u \in Workers, NEW v \in Terminal, FinishJob(u, v)
      PROVE  /\ deliveries' = deliveries
             /\ stage[w] = "acking" \/ FinishJob(w, v)
  BY <1>3 DEF FinishJob
<1>4. ASSUME NEW u \in Workers, NEW v \in Terminal, FinishJobFails(u, v)
      PROVE  /\ deliveries' = deliveries
             /\ stage[w] = "acking" \/ Head(deliveries[w]) \in swallowed'
  BY <1>4 DEF FinishJobFails
<1>5. CASE UNCHANGED <<deliveries, stage>>
  BY <1>5
<1>6. CASE \E s \in Submissions :
              \/ CreateRow(s) \/ CreateRowFails(s)
              \/ UploadSource(s) \/ UploadSourceFails(s)
              \/ PublishJob(s) \/ PublishJobFails(s)
              \/ DeleteArtifact(s) \/ DeleteRow(s)
  BY <1>5, <1>6 DEF CreateRow, CreateRowFails, UploadSource, workerVars,
       UploadSourceFails, PublishJob, PublishJobFails, DeleteArtifact, DeleteRow
<1>7. CASE \E r \in Replicas :
              \/ DeliverResult(r) \/ ApplyResult(r) \/ AckResult(r)
              \/ ApplyResultFails(r) \/ ConnectionDrops(r)
              \/ ApiserverRestarts(r)
  BY <1>5, <1>7 DEF DeliverResult, ApplyResult, AckResult, ApplyResultFails,
       ConnectionDrops, ApiserverRestarts, workerVars
<1>8. CASE UNCHANGED vars
  BY <1>5, <1>8 DEF vars, workerVars
<1>9. QED
  BY <1>1, <1>2, <1>3, <1>4, <1>6, <1>7, <1>8 DEF Next

LEMMA FinishedIsSettled ==
    ASSUME TypeOK, Handling, NEW r \in Replicas, NEW w \in Workers,
           NEW v \in Terminal, FinishJob(w, v)
    PROVE  Settled(r, Head(deliveries[w]))'
<1> DEFINE h == Head(deliveries[w])
           m == [id |-> h, verdict |-> v]
<1>1. /\ h \in Submissions /\ m \in Result
      /\ Stream(r)' = Append(Stream(r), m) /\ deliveries' = deliveries
  <2>1. deliveries' = deliveries
    BY DEF FinishJob
  <2>2. QED
    BY <2>1, StreamPublished
<1>2. IsVerdict(m, h)
  BY DEF IsVerdict
<1>3. Followed(Append(Stream(r), m), h) /\ Awaited(Append(Stream(r), m), h)
  BY <1>1, <1>2, StreamTypes, VerdictSettles
<1>4. QED
  BY <1>1, <1>3 DEF Settled, Followed, Awaited, IsVerdict, Judging

LEMMA SettlingStep ==
    ASSUME IInv, TypeOK', [Next]_vars, NEW r, Replicas = {r},
           ResultPrefetch = 1, AppliesInOrder(r), OneJobEach, Settling(r)
    PROVE  Settling(r)'
<1>1. TypeOK /\ Handling /\ r \in Replicas
  BY DEF IInv
<1>2. swallowed \subseteq swallowed'
  BY HistoryGrows
<1>3. ASSUME NEW s \in Submissions, ~JobHeld(s)', s \notin swallowed'
      PROVE  Settled(r, s)'
  <2>1. \A w \in Workers : ~(StartJob(w) /\ Head(deliveries[w]) = s)
    BY <1>1, <1>3, StartedIsHeld
  <2>2. Settled(r, s)
    <3>1. CASE JobHeld(s)
      <4>1. PICK w \in Workers : AckJob(w) /\ Head(deliveries[w]) = s
        BY <1>1, <1>3, <3>1, HeldUntilAck
      <4>2. stage[w] = "acking"
        BY <4>1 DEF AckJob
      <4>3. QED
        BY <1>2, <1>3, <4>1, <4>2 DEF Settling
    <3>2. CASE ~JobHeld(s)
      BY <1>2, <1>3, <3>2 DEF Settling
    <3>3. QED
      BY <3>1, <3>2
  <2>3. QED
    BY <2>1, <2>2, SettledKept
<1>4. ASSUME NEW w \in Workers, stage'[w] = "acking",
             Head(deliveries'[w]) \notin swallowed'
      PROVE  Settled(r, Head(deliveries[w]))' /\ Head(deliveries'[w]) = Head(deliveries[w])
  <2> DEFINE h == Head(deliveries[w])
  <2>1. /\ Head(deliveries'[w]) = h
        /\ stage[w] = "acking" \/ \E v \in Terminal : FinishJob(w, v)
    BY <1>1, <1>4, AckingStep
  <2>2. CASE \E v \in Terminal : FinishJob(w, v)
    BY <1>1, <2>1, <2>2, FinishedIsSettled
  <2>3. CASE stage[w] = "acking"
    <3>1. deliveries[w] \in Seq(Submissions) /\ deliveries[w] # <<>>
      BY <1>1, <2>3 DEF TypeOK, Handling
    <3>2. h \in Submissions /\ h \in Range(deliveries[w])
      BY <3>1, RangeTail
    <3>3. Settled(r, h)
      BY <1>2, <1>4, <2>1, <2>3 DEF Settling
    <3>4. ASSUME NEW u \in Workers, StartJob(u), Head(deliveries[u]) = h
          PROVE  FALSE
      <4>1. u # w /\ h \in Range(deliveries[u])
        BY <1>1, <2>3, <3>4, StartedIsHeld DEF StartJob
      <4>2. QED
        BY <3>2, <4>1 DEF OneJobEach
    <3>5. PICK s \in Submissions : s = h
      BY <3>2
    <3>6. Settled(r, s)'
      BY <3>3, <3>4, <3>5, SettledKept
    <3>7. QED
      BY <2>1, <3>5, <3>6
  <2>4. QED
    BY <2>1, <2>2, <2>3
<1>5. QED
  BY <1>3, <1>4 DEF Settling

(* JUDGING in a row means what it says as long as one replica applies the  *)
(* results, one at a time: whatever number of workers there is, and        *)
(* whatever fails, the submission is being judged, or its verdict is under *)
(* way, or it is one of those whose CE was dropped.                        *)
THEOREM JudgingIsExplained ==
    ASSUME NEW r, Replicas = {r}, ResultPrefetch = 1
    PROVE  Spec => []JudgingExplained
<1> DEFINE OrderInv == OneJobEach /\ AppliesInOrder(r) /\ Settling(r)
<1>1. Init => OrderInv
  <2> SUFFICES ASSUME Init PROVE OrderInv
    OBVIOUS
  <2>1. OneJobEach
    BY OneJobInit
  <2>2. AppliesInOrder(r)
    <3>1. inbox[r] = <<>> /\ Len(<<>>) = 0 /\ consumer[r] # "applied"
      BY DEF Init
    <3>2. QED
      BY <3>1 DEF AppliesInOrder
  <2>3. Settling(r)
    <3>1. Stream(r) = <<>> \o <<>> /\ <<>> \o <<>> = <<>> /\ DOMAIN <<>> = {}
      BY DEF Init, Stream
    <3>2. QED
      BY <3>1, PipelineAssumption DEF Init, Settling, Settled, Followed
  <2>4. QED
    BY <2>1, <2>2, <2>3
<1>2. IInv /\ TypeOK' /\ OrderInv /\ [Next]_vars => OrderInv'
  BY OneJobStep, AppliesInOrderStep, SettlingStep DEF IInv
<1>3. IInv /\ OrderInv => JudgingExplained
  <2> SUFFICES ASSUME IInv, OrderInv, NEW s \in Submissions,
                      rows[s] = "JUDGING", ~JobHeld(s), s \notin swallowed
               PROVE  TerminalInFlight(s)
    BY DEF JudgingExplained
  <2>1. TypeOK /\ r \in Replicas
    BY DEF IInv
  <2>2. /\ inbox[r] \in Seq(Result) /\ results \in Seq(Result)
        /\ Stream(r) \in Seq(Result)
    BY <2>1, StreamTypes
  <2>3. PICK i \in DOMAIN Stream(r) : IsVerdict(Stream(r)[i], s)
    BY DEF Settling, Settled, Awaited
  <2>4. /\ Stream(r)[i] \in Result
        /\ Stream(r)[i] \in Range(Stream(r))
    BY <2>2, <2>3 DEF Range
  <2>5. Stream(r)[i] = [id |-> s, verdict |-> Stream(r)[i].verdict]
    BY <2>3, <2>4 DEF Result, IsVerdict
  <2>6. Range(Stream(r)) = Range(inbox[r]) \cup Range(results)
    BY <2>2, RangeConcat DEF Stream
  <2>7. InFlight(Stream(r)[i])
    BY <2>1, <2>4, <2>6 DEF InFlight
  <2>8. QED
    BY <2>3, <2>5, <2>7 DEF TerminalInFlight, IsVerdict
<1>4. QED
  BY <1>1, <1>2, <1>3, Invariance, TypeCorrect, PTL DEF Spec

(***************************************************************************)
(* The pipeline implements JudgeService.                                   *)
(***************************************************************************)

(* No verdict is on its way that was not announced.                        *)
PublishedFirst ==
    \A m \in Result :
        InFlight(m) /\ m.verdict \in Terminal => m.id \in announced

(***************************************************************************)
(* Verdicts in flight.                                                     *)
(***************************************************************************)

(* A worker that adds a verdict announces it in the same step.             *)
LEMMA VerdictIsAnnounced ==
    ASSUME TypeOK, Handling, NEW w \in Workers, NEW v \in Terminal,
           StartJob(w) \/ FinishJob(w, v) \/ FinishJobFails(w, v),
           NEW m \in Result, InFlight(m)', m.verdict \in Terminal
    PROVE  InFlight(m) \/ m.id \in announced'
<1> DEFINE s == Head(deliveries[w])
<1>1. deliveries[w] \in Seq(Submissions) /\ deliveries[w] # <<>>
  BY DEF TypeOK, Handling, StartJob, FinishJob, FinishJobFails
<1>2. s \in Submissions
  BY <1>1, RangeTail
<1>3. inbox' = inbox /\ results \in Seq(Result)
  BY DEF StartJob, FinishJob, FinishJobFails, consumerVars, TypeOK
<1>4. CASE results' = results
  BY <1>3, <1>4 DEF InFlight
<1>5. CASE results' = Append(results, Judging(s))
  <2>1. Judging(s) \in Result /\ Judging(s).verdict \notin Terminal
    BY <1>2, PipelineAssumption DEF Judging, Result
  <2>2. Range(results') = Range(results) \cup {Judging(s)}
    BY <1>3, <1>5, <2>1, RangeAppend
  <2>3. QED
    BY <1>3, <2>1, <2>2 DEF InFlight
<1>6. CASE /\ results' = Append(results, [id |-> s, verdict |-> v])
           /\ announced' = announced \cup {s}
  <2>1. [id |-> s, verdict |-> v] \in Result
    BY <1>2 DEF Result
  <2>2. Range(results') = Range(results) \cup {[id |-> s, verdict |-> v]}
    BY <1>3, <1>6, <2>1, RangeAppend
  <2>3. QED
    BY <1>3, <1>6, <2>2 DEF InFlight
<1>7. QED
  BY <1>4, <1>5, <1>6 DEF StartJob, FinishJob, FinishJobFails, Announce

LEMMA PublishedFirstStep ==
    ASSUME TypeOK, Handling, PublishedFirst, [Next]_vars
    PROVE  PublishedFirst'
<1> SUFFICES ASSUME NEW m \in Result, InFlight(m)', m.verdict \in Terminal
             PROVE  m.id \in announced'
  BY DEF PublishedFirst
<1>1. CASE InFlight(m)
  BY <1>1, HistoryGrows DEF PublishedFirst
<1>2. CASE \E w \in Workers, v \in Terminal :
                StartJob(w) \/ FinishJob(w, v) \/ FinishJobFails(w, v)
  BY <1>1, <1>2, VerdictIsAnnounced
<1>3. CASE /\ ~InFlight(m)
           /\ \A w \in Workers : \A v \in Terminal :
                ~StartJob(w) /\ ~FinishJob(w, v) /\ ~FinishJobFails(w, v)
  <2>1. CASE UNCHANGED <<results, inbox>>
    BY <1>3, <2>1 DEF InFlight
  <2>2. CASE \E r \in Replicas :
                \/ DeliverResult(r) \/ AckResult(r) \/ ApplyResultFails(r)
                \/ ConnectionDrops(r) \/ ApiserverRestarts(r)
    BY <1>3, <2>2, ReplicaHolds
  <2>3. QED
    BY <1>3, <2>1, <2>2, OthersSilent
<1>4. QED
  BY <1>1, <1>2, <1>3

LEMMA PublishedFirstInit == Init => PublishedFirst
<1>1. Range(<<>>) = {}
  BY RangeSmall
<1>2. QED
  BY <1>1 DEF Init, PublishedFirst, InFlight

(***************************************************************************)
(* Steps.                                                                  *)
(***************************************************************************)

(* What the step of one request does to the answers.                       *)
LEMMA AnswerMoves ==
    ASSUME TypeOK, NEW s \in Submissions, NEW p, NEW a,
           request' = [request EXCEPT ![s] = p], AnswerOf(p) = a
    PROVE  [t \in Submissions |-> AnswerOf(request[t])]' =
               [[t \in Submissions |-> AnswerOf(request[t])] EXCEPT ![s] = a]
<1>1. ASSUME NEW t \in Submissions
      PROVE  AnswerOf(request'[t]) = IF t = s THEN a ELSE AnswerOf(request[t])
  BY DEF TypeOK
<1>2. QED
  BY <1>1

(* An answer that does not change hides a step of a request.               *)
LEMMA AnswerKept ==
    ASSUME TypeOK, NEW s \in Submissions, NEW stageOfRequest,
           request' = [request EXCEPT ![s] = stageOfRequest],
           AnswerOf(stageOfRequest) = AnswerOf(request[s])
    PROVE  [t \in Submissions |-> AnswerOf(request'[t])] =
               [t \in Submissions |-> AnswerOf(request[t])]
BY DEF TypeOK

LEMMA Answers ==
    /\ AnswerOf("new") = "none"
    /\ \A p \in InHandler : AnswerOf(p) = "open"
    /\ AnswerOf("accepted") = "accepted"
    /\ AnswerOf("rejected") = "refused"
    /\ AnswerOf("aborted") = "lost"
BY DEF AnswerOf, InHandler

(* The request: its steps open, decline, accept or refuse, or are the      *)
(* handler's own business.                                                 *)
LEMMA RequestImplements ==
    ASSUME TypeOK, NEW s \in Submissions,
           \/ CreateRow(s) \/ CreateRowFails(s)
           \/ UploadSource(s) \/ UploadSourceFails(s)
           \/ PublishJob(s) \/ PublishJobFails(s)
           \/ DeleteArtifact(s) \/ DeleteRow(s)
    PROVE  [Service!Next]_(Service!serviceVars)
<1> USE DEF history
<1>1. CASE CreateRow(s)
  <2>1. /\ AnswerOf(request[s]) = "none"
        /\ request' = [request EXCEPT ![s] = "created"]
        /\ AnswerOf("created") = "open"
    BY <1>1, Answers DEF CreateRow, InHandler
  <2>2. [t \in Submissions |-> AnswerOf(request[t])]' =
            [[t \in Submissions |-> AnswerOf(request[t])] EXCEPT ![s] = "open"]
    BY <2>1, AnswerMoves
  <2>3. Service!Open(s)
    BY <1>1, <2>1, <2>2 DEF CreateRow, Service!Open
  <2>4. QED
    BY <2>3 DEF Service!Next
<1>2. CASE CreateRowFails(s)
  <2>1. /\ AnswerOf(request[s]) = "none"
        /\ request' = [request EXCEPT ![s] = "rejected"]
        /\ AnswerOf("rejected") = "refused"
    BY <1>2, Answers DEF CreateRowFails, InHandler
  <2>2. [t \in Submissions |-> AnswerOf(request[t])]' =
            [[t \in Submissions |-> AnswerOf(request[t])] EXCEPT ![s] = "refused"]
    BY <2>1, AnswerMoves
  <2>3. Service!Decline(s)
    BY <1>2, <2>1, <2>2 DEF CreateRowFails, Service!Decline
  <2>4. QED
    BY <2>3 DEF Service!Next
<1>3. CASE \/ UploadSource(s) \/ UploadSourceFails(s)
           \/ PublishJobFails(s) \/ DeleteArtifact(s)
  <2>1. PICK p \in InHandler : /\ request[s] \in InHandler
                               /\ request' = [request EXCEPT ![s] = p]
                               /\ UNCHANGED <<rows, announced>>
    BY <1>3 DEF UploadSource, UploadSourceFails, PublishJobFails,
                DeleteArtifact, InHandler
  <2>2. QED
    BY <2>1, AnswerKept, Answers DEF Service!serviceVars
<1>4. CASE PublishJob(s)
  <2>1. /\ AnswerOf(request[s]) = "open"
        /\ request' = [request EXCEPT ![s] = "accepted"]
        /\ AnswerOf("accepted") = "accepted"
    BY <1>4, Answers DEF PublishJob, InHandler
  <2>2. [t \in Submissions |-> AnswerOf(request[t])]' =
            [[t \in Submissions |-> AnswerOf(request[t])] EXCEPT ![s] = "accepted"]
    BY <2>1, AnswerMoves
  <2>3. Service!Accept(s)
    BY <1>4, <2>1, <2>2 DEF PublishJob, Service!Accept
  <2>4. QED
    BY <2>3 DEF Service!Next
<1>5. CASE DeleteRow(s)
  <2>1. /\ AnswerOf(request[s]) = "open"
        /\ request' = [request EXCEPT ![s] = "rejected"]
        /\ AnswerOf("rejected") = "refused"
    BY <1>5, Answers DEF DeleteRow, InHandler
  <2>2. [t \in Submissions |-> AnswerOf(request[t])]' =
            [[t \in Submissions |-> AnswerOf(request[t])] EXCEPT ![s] = "refused"]
    BY <2>1, AnswerMoves
  <2>3. Service!Refuse(s)
    BY <1>5, <2>1, <2>2 DEF DeleteRow, Service!Refuse
  <2>4. QED
    BY <2>3 DEF Service!Next
<1>6. QED
  BY <1>1, <1>2, <1>3, <1>4, <1>5

(* The worker: a published verdict is the judge's.                         *)
LEMMA WorkerImplements ==
    ASSUME IInv, NEW w \in Workers, NEW v \in Terminal,
           \/ DeliverJob(w) \/ StartJob(w)
           \/ FinishJob(w, v) \/ FinishJobFails(w, v)
           \/ AckJob(w) \/ NackJob(w) \/ WorkerDies(w)
    PROVE  [Service!Next]_(Service!serviceVars)
<1> USE DEF history, requestVars
<1>1. CASE \/ DeliverJob(w) \/ StartJob(w) \/ AckJob(w) \/ NackJob(w)
           \/ WorkerDies(w)
  BY <1>1 DEF DeliverJob, StartJob, AckJob, NackJob, WorkerDies,
              Service!serviceVars
<1>2. CASE FinishJob(w, v) \/ FinishJobFails(w, v)
  <2> DEFINE s == Head(deliveries[w])
  <2>1. deliveries[w] \in Seq(Submissions) /\ deliveries[w] # <<>>
    BY <1>2 DEF IInv, TypeOK, Handling, FinishJob, FinishJobFails
  <2>2. s \in Submissions /\ s \in Range(deliveries[w])
    BY <2>1, RangeTail
  <2>3. request[s] # "new"
    BY <2>2 DEF IInv, CreatedFirst, JobHeld
  <2>4. AnswerOf(request[s]) # "none"
    BY <2>2, <2>3, Answers DEF IInv, TypeOK
  <2>5. CASE UNCHANGED announced
    BY <1>2, <2>5 DEF FinishJob, FinishJobFails, Service!serviceVars
  <2>6. CASE announced' = announced \cup {s}
    <3>1. Service!Judge(s)
      BY <1>2, <2>2, <2>4, <2>6 DEF FinishJob, FinishJobFails, Service!Judge
    <3>2. QED
      BY <2>2, <3>1 DEF Service!Next
  <2>7. QED
    BY <1>2, <2>5, <2>6 DEF FinishJob, FinishJobFails, Announce
<1>3. QED
  BY <1>1, <1>2

(* An update shows a verdict of a row that is there, or changes nothing.   *)
LEMMA UpdateImplements ==
    ASSUME TypeOK, PublishedFirst, NEW m \in Result, InFlight(m),
           rows' \in {rows, Updated(rows, m)},
           UNCHANGED <<request, announced>>
    PROVE  [Service!Next]_(Service!serviceVars)
<1>1. CASE rows' = rows \/ rows[m.id] = "ABSENT"
  <2>1. rows' = rows
    BY <1>1 DEF Updated, TypeOK
  <2>2. QED
    BY <2>1 DEF Service!serviceVars
<1>2. CASE rows' = Updated(rows, m) /\ rows[m.id] # "ABSENT"
  <2>1. /\ m.id \in Submissions
        /\ m.verdict \in {"JUDGING"} \cup Terminal
        /\ m.verdict \in Terminal => m.id \in announced
    BY DEF Result, PublishedFirst
  <2>2. rows' = [rows EXCEPT ![m.id] = m.verdict]
    BY <1>2 DEF Updated, TypeOK
  <2>3. Service!Show(m.id, m.verdict)
    BY <1>2, <2>1, <2>2 DEF Service!Show
  <2>4. QED
    BY <2>1, <2>3 DEF Service!Next
<1>3. QED
  BY <1>1, <1>2

(* The replica: an update shows a verdict, its death abandons the requests *)
(* it was serving, and the rest moves results only.                        *)
LEMMA ReplicaImplements ==
    ASSUME TypeOK, PublishedFirst, NEW r \in Replicas,
           \/ DeliverResult(r) \/ ApplyResult(r) \/ AckResult(r)
           \/ ApplyResultFails(r) \/ ConnectionDrops(r)
           \/ ApiserverRestarts(r)
    PROVE  [Service!Next]_(Service!serviceVars)
<1> USE DEF history, requestVars
<1>1. CASE DeliverResult(r) \/ AckResult(r) \/ ConnectionDrops(r)
  BY <1>1 DEF DeliverResult, AckResult, ConnectionDrops, Service!serviceVars
<1>2. CASE ApplyResult(r) \/ ApplyResultFails(r)
  <2>1. inbox[r] \in Seq(Result) /\ inbox[r] # <<>>
    BY <1>2 DEF ApplyResult, ApplyResultFails, TypeOK
  <2>2. /\ Head(inbox[r]) \in Result
        /\ Head(inbox[r]) \in Range(inbox[r])
    BY <2>1, RangeTail
  <2>3. InFlight(Head(inbox[r]))
    BY <2>2 DEF InFlight
  <2>4. /\ rows' \in {rows, Updated(rows, Head(inbox[r]))}
        /\ UNCHANGED <<request, announced>>
    BY <1>2 DEF ApplyResult, ApplyResultFails
  <2>5. QED
    BY <2>2, <2>3, <2>4, UpdateImplements
<1>3. CASE ApiserverRestarts(r)
  <2> DEFINE S == {s \in Submissions : Home[s] = r /\ request[s] \in InHandler}
  <2>1. \A s \in S : AnswerOf(request[s]) = "open"
    BY Answers
  <2>2. \A s \in Submissions :
            AnswerOf(request'[s]) = IF s \in S THEN "lost" ELSE AnswerOf(request[s])
    BY <1>3, Answers DEF ApiserverRestarts
  <2>3. Service!Abandon(S)
    BY <1>3, <2>1, <2>2 DEF ApiserverRestarts, Service!Abandon
  <2>4. S \in SUBSET Submissions
    OBVIOUS
  <2>5. QED
    BY <2>3, <2>4 DEF Service!Next
<1>4. QED
  BY <1>1, <1>2, <1>3

LEMMA StepImplements ==
    ASSUME IInv, PublishedFirst, [Next]_vars
    PROVE  [Service!Next]_(Service!serviceVars)
<1>1. TypeOK /\ \E v : v \in Terminal
  BY PipelineAssumption DEF IInv
<1>2. CASE Next
  BY <1>1, <1>2, RequestImplements, WorkerImplements, ReplicaImplements DEF Next
<1>3. CASE UNCHANGED vars
  BY <1>3 DEF vars, requestVars, history, Service!serviceVars
<1>4. QED
  BY <1>2, <1>3

LEMMA InitImplements == Init => Service!Init
BY Answers DEF Init, Service!Init

(* The pipeline implements the service, whatever the number of submissions,*)
(* replicas, workers and faults: one answer per request, a row that is     *)
(* created once and never returns, and no verdict that no judge has given. *)
THEOREM PipelineImplementsService == Spec => ImplementsService
<1>1. Init => IInv /\ PublishedFirst
  BY IInvInit, PublishedFirstInit
<1>2. IInv /\ PublishedFirst /\ [Next]_vars => PublishedFirst'
  BY PublishedFirstStep DEF IInv
<1>3. IInv /\ PublishedFirst /\ [Next]_vars => [Service!Next]_(Service!serviceVars)
  BY StepImplements
<1>4. QED
  BY <1>1, <1>2, <1>3, InitImplements, Invariance, PTL
     DEF Spec, ImplementsService, Service!Spec

(* What the service says of verdicts. *)
VerdictGiven == \A s \in Submissions : rows[s] \in Terminal => s \in announced

(* No verdict in a row without a judge: whoever reads the table, at any    *)
(* moment, finds only verdicts that a worker has announced.  It is the     *)
(* service that promises this; the pipeline has it by implementing it.     *)
THEOREM VerdictsAreTheJudges == Spec => []VerdictGiven
<1> DEFINE Inv == DOMAIN rows = Submissions /\ VerdictGiven
<1>1. Service!Init => Inv
  BY PipelineAssumption DEF Service!Init, VerdictGiven
<1>2. Inv /\ [Service!Next]_(Service!serviceVars) => Inv'
  <2> SUFFICES ASSUME Inv, [Service!Next]_(Service!serviceVars) PROVE Inv'
    OBVIOUS
  <2>1. CASE UNCHANGED <<rows, announced>>
    BY <2>1 DEF VerdictGiven
  <2>2. CASE \E s \in Submissions : Service!Open(s) \/ Service!Decline(s) \/ Service!Refuse(s)
    BY <2>2, PipelineAssumption
       DEF Service!Open, Service!Decline, Service!Refuse, VerdictGiven
  <2>3. CASE \E s \in Submissions : Service!Judge(s)
    BY <2>3 DEF Service!Judge, VerdictGiven
  <2>4. CASE \E s \in Submissions, v \in {"JUDGING"} \cup Terminal : Service!Show(s, v)
    BY <2>4, PipelineAssumption DEF Service!Show, VerdictGiven
  <2>5. CASE \E s \in Submissions : Service!Accept(s)
    BY <2>1, <2>5 DEF Service!Accept
  <2>6. CASE \E S \in SUBSET Submissions : Service!Abandon(S)
    BY <2>1, <2>6 DEF Service!Abandon
  <2>7. CASE Service!Next
    BY ONLY <2>2, <2>3, <2>4, <2>5, <2>6, <2>7 DEF Service!Next
  <2>8. QED
    BY <2>1, <2>7 DEF Service!serviceVars
<1>3. Inv => VerdictGiven
  OBVIOUS
<1> HIDE DEF Inv
<1>4. Service!Spec => []VerdictGiven
  BY <1>1, <1>2, <1>3, PTL DEF Service!Spec
<1>5. QED
  BY <1>4, PipelineImplementsService DEF ImplementsService

(***************************************************************************)
(* A submission at rest.                                                   *)
(***************************************************************************)

Answered == {"accepted", "rejected", "aborted"}

(* Its request has ended and nothing of it is queued or in anybody's hands. *)
AtRest(s) ==
    /\ request[s] \in Answered
    /\ ~JobHeld(s)
    /\ \A m \in Result : InFlight(m) => m.id # s

(* An answer is final, and after it only a result in flight moves the row. *)
LEMMA AnsweredStep ==
    ASSUME TypeOK, [Next]_vars, NEW s \in Submissions, request[s] \in Answered
    PROVE  /\ request'[s] = request[s]
           /\ s \in artifacts' <=> s \in artifacts
           /\ \/ rows'[s] = rows[s]
              \/ \E m \in Result : InFlight(m) /\ m.id = s
<1> USE DEF TypeOK, Answered
<1>1. ASSUME NEW t \in Submissions,
             \/ CreateRow(t) \/ CreateRowFails(t)
             \/ UploadSource(t) \/ UploadSourceFails(t)
             \/ PublishJob(t) \/ PublishJobFails(t)
             \/ DeleteArtifact(t) \/ DeleteRow(t)
      PROVE  /\ request'[s] = request[s] /\ rows'[s] = rows[s]
             /\ s \in artifacts' <=> s \in artifacts
  <2>1. t # s
    BY <1>1 DEF CreateRow, CreateRowFails, UploadSource, UploadSourceFails,
       PublishJob, PublishJobFails, DeleteArtifact, DeleteRow
  <2>2. QED
    BY <1>1, <2>1 DEF CreateRow, CreateRowFails, UploadSource, UploadSourceFails,
       PublishJob, PublishJobFails, DeleteArtifact, DeleteRow, requestVars
<1>2. ASSUME NEW w \in Workers, NEW v \in Terminal,
             \/ DeliverJob(w) \/ StartJob(w)
             \/ FinishJob(w, v) \/ FinishJobFails(w, v)
             \/ AckJob(w) \/ NackJob(w) \/ WorkerDies(w)
      PROVE  UNCHANGED <<rows, request, artifacts>>
  BY <1>2 DEF DeliverJob, StartJob, FinishJob, FinishJobFails, AckJob,
              NackJob, WorkerDies, requestVars
<1>3. ASSUME NEW r \in Replicas,
             DeliverResult(r) \/ AckResult(r) \/ ConnectionDrops(r)
      PROVE  UNCHANGED <<rows, request, artifacts>>
  BY <1>3 DEF DeliverResult, AckResult, ConnectionDrops, requestVars
<1>4. ASSUME NEW r \in Replicas, ApplyResult(r) \/ ApplyResultFails(r)
      PROVE  /\ UNCHANGED <<request, artifacts>>
             /\ \/ rows'[s] = rows[s]
                \/ \E m \in Result : InFlight(m) /\ m.id = s
  <2>1. inbox[r] \in Seq(Result) /\ inbox[r] # <<>>
    BY <1>4 DEF ApplyResult, ApplyResultFails
  <2>2. Head(inbox[r]) \in Result /\ Head(inbox[r]) \in Range(inbox[r])
    BY <2>1, RangeTail
  <2>3. rows' \in {rows, Updated(rows, Head(inbox[r]))} /\ UNCHANGED <<request, artifacts>>
    BY <1>4 DEF ApplyResult, ApplyResultFails, requestVars
  <2>4. rows'[s] # rows[s] => Head(inbox[r]).id = s
    BY <2>3 DEF Updated
  <2>5. QED
    BY <2>2, <2>3, <2>4 DEF InFlight
<1>5. ASSUME NEW r \in Replicas, ApiserverRestarts(r)
      PROVE  UNCHANGED <<rows, artifacts>> /\ request'[s] = request[s]
  BY <1>5 DEF ApiserverRestarts, InHandler
<1>6. CASE UNCHANGED vars
  BY <1>6 DEF vars, requestVars
<1>7. \E v : v \in Terminal
  BY PipelineAssumption
<1>8. CASE Next
  <2>1. CASE \E t \in Submissions :
                \/ CreateRow(t) \/ CreateRowFails(t)
                \/ UploadSource(t) \/ UploadSourceFails(t)
                \/ PublishJob(t) \/ PublishJobFails(t)
                \/ DeleteArtifact(t) \/ DeleteRow(t)
    BY ONLY <1>1, <2>1
  <2>2. CASE \E w \in Workers, v \in Terminal :
                \/ DeliverJob(w) \/ StartJob(w)
                \/ FinishJob(w, v) \/ FinishJobFails(w, v)
                \/ AckJob(w) \/ NackJob(w) \/ WorkerDies(w)
    BY ONLY <1>2, <2>2
  <2>3. CASE \E r \in Replicas :
                \/ DeliverResult(r) \/ ApplyResult(r) \/ AckResult(r)
                \/ ApplyResultFails(r) \/ ConnectionDrops(r)
                \/ ApiserverRestarts(r)
    <3>1. PICK r \in Replicas :
                \/ DeliverResult(r) \/ ApplyResult(r) \/ AckResult(r)
                \/ ApplyResultFails(r) \/ ConnectionDrops(r)
                \/ ApiserverRestarts(r)
      BY <2>3
    <3>2. CASE DeliverResult(r) \/ AckResult(r) \/ ConnectionDrops(r)
      BY ONLY <1>3, <3>2, r \in Replicas
    <3>3. CASE ApplyResult(r) \/ ApplyResultFails(r)
      BY ONLY <1>4, <3>3, r \in Replicas
    <3>4. CASE ApiserverRestarts(r)
      BY ONLY <1>5, <3>4, r \in Replicas
    <3>5. QED
      BY ONLY <3>1, <3>2, <3>3, <3>4
  <2>4. QED
    BY ONLY <1>7, <1>8, <2>1, <2>2, <2>3 DEF Next
<1>9. QED
  BY <1>6, <1>8

(* An answer is given once: whatever fails afterwards, a request that was  *)
(* accepted, rejected or lost with its replica stays so.                   *)
THEOREM AnswersAreFinal ==
    Spec => [][\A s \in Submissions :
                 request[s] \in Answered => request'[s] = request[s]]_vars
<1>1. TypeOK /\ [Next]_vars =>
        [\A s \in Submissions : request[s] \in Answered => request'[s] = request[s]]_vars
  BY AnsweredStep
<1>2. QED
  BY <1>1, TypeCorrect, PTL DEF Spec

(* A submission at rest stays at rest: no redelivery, lost connection or   *)
(* restart revives it, so that its row and its source file are final.      *)
THEOREM RestIsFinal ==
    Spec => [][\A s \in Submissions :
                 AtRest(s) => /\ AtRest(s)'
                              /\ rows'[s] = rows[s]
                              /\ s \in artifacts' <=> s \in artifacts]_vars
<1> DEFINE Rests == \A s \in Submissions :
                 AtRest(s) => /\ AtRest(s)'
                              /\ rows'[s] = rows[s]
                              /\ s \in artifacts' <=> s \in artifacts
<1>1. IInv /\ [Next]_vars => Rests
  <2> SUFFICES ASSUME IInv, [Next]_vars, NEW s \in Submissions, AtRest(s)
               PROVE  /\ AtRest(s)'
                      /\ rows'[s] = rows[s]
                      /\ s \in artifacts' <=> s \in artifacts
    OBVIOUS
  <2>1. TypeOK /\ Handling
    BY DEF IInv
  <2>2. /\ request[s] \in Answered /\ ~JobHeld(s)
        /\ \A m \in Result : InFlight(m) => m.id # s
    BY DEF AtRest
  <2>3. /\ request'[s] = request[s] /\ rows'[s] = rows[s]
        /\ s \in artifacts' <=> s \in artifacts
    BY <2>1, <2>2, AnsweredStep
  <2>4. ~JobHeld(s)'
    BY <2>1, <2>2, JobStep DEF Answered
  <2>5. \A m \in Result : InFlight(m)' => m.id # s
    BY <2>1, <2>2, ResultStep
  <2>6. QED
    BY <2>2, <2>3, <2>4, <2>5 DEF AtRest
<1> HIDE DEF Rests
<1>2. QED
  BY <1>1, Invariance, PTL DEF Spec, Rests

(* What was accepted and is at rest has been judged: its row shows a       *)
(* verdict and its source file is there.  With one replica that applies    *)
(* one result at a time, and rows that can be inserted and deleted; only a *)
(* dropped CE is excepted.                                                 *)
THEOREM RestIsJudged ==
    ASSUME NEW r, Replicas = {r}, ResultPrefetch = 1, "store" \notin FaultKinds
    PROVE  Spec => [](\A s \in Submissions :
                        AtRest(s) /\ request[s] = "accepted" /\ s \notin swallowed
                            => rows[s] \in Terminal /\ s \in artifacts)
<1> DEFINE Judged == \A s \in Submissions :
                        AtRest(s) /\ request[s] = "accepted" /\ s \notin swallowed
                            => rows[s] \in Terminal /\ s \in artifacts
<1>1. TypeOK /\ NoStrandedPending /\ JudgingExplained /\ AnswerMatchesStore => Judged
  <2> SUFFICES ASSUME TypeOK, NoStrandedPending, JudgingExplained, AnswerMatchesStore,
                      NEW s \in Submissions,
                      AtRest(s), request[s] = "accepted", s \notin swallowed
               PROVE  rows[s] \in Terminal /\ s \in artifacts
    OBVIOUS
  <2>1. ~JobHeld(s) /\ ~TerminalInFlight(s)
    <3>1. ~JobHeld(s) /\ \A m \in Result : InFlight(m) => m.id # s
      BY DEF AtRest
    <3>2. \A v \in Terminal : LET m == [id |-> s, verdict |-> v] IN m \in Result /\ m.id = s
      BY DEF Result
    <3>3. QED
      BY ONLY <3>1, <3>2 DEF TerminalInFlight
  <2>2. rows[s] \notin {"ABSENT", "PENDING", "JUDGING"}
    BY <2>1 DEF NoStrandedPending, JudgingExplained, AnswerMatchesStore
  <2>3. QED
    BY <2>2 DEF TypeOK, RowVerdict, AnswerMatchesStore
<1> HIDE DEF Judged
<1>2. Spec => []TypeOK /\ []NoStrandedPending
  BY TypeCorrect, PendingNotStranded
<1>3. Spec => []JudgingExplained
  BY JudgingIsExplained
<1>4. Spec => []AnswerMatchesStore
  BY AnswersMatchStores
<1>5. QED
  BY <1>1, <1>2, <1>3, <1>4, PTL DEF Judged
=============================================================================
