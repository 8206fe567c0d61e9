-------------------------------- MODULE Judging --------------------------------
(***************************************************************************)
(* What the worker does with one delivery after another: compile, run the  *)
(* testcases group by group, map each sandbox report to a verdict and sum  *)
(* up.  A signal cancels the context that every one of these calls gets;   *)
(* publishing a result does not honour it.                                 *)
(*                                                                         *)
(* The sandbox and the grader are seen through what they report.           *)
(***************************************************************************)
EXTENDS Integers, Sequences, SequencesExt, FiniteSetsExt, Functions

CONSTANTS
    Problems,     \* problems: sequences of testcase groups, in any order
    Limit,        \* a time and a memory limit, in the units of a report
    Amounts,      \* what a report can say of CPU time, wall time and memory
    Deliveries,   \* bound on the deliveries of an instance
    MaxFaults     \* bound on the number of faults

Testcase == [ord : Int, id : Nat]
Group    == [ord : Int, points : Int, tests : Seq(Testcase)]

ASSUME JudgingAssumption ==
    /\ Limit \in Nat \ {0}
    /\ Amounts \subseteq Nat
    /\ Problems \subseteq Seq(Group)
    /\ Deliveries \in Nat /\ MaxFaults \in Nat

\* An id is that of one testcase: it is the key of the table.  Ordinals may be
\* equal: nothing in the schema or the handlers keeps those of groups apart.
ASSUME KeysAssumption ==
    \A p \in Problems : \A i, j \in DOMAIN p :
        \A a \in DOMAIN p[i].tests, b \in DOMAIN p[j].tests :
            p[i].tests[a].id = p[j].tests[b].id => i = j /\ a = b

VARIABLES
    backlog,     \* deliveries not handled yet
    cancelled,   \* the context is done
    pc,          \* where the loop is
    job,         \* the problem and the language of the delivery
    at,          \* the next testcase: indices of group and testcase
    tally,       \* the running totals of the loop
    result,      \* the terminal result, and (history) whether it sums up
    faults,      \* faults so far
    failed       \* history: something failed in this job

vars == <<backlog, cancelled, pc, job, at, tally, result, faults, failed>>

Verdict   == {"AC", "WA", "TLE", "MLE", "RE", "CE", "SE"}
Languages == {"cpp", "python", "other"}   \* "other" is not in the table
Tally     == [passed : Nat, total : Nat, score : Int, worst : Verdict,
              groupPassed : BOOLEAN, cpu : Nat, memory : Nat,
              results : Seq([id : Nat, verdict : Verdict, cpu : Nat])]
Report    == [cpu : Amounts, wall : Amounts, memory : Amounts, crashed : BOOLEAN]
NoTally   == [passed |-> 0, total |-> 0, score |-> 0, worst |-> "AC",
              groupPassed |-> TRUE, cpu |-> 0, memory |-> 0, results |-> <<>>]
NoResult  == [verdict |-> "JUDGING", tally |-> NoTally, full |-> FALSE]

Init ==
    /\ backlog = Deliveries
    /\ cancelled = FALSE
    /\ pc = "receiving"
    /\ job = [problem |-> <<>>, language |-> "other"]
    /\ at = <<1, 1>>
    /\ tally = NoTally
    /\ result = NoResult
    /\ faults = 0
    /\ failed = FALSE

Larger(a, b) == IF a > b THEN a ELSE b

-----------------------------------------------------------------------------
(* The pure parts: order, status and verdict.                              *)

\* Where sort.Slice takes each element from: it leaves elements with equal
\* ordinals in some order.
Order(s) ==
    CHOOSE h \in Bijection(DOMAIN s, DOMAIN s) :
        \A k, l \in DOMAIN s : k < l => s[h[k]].ord <= s[h[l]].ord

ByOrdinal(s) == [k \in DOMAIN s |-> s[Order(s)[k]]]

Groups == ByOrdinal(job.problem)
Tests  == ByOrdinal(Groups[at[1]].tests)

\* Mutant: the status of the report is the verdict.
UnmappedStatus(report, graded) ==
    IF report.cpu > Limit THEN "TIME_LIMIT_EXCEEDED" ELSE "AC"

\* reportFromResponse and mapStatusToVerdict; graded is what the grader says
\* of the output when it is asked.
VerdictOf(report, graded) ==
    IF report.cpu > Limit \/ report.wall > Limit THEN "TLE"
    ELSE IF report.memory > Limit THEN "MLE"
    ELSE IF report.crashed THEN "RE"
    ELSE CASE graded = "error" -> "SE"
           [] graded = "ok"    -> "AC"
           [] graded = "wrong" -> "WA"

\* Mutant: the last failing verdict instead of the first.
LatestVerdict(worst, verdict) == IF verdict = "AC" THEN worst ELSE verdict

Worst(worst, verdict) == IF worst = "AC" THEN verdict ELSE worst

-----------------------------------------------------------------------------

\* A call that gets the context fails for a reason of its own, or because
\* the context is done.
CallFails ==
    \/ /\ faults < MaxFaults
       /\ faults' = faults + 1
       /\ failed' = TRUE
    \/ cancelled /\ UNCHANGED <<faults, failed>>

\* failWithSystemError and compile publish the submission as it came, with a
\* verdict and a message.
Fail(verdict) ==
    /\ result' = [verdict |-> verdict, tally |-> NoTally, full |-> FALSE]
    /\ pc' = "publishing"

\* The select takes a delivery when there is one, context done or not.
Receive ==
    /\ pc = "receiving"
    /\ backlog > 0
    /\ backlog' = backlog - 1
    /\ \E problem \in Problems, language \in Languages :
            job' = [problem |-> problem, language |-> language]
    /\ at' = <<1, 1>>
    /\ tally' = NoTally
    /\ failed' = FALSE
    /\ pc' = "setup"
    /\ UNCHANGED <<cancelled, result, faults>>

Stop ==
    /\ pc = "receiving"
    /\ cancelled
    /\ pc' = "stopped"
    /\ UNCHANGED <<backlog, cancelled, job, at, tally, result, faults, failed>>

\* The work directory, the language's table entry and the source file.
Setup ==
    /\ pc = "setup"
    /\ job.language # "other"
    /\ pc' = IF job.language = "cpp" THEN "compiling" ELSE "running"
    /\ UNCHANGED <<backlog, cancelled, job, at, tally, result, faults, failed>>

SetupFails ==
    /\ pc = "setup"
    /\ \/ job.language = "other" /\ failed' = TRUE /\ UNCHANGED faults
       \/ faults < MaxFaults /\ faults' = faults + 1 /\ failed' = TRUE
    /\ Fail("SE")
    /\ UNCHANGED <<backlog, cancelled, job, at, tally>>

Compiled ==
    /\ pc = "compiling"
    /\ pc' = "running"
    /\ UNCHANGED <<backlog, cancelled, job, at, tally, result, faults, failed>>

CompilationError ==
    /\ pc = "compiling"
    /\ Fail("CE")
    /\ UNCHANGED <<backlog, cancelled, job, at, tally, faults, failed>>

Running    == pc = "running" /\ at[1] <= Len(Groups)
AtTestcase == Running /\ at[2] <= Len(Tests)

RunTestcase ==
    /\ AtTestcase
    /\ \E report \in Report, graded \in {"ok", "wrong", "error"} :
        LET verdict == VerdictOf(report, graded)
            passed  == verdict = "AC"
        IN  /\ IF verdict = "SE" THEN CallFails ELSE UNCHANGED <<faults, failed>>
            /\ tally' = [tally EXCEPT
                    !.total = @ + 1,
                    !.passed = IF passed THEN @ + 1 ELSE @,
                    !.groupPassed = @ /\ passed,
                    !.worst = Worst(@, verdict),
                    !.cpu = Larger(@, report.cpu),
                    !.memory = Larger(@, report.memory),
                    !.results = Append(@,
                        [id |-> Tests[at[2]].id, verdict |-> verdict, cpu |-> report.cpu])]
    /\ at' = <<at[1], at[2] + 1>>
    /\ UNCHANGED <<backlog, cancelled, pc, job, result>>

\* The sandbox fails while compiling, or a file cannot be fetched or read or
\* the sandbox fails at a testcase.
JudgingFails ==
    /\ pc = "compiling" \/ AtTestcase
    /\ CallFails
    /\ Fail("SE")
    /\ UNCHANGED <<backlog, cancelled, job, at, tally>>

\* Mutant: one failed group spoils those after it.
EndGroupWithoutReset ==
    /\ Running
    /\ at[2] > Len(Tests)
    /\ tally' = [tally EXCEPT
            !.score = IF tally.groupPassed THEN @ + Groups[at[1]].points ELSE @]
    /\ at' = <<at[1] + 1, 1>>
    /\ UNCHANGED <<backlog, cancelled, pc, job, result, faults, failed>>

EndGroup ==
    /\ Running
    /\ at[2] > Len(Tests)
    /\ tally' = [tally EXCEPT
            !.score = IF tally.groupPassed THEN @ + Groups[at[1]].points ELSE @,
            !.groupPassed = TRUE]
    /\ at' = <<at[1] + 1, 1>>
    /\ UNCHANGED <<backlog, cancelled, pc, job, result, faults, failed>>

SumUp ==
    /\ pc = "running"
    /\ at[1] > Len(Groups)
    /\ result' = [verdict |-> IF tally.passed < tally.total THEN tally.worst ELSE "AC",
                  tally |-> tally, full |-> TRUE]
    /\ pc' = "publishing"
    /\ UNCHANGED <<backlog, cancelled, job, at, tally, faults, failed>>

\* The handler returns, and with it its locals are gone.
Publish ==
    /\ pc = "publishing"
    /\ pc' = "receiving"
    /\ tally' = NoTally
    /\ result' = NoResult
    /\ UNCHANGED <<backlog, cancelled, job, at, faults, failed>>

\* SIGINT or SIGTERM.
Cancel ==
    /\ ~cancelled
    /\ cancelled' = TRUE
    /\ UNCHANGED <<backlog, pc, job, at, tally, result, faults, failed>>

Next ==
    \/ Receive \/ Stop \/ Setup \/ SetupFails
    \/ Compiled \/ CompilationError \/ RunTestcase \/ JudgingFails
    \/ EndGroup \/ SumUp \/ Publish \/ Cancel

Spec == Init /\ [][Next]_vars

-----------------------------------------------------------------------------

TypeOK ==
    /\ backlog \in 0..Deliveries
    /\ cancelled \in BOOLEAN
    /\ pc \in {"receiving", "setup", "compiling", "running", "publishing", "stopped"}
    /\ job \in [problem : Problems \cup {<<>>}, language : Languages]
    /\ at \in (Nat \ {0}) \X (Nat \ {0})
    /\ tally \in Tally
    /\ result \in [verdict : Verdict \cup {"JUDGING"}, tally : Tally, full : BOOLEAN]
    /\ faults \in 0..MaxFaults
    /\ failed \in BOOLEAN

\* Where a problem lists its testcases: indices of group and testcase.
Places(p)      == UNION {{i} \X DOMAIN p[i].tests : i \in DOMAIN p}
TestAt(p, pl)  == p[pl[1]].tests[pl[2]]

\* What the ordinals say of the order of two testcases.
Before(p, x, y) ==
    \/ p[x[1]].ord < p[y[1]].ord
    \/ x[1] = y[1] /\ TestAt(p, x).ord < TestAt(p, y).ord

Outcome(pl) ==
    (CHOOSE r \in ToSet(result.tally.results) : r.id = TestAt(job.problem, pl).id).verdict

SummedUp == pc = "publishing" /\ result.full

\* The verdict is AC exactly when every testcase passed, and otherwise that
\* of a testcase that failed with no failed one before it, by the ordinals of
\* the groups and then of the testcases, in whatever order the job lists them.
VerdictIsFirstFailure ==
    SummedUp =>
        LET failures == {x \in Places(job.problem) : Outcome(x) # "AC"}
        IN  IF failures = {} THEN result.verdict = "AC"
            ELSE \E x \in failures :
                    /\ \A y \in failures : ~Before(job.problem, y, x)
                    /\ result.verdict = Outcome(x)

\* The groups of which every testcase passed.
Whole == {i \in DOMAIN job.problem :
             \A j \in DOMAIN job.problem[i].tests : Outcome(<<i, j>>) = "AC"}

Points(p, groups) == FoldSet(LAMBDA i, sum : p[i].points + sum, 0, groups)

\* The score is the points of the groups of which every testcase passed; the
\* counts and the list of results are of every testcase, once.  A job that did
\* not get to the end publishes none of it, however much it had passed.
ScoreAddsUp ==
    /\ SummedUp =>
         /\ result.tally.score = Points(job.problem, Whole)
         /\ result.tally.passed =
                Cardinality({x \in Places(job.problem) : Outcome(x) = "AC"})
         /\ Len(result.tally.results) = Cardinality(Places(job.problem))
    /\ (pc = "publishing" /\ ~result.full) => result.tally = NoTally

\* A system error means that something in the system failed.
SystemErrorExplained ==
    pc = "publishing" /\ result.verdict = "SE" => failed
=============================================================================
