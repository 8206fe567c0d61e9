---------------------------- MODULE ApprovalDesk ----------------------------
(***************************************************************************)
(* The page on which an admin approves and rejects what managers have      *)
(* submitted (admin/approvals/page.tsx) beside the pages on which the      *)
(* manager edits them meanwhile: the contest (manager/contests/[id]/       *)
(* page.tsx) and the problem (manager/problems/page.tsx), of which only    *)
(* the update is here.  The two sides meet in the row: an edit reads the   *)
(* row and writes all of it back, the approval status included.            *)
(***************************************************************************)
EXTENDS ApiClient

CONSTANT MaxDecisions    \* bound on the clicks on the two pages

ASSUME ApprovalDeskAssumption == MaxDecisions \in Nat

Kinds    == {"problem", "contest"}   \* what is submitted: one of each
Decision == {"approved", "rejected"}

VARIABLES approval,    \* the server: approval_status
          pending,     \* what the page lists as pending
          refreshing,  \* `loading`: the lists are not shown
          report,      \* the decision the page reports, "none" if there is none
          desk,        \* the manager's page: its loading, error, editing and badge
          decisions,   \* clicks so far (bound)
          doubled,     \* history: kinds of which two decisions were on their way at once
          overtaken    \* history: kinds of which an edit has put back an earlier status

approvalPage == <<approval, pending, refreshing, report, desk, decisions, doubled, overtaken>>
approvalVars == <<approvalPage, net>>

none == [kind |-> "none", decision |-> "none"]

ApprovalInit == /\ approval = [k \in Kinds |-> "pending"]
                /\ pending = {} /\ refreshing = TRUE /\ report = none
                /\ desk = [loading |-> TRUE, error |-> FALSE, editing |-> FALSE, badge |-> "none"]
                /\ decisions = 0 /\ doubled = {} /\ overtaken = {}

\* The effects that run when the two pages are mounted.
ApprovalMounted == <<Request("pending", "both"), Request("contest", "contest")>>

Decide(r) == decisions < MaxDecisions /\ decisions' = decisions + 1 /\ Send(r)

-----------------------------------------------------------------------------
(* admin/approvals/page.tsx *)

\* Both lists, or none if one of the two requests fails.
PendingLoaded(i) == /\ net[i].op = "pending" /\ (Handled(i) \/ Failed(i))
                    /\ pending' = IF Handled(i) THEN Data(i).pending ELSE pending
                    /\ refreshing' = FALSE
                    /\ ReturnLoad(i, <<>>)
                    /\ UNCHANGED <<approval, report, desk, decisions, doubled, overtaken>>

DecisionsOn(k) == {i \in InFlight({"decide"}) : net[i].arg.kind = k}

\* approveProblem, rejectProblem, approveContest and rejectContest: the buttons
\* stay enabled while a decision is on its way.
DecideOn(k, d) == /\ k \in pending /\ ~refreshing
                  /\ Decide(Request("decide", [kind |-> k, decision |-> d]))
                  /\ report' = none
                  /\ doubled' = IF DecisionsOn(k) = {} THEN doubled \ {k} ELSE doubled \cup {k}
                  /\ UNCHANGED <<approval, pending, refreshing, desk, overtaken>>

\* Mutant: the report does not look at the answer.
DecisionReported(i) == /\ net[i].op = "decide" /\ ~Waiting(i)
                       /\ report' = net[i].arg /\ refreshing' = TRUE
                       /\ Return(i, <<Request("pending", "both")>>)
                       /\ UNCHANGED <<approval, pending, desk, decisions, doubled, overtaken>>

DecisionAnswered(i) == /\ net[i].op = "decide" /\ ~Waiting(i)
                       /\ IF Handled(i)
                          THEN /\ report' = net[i].arg /\ refreshing' = TRUE
                               /\ Return(i, <<Request("pending", "both")>>)
                          ELSE Return(i, <<>>) /\ UNCHANGED <<report, refreshing>>
                       /\ UNCHANGED <<approval, pending, desk, decisions, doubled, overtaken>>

-----------------------------------------------------------------------------
(* manager/contests/[id]/page.tsx *)

\* Any error replaces the page, the form with what was typed into it included.
Visible == ~desk.loading /\ ~desk.error /\ desk.badge # "none"

ContestLoaded(i) == /\ net[i].op = "contest" /\ ~Waiting(i)
                    /\ desk' = [desk EXCEPT !.loading = FALSE, !.error = @ \/ Failed(i),
                                            !.badge = IF Handled(i) THEN Data(i) ELSE @]
                    /\ ReturnLoad(i, <<>>)
                    /\ UNCHANGED <<approval, pending, refreshing, report, decisions,
                                   doubled, overtaken>>

ToggleEditing == /\ Visible
                 /\ desk' = [desk EXCEPT !.editing = ~@]
                 /\ UNCHANGED <<approval, pending, refreshing, report, decisions, doubled,
                                overtaken, net>>

\* The button stays enabled, so edits may overlap.
UpdateContest == /\ Visible /\ desk.editing
                 /\ Decide(Request("update", "contest"))
                 /\ UNCHANGED <<approval, pending, refreshing, report, desk, doubled, overtaken>>

ContestUpdated(i) == /\ net[i].op = "update" /\ net[i].arg = "contest"
                     /\ (Handled(i) \/ Failed(i))
                     /\ IF Handled(i)
                        THEN /\ desk' = [desk EXCEPT !.editing = FALSE, !.loading = TRUE,
                                                     !.error = FALSE]
                             /\ Return(i, <<Request("contest", "contest")>>)
                        ELSE desk' = [desk EXCEPT !.error = TRUE] /\ Return(i, <<>>)
                     /\ UNCHANGED <<approval, pending, refreshing, report, decisions,
                                    doubled, overtaken>>

\* manager/problems/page.tsx: the form's save of a problem, shown whatever the
\* status is; what follows the answer has no part in this.
UpdateProblem == /\ Decide(Request("update", "problem"))
                 /\ UNCHANGED <<approval, pending, refreshing, report, desk, doubled, overtaken>>

ProblemUpdated(i) == /\ net[i].op = "update" /\ net[i].arg = "problem"
                     /\ (Handled(i) \/ Failed(i))
                     /\ Return(i, <<>>)
                     /\ UNCHANGED approvalPage

-----------------------------------------------------------------------------
(* The API server *)

\* The two lists are read by two requests.
ReadPending(i, k) ==
    LET found == IF approval[k] = "pending" THEN {k} ELSE {} IN
    /\ net[i].op = "pending"
    /\ \/ Waiting(i) /\ Read(i, [kind |-> k, pending |-> found])
       \/ /\ Midway(i) /\ Data(i).kind # k
          /\ Answer(i, [kind |-> k, pending |-> Data(i).pending \cup found])
    /\ UNCHANGED approvalPage

ReadContest(i) == /\ net[i].op = "contest" /\ Waiting(i)
                  /\ Answer(i, approval["contest"])
                  /\ UNCHANGED approvalPage

StoreDecision(i) == /\ net[i].op = "decide" /\ Waiting(i)
                    /\ approval' = [approval EXCEPT ![net[i].arg.kind] = net[i].arg.decision]
                    /\ overtaken' = overtaken \ {net[i].arg.kind}
                    /\ Answer(i, 0) \/ Fail(i)
                    /\ UNCHANGED <<pending, refreshing, report, desk, decisions, doubled>>

\* PUT of either kind: the row is read, and its approval_status written back.
ReadExisting(i) == /\ net[i].op = "update" /\ Waiting(i)
                   /\ Read(i, approval[net[i].arg])
                   /\ UNCHANGED approvalPage

WriteExisting(i) ==
    LET k == net[i].arg IN
    /\ net[i].op = "update" /\ Midway(i)
    /\ approval' = [approval EXCEPT ![k] = Data(i)]
    /\ overtaken' = IF Data(i) # approval[k] THEN overtaken \cup {k} ELSE overtaken
    /\ Answer(i, 0) \/ Fail(i)
    /\ UNCHANGED <<pending, refreshing, report, desk, decisions, doubled>>

ApprovalFails(i) == (Waiting(i) \/ Midway(i)) /\ Fail(i) /\ UNCHANGED approvalPage

-----------------------------------------------------------------------------
ApprovalNext == \/ ToggleEditing \/ UpdateContest \/ UpdateProblem
                \/ \E k \in Kinds, d \in Decision : DecideOn(k, d)
                \/ \E i \in DOMAIN net :
                      \/ PendingLoaded(i) \/ DecisionAnswered(i) \/ ContestLoaded(i)
                      \/ ContestUpdated(i) \/ ProblemUpdated(i)
                      \/ \E k \in Kinds : ReadPending(i, k)
                      \/ ReadContest(i) \/ StoreDecision(i) \/ ReadExisting(i)
                      \/ WriteExisting(i) \/ ApprovalFails(i)

-----------------------------------------------------------------------------
Statuses == {"pending"} \cup Decision

ApprovalTypeOK == /\ approval \in [Kinds -> Statuses]
                  /\ pending \subseteq Kinds /\ refreshing \in BOOLEAN
                  /\ report \in {none} \cup [kind : Kinds, decision : Decision]
                  /\ desk \in [loading : BOOLEAN, error : BOOLEAN, editing : BOOLEAN,
                               badge : Statuses \cup {"none"}]
                  /\ decisions \in 0..MaxDecisions
                  /\ doubled \subseteq Kinds /\ overtaken \subseteq Kinds

\* The decision the page reports is in force, though the lists it was taken from
\* may be stale, answers are lost, and the manager edits what is decided on at the
\* same time.  Two things can undo it: a second decision on its way at once (the
\* buttons are not disabled), and an edit that had read the row before.
ReportedDecisionStands ==
    (report # none /\ DecisionsOn(report.kind) = {} /\ report.kind \notin doubled \cup overtaken)
    => approval[report.kind] = report.decision
=============================================================================
