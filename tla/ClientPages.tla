----------------------------- MODULE ClientPages -----------------------------
(***************************************************************************)
(* The pages of the web client together.  A tab shows one page (or two     *)
(* browsers show the two pages of a desk module); what the pages share is  *)
(* the way they talk to the API server, module ApiClient.  Pages do not    *)
(* share state: each loads what it shows, and the session that all of them *)
(* read is module Session.                                                 *)
(***************************************************************************)
EXTENDS SubmissionPages, ContestPage, ProblemConsole, ContestConsole, UserDesk, ApprovalDesk

VARIABLE open   \* the page the tab shows

Init == /\ SubInit /\ ContestInit /\ ProblemsInit /\ ConsoleInit /\ DeskInit /\ ApprovalInit
        /\ \/ open = "submissions"     /\ net = <<>>
           \/ open = "contest"         /\ net = <<>>
           \/ open = "problem console" /\ net = ProblemsMounted
           \/ open = "contest console" /\ net = ConsoleMounted
           \/ open = "users"           /\ net = DeskMounted
           \/ open = "approvals"       /\ net = ApprovalMounted
        /\ open # "contest" => skew = 0   \* only the contest page reads the clock

\* The other pages are closed.
SubmissionsStep ==
    /\ open = "submissions" /\ SubNext
    /\ UNCHANGED <<open, contestPage, problemPage, consolePage, deskPage, approvalPage>>

ContestStep ==
    /\ open = "contest" /\ ContestNext
    /\ UNCHANGED <<open, subPage, problemPage, consolePage, deskPage, approvalPage>>

ProblemsStep ==
    /\ open = "problem console" /\ ProblemsNext
    /\ UNCHANGED <<open, subPage, contestPage, consolePage, deskPage, approvalPage>>

ConsoleStep ==
    /\ open = "contest console" /\ ConsoleNext
    /\ UNCHANGED <<open, subPage, contestPage, problemPage, deskPage, approvalPage>>

DeskStep ==
    /\ open = "users" /\ DeskNext
    /\ UNCHANGED <<open, subPage, contestPage, problemPage, consolePage, approvalPage>>

ApprovalStep ==
    /\ open = "approvals" /\ ApprovalNext
    /\ UNCHANGED <<open, subPage, contestPage, problemPage, consolePage, deskPage>>

Next == SubmissionsStep \/ ContestStep \/ ProblemsStep \/ ConsoleStep \/ DeskStep \/ ApprovalStep

vars == <<open, net, subPage, contestPage, problemPage, consolePage, deskPage, approvalPage>>

\* The kinds of requests of a page are its own, so the fairness of the pages
\* that are closed asks for nothing.
Spec == Init /\ [][Next]_vars /\ SubFairness

-----------------------------------------------------------------------------
Pages == {"submissions", "contest", "problem console", "contest console", "users", "approvals"}

TypeOK == /\ open \in Pages
          /\ Len(net) <= MaxInFlight + 1   \* a page that is mounted sends its load
          /\ SubTypeOK /\ ContestTypeOK /\ ProblemsTypeOK /\ ConsoleTypeOK
          /\ DeskTypeOK /\ ApprovalTypeOK
=============================================================================
