--------------------------- MODULE ContestConsole ---------------------------
(***************************************************************************)
(* The page on which an admin manages contests and the problems of a       *)
(* contest (admin/contests/page.tsx).                                      *)
(*                                                                         *)
(* One panel serves every contest: opening it says at once whose problems  *)
(* it shows and loads them, and each change made in it loads the problems  *)
(* of the contest it was made for, whichever the panel is open for by then.*)
(***************************************************************************)
EXTENDS ApiClient

CONSTANTS MaxContests,   \* bound on the ids the server gives
          Problems,      \* the problems there are
          MaxActs        \* bound on the clicks that send a request

ASSUME ContestConsoleAssumption == /\ MaxContests \in Nat /\ MaxContests >= 2   \* see ConsoleInit
                                   /\ MaxActs \in Nat

ContestIds == 1..MaxContests

VARIABLES attached,  \* the server: the problems of the contests, in the order of their ids
          gone,      \* the server: the contests that were deleted
          contests,  \* the list of the page
          fetching,  \* `loading`: the list is not shown
          choices,   \* allProblems, what the form of the panel offers
          form,      \* editingId of the form, 0 for a new contest
          managing,  \* managingContestId, 0 if the panel is closed
          panel,     \* contestProblems
          acts,      \* clicks so far (bound)
          untold     \* history: what the panel shows is not the last it should have been told

rowsOfServer == <<attached, gone>>
offers == <<contests, fetching, choices>>
panelState == <<managing, panel, untold>>
consolePage == <<rowsOfServer, offers, form, panelState, acts>>
consoleVars == <<consolePage, net>>

ConsoleInit == /\ attached = <<{}, {}>> /\ gone = {}
               /\ contests = {} /\ fetching = TRUE /\ choices = {} /\ form = 0
               /\ managing = 0 /\ panel = {} /\ acts = 0 /\ untold = FALSE

\* The effect that runs when the page is mounted.
ConsoleMounted == <<Request("contests", 0), Request("choices", 0)>>

There == DOMAIN attached \ gone

Act(r) == acts < MaxActs /\ acts' = acts + 1 /\ Send(r)

-----------------------------------------------------------------------------
(* The list and the form *)

ContestsLoaded(i) == /\ net[i].op = "contests" /\ ~Waiting(i)
                     /\ contests' = IF Handled(i) THEN Data(i) ELSE contests
                     /\ fetching' = FALSE
                     /\ ReturnLoad(i, <<>>)
                     /\ UNCHANGED <<rowsOfServer, choices, form, panelState, acts>>

\* A load that fails leaves nothing to choose from, without a word.
ChoicesLoaded(i) == /\ net[i].op = "choices" /\ ~Waiting(i)
                    /\ choices' = IF Handled(i) THEN Data(i) ELSE choices
                    /\ ReturnLoad(i, <<>>)
                    /\ UNCHANGED <<rowsOfServer, contests, fetching, form, panelState, acts>>

\* The contests with buttons.
Offered == IF fetching THEN {} ELSE contests

EditContest(c) == /\ c \in Offered /\ form # c
                  /\ form' = c
                  /\ UNCHANGED <<rowsOfServer, offers, panelState, acts, net>>

CancelContest == /\ form # 0
                 /\ form' = 0
                 /\ UNCHANGED <<rowsOfServer, offers, panelState, acts, net>>

SaveContest == /\ Act(Request("saveContest", form))
               /\ UNCHANGED <<rowsOfServer, offers, form, panelState>>

\* resetForm, whatever the form holds by now, and the list again.
ContestSaved(i) == /\ net[i].op = "saveContest" /\ ~Waiting(i)
                   /\ IF Handled(i)
                      THEN form' = 0 /\ fetching' = TRUE /\ Return(i, <<Request("contests", 0)>>)
                      ELSE Return(i, <<>>) /\ UNCHANGED <<form, fetching>>
                   /\ UNCHANGED <<rowsOfServer, contests, choices, panelState, acts>>

DeleteContest(c) == /\ c \in Offered
                    /\ Act(Request("deleteContest", c))
                    /\ UNCHANGED <<rowsOfServer, offers, form, panelState>>

\* The row goes; the form and the panel stay as they are.
ContestDeleted(i) == /\ net[i].op = "deleteContest" /\ ~Waiting(i)
                     /\ contests' = IF Handled(i) THEN contests \ {net[i].arg} ELSE contests
                     /\ Return(i, <<>>)
                     /\ UNCHANGED <<rowsOfServer, fetching, choices, form, panelState, acts>>

-----------------------------------------------------------------------------
(* The panel *)

OpenPanel(c) == /\ c \in Offered
                /\ Act(Request("problems", c))
                /\ managing' = c
                /\ UNCHANGED <<rowsOfServer, offers, form, panel, untold>>

ClosePanel == /\ managing # 0
              /\ managing' = 0
              /\ UNCHANGED <<rowsOfServer, offers, form, panel, acts, untold, net>>

\* A failed load empties the panel.
PanelLoaded(i) == /\ net[i].op = "problems" /\ ~Waiting(i)
                  /\ panel' = IF Handled(i) THEN Data(i) ELSE {}
                  /\ untold' = (Failed(i) \/ net[i].late \/ net[i].arg # managing)
                  /\ ReturnLoad(i, <<>>)
                  /\ UNCHANGED <<rowsOfServer, offers, form, managing, acts>>

AddProblem(p) == /\ managing # 0 /\ p \in choices
                 /\ Act(Request("add", <<managing, p>>))
                 /\ UNCHANGED <<rowsOfServer, offers, form, panelState>>

RemoveProblem(p) == /\ managing # 0 /\ p \in panel
                    /\ Act(Request("remove", <<managing, p>>))
                    /\ UNCHANGED <<rowsOfServer, offers, form, panelState>>

\* Mutant: a change does not load the panel again.
PanelKept(i) == /\ net[i].op \in {"add", "remove"} /\ ~Waiting(i)
                /\ Return(i, <<>>)
                /\ UNCHANGED <<rowsOfServer, offers, form, panelState, acts>>

\* Success loads the problems of the contest that was changed.
PanelChanged(i) == /\ net[i].op \in {"add", "remove"} /\ ~Waiting(i)
                   /\ Return(i, IF Handled(i) THEN <<Request("problems", net[i].arg[1])>> ELSE <<>>)
                   /\ UNCHANGED <<rowsOfServer, offers, form, panelState, acts>>

\* The server resets and queues the submissions: module ContestRejudge.
Rejudge(p) == /\ managing # 0 /\ p \in panel
              /\ Act(Request("rejudge", <<managing, p>>))
              /\ UNCHANGED <<rowsOfServer, offers, form, panelState>>

RejudgeAnswered(i) == /\ net[i].op = "rejudge" /\ ~Waiting(i)
                      /\ Return(i, <<>>)
                      /\ UNCHANGED consolePage

-----------------------------------------------------------------------------
(* The API server.  Every answer may be lost. *)

Content(i) == CASE net[i].op = "contests" -> There
             [] net[i].op = "choices"  -> Problems
             [] net[i].op = "problems" -> IF net[i].arg \in There
                                          THEN attached[net[i].arg] ELSE {}

ConsoleRead(i) == /\ net[i].op \in {"contests", "choices", "problems"} /\ Waiting(i)
                  /\ Answer(i, Content(i))
                  /\ UNCHANGED consolePage

StoreContest(i) ==
    /\ net[i].op = "saveContest" /\ Waiting(i)
    /\ IF net[i].arg = 0
       THEN Len(attached) < MaxContests /\ attached' = Append(attached, {})
       ELSE net[i].arg \in There /\ UNCHANGED attached
    /\ Answer(i, 0) \/ Fail(i)
    /\ UNCHANGED <<gone, offers, form, panelState, acts>>

DropContest(i) == /\ net[i].op = "deleteContest" /\ Waiting(i)
                  /\ net[i].arg \in There
                  /\ gone' = gone \cup {net[i].arg}
                  /\ Answer(i, 0) \/ Fail(i)
                  /\ UNCHANGED <<attached, offers, form, panelState, acts>>

\* Adding is an upsert, removing needs the row.  Of a change whose answer is lost
\* the page knows nothing, and loads that were answered before it are stale.
StoreChange(i) ==
    LET c == net[i].arg[1]  p == net[i].arg[2] IN
    /\ net[i].op \in {"add", "remove"} /\ Waiting(i)
    /\ c \in There
    /\ net[i].op = "remove" => p \in attached[c]
    /\ attached' = [attached EXCEPT ![c] = IF net[i].op = "add" THEN @ \cup {p} ELSE @ \ {p}]
    /\ \/ Answer(i, 0) /\ UNCHANGED untold
       \/ LoseAnswer(i, "problems") /\ untold' = (untold \/ c = managing)
    /\ UNCHANGED <<gone, offers, form, managing, panel, acts>>

StartRejudge(i) == /\ net[i].op = "rejudge" /\ Waiting(i)
                   /\ Answer(i, 0)
                   /\ UNCHANGED consolePage

ConsoleFails(i) == Waiting(i) /\ Fail(i) /\ UNCHANGED consolePage

-----------------------------------------------------------------------------
ConsoleNext == \/ CancelContest \/ SaveContest \/ ClosePanel
               \/ \E c \in ContestIds : EditContest(c) \/ DeleteContest(c) \/ OpenPanel(c)
               \/ \E p \in Problems : AddProblem(p) \/ RemoveProblem(p) \/ Rejudge(p)
               \/ \E i \in DOMAIN net :
                     \/ ContestsLoaded(i) \/ ChoicesLoaded(i) \/ ContestSaved(i)
                     \/ ContestDeleted(i) \/ PanelLoaded(i) \/ PanelChanged(i)
                     \/ RejudgeAnswered(i) \/ ConsoleRead(i) \/ StoreContest(i)
                     \/ DropContest(i) \/ StoreChange(i) \/ StartRejudge(i) \/ ConsoleFails(i)

-----------------------------------------------------------------------------
ConsoleTypeOK == /\ attached \in Seq(SUBSET Problems) /\ Len(attached) <= MaxContests
                 /\ gone \subseteq ContestIds
                 /\ contests \subseteq ContestIds /\ fetching \in BOOLEAN /\ choices \subseteq Problems
                 /\ form \in {0} \cup ContestIds /\ managing \in {0} \cup ContestIds
                 /\ panel \subseteq Problems /\ acts \in 0..MaxActs /\ untold \in BOOLEAN

\* When nothing is on its way, the open panel lists the problems of the contest
\* its heading names.  What makes it lie (untold): a load that failed, or was
\* for another contest, or came in after a later one; an answer to a change that
\* was lost.
PanelIsTrue == (managing \in There /\ ~untold /\ InFlight({"problems", "add", "remove"}) = {})
               => panel = attached[managing]
=============================================================================
