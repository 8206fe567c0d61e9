-------------------------- MODULE SubmissionPages --------------------------
(***************************************************************************)
(* A user's way through a submission in one tab: the form of a problem,    *)
(* the page of one submission, and the list of the user's submissions to   *)
(* the problem.  The last two poll the API server while they show a        *)
(* verdict that is not final.                                              *)
(*                                                                         *)
(* A page that is left is unmounted: the answers to its GETs change        *)
(* nothing, and are dropped here.  The continuation of the form's POST     *)
(* runs wherever the user is.                                              *)
(***************************************************************************)
EXTENDS ApiClient

CONSTANT MaxRows   \* bound on the submissions the user makes

ASSUME SubmissionPagesAssumption == MaxRows \in Nat

Verdicts == {"PENDING", "JUDGING", "AC"}   \* AC stands for the final ones

VARIABLES rows,      \* the store: verdicts of the submissions, by id
          signedIn,  \* auth.token
          place,     \* "form", "detail" or "mine"
          shownId,   \* the submission of the detail page
          going,     \* the submission router.push is loading, 0 if none
          sending,   \* isSubmitting of the form
          list,      \* verdicts the page holds: one, or one per row
          loading,   \* the list page has not finished its first load
          notice,    \* its error: "none", "signin" or "failed"
          intervals, \* polling intervals that are running
          pollRef    \* pollRef.current holds one

nav    == <<place, shownId, going>>
screen == <<list, loading, notice>>
poll   == <<intervals, pollRef>>
subPage == <<rows, signedIn, nav, sending, screen, poll>>
subVars == <<subPage, net>>

IsPending(v)  == v \in {"PENDING", "JUDGING"}
HasPending(l) == \E i \in DOMAIN l : IsPending(l[i])

SubInit == /\ rows = <<>>  /\ signedIn = TRUE
           /\ place = "form" /\ shownId = 0 /\ going = 0 /\ sending = FALSE
           /\ list = <<>>  /\ loading = FALSE /\ notice = "none"
           /\ intervals = 0 /\ pollRef = FALSE

-----------------------------------------------------------------------------
(* The API server *)

\* The judge moves a verdict on.
Judge(n) == /\ IsPending(rows[n])
            /\ rows' = [rows EXCEPT ![n] = IF @ = "PENDING" THEN "JUDGING" ELSE "AC"]
            /\ UNCHANGED <<signedIn, nav, sending, screen, poll, net>>

\* A POST creates a row and answers its id, unless the answer is lost.
StoreSubmission(i) == /\ net[i].op = "submit" /\ Waiting(i)
                      /\ rows' = Append(rows, "PENDING")
                      /\ Answer(i, Len(rows) + 1) \/ Fail(i)
                      /\ UNCHANGED <<signedIn, nav, sending, screen, poll>>

\* A GET reads the row of the detail page, or the rows of the user.
ReadSubmissions(i) == /\ net[i].op \in {"load", "poll"} /\ Waiting(i)
                      /\ Answer(i, IF place = "detail" THEN <<rows[shownId]>> ELSE rows)
                      /\ UNCHANGED <<rows, signedIn, nav, sending, screen, poll>>

\* A request is refused or never arrives, or the answer to a GET is lost.
SubFails(i) == /\ Waiting(i) \/ (Handled(i) /\ net[i].op # "submit")
               /\ Fail(i)
               /\ UNCHANGED <<rows, signedIn, nav, sending, screen, poll>>

-----------------------------------------------------------------------------
(* Mounting and leaving a page *)

\* Mutant: the clean-up is lost when the effect runs again.
NoneCleared == intervals

\* Mutant: the clean-up does not look whether there is an interval.
ClearedAnyway == intervals - 1

\* The clean-up of the polling effect's last run: the intervals it leaves.
Remaining == IF pollRef THEN intervals - 1 ELSE intervals

\* Clean-up, and the polling effect of list l.
PollEffect(l) == /\ intervals' = Remaining + (IF HasPending(l) THEN 1 ELSE 0)
                 /\ pollRef'   = HasPending(l)

\* Only the continuation of the form's POST outlives its page; nothing depends
\* on the order of those that do.
Posts == LET places == SetToSeq(InFlight({"submit"})) IN [k \in DOMAIN places |-> net[places[k]]]

Mount(p, id, l) == /\ place' = p /\ shownId' = id /\ going' = 0 /\ sending' = FALSE
                   /\ list' = l
                   /\ PollEffect(l)

OpenForm == /\ place # "form" \/ ~signedIn
            /\ Mount("form", 0, <<>>)
            /\ signedIn' = TRUE      \* signing in is a detour over /login
            /\ loading' = FALSE /\ notice' = "none"
            /\ net' = Posts
            /\ UNCHANGED rows

\* The server renders the page from the row it reads.
OpenDetail(id) == /\ Mount("detail", id, <<rows[id]>>)
                  /\ loading' = FALSE /\ notice' = "none"
                  /\ net' = Posts
                  /\ UNCHANGED <<rows, signedIn>>

\* The router has loaded the page of a new submission.
Arrive == going # 0 /\ OpenDetail(going)

\* A row's link in the list.
ViewRow(id) == /\ place = "mine" /\ ~loading /\ notice = "none"
               /\ id \in DOMAIN list
               /\ OpenDetail(id)

\* The first load of the list page, or the request to sign in.
OpenMine == /\ place # "mine"
            /\ Mount("mine", 0, <<>>)
            /\ loading' = signedIn
            /\ notice'  = IF signedIn THEN "none" ELSE "signin"
            /\ Len(Posts) < MaxInFlight
            /\ net' = IF signedIn THEN Append(Posts, Request("load", <<>>)) ELSE Posts
            /\ UNCHANGED <<rows, signedIn>>

\* The list page runs its effects for the new token: a polling interval starts
\* anew, its ticks find no token.
SubSignOut == /\ signedIn
              /\ signedIn' = FALSE
              /\ IF place = "mine"
                 THEN loading' = FALSE /\ notice' = "signin" /\ PollEffect(list)
                 ELSE UNCHANGED <<loading, notice, poll>>
              /\ UNCHANGED <<rows, nav, sending, list, net>>

-----------------------------------------------------------------------------
(* problems/[id]/submission-form.tsx *)

\* The button is disabled while isSubmitting.
SubmitCode == /\ place = "form" /\ signedIn /\ ~sending
              /\ Len(rows) + Cardinality(InFlight({"submit"})) < MaxRows
              /\ Send(Request("submit", 0))
              /\ sending' = TRUE
              /\ UNCHANGED <<rows, signedIn, nav, screen, poll>>

\* Success pushes the address of the submission; the form is enabled again
\* before the router has loaded that page.
SubmitAnswered(i) == /\ net[i].op = "submit" /\ ~Waiting(i)
                     /\ going' = IF Handled(i) THEN Data(i) ELSE going
                     /\ sending' = FALSE
                     /\ Return(i, <<>>)
                     /\ UNCHANGED <<rows, signedIn, place, shownId, screen, poll>>

-----------------------------------------------------------------------------
(* components/submission-detail.tsx *)

DetailTick == /\ place = "detail" /\ intervals > 0
              /\ Send(Request("poll", <<>>))
              /\ UNCHANGED <<rows, signedIn, nav, sending, screen, poll>>

\* The effect depends on the verdict: another one restarts or ends the polling.
DetailPolled(i) == /\ place = "detail" /\ net[i].op = "poll" /\ Handled(i)
                   /\ list' = Data(i)
                   /\ IF list' = list THEN UNCHANGED poll ELSE PollEffect(list')
                   /\ Return(i, <<>>)
                   /\ UNCHANGED <<rows, signedIn, nav, sending, loading, notice>>

-----------------------------------------------------------------------------
(* problems/[id]/submissions/mine/page.tsx *)

MineTick == /\ place = "mine" /\ signedIn /\ intervals > 0
            /\ Send(Request("poll", <<>>))
            /\ UNCHANGED <<rows, signedIn, nav, sending, screen, poll>>

\* Mutant: the polling effect does not depend on the list.
MineAnsweredOnce(i) == /\ place = "mine" /\ net[i].op \in {"load", "poll"} /\ Handled(i)
                       /\ list' = Data(i)
                       /\ notice' = "none"
                       /\ loading' = (loading /\ net[i].op = "poll")
                       /\ Return(i, <<>>)
                       /\ UNCHANGED <<rows, signedIn, nav, sending, poll>>

\* A list, loaded or polled, is shown whatever has happened since it was sent.
MineAnswered(i) == /\ place = "mine" /\ net[i].op \in {"load", "poll"} /\ Handled(i)
                   /\ list' = Data(i)
                   /\ notice' = "none"
                   /\ loading' = (loading /\ net[i].op = "poll")
                   /\ PollEffect(list')
                   /\ Return(i, <<>>)
                   /\ UNCHANGED <<rows, signedIn, nav, sending>>

MineLoadFailed(i) == /\ net[i].op = "load" /\ Failed(i)
                     /\ notice' = "failed" /\ loading' = FALSE
                     /\ Return(i, <<>>)
                     /\ UNCHANGED <<rows, signedIn, nav, sending, list, poll>>

\* Both pages ignore a poll that fails.
PollFailed(i) == /\ net[i].op = "poll" /\ Failed(i)
                 /\ Return(i, <<>>)
                 /\ UNCHANGED <<rows, signedIn, nav, sending, screen, poll>>

-----------------------------------------------------------------------------
Ticks    == DetailTick \/ MineTick
Reads    == \E i \in DOMAIN net : ReadSubmissions(i)
Polled   == \E i \in DOMAIN net : DetailPolled(i) \/ MineAnswered(i)
Posted   == \E i \in DOMAIN net : StoreSubmission(i) \/ SubmitAnswered(i)
Errors   == \E i \in DOMAIN net : MineLoadFailed(i) \/ PollFailed(i)
Losses   == \E i \in DOMAIN net : SubFails(i)

SubNext == \/ \E n \in DOMAIN rows : Judge(n) \/ ViewRow(n)
           \/ OpenForm \/ OpenMine \/ Arrive \/ SubSignOut \/ SubmitCode
           \/ Ticks \/ Reads \/ Polled \/ Posted \/ Errors \/ Losses

\* The intervals fire, a request ends, and not every poll fails.
SubFairness == /\ WF_subVars(Ticks) /\ WF_subVars(Posted) /\ WF_subVars(Errors)
               /\ SF_subVars(Reads) /\ SF_subVars(Polled)

-----------------------------------------------------------------------------
SubTypeOK == /\ rows \in Seq(Verdicts)
             /\ signedIn \in BOOLEAN
             /\ place \in {"form", "detail", "mine"}
             /\ shownId \in 0..Len(rows) /\ going \in 0..Len(rows)
             /\ place = "detail" => shownId # 0
             /\ sending \in BOOLEAN
             /\ list \in Seq(Verdicts)
             /\ loading \in BOOLEAN
             /\ notice \in {"none", "signin", "failed"}
             /\ intervals \in Nat /\ pollRef \in BOOLEAN

\* Polling runs exactly while the page holds a verdict that is not final, with
\* one interval that the page can still clear: none is lost when the token
\* changes, when answers arrive out of order or when the page is left.
PollingMatchesScreen == /\ intervals = (IF HasPending(list) THEN 1 ELSE 0)
                        /\ pollRef = HasPending(list)

\* A pending verdict the user looks at (the list page needs a token to poll).
PendingOnScreen == /\ HasPending(list)
                   /\ place = "detail" \/ (place = "mine" /\ signedIn)

\* Once every submission is judged, no page keeps showing a pending verdict,
\* though polls fail and a late answer may bring an old verdict back.
PendingLeavesScreen == <>[](~HasPending(rows)) => []<>(~PendingOnScreen)
=============================================================================
