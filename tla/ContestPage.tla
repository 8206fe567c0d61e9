---------------------------- MODULE ContestPage ----------------------------
(***************************************************************************)
(* The page of a contest and the submission form of its problems, for one  *)
(* user in one tab: the phase of the contest by the browser's clock, the   *)
(* button that registers the user, and what the form says of a refusal.    *)
(*                                                                         *)
(* The layouts of the phases are different components: when the contest    *)
(* starts, the button is mounted anew and asks the API server again, while *)
(* a request of the old one may still be on its way.                       *)
(***************************************************************************)
EXTENDS ApiClient

CONSTANTS Start, End,       \* the contest runs from Start to End
          LastTime,         \* bound on the clock
          MaxToggles,       \* bound on the clicks on the button and the form
          Skews             \* by how much the browser's clock may be wrong

ASSUME ContestPageAssumption == /\ Start \in Nat /\ End \in Nat /\ Start <= End
                                /\ LastTime \in Nat /\ MaxToggles \in Nat
                                /\ Skews \subseteq Int

VARIABLES time,       \* the API server's clock
          skew,       \* of the browser's clock
          seen,       \* `now` of the page: what its clock last showed
          on,         \* the page shown: "contest", "problem" or "submission"
          token,      \* auth.token of the tab
          member,     \* the user's row in contest_registrations
          registered, \* the button's state: "unknown", "yes" or "no"
          busy,       \* `loading` of the button or of the form
          message,    \* the error the button or the form shows
          toggles,    \* toggles and submissions so far (bound)
          doubt       \* history: something the button was not told of

contestPage == <<time, skew, seen, on, token, member, registered, busy, message,
                 toggles, doubt>>
contestVars == <<contestPage, net>>

-----------------------------------------------------------------------------
(* contests/[id]/contest-body.tsx *)

Phase(t) == IF t < Start THEN "upcoming" ELSE IF t <= End THEN "active" ELSE "ended"

\* The layouts before and during the contest show the button, and the layouts
\* during and after it the problems.
ButtonShown(t)   == Phase(t) \in {"upcoming", "active"}
ProblemsShown(t) == Phase(t) \in {"active", "ended"}

\* Requests of a component that is no longer mounted: the server may still act
\* on those that change something, nobody reads their answers.
Orphans(n) == LET Kept == Without(n, "check")
              IN [i \in DOMAIN Kept |-> [Kept[i] EXCEPT !.arg = "orphan"]]

\* The button is mounted, with its effect: ask whether the user is registered.
MountButton == /\ registered' = "unknown" /\ busy' = FALSE /\ message' = "none"
               /\ net' = IF token THEN Append(Orphans(net), Request("check", "mine"))
                                ELSE Orphans(net)

\* Another component is mounted instead, while the requests in n are in flight.
Leave(n) == /\ registered' = "unknown" /\ busy' = FALSE /\ message' = "none"
            /\ net' = Orphans(n)

ContestInit == /\ time = 0 /\ skew \in Skews /\ seen = skew
               /\ on = "problem" /\ token = TRUE /\ member = FALSE
               /\ registered = "unknown" /\ busy = FALSE /\ message = "none"
               /\ toggles = 0 /\ doubt = FALSE

Passes == /\ time < LastTime
          /\ time' = time + 1
          /\ UNCHANGED <<skew, seen, on, token, member, registered, busy, message,
                         toggles, doubt, net>>

\* The page's interval reads the clock; another phase is another layout.
ClockTick == /\ on = "contest"
             /\ seen # time + skew
             /\ seen' = time + skew
             /\ IF Phase(seen') = Phase(seen) THEN UNCHANGED <<registered, busy, message, net>>
                ELSE IF ButtonShown(seen') THEN MountButton ELSE Leave(net)
             /\ UNCHANGED <<time, skew, on, token, member, toggles, doubt>>

OpenContest == /\ on # "contest"
               /\ on' = "contest" /\ seen' = time + skew
               /\ IF ButtonShown(seen') THEN MountButton ELSE Leave(net)
               /\ UNCHANGED <<time, skew, token, member, toggles, doubt>>

\* A link of the table of problems.
OpenProblem == /\ on = "contest" /\ ProblemsShown(seen)
               /\ on' = "problem"
               /\ Leave(net)
               /\ UNCHANGED <<time, skew, seen, token, member, toggles, doubt>>

\* Signing in is a detour over /login.
SignInAgain == /\ ~token
               /\ token' = TRUE /\ on' = "problem"
               /\ Leave(net)
               /\ UNCHANGED <<time, skew, seen, member, toggles, doubt>>

\* The session ends: the effect is cleaned up, its answer will not be used.
TokenGone == /\ token
             /\ token' = FALSE
             /\ net' = Without(net, "check")
             /\ UNCHANGED <<time, skew, seen, on, member, registered, busy, message,
                            toggles, doubt>>

-----------------------------------------------------------------------------
(* contests/[id]/register-button.tsx *)

CheckAnswered(i) == /\ net[i].op = "check" /\ ~Waiting(i)
                    /\ registered' = IF Handled(i) THEN Data(i) ELSE "no"
                    /\ doubt' = (doubt \/ Failed(i))
                    /\ Return(i, <<>>)
                    /\ UNCHANGED <<time, skew, seen, on, token, member, busy, message, toggles>>

\* Mutant: the button is not disabled while a request is on its way.
ToggleUnguarded(op, known) ==
    /\ on = "contest" /\ ButtonShown(seen) /\ token
    /\ registered = known /\ toggles < MaxToggles
    /\ Send(Request(op, "mine"))
    /\ busy' = TRUE /\ message' = "none" /\ toggles' = toggles + 1
    /\ UNCHANGED <<time, skew, seen, on, token, member, registered, doubt>>

\* The button that is offered is the one for the state it knows, unless busy.
Toggle(op, known) == /\ on = "contest" /\ ButtonShown(seen) /\ token
                     /\ registered = known /\ ~busy /\ toggles < MaxToggles
                     /\ Send(Request(op, "mine"))
                     /\ busy' = TRUE /\ message' = "none" /\ toggles' = toggles + 1
                     /\ UNCHANGED <<time, skew, seen, on, token, member, registered, doubt>>

Register   == Toggle("register", "no")
Unregister == Toggle("unregister", "yes")

ToggleAnswered(i) == /\ net[i].op \in {"register", "unregister"} /\ ~Waiting(i)
                     /\ IF net[i].arg = "orphan" THEN UNCHANGED <<registered, busy, message>>
                        ELSE /\ busy' = FALSE
                             /\ registered' = IF Failed(i) THEN registered
                                              ELSE IF net[i].op = "register" THEN "yes" ELSE "no"
                             /\ message' = IF Failed(i) THEN "failed" ELSE message
                     /\ Return(i, <<>>)
                     /\ UNCHANGED <<time, skew, seen, on, token, member, toggles, doubt>>

-----------------------------------------------------------------------------
(* contest-submission-form.tsx *)

SubmitEntry == /\ on = "problem" /\ token /\ ~busy /\ toggles < MaxToggles
               /\ Send(Request("entry", "mine"))
               /\ busy' = TRUE /\ message' = "none" /\ toggles' = toggles + 1
               /\ UNCHANGED <<time, skew, seen, on, token, member, registered, doubt>>

\* Success moves the tab to the submission, wherever it is.
EntryAccepted(i) == /\ net[i].op = "entry" /\ Handled(i) /\ Data(i) = "accepted"
                    /\ on' = "submission"
                    /\ Leave(RemoveAt(net, i))
                    /\ UNCHANGED <<time, skew, seen, token, member, toggles, doubt>>

\* Status 403 and 400 have messages of their own.
EntryRefused(i) == /\ net[i].op = "entry" /\ ~Waiting(i)
                   /\ (Handled(i) => Data(i) # "accepted")
                   /\ IF net[i].arg = "orphan" THEN UNCHANGED <<busy, message>>
                      ELSE /\ busy' = FALSE
                           /\ message' = IF Handled(i) THEN Data(i) ELSE "failed"
                   /\ Return(i, <<>>)
                   /\ UNCHANGED <<time, skew, seen, on, token, member, registered, toggles, doubt>>

-----------------------------------------------------------------------------
(* The API server *)

\* The last answer to the button is the truth; what is done for a component
\* that has gone is not told to the one that replaced it.
HandleCheck(i) == /\ net[i].op = "check" /\ Waiting(i)
                  /\ Answer(i, IF member THEN "yes" ELSE "no")
                  /\ doubt' = FALSE
                  /\ UNCHANGED <<time, skew, seen, on, token, member, registered, busy,
                                 message, toggles>>

HandleToggle(i) == /\ net[i].op \in {"register", "unregister"} /\ Waiting(i)
                   /\ member' = (net[i].op = "register")
                   /\ \/ Answer(i, net[i].arg) /\ doubt' = (doubt \/ net[i].arg = "orphan")
                      \/ Fail(i) /\ doubt' = TRUE
                   /\ UNCHANGED <<time, skew, seen, on, token, registered, busy, message, toggles>>

InWindow(t) == Start <= t /\ t <= End

HandleEntry(i) == /\ net[i].op = "entry" /\ Waiting(i)
                  /\ Answer(i, IF ~member THEN "not registered"
                               ELSE IF ~InWindow(time) THEN "not active" ELSE "accepted")
                  /\ UNCHANGED <<time, skew, seen, on, token, member, registered, busy,
                                 message, toggles, doubt>>

ContestFails(i) == /\ Waiting(i) /\ Fail(i)
                   /\ UNCHANGED <<time, skew, seen, on, token, member, registered, busy,
                                  message, toggles, doubt>>

-----------------------------------------------------------------------------
ContestNext == \/ Passes \/ ClockTick \/ OpenContest \/ OpenProblem \/ TokenGone \/ SignInAgain
               \/ Register \/ Unregister \/ SubmitEntry
               \/ \E i \in DOMAIN net : \/ CheckAnswered(i) \/ ToggleAnswered(i)
                                        \/ EntryAccepted(i) \/ EntryRefused(i)
                                        \/ HandleCheck(i) \/ HandleToggle(i) \/ HandleEntry(i)
                                        \/ ContestFails(i)

-----------------------------------------------------------------------------
ContestTypeOK == /\ time \in 0..LastTime /\ skew \in Skews /\ seen \in Int
                 /\ on \in {"contest", "problem", "submission"} /\ token \in BOOLEAN
                 /\ member \in BOOLEAN /\ registered \in {"unknown", "yes", "no"}
                 /\ busy \in BOOLEAN /\ toggles \in 0..MaxToggles /\ doubt \in BOOLEAN
                 /\ message \in {"none", "failed", "not registered", "not active"}

\* Between two toggles the button tells whether the user is registered: the
\* order of its requests and answers cannot make it lie.  What can (doubt) is a
\* check that fails, an answer that is lost, and a click overtaken by the start
\* of the contest or by a visit to another page.
ButtonTellsTruth ==
    (token /\ registered # "unknown" /\ ~busy /\ ~doubt /\ InFlight({"check"}) = {})
    => registered = (IF member THEN "yes" ELSE "no")
=============================================================================
