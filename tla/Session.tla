------------------------------ MODULE Session ------------------------------
(***************************************************************************)
(* The sign-in state of the web client (lib/auth.ts) in the tabs of one    *)
(* browser, the guard of the manager and admin pages, the sign-in forms    *)
(* and the navigation bar.                                                 *)
(*                                                                         *)
(* Every tab runs its own copy of the module: a snapshot it reads once     *)
(* from localStorage, and a timer that ends the session when the token     *)
(* expires.  localStorage is shared by the tabs, and nothing listens to    *)
(* its changes.                                                            *)
(*                                                                         *)
(* React: a document is first rendered with the server's snapshot (no      *)
(* session); the effects of that render, one step here, read the real      *)
(* snapshot and render again.  A call of setAuth renders synchronously,    *)
(* so that the effects of that render belong to the same step.             *)
(***************************************************************************)
EXTENDS Integers, FiniteSets

CONSTANTS Tabs,         \* tabs of one browser
          TTL,          \* life of a token, in ticks
          MaxNow,       \* bound on the clock
          MaxSignIns,   \* bound on the sign-in requests
          None,         \* no session: token and user are null
          Unread        \* the tab has not read localStorage yet

ASSUME SessionAssumption == /\ TTL \in Nat \ {0}
                            /\ MaxNow \in Nat
                            /\ MaxSignIns \in Nat

Roles    == {"admin", "manager", "user"}
Pages    == {"home", "login", "register", "manager", "admin"}
Guarded  == {"manager", "admin"}
Sessions == [role : Roles, exp : Nat]

\* No session is no record, and a snapshot that was not read is neither.
ASSUME NoneAssumption == None \notin Sessions /\ Unread \notin Sessions \cup {None}

\* A sign-in request of a tab: "sent" until the server has answered it.
Requests == [form : {"login", "register"}, session : Sessions \cup {None}]

VARIABLES now,       \* the clock of the browser
          storage,   \* localStorage["jj_auth_state"]
          cached,    \* cachedSnapshot of each tab
          timers,    \* pending expiry timers of each tab, by the time they fire
          page,      \* the page each tab shows
          request,   \* the sign-in request each tab waits for, or None
          signIns,   \* how many requests were sent (bound)
          left       \* history: the tabs whose session the user ended last

vars == <<now, storage, cached, timers, page, request, signIns, left>>

-----------------------------------------------------------------------------
(* lib/auth.ts *)

Expired(s) == now >= s.exp

\* normalizeAuth: an expired token is no session.
Normalize(s) == IF s # None /\ Expired(s) THEN None ELSE s

\* Mutant: the timer of the token before it stays.
ScheduleAnother(old, s) == old \cup (IF s = None THEN {} ELSE {s.exp})

\* Mutant: the timer fires ahead of the expiry, by more than a token may have left.
ScheduleAhead(old, s) == IF s = None THEN {} ELSE {s.exp - (TTL + 1)}

\* scheduleExpiryCheck: the timer of the token before it is cleared.
Schedule(old, s) == IF s = None THEN {} ELSE {s.exp}

\* What the tab renders: the server's snapshot until its effects have run.
Rendered(t) == IF cached[t] = Unread THEN None ELSE cached[t]

-----------------------------------------------------------------------------
(* components/auth-guard.tsx, as the manager and admin layouts use it *)

RequiredRoles(p) == IF p = "admin" THEN {"admin"} ELSE {"admin", "manager"}

Admits(p, s) == p \notin Guarded \/ (s # None /\ s.role \in RequiredRoles(p))

\* Where a tab ends up that shows p with session s.
Landing(p, s) == IF Admits(p, s) THEN p ELSE "login"

\* Mutant: the guard does not run again when the session changes.
SetAuthInPlace(t, s, p) ==
    LET n == Normalize(s)
    IN /\ cached'  = [cached EXCEPT ![t] = n]
       /\ storage' = n
       /\ timers'  = [timers EXCEPT ![t] = Schedule(@, n)]
       /\ page'    = [page EXCEPT ![t] = p]

\* setAuth and the render it causes, in a tab that goes to page p.
SetAuth(t, s, p) ==
    LET n == Normalize(s)
    IN /\ cached'  = [cached EXCEPT ![t] = n]
       /\ storage' = n
       /\ timers'  = [timers EXCEPT ![t] = Schedule(@, n)]
       /\ page'    = [page EXCEPT ![t] = Landing(p, n)]

-----------------------------------------------------------------------------
(* components/navbar.tsx *)

IsManager(s) == s # None /\ s.role \in {"admin", "manager"}
IsAdmin(s)   == s # None /\ s.role = "admin"

\* The links the bar offers.
NavLinks(s) == {"home"}
               \cup (IF IsManager(s) THEN {"manager"} ELSE {})
               \cup (IF IsAdmin(s) THEN {"admin"} ELSE {})
               \cup (IF s = None THEN {"login", "register"} ELSE {})

-----------------------------------------------------------------------------
Init == /\ now = 0
        /\ storage = None
        /\ cached  = [t \in Tabs |-> Unread]
        /\ timers  = [t \in Tabs |-> {}]
        /\ page    = [t \in Tabs |-> "home"]
        /\ request = [t \in Tabs |-> None]
        /\ signIns = 0
        /\ left = {}

\* A document load: an address typed, a reload.  The module state, the timer
\* and the continuation of a request die with the old document.
Load(t, p) == /\ cached'  = [cached EXCEPT ![t] = Unread]
              /\ timers'  = [timers EXCEPT ![t] = {}]
              /\ page'    = [page EXCEPT ![t] = p]
              /\ request' = [request EXCEPT ![t] = None]
              /\ left'    = left \ {t}
              /\ UNCHANGED <<now, storage, signIns>>

\* Mutant: only setAuth schedules the expiry.
HydrateUntimed(t) ==
    LET read == Normalize(storage)
    IN /\ cached[t] = Unread
       /\ cached'  = [cached EXCEPT ![t] = read]
       /\ storage' = read
       /\ page'    = [page EXCEPT ![t] = Landing(Landing(@, Rendered(t)), read)]
       /\ UNCHANGED <<now, timers, request, signIns, left>>

\* The effects of the first render.  The guard has rendered the server's
\* snapshot and judges that one too.
Hydrate(t) ==
    LET read == Normalize(storage)
    IN /\ cached[t] = Unread
       /\ cached'  = [cached EXCEPT ![t] = read]
       /\ storage' = read
       /\ timers'  = [timers EXCEPT ![t] = Schedule(@, read)]
       /\ page'    = [page EXCEPT ![t] = Landing(Landing(@, Rendered(t)), read)]
       /\ UNCHANGED <<now, request, signIns, left>>

\* A click on a link of the bar: the guard of the new page runs its effects.
Navigate(t, p) == /\ cached[t] # Unread
                  /\ p \in NavLinks(cached[t])
                  /\ page'   = [page EXCEPT ![t] = Landing(p, cached[t])]
                  /\ timers' = [timers EXCEPT ![t] = Schedule(@, cached[t])]
                  /\ UNCHANGED <<now, storage, cached, request, signIns, left>>

SignOut(t) == /\ Rendered(t) # None
              /\ SetAuth(t, None, page[t])
              /\ left' = left \cup {t}
              /\ UNCHANGED <<now, request, signIns>>

\* The timer's callback: clearAuth.
Expire(t) == \E at \in timers[t] :
                /\ now >= at
                /\ SetAuth(t, None, page[t])
                /\ left' = left \ {t}
                /\ UNCHANGED <<now, request, signIns>>

-----------------------------------------------------------------------------
(* The sign-in forms *)

Submit(t, f) == /\ cached[t] # Unread
                /\ request[t] = None
                /\ page[t] = f
                /\ signIns < MaxSignIns
                /\ request' = [request EXCEPT ![t] = [form |-> f, session |-> None]]
                /\ signIns' = signIns + 1
                /\ UNCHANGED <<now, storage, cached, timers, page, left>>

LoginSubmit(t)    == Submit(t, "login")
RegisterSubmit(t) == Submit(t, "register")

\* The API server issues a token; a new account is a plain user.
Issue(t, r) == /\ request[t] # None
               /\ request[t].session = None
               /\ request[t].form = "register" => r = "user"
               /\ request' = [request EXCEPT ![t].session = [role |-> r, exp |-> now + TTL]]
               /\ UNCHANGED <<now, storage, cached, timers, page, signIns, left>>

\* The credentials are refused, or the answer is lost: the form shows an error.
Refused(t) == /\ request[t] # None
              /\ request' = [request EXCEPT ![t] = None]
              /\ UNCHANGED <<now, storage, cached, timers, page, signIns, left>>

\* The continuation runs whether the form is still mounted or not: it stores
\* the session, then follows the address given to the page or goes back.
LoginAnswered(t, p) == /\ request[t] # None
                       /\ request[t].form = "login"
                       /\ request[t].session # None
                       /\ SetAuth(t, request[t].session, p)
                       /\ request' = [request EXCEPT ![t] = None]
                       /\ left' = left \ {t}
                       /\ UNCHANGED <<now, signIns>>

RegisterAnswered(t) == /\ request[t] # None
                       /\ request[t].form = "register"
                       /\ request[t].session # None
                       /\ SetAuth(t, request[t].session, "home")
                       /\ request' = [request EXCEPT ![t] = None]
                       /\ left' = left \ {t}
                       /\ UNCHANGED <<now, signIns>>

Tick == /\ now < MaxNow
        /\ now' = now + 1
        /\ UNCHANGED <<storage, cached, timers, page, request, signIns, left>>

TabStep(t) == \/ \E p \in Pages : Load(t, p) \/ Navigate(t, p) \/ LoginAnswered(t, p)
              \/ Hydrate(t) \/ SignOut(t) \/ Expire(t)
              \/ LoginSubmit(t) \/ RegisterSubmit(t)
              \/ \E r \in Roles : Issue(t, r)
              \/ Refused(t) \/ RegisterAnswered(t)

Next == Tick \/ \E t \in Tabs : TabStep(t)

\* The browser runs the effects of a render and the timers that are due.
Fairness == \A t \in Tabs : WF_vars(Hydrate(t)) /\ WF_vars(Expire(t))

Spec == Init /\ [][Next]_vars /\ Fairness

-----------------------------------------------------------------------------
TypeOK == /\ now \in Nat
          /\ storage \in Sessions \cup {None}
          /\ cached  \in [Tabs -> Sessions \cup {None, Unread}]
          /\ timers  \in [Tabs -> SUBSET Nat]
          /\ page    \in [Tabs -> Pages]
          /\ request \in [Tabs -> Requests \cup {None}]
          /\ signIns \in Nat
          /\ left \subseteq Tabs

\* lib/auth.ts keeps one timer per tab: the one of the session the tab holds.
\* An older one would end a session before its time.
TimerIsCurrent == \A t \in Tabs : timers[t] = Schedule({}, Rendered(t))

\* components/auth-guard.tsx renders nothing to those it turns away, so it must
\* send them on: no tab stays on a guarded page its session does not admit,
\* whatever signs it out or replaces its session.
NoStrandedPage == \A t \in Tabs : cached[t] # Unread => Admits(page[t], cached[t])

\* A tab loses its session (while its document lives) only when the user signs
\* out in it, when that session has expired, or when the answer to a sign-in
\* brings a token that has: never by the timer of an earlier session or by what
\* happens in another tab.
NoEarlySignOut ==
    [][\A t \in Tabs : cached[t] \in Sessions /\ cached'[t] = None
                       => \/ t \in left' \/ Expired(cached[t])
                          \/ RegisterAnswered(t)
                          \/ \E p \in Pages : LoginAnswered(t, p)]_vars

\* An expired session does not stay on the screen: its timer fires, in a tab
\* that signed in and in one that found the session in localStorage.
ExpiredSessionLeaves ==
    \A t \in Tabs : (cached[t] \in Sessions /\ Expired(cached[t]))
                    ~> ~(cached[t] \in Sessions /\ Expired(cached[t]))
=============================================================================
