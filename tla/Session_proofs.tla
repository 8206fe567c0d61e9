---------------------------- MODULE Session_proofs ----------------------------
(***************************************************************************)
(* Machine-checked proofs about Session, for any number of tabs, any life  *)
(* of a token, and clocks and requests without bound.                      *)
(***************************************************************************)
EXTENDS Session, TLAPS

(* The invariant is inductive as the conjunction of the three: which timer *)
(* fires is known from TimerIsCurrent, what it leaves from the types.      *)
SessionInv == TypeOK /\ TimerIsCurrent /\ NoStrandedPage

(***************************************************************************)
(* The helpers of lib/auth.ts and of the guard.                            *)
(***************************************************************************)

(* A normalized session is a session that has not expired, or none.        *)
LEMMA NormalizeType ==
    ASSUME NEW s \in Sessions \cup {None}
    PROVE  /\ Normalize(s) \in Sessions \cup {None}
           /\ Normalize(s) # Unread
BY NoneAssumption DEF Normalize

(* The timers of a tab after a call of scheduleExpiryCheck.                *)
LEMMA ScheduleType ==
    ASSUME NEW s \in Sessions \cup {None}, NEW old
    PROVE  /\ Schedule(old, s) \in SUBSET Nat
           /\ Schedule(old, s) = Schedule({}, s)
BY DEF Schedule, Sessions

(* The guard sends everybody it does not admit to a page that is open to   *)
(* all.                                                                    *)
LEMMA LandingAdmits ==
    ASSUME NEW p \in Pages, NEW s
    PROVE  Landing(p, s) \in Pages /\ Admits(Landing(p, s), s)
BY DEF Landing, Admits, Pages, Guarded

(* What a tab renders is a session or none.                                *)
LEMMA RenderedType ==
    ASSUME TypeOK, NEW t \in Tabs
    PROVE  Rendered(t) \in Sessions \cup {None}
BY NoneAssumption DEF TypeOK, Rendered

(***************************************************************************)
(* Steps.                                                                  *)
(***************************************************************************)

(* A tab whose snapshot, timers and page agree, next to tabs that keep     *)
(* theirs, keeps the two invariants.                                       *)
LEMMA OneTab ==
    ASSUME SessionInv, NEW t \in Tabs,
           NEW s \in Sessions \cup {None, Unread}, NEW p \in Pages,
           cached' = [cached EXCEPT ![t] = s],
           timers' = [timers EXCEPT ![t] =
                          Schedule({}, IF s = Unread THEN None ELSE s)],
           page' = [page EXCEPT ![t] = p],
           s # Unread => Admits(p, s)
    PROVE  /\ cached' \in [Tabs -> Sessions \cup {None, Unread}]
           /\ timers' \in [Tabs -> SUBSET Nat]
           /\ page' \in [Tabs -> Pages]
           /\ TimerIsCurrent'
           /\ NoStrandedPage'
<1> USE DEF SessionInv, TypeOK
<1>1. /\ cached' \in [Tabs -> Sessions \cup {None, Unread}]
      /\ page' \in [Tabs -> Pages]
  OBVIOUS
<1>2. Schedule({}, IF s = Unread THEN None ELSE s) \in SUBSET Nat
  BY ScheduleType
<1>3. timers' \in [Tabs -> SUBSET Nat]
  BY <1>2
<1>4. ASSUME NEW u \in Tabs
      PROVE  timers'[u] = Schedule({}, IF cached'[u] = Unread THEN None ELSE cached'[u])
  BY <1>4 DEF TimerIsCurrent, Rendered
<1>5. TimerIsCurrent'
  BY <1>4 DEF TimerIsCurrent, Rendered
<1>6. NoStrandedPage'
  BY DEF NoStrandedPage
<1>7. QED
  BY <1>1, <1>3, <1>5, <1>6

(* setAuth leaves a tab with the timer of its session, on a page that      *)
(* admits it.                                                              *)
LEMMA SetAuthKeeps ==
    ASSUME SessionInv, NEW t \in Tabs, NEW s \in Sessions \cup {None},
           NEW p \in Pages, SetAuth(t, s, p)
    PROVE  /\ storage' \in Sessions \cup {None}
           /\ cached' \in [Tabs -> Sessions \cup {None, Unread}]
           /\ timers' \in [Tabs -> SUBSET Nat]
           /\ page' \in [Tabs -> Pages]
           /\ TimerIsCurrent'
           /\ NoStrandedPage'
<1> DEFINE n == Normalize(s)
<1>1. n \in Sessions \cup {None} /\ n # Unread
  BY NormalizeType
<1>2. Landing(p, n) \in Pages /\ Admits(Landing(p, n), n)
  BY LandingAdmits
<1>3. /\ cached' = [cached EXCEPT ![t] = n]
      /\ page' = [page EXCEPT ![t] = Landing(p, n)]
      /\ timers' = [timers EXCEPT ![t] = Schedule({}, n)]
      /\ storage' = n
  BY <1>1, ScheduleType DEF SetAuth
<1>4. QED
  BY <1>1, <1>2, <1>3, OneTab

(* Steps that only move requests, the clock or the history.                *)
LEMMA QuietStep ==
    ASSUME SessionInv, UNCHANGED <<cached, timers, page>>
    PROVE  TimerIsCurrent' /\ NoStrandedPage'
BY DEF SessionInv, TimerIsCurrent, NoStrandedPage, Rendered

LEMMA LoadStep ==
    ASSUME SessionInv, NEW t \in Tabs, NEW p \in Pages, Load(t, p)
    PROVE  SessionInv'
<1>1. timers' = [timers EXCEPT ![t] = Schedule({}, None)]
  BY DEF Load, Schedule
<1>2. /\ cached' \in [Tabs -> Sessions \cup {None, Unread}]
      /\ timers' \in [Tabs -> SUBSET Nat]
      /\ page' \in [Tabs -> Pages]
      /\ TimerIsCurrent'
      /\ NoStrandedPage'
  BY <1>1, OneTab DEF Load
<1>3. QED
  BY <1>2 DEF SessionInv, TypeOK, Load

LEMMA HydrateStep ==
    ASSUME SessionInv, NEW t \in Tabs, Hydrate(t)
    PROVE  SessionInv'
<1> DEFINE n == Normalize(storage)
           q == Landing(page[t], Rendered(t))
<1>1. n \in Sessions \cup {None} /\ n # Unread
  BY NormalizeType DEF SessionInv, TypeOK
<1>2. q \in Pages
  BY LandingAdmits DEF SessionInv, TypeOK
<1>3. Landing(q, n) \in Pages /\ Admits(Landing(q, n), n)
  BY <1>2, LandingAdmits
<1>4. /\ cached' = [cached EXCEPT ![t] = n]
      /\ page' = [page EXCEPT ![t] = Landing(q, n)]
      /\ timers' = [timers EXCEPT ![t] = Schedule({}, n)]
  BY <1>1, ScheduleType DEF Hydrate, SessionInv, TypeOK
<1>5. /\ cached' \in [Tabs -> Sessions \cup {None, Unread}]
      /\ timers' \in [Tabs -> SUBSET Nat]
      /\ page' \in [Tabs -> Pages]
      /\ TimerIsCurrent'
      /\ NoStrandedPage'
  BY <1>1, <1>3, <1>4, OneTab
<1>6. QED
  BY <1>1, <1>5 DEF SessionInv, TypeOK, Hydrate

LEMMA NavigateStep ==
    ASSUME SessionInv, NEW t \in Tabs, NEW p \in Pages, Navigate(t, p)
    PROVE  SessionInv'
<1> DEFINE n == cached[t]
<1>1. n \in Sessions \cup {None} /\ n # Unread
  BY DEF SessionInv, TypeOK, Navigate
<1>2. Landing(p, n) \in Pages /\ Admits(Landing(p, n), n)
  BY LandingAdmits
<1>3. /\ cached' = [cached EXCEPT ![t] = n]
      /\ page' = [page EXCEPT ![t] = Landing(p, n)]
      /\ timers' = [timers EXCEPT ![t] = Schedule({}, n)]
  BY <1>1, ScheduleType DEF Navigate, SessionInv, TypeOK
<1>4. /\ cached' \in [Tabs -> Sessions \cup {None, Unread}]
      /\ timers' \in [Tabs -> SUBSET Nat]
      /\ page' \in [Tabs -> Pages]
      /\ TimerIsCurrent'
      /\ NoStrandedPage'
  BY <1>1, <1>2, <1>3, OneTab
<1>5. QED
  BY <1>4 DEF SessionInv, TypeOK, Navigate

(* The steps that call setAuth: signing out, an expiry, an answer.         *)
LEMMA SetAuthStep ==
    ASSUME SessionInv, NEW t \in Tabs,
           \/ SignOut(t) \/ Expire(t) \/ RegisterAnswered(t)
           \/ \E p \in Pages : LoginAnswered(t, p)
    PROVE  SessionInv'
<1>1. PICK s \in Sessions \cup {None}, p \in Pages : SetAuth(t, s, p)
  <2>1. CASE SignOut(t) \/ Expire(t)
    BY <2>1 DEF SignOut, Expire, SessionInv, TypeOK
  <2>2. CASE RegisterAnswered(t) \/ \E p \in Pages : LoginAnswered(t, p)
    <3>1. request[t] \in Requests
      BY <2>2 DEF RegisterAnswered, LoginAnswered, SessionInv, TypeOK
    <3>2. request[t].session \in Sessions \cup {None}
      BY <3>1 DEF Requests
    <3>3. "home" \in Pages
      BY DEF Pages
    <3>4. QED
      BY <2>2, <3>2, <3>3 DEF RegisterAnswered, LoginAnswered
  <2>3. QED
    BY <2>1, <2>2
<1>2. /\ storage' \in Sessions \cup {None}
      /\ cached' \in [Tabs -> Sessions \cup {None, Unread}]
      /\ timers' \in [Tabs -> SUBSET Nat]
      /\ page' \in [Tabs -> Pages]
      /\ TimerIsCurrent'
      /\ NoStrandedPage'
  BY <1>1, SetAuthKeeps
<1>3. /\ now' \in Nat
      /\ request' \in [Tabs -> Requests \cup {None}]
      /\ signIns' \in Nat
      /\ left' \subseteq Tabs
  BY DEF SignOut, Expire, RegisterAnswered, LoginAnswered, SessionInv, TypeOK
<1>4. QED
  BY <1>2, <1>3 DEF SessionInv, TypeOK

(* Sending a request, its handling and its refusal.                        *)
LEMMA RequestStep ==
    ASSUME SessionInv, NEW t \in Tabs,
           \/ LoginSubmit(t) \/ RegisterSubmit(t)
           \/ \E r \in Roles : Issue(t, r)
           \/ Refused(t)
    PROVE  SessionInv'
<1>1. UNCHANGED <<now, storage, cached, timers, page, left>>
  BY DEF LoginSubmit, RegisterSubmit, Submit, Issue, Refused
<1>2. request' \in [Tabs -> Requests \cup {None}] /\ signIns' \in Nat
  <2>1. CASE LoginSubmit(t) \/ RegisterSubmit(t)
    BY <2>1 DEF LoginSubmit, RegisterSubmit, Submit, SessionInv, TypeOK, Requests
  <2>2. CASE \E r \in Roles : Issue(t, r)
    <3>1. PICK r \in Roles : Issue(t, r)
      BY <2>2
    <3>2. [role |-> r, exp |-> now + TTL] \in Sessions
      BY SessionAssumption DEF SessionInv, TypeOK, Sessions
    <3>3. request[t] \in Requests
      BY <3>1 DEF Issue, SessionInv, TypeOK
    <3>4. [request[t] EXCEPT !.session = [role |-> r, exp |-> now + TTL]] \in Requests
      BY <3>2, <3>3 DEF Requests
    <3>5. request' = [request EXCEPT ![t] =
             [request[t] EXCEPT !.session = [role |-> r, exp |-> now + TTL]]]
      BY <3>1 DEF Issue, SessionInv, TypeOK
    <3>6. signIns' = signIns
      BY <3>1 DEF Issue
    <3>7. QED
      BY <3>4, <3>5, <3>6 DEF SessionInv, TypeOK
  <2>3. CASE Refused(t)
    BY <2>3 DEF Refused, SessionInv, TypeOK
  <2>4. QED
    BY <2>1, <2>2, <2>3
<1>3. TimerIsCurrent' /\ NoStrandedPage'
  BY <1>1, QuietStep
<1>4. QED
  BY <1>1, <1>2, <1>3 DEF SessionInv, TypeOK

LEMMA SessionInvInit == Init => SessionInv
BY NoneAssumption DEF Init, SessionInv, TypeOK, TimerIsCurrent, NoStrandedPage,
   Rendered, Schedule, Pages

LEMMA SessionInvStep == SessionInv /\ [Next]_vars => SessionInv'
<1> SUFFICES ASSUME SessionInv, [Next]_vars
             PROVE  SessionInv'
  OBVIOUS
<1>1. CASE Tick
  <2>1. TimerIsCurrent' /\ NoStrandedPage'
    BY <1>1, QuietStep DEF Tick
  <2>2. QED
    BY <1>1, <2>1 DEF Tick, SessionInv, TypeOK
<1>2. ASSUME NEW t \in Tabs, TabStep(t)
      PROVE  SessionInv'
  BY <1>2, LoadStep, HydrateStep, NavigateStep, SetAuthStep, RequestStep
     DEF TabStep
<1>3. CASE UNCHANGED vars
  <2>1. TimerIsCurrent' /\ NoStrandedPage'
    BY <1>3, QuietStep DEF vars
  <2>2. QED
    BY <1>3, <2>1 DEF vars, SessionInv, TypeOK
<1>4. QED
  BY <1>1, <1>2, <1>3 DEF Next

(* The inductive invariant holds in every reachable state. *)
THEOREM SessionInvariance == Spec => []SessionInv
BY SessionInvInit, SessionInvStep, PTL DEF Spec

(* The variables of the client keep their types. *)
THEOREM SessionTypes == Spec => []TypeOK
<1>1. SessionInv => TypeOK
  BY DEF SessionInv
<1>2. QED
  BY <1>1, SessionInvariance, PTL

(* A tab's only timer is that of the session it holds, however often the   *)
(* user signs in and out, navigates or reloads.                            *)
THEOREM TimersAreCurrent == Spec => []TimerIsCurrent
<1>1. SessionInv => TimerIsCurrent
  BY DEF SessionInv
<1>2. QED
  BY <1>1, SessionInvariance, PTL

(* No tab stays on a page that the guard does not admit its session to.    *)
THEOREM NoPageStrands == Spec => []NoStrandedPage
<1>1. SessionInv => NoStrandedPage
  BY DEF SessionInv
<1>2. QED
  BY <1>1, SessionInvariance, PTL

(* A tab loses its session only to its user, to the expiry of that session *)
(* or to the answer of a sign-in: a timer that fires is the session's own. *)
THEOREM SignOutsAreDue == Spec => NoEarlySignOut
<1> DEFINE Due == \A t \in Tabs :
               cached[t] \in Sessions /\ cached'[t] = None
               => \/ t \in left' \/ Expired(cached[t])
                  \/ RegisterAnswered(t)
                  \/ \E p \in Pages : LoginAnswered(t, p)
<1>1. SessionInv /\ [Next]_vars => [Due]_vars
  <2> SUFFICES ASSUME SessionInv, Next, NEW t \in Tabs,
                      cached[t] \in Sessions, cached'[t] = None
               PROVE  \/ t \in left' \/ Expired(cached[t])
                      \/ RegisterAnswered(t)
                      \/ \E p \in Pages : LoginAnswered(t, p)
    OBVIOUS
  <2>1. cached[t] # None /\ cached[t] # Unread /\ cached'[t] # cached[t]
    BY NoneAssumption
  <2>2. PICK u \in Tabs : TabStep(u)
    BY <2>1 DEF Next, Tick
  <2>3. CASE \E p \in Pages : Load(u, p)
    BY <2>1, <2>3, NoneAssumption DEF Load, SessionInv, TypeOK
  <2>4. CASE Hydrate(u)
    BY <2>1, <2>4 DEF Hydrate, SessionInv, TypeOK
  <2>5. CASE \/ \E p \in Pages : Navigate(u, p)
             \/ LoginSubmit(u) \/ RegisterSubmit(u)
             \/ \E r \in Roles : Issue(u, r)
             \/ Refused(u)
    BY <2>1, <2>5 DEF Navigate, LoginSubmit, RegisterSubmit, Submit, Issue, Refused
  <2>6. CASE \/ SignOut(u) \/ RegisterAnswered(u)
             \/ \E p \in Pages : LoginAnswered(u, p)
    <3>1. u = t
      BY <2>1, <2>6 DEF SignOut, RegisterAnswered, LoginAnswered, SetAuth,
                        SessionInv, TypeOK
    <3>2. QED
      BY <2>6, <3>1 DEF SignOut
  <2>7. CASE Expire(u)
    <3>1. PICK at \in timers[u] : now >= at /\ SetAuth(u, None, page[u])
      BY <2>7 DEF Expire
    <3>2. u = t
      BY <2>1, <3>1 DEF SetAuth, SessionInv, TypeOK
    <3>3. timers[t] = {cached[t].exp}
      BY <2>1 DEF SessionInv, TimerIsCurrent, Rendered, Schedule
    <3>4. QED
      BY <3>1, <3>2, <3>3 DEF Expired
  <2>8. QED
    BY <2>2, <2>3, <2>4, <2>5, <2>6, <2>7 DEF TabStep
<1>2. QED
  BY <1>1, SessionInvariance, PTL DEF Spec, NoEarlySignOut
=============================================================================
