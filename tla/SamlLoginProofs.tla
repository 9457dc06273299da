--------------------------- MODULE SamlLoginProofs ---------------------------
(***************************************************************************)
(* Proofs of the invariants of SamlLogin, for any users, sessions and      *)
(* requests.                                                               *)
(***************************************************************************)
EXTENDS SamlLogin, TLAPS

(* The inductive invariant. *)

\* Closed for good: nobody is about to store it.
Closed(s) ==
    /\ s \in used /\ open[s] = Null
    /\ \A p \in Request : ~(req[p].opening /\ req[p].session = s)

\* barred is what its name says.
History(r) == req[r].barred \subseteq NotActive(user)

\* No id is known anywhere before it is drawn.
OnlyUsed ==
    /\ \A s \in Session : open[s] # Null => s \in used
    /\ \A u \in User \cup {Null} : lists[u] \subseteq used

\* The steps of each route, and what was found out before them.
PageFound(q) == q.route \in Page => q.step \in {"idle", "reading", "arriving", "ready", "done"}

AcsFound(q) ==
    q.route = "acs" =>
        /\ q.step \in {"reading", "arriving", "ready", "backend", "user", "again", "open",
                       "adding", "lastLogin", "done"}
        /\ q.step \in {"reading", "arriving", "ready"} => q.answer = "none"
        /\ q.step \in {"backend", "user", "again", "open", "adding", "lastLogin"} =>
              q.answer = IF q.settings = "on" THEN "none" ELSE "notFound"
        /\ q.step \in {"again", "open", "adding", "lastLogin"} => q.named \in User \ q.barred
        /\ q.step \notin {"adding", "lastLogin", "done"} => q.session = Null
        /\ q.step \in {"adding", "lastLogin"} => q.session # Null
        /\ q.step = "done" =>
              /\ q.session # Null => q.named \notin q.barred
              /\ q.answer = "ticket" => q.session # Null /\ q.settings = "on"
              /\ q.session # Null /\ q.answer # "ticket" =>
                    q.failed \/ q.answer = "lost" \/ q.settings # "on"

IdpFound(q) ==
    q.route = "idplogout" =>
        /\ q.step \in {"reading", "arriving", "ready", "samlUser", "closeAll", "closing",
                       "dropping", "silent", "done"}
        /\ q.step # "done" => q.answer = "none"
        /\ q.step = "closeAll" => q.named \in User

LogoutFound(q) ==
    q.route = "logout" =>
        /\ q.step \in {"closeOwn", "ownList", "ownStore", "ownRemove", "owner",
                       "reading", "arriving", "ready", "done"}
        /\ q.step # "done" => q.answer = "none"
        /\ q.session # Null

Found(r) == PageFound(req[r]) /\ AcsFound(req[r]) /\ IdpFound(req[r]) /\ LogoutFound(req[r])

\* The sessions that request q has to its knowledge closed.
Gone(q, s) ==
    /\ ~q.failed
    /\ \/ /\ q.route = "idplogout" /\ s \in q.list
          /\ \/ q.step = "closing" /\ s \notin q.closing
             \/ q.step = "dropping"
             \/ q.answer = "redirect"
       \/ /\ q.route = "logout" /\ s = q.session
          /\ \/ q.step = "ownRemove" /\ s \notin q.closing
             \/ q.step \in {"owner", "reading", "arriving", "ready"}
             \/ q.answer \in {"page", "provider"}

Known(r) ==
    /\ req[r].session # Null => req[r].session \in used
    /\ req[r].list \subseteq used
    /\ req[r].closing \cup req[r].stray \subseteq used
    /\ \A s \in Session : Gone(req[r], s) => Closed(s)

IInv ==
    /\ TypeOK /\ OnlyUsed
    /\ \A r \in Request : History(r) /\ Found(r) /\ Known(r)

LEMMA InitIInv == Init => IInv
<1> SUFFICES ASSUME Init PROVE IInv
  OBVIOUS
<1>1. TypeOK
  <2>1. New("index", "idle") \in RequestState
    BY DEF Init, New, RequestState, NotActive, Route, Page, Step, Reply, Controller
  <2> QED BY <2>1 DEF Init, TypeOK
<1>2. ASSUME NEW r \in Request PROVE History(r) /\ Found(r) /\ Known(r)
  <2>1. /\ req[r].route = "index" /\ req[r].step = "idle" /\ req[r].barred = NotActive(user)
        /\ req[r].session = Null /\ req[r].list = {} /\ req[r].closing = {} /\ req[r].stray = {}
    BY DEF Init, New
  <2> QED BY <2>1 DEF History, Found, PageFound, AcsFound, IdpFound, LogoutFound, Page, Known, Gone
<1>3. OnlyUsed
  BY DEF Init, OnlyUsed
<1> QED BY <1>1, <1>2, <1>3 DEF IInv

-----------------------------------------------------------------------------
(* What a step leaves of a request it does not touch. *)

\* Sessions are opened once and closed for good.
Drift ==
    /\ used \subseteq used' /\ used' \subseteq Session
    /\ open' \in [Session -> User \cup {Null}]
    /\ lists' \in [User \cup {Null} -> SUBSET Session]
    /\ OnlyUsed'
    /\ \A s \in Session : Closed(s) => Closed(s)'

\* Nobody sends the HSET of a session.
Calm ==
    \A p \in Request : req'[p].opening => req[p].opening /\ req'[p].session = req[p].session

LEMMA NoDrift == ASSUME IInv, UNCHANGED sessions, Calm PROVE Drift
<1>1. \A s \in Session : Closed(s) => Closed(s)'
  BY DEF Calm, Closed, sessions
<1>2. OnlyUsed'
  BY DEF IInv, OnlyUsed, sessions
<1> QED BY <1>1, <1>2 DEF IInv, Drift, sessions, TypeOK

\* q is p after a step that sends no HDEL; it knows of no more closed sessions.
Kept(q, p) ==
    /\ q.route = p.route /\ q.barred = p.barred /\ q.session = p.session /\ q.list = p.list
    /\ q.opening => p.opening
    /\ q.closing \cup q.stray \subseteq p.closing \cup p.stray
Word(q, p) == \A s \in Session : Gone(q, s) => Gone(p, s)

LEMMA KeptKnown ==
  ASSUME Drift, NEW r \in Request, Known(r), Kept(req'[r], req[r]), Word(req'[r], req[r])
  PROVE  Known(r)'
<1>1. ASSUME NEW s \in Session, Gone(req'[r], s) PROVE Closed(s)'
  BY <1>1 DEF Known, Word, Drift
<1> QED BY <1>1 DEF Known, Kept, Drift

\* The request as it was, maybe with fewer users barred.
Untouched(r) ==
    /\ req'[r] \in RequestState
    /\ req'[r] = [req[r] EXCEPT !.barred = req'[r].barred]
    /\ req'[r].barred \subseteq req[r].barred
    /\ req'[r].barred \subseteq NotActive(user')

LEMMA UntouchedKeeps ==
  ASSUME IInv, NEW r \in Request, Drift, Untouched(r)
  PROVE  History(r)' /\ Found(r)' /\ Known(r)'
<1>0. req[r] \in RequestState /\ Found(r) /\ Known(r)
  BY DEF IInv, TypeOK
<1>1. /\ req'[r].route = req[r].route /\ req'[r].step = req[r].step
      /\ req'[r].settings = req[r].settings /\ req'[r].named = req[r].named
      /\ req'[r].session = req[r].session /\ req'[r].answer = req[r].answer
      /\ req'[r].failed = req[r].failed /\ req'[r].list = req[r].list
      /\ req'[r].closing = req[r].closing /\ req'[r].stray = req[r].stray
  BY <1>0 DEF Untouched, RequestState
<1>2. History(r)'
  BY DEF History, Untouched, NotActive
<1>3. Found(r)'
  BY <1>0, <1>1 DEF Found, PageFound, AcsFound, IdpFound, LogoutFound, Untouched
<1>4. \A s \in Session : Gone(req'[r], s) => Closed(s)'
  <2>1. \A s \in Session : Gone(req'[r], s) => Gone(req[r], s)
    BY <1>1 DEF Gone
  <2> QED BY <1>0, <2>1 DEF Known, Drift
<1>5. Known(r)'
  BY <1>0, <1>1, <1>4 DEF Known, Drift
<1> QED BY <1>2, <1>3, <1>5

\* A step of one request; the others have at most fewer users barred.
Only(r) == req' \in [Request -> RequestState] /\ \A p \in Request \ {r} : Untouched(p)

LEMMA OwnStep ==
  ASSUME IInv, NEW r \in Request, Only(r), Drift,
         req'[r].barred \subseteq NotActive(user)',
         user' \in [User -> Account], org' \in Settings,
         cached' \in [Controller -> Settings \cup {Null}], Found(r)', Known(r)'
  PROVE  IInv'
<1>1. TypeOK'
  BY DEF IInv, TypeOK, Drift, Only
<1>2. ASSUME NEW p \in Request, p # r PROVE History(p)' /\ Found(p)' /\ Known(p)'
  BY <1>2, UntouchedKeeps DEF Only
<1>3. History(r)'
  BY DEF History
<1> QED BY <1>1, <1>2, <1>3 DEF IInv, Drift

\* Nothing of the other requests changes, nor what this one came with.
Alone(r) ==
    /\ req' \in [Request -> RequestState] /\ \A p \in Request \ {r} : req'[p] = req[p]
    /\ req'[r].route = req[r].route /\ req'[r].barred = req[r].barred

LEMMA AloneStep ==
  ASSUME IInv, NEW r \in Request, Alone(r), Drift, UNCHANGED <<user, org>>,
         cached' \in [Controller -> Settings \cup {Null}], Found(r)', Known(r)'
  PROVE  IInv'
<1>1. ASSUME NEW p \in Request \ {r} PROVE Untouched(p)
  <2>1. req[p] \in RequestState /\ History(p) /\ req'[p] = req[p]
    BY DEF IInv, TypeOK, Alone
  <2> QED BY <2>1 DEF Untouched, RequestState, History
<1>2. Only(r)
  BY <1>1 DEF Only, Alone
<1>3. req'[r].barred \subseteq NotActive(user)'
  BY DEF IInv, History, Alone, NotActive
<1> QED BY <1>2, <1>3, OwnStep DEF IInv, TypeOK, Alone

\* What the record of the request is after a step that goes well.
Becomes(r, step, answer, settings, named) ==
    /\ Alone(r) /\ Kept(req'[r], req[r])
    /\ req'[r].step = step /\ req'[r].answer = answer
    /\ req'[r].settings = settings /\ req'[r].named = named
    /\ req'[r].failed = req[r].failed /\ req'[r].closing = req[r].closing

FirstOf(old, new) == IF old = "none" THEN new ELSE old

LEMMA AnsweredState ==
  ASSUME NEW q \in RequestState, NEW a \in Reply
  PROVE  /\ Answered(q, a) \in RequestState /\ Answered(q, a).step = "done"
         /\ Answered(q, a).answer = FirstOf(q.answer, a)
         /\ Answered(q, a).route = q.route /\ Answered(q, a).settings = q.settings
         /\ Answered(q, a).named = q.named /\ Answered(q, a).session = q.session
         /\ Answered(q, a).failed = q.failed /\ Answered(q, a).barred = q.barred
         /\ Answered(q, a).closing = q.closing /\ Kept(Answered(q, a), q)
<1> DEFINE o == Answered(q, a)
<1>1. /\ o \in RequestState /\ o.step = "done" /\ o.answer = FirstOf(q.answer, a)
  <2>1. "done" \in Step /\ FirstOf(q.answer, a) \in Reply
    BY DEF Step, FirstOf, RequestState
  <2>2. o = [q EXCEPT !.answer = FirstOf(q.answer, a), !.step = "done"]
    BY DEF Answered, FirstOf
  <2> QED BY <2>1, <2>2 DEF RequestState
<1>2. /\ o.route = q.route /\ o.settings = q.settings /\ o.named = q.named
      /\ o.session = q.session /\ o.failed = q.failed /\ o.barred = q.barred
  BY DEF Answered, RequestState
<1>3. /\ o.list = q.list /\ o.opening = q.opening /\ o.closing = q.closing /\ o.stray = q.stray
  BY DEF Answered, RequestState
<1> HIDE DEF o
<1>4. Kept(o, q)
  BY <1>2, <1>3 DEF Kept
<1> QED BY <1>1, <1>2, <1>3, <1>4 DEF o

\* The two most frequent ones.
LEMMA EndBecomes ==
  ASSUME IInv, NEW r \in Request, NEW a \in Reply, req' = Ends(r, a)
  PROVE  Becomes(r, "done", FirstOf(req[r].answer, a), req[r].settings, req[r].named)
<1>1. req \in [Request -> RequestState]
  BY DEF IInv, TypeOK
<1> QED BY <1>1, AnsweredState DEF Ends, Becomes, Alone

LEMMA GoBecomes ==
  ASSUME IInv, NEW r \in Request, NEW step \in Step, req' = Goes(r, step)
  PROVE  Becomes(r, step, req[r].answer, req[r].settings, req[r].named)
<1>1. req \in [Request -> RequestState]
  BY DEF IInv, TypeOK
<1> QED BY <1>1 DEF Goes, Becomes, Alone, RequestState, Kept

\* A step that touches nothing but its request.
LEMMA QuietStep ==
  ASSUME IInv, NEW r \in Request, Alone(r), UNCHANGED <<user, org, cached, sessions>>,
         Kept(req'[r], req[r]), Word(req'[r], req[r]), Found(r)'
  PROVE  IInv'
<1>1. Calm
  BY DEF Calm, Alone, Kept
<1>2. Drift
  BY <1>1, NoDrift DEF IInv
<1>3. Known(r)'
  BY <1>2, KeptKnown DEF IInv
<1> QED BY <1>2, <1>3, AloneStep DEF IInv, TypeOK

-----------------------------------------------------------------------------
(* The steps of a request that touch nothing else. *)

LEMMA ReadSettingsStep == ASSUME IInv, NEW r \in Request, ReadSettings(r) PROVE IInv'
<1>0. /\ req[r] \in RequestState /\ Found(r) /\ History(r)
      /\ UNCHANGED <<user, org, cached, sessions>>
      /\ req \in [Request -> RequestState]
      /\ req[r].named \in User \cup {Null} /\ req[r].barred \subseteq User
      /\ user \in [User -> Account] /\ org \in Settings
      /\ cached \in [Controller -> Settings \cup {Null}]
  BY DEF IInv, TypeOK, RequestState, ReadSettings
<1>1. ASSUME req' = [req EXCEPT ![r].settings = org, ![r].step = "arriving"]
      PROVE IInv'
  <2> DEFINE q == [req[r] EXCEPT !.settings = org, !.step = "arriving"]
  <2>0. q \in RequestState
    BY <1>0, <1>1 DEF RequestState, Step, Controller
  <2>1. Becomes(r, "arriving", req[r].answer, org, req[r].named)
    <3>1. req' = [req EXCEPT ![r] = q]
      BY <1>0, <1>1
    <3>2. /\ q.step = "arriving" /\ q.answer = req[r].answer
          /\ q.settings = org /\ q.named = req[r].named
          /\ q.failed = req[r].failed /\ q.closing = req[r].closing /\ Kept(q, req[r])
      BY <1>0 DEF RequestState, Kept
    <3> HIDE DEF q
    <3> QED BY <1>0, <2>0, <3>1, <3>2 DEF Becomes, Alone, Kept
  <2>2. Found(r)' /\ Word(req'[r], req[r])
    BY <1>0, <1>1, <2>1 DEF ReadSettings, Found, PageFound, AcsFound, IdpFound, LogoutFound,
       Becomes, Alone, FirstOf, Page, History, AccountOf, NotActive, At, Gone, Word, Kept
  <2> QED BY <1>0, <2>1, <2>2, QuietStep DEF Becomes
<1> QED BY <1>0, <1>1 DEF ReadSettings, Goes, Ends, At, AskSettings, Shown, AccountOf, Account,
           RequestState, Controller

LEMMA ShowPageStep == ASSUME IInv, NEW r \in Request, ShowPage(r) PROVE IInv'
<1>0. /\ req[r] \in RequestState /\ Found(r) /\ History(r)
      /\ UNCHANGED <<user, org, cached, sessions>>
      /\ req \in [Request -> RequestState]
      /\ req[r].named \in User \cup {Null} /\ req[r].barred \subseteq User
      /\ user \in [User -> Account] /\ org \in Settings
      /\ cached \in [Controller -> Settings \cup {Null}]
  BY DEF IInv, TypeOK, RequestState, ShowPage
<1>1. ASSUME NEW a \in {"page", "notFound", "error", "redirect", "disabled"},
              req' = Ends(r, a) PROVE IInv'
  <2>1. Becomes(r, "done", FirstOf(req[r].answer, a), req[r].settings, req[r].named)
    BY <1>1, EndBecomes DEF Reply
  <2>2. Found(r)' /\ Word(req'[r], req[r])
    BY <1>0, <1>1, <2>1 DEF ShowPage, Found, PageFound, AcsFound, IdpFound, LogoutFound, Becomes,
       Alone, FirstOf, Page, History, AccountOf, NotActive, At, Gone, Word, Kept
  <2> QED BY <1>0, <2>1, <2>2, QuietStep DEF Becomes
<1> QED BY <1>0, <1>1 DEF ShowPage, Goes, Ends, At, AskSettings, Shown, AccountOf, Account,
           RequestState, Controller

LEMMA ReadUserStep == ASSUME IInv, NEW r \in Request, ReadUser(r) PROVE IInv'
<1>0. /\ req[r] \in RequestState /\ Found(r) /\ History(r)
      /\ UNCHANGED <<user, org, cached, sessions>>
      /\ req \in [Request -> RequestState]
      /\ req[r].named \in User \cup {Null} /\ req[r].barred \subseteq User
      /\ user \in [User -> Account] /\ org \in Settings
      /\ cached \in [Controller -> Settings \cup {Null}]
  BY DEF IInv, TypeOK, RequestState, ReadUser
<1>1. ASSUME NEW a \in {"error", "inactive"}, req' = Ends(r, a) PROVE IInv'
  <2>1. Becomes(r, "done", FirstOf(req[r].answer, a), req[r].settings, req[r].named)
    BY <1>1, EndBecomes DEF Reply
  <2>2. Found(r)' /\ Word(req'[r], req[r])
    BY <1>0, <1>1, <2>1 DEF ReadUser, Found, PageFound, AcsFound, IdpFound, LogoutFound, Becomes,
       Alone, FirstOf, Page, History, AccountOf, NotActive, At, Gone, Word, Kept
  <2> QED BY <1>0, <2>1, <2>2, QuietStep DEF Becomes
<1>2. ASSUME AccountOf(r) = "active", req' = Goes(r, "again") PROVE IInv'
  <2>1. Becomes(r, "again", req[r].answer, req[r].settings, req[r].named)
    BY <1>2, GoBecomes DEF Step
  <2>2. Found(r)' /\ Word(req'[r], req[r])
    BY <1>0, <1>2, <2>1 DEF ReadUser, Found, PageFound, AcsFound, IdpFound, LogoutFound, Becomes,
       Alone, FirstOf, Page, History, AccountOf, NotActive, At, Gone, Word, Kept
  <2> QED BY <1>0, <2>1, <2>2, QuietStep DEF Becomes
<1> QED BY <1>0, <1>1, <1>2 DEF ReadUser, Goes, Ends, At, AskSettings, Shown, AccountOf, Account,
           RequestState, Controller

LEMMA ReadUserAgainStep == ASSUME IInv, NEW r \in Request, ReadUserAgain(r) PROVE IInv'
<1>0. /\ req[r] \in RequestState /\ Found(r) /\ History(r)
      /\ UNCHANGED <<user, org, cached, sessions>>
      /\ req \in [Request -> RequestState]
      /\ req[r].named \in User \cup {Null} /\ req[r].barred \subseteq User
      /\ user \in [User -> Account] /\ org \in Settings
      /\ cached \in [Controller -> Settings \cup {Null}]
  BY DEF IInv, TypeOK, RequestState, ReadUserAgain
<1>1. ASSUME req' = Ends(r, "error") PROVE IInv'
  <2>1. Becomes(r, "done", FirstOf(req[r].answer, "error"), req[r].settings, req[r].named)
    BY <1>1, EndBecomes DEF Reply
  <2>2. Found(r)' /\ Word(req'[r], req[r])
    BY <1>0, <1>1, <2>1 DEF ReadUserAgain, Found, PageFound, AcsFound, IdpFound, LogoutFound,
       Becomes, Alone, FirstOf, Page, History, AccountOf, NotActive, At, Gone, Word, Kept
  <2> QED BY <1>0, <2>1, <2>2, QuietStep DEF Becomes
<1>2. ASSUME req' = Goes(r, "open") PROVE IInv'
  <2>1. Becomes(r, "open", req[r].answer, req[r].settings, req[r].named)
    BY <1>2, GoBecomes DEF Step
  <2>2. Found(r)' /\ Word(req'[r], req[r])
    BY <1>0, <1>2, <2>1 DEF ReadUserAgain, Found, PageFound, AcsFound, IdpFound, LogoutFound,
       Becomes, Alone, FirstOf, Page, History, AccountOf, NotActive, At, Gone, Word, Kept
  <2> QED BY <1>0, <2>1, <2>2, QuietStep DEF Becomes
<1> QED BY <1>0, <1>1, <1>2 DEF ReadUserAgain, Goes, Ends, At, AskSettings, Shown, AccountOf,
           Account, RequestState, Controller

LEMMA StoreLastLoginStep == ASSUME IInv, NEW r \in Request, StoreLastLogin(r) PROVE IInv'
<1>0. /\ req[r] \in RequestState /\ Found(r) /\ History(r)
      /\ UNCHANGED <<user, org, cached, sessions>>
      /\ req \in [Request -> RequestState]
      /\ req[r].named \in User \cup {Null} /\ req[r].barred \subseteq User
      /\ user \in [User -> Account] /\ org \in Settings
      /\ cached \in [Controller -> Settings \cup {Null}]
  BY DEF IInv, TypeOK, RequestState, StoreLastLogin
<1>1. ASSUME req' = Ends(r, "ticket") PROVE IInv'
  <2>1. Becomes(r, "done", FirstOf(req[r].answer, "ticket"), req[r].settings, req[r].named)
    BY <1>1, EndBecomes DEF Reply
  <2>2. Found(r)' /\ Word(req'[r], req[r])
    BY <1>0, <1>1, <2>1 DEF StoreLastLogin, Found, PageFound, AcsFound, IdpFound, LogoutFound,
       Becomes, Alone, FirstOf, Page, History, AccountOf, NotActive, At, Gone, Word, Kept
  <2> QED BY <1>0, <2>1, <2>2, QuietStep DEF Becomes
<1> QED BY <1>0, <1>1 DEF StoreLastLogin, Goes, Ends, At, AskSettings, Shown, AccountOf, Account,
           RequestState, Controller

LEMMA ParseLogoutRequestStep == ASSUME IInv, NEW r \in Request, ParseLogoutRequest(r) PROVE IInv'
<1>0. /\ req[r] \in RequestState /\ Found(r) /\ History(r)
      /\ UNCHANGED <<user, org, cached, sessions>>
      /\ req \in [Request -> RequestState]
      /\ req[r].named \in User \cup {Null} /\ req[r].barred \subseteq User
      /\ user \in [User -> Account] /\ org \in Settings
      /\ cached \in [Controller -> Settings \cup {Null}]
  BY DEF IInv, TypeOK, RequestState, ParseLogoutRequest
<1>1. ASSUME req' = Ends(r, "error") PROVE IInv'
  <2>1. Becomes(r, "done", FirstOf(req[r].answer, "error"), req[r].settings, req[r].named)
    BY <1>1, EndBecomes DEF Reply
  <2>2. Found(r)' /\ Word(req'[r], req[r])
    BY <1>0, <1>1, <2>1 DEF ParseLogoutRequest, Found, PageFound, AcsFound, IdpFound, LogoutFound,
       Becomes, Alone, FirstOf, Page, History, AccountOf, NotActive, At, Gone, Word, Kept
  <2> QED BY <1>0, <2>1, <2>2, QuietStep DEF Becomes
<1>2. ASSUME req' = Goes(r, "silent") PROVE IInv'
  <2>1. Becomes(r, "silent", req[r].answer, req[r].settings, req[r].named)
    BY <1>2, GoBecomes DEF Step
  <2>2. Found(r)' /\ Word(req'[r], req[r])
    BY <1>0, <1>2, <2>1 DEF ParseLogoutRequest, Found, PageFound, AcsFound, IdpFound, LogoutFound,
       Becomes, Alone, FirstOf, Page, History, AccountOf, NotActive, At, Gone, Word, Kept
  <2> QED BY <1>0, <2>1, <2>2, QuietStep DEF Becomes
<1>3. ASSUME NEW u \in User \cup {Null},
              req' = [req EXCEPT ![r].named = u, ![r].step = "samlUser"]
      PROVE IInv'
  <2> DEFINE q == [req[r] EXCEPT !.named = u, !.step = "samlUser"]
  <2>0. q \in RequestState
    BY <1>0, <1>3 DEF RequestState, Step, Controller
  <2>1. Becomes(r, "samlUser", req[r].answer, req[r].settings, u)
    <3>1. req' = [req EXCEPT ![r] = q]
      BY <1>0, <1>3
    <3>2. /\ q.step = "samlUser" /\ q.answer = req[r].answer
          /\ q.settings = req[r].settings /\ q.named = u
          /\ q.failed = req[r].failed /\ q.closing = req[r].closing /\ Kept(q, req[r])
      BY <1>0 DEF RequestState, Kept
    <3> HIDE DEF q
    <3> QED BY <1>0, <2>0, <3>1, <3>2 DEF Becomes, Alone, Kept
  <2>2. Found(r)' /\ Word(req'[r], req[r])
    BY <1>0, <1>3, <2>1 DEF ParseLogoutRequest, Found, PageFound, AcsFound, IdpFound, LogoutFound,
       Becomes, Alone, FirstOf, Page, History, AccountOf, NotActive, At, Gone, Word, Kept
  <2> QED BY <1>0, <2>1, <2>2, QuietStep DEF Becomes
<1> QED BY <1>0, <1>1, <1>2, <1>3 DEF ParseLogoutRequest, Goes, Ends, At, AskSettings, Shown,
           AccountOf, Account, RequestState, Controller

LEMMA FindUserStep == ASSUME IInv, NEW r \in Request, FindUser(r) PROVE IInv'
<1>0. /\ req[r] \in RequestState /\ Found(r) /\ History(r)
      /\ UNCHANGED <<user, org, cached, sessions>>
      /\ req \in [Request -> RequestState]
      /\ req[r].named \in User \cup {Null} /\ req[r].barred \subseteq User
      /\ user \in [User -> Account] /\ org \in Settings
      /\ cached \in [Controller -> Settings \cup {Null}]
  BY DEF IInv, TypeOK, RequestState, FindUser
<1>1. ASSUME req' = Ends(r, "error") PROVE IInv'
  <2>1. Becomes(r, "done", FirstOf(req[r].answer, "error"), req[r].settings, req[r].named)
    BY <1>1, EndBecomes DEF Reply
  <2>2. Found(r)' /\ Word(req'[r], req[r])
    BY <1>0, <1>1, <2>1 DEF FindUser, Found, PageFound, AcsFound, IdpFound, LogoutFound, Becomes,
       Alone, FirstOf, Page, History, AccountOf, NotActive, At, Gone, Word, Kept
  <2> QED BY <1>0, <2>1, <2>2, QuietStep DEF Becomes
<1>2. ASSUME AccountOf(r) = "active", req' = Goes(r, "closeAll") PROVE IInv'
  <2>1. Becomes(r, "closeAll", req[r].answer, req[r].settings, req[r].named)
    BY <1>2, GoBecomes DEF Step
  <2>2. Found(r)' /\ Word(req'[r], req[r])
    BY <1>0, <1>2, <2>1 DEF FindUser, Found, PageFound, AcsFound, IdpFound, LogoutFound, Becomes,
       Alone, FirstOf, Page, History, AccountOf, NotActive, At, Gone, Word, Kept
  <2> QED BY <1>0, <2>1, <2>2, QuietStep DEF Becomes
<1> QED BY <1>0, <1>1, <1>2 DEF FindUser, Goes, Ends, At, AskSettings, Shown, AccountOf, Account,
           RequestState, Controller

LEMMA EndLogoutStep == ASSUME IInv, NEW r \in Request, EndLogout(r) PROVE IInv'
<1>0. /\ req[r] \in RequestState /\ Found(r) /\ History(r)
      /\ UNCHANGED <<user, org, cached, sessions>>
      /\ req \in [Request -> RequestState]
      /\ req[r].named \in User \cup {Null} /\ req[r].barred \subseteq User
      /\ user \in [User -> Account] /\ org \in Settings
      /\ cached \in [Controller -> Settings \cup {Null}]
  BY DEF IInv, TypeOK, RequestState, EndLogout
<1>1. ASSUME NEW a \in {"provider", "page"}, req' = Ends(r, a) PROVE IInv'
  <2>1. Becomes(r, "done", FirstOf(req[r].answer, a), req[r].settings, req[r].named)
    BY <1>1, EndBecomes DEF Reply
  <2>2. Found(r)' /\ Word(req'[r], req[r])
    BY <1>0, <1>1, <2>1 DEF EndLogout, Found, PageFound, AcsFound, IdpFound, LogoutFound, Becomes,
       Alone, FirstOf, Page, History, AccountOf, NotActive, At, Gone, Word, Kept
  <2> QED BY <1>0, <2>1, <2>2, QuietStep DEF Becomes
<1> QED BY <1>0, <1>1 DEF EndLogout, Goes, Ends, At, AskSettings, Shown, AccountOf, Account,
           RequestState, Controller

LEMMA ReadOwnerStep == ASSUME IInv, NEW r \in Request, ReadOwner(r) PROVE IInv'
<1>0. /\ req[r] \in RequestState /\ Found(r) /\ History(r)
      /\ UNCHANGED <<user, org, cached, sessions>>
      /\ req \in [Request -> RequestState]
      /\ req[r].named \in User \cup {Null} /\ req[r].barred \subseteq User
      /\ user \in [User -> Account] /\ org \in Settings
      /\ cached \in [Controller -> Settings \cup {Null}]
  BY DEF IInv, TypeOK, RequestState, ReadOwner
<1>1. ASSUME NEW n \in User \cup {Null}, NEW p \in {"reading", "ready"},
              req' = [req EXCEPT ![r].named = n, ![r].settings = cached["secure"], ![r].step = p]
      PROVE IInv'
  <2> DEFINE q == [req[r] EXCEPT !.named = n, !.settings = cached["secure"], !.step = p]
  <2>0. q \in RequestState
    BY <1>0, <1>1 DEF RequestState, Step, Controller
  <2>1. Becomes(r, p, req[r].answer, cached["secure"], n)
    <3>1. req' = [req EXCEPT ![r] = q]
      BY <1>0, <1>1
    <3>2. /\ q.step = p /\ q.answer = req[r].answer /\ q.settings = cached["secure"] /\ q.named = n
          /\ q.failed = req[r].failed /\ q.closing = req[r].closing /\ Kept(q, req[r])
      BY <1>0 DEF RequestState, Kept
    <3> HIDE DEF q
    <3> QED BY <1>0, <2>0, <3>1, <3>2 DEF Becomes, Alone, Kept
  <2>2. Found(r)' /\ Word(req'[r], req[r])
    BY <1>0, <1>1, <2>1 DEF ReadOwner, Found, PageFound, AcsFound, IdpFound, LogoutFound, Becomes,
       Alone, FirstOf, Page, History, AccountOf, NotActive, At, Gone, Word, Kept
  <2> QED BY <1>0, <2>1, <2>2, QuietStep DEF Becomes
<1> QED BY <1>0, <1>1 DEF ReadOwner, Goes, Ends, At, AskSettings, Shown, AccountOf, Account,
           RequestState, Controller

-----------------------------------------------------------------------------
(* The settings. *)

LEMMA StoreSettingsStep == ASSUME IInv, NEW r \in Request, StoreSettings(r) PROVE IInv'
<1>0. /\ req \in [Request -> RequestState] /\ Found(r) /\ Known(r) /\ req' = Goes(r, "ready")
      /\ req[r].step = "arriving" /\ UNCHANGED <<user, org, sessions>>
  BY DEF IInv, TypeOK, StoreSettings, At
<1>1. Becomes(r, "ready", req[r].answer, req[r].settings, req[r].named)
  BY <1>0, GoBecomes DEF Step
<1>2. cached' \in [Controller -> Settings \cup {Null}]
  BY <1>0 DEF IInv, TypeOK, StoreSettings, RequestState, Controller
<1>3. Found(r)' /\ Word(req'[r], req[r])
  BY <1>0, <1>1 DEF Found, PageFound, AcsFound, IdpFound, LogoutFound, Becomes, Alone, Page,
     Gone, Word, Kept
<1>4. Drift
  <2>1. Calm
    BY <1>1 DEF Calm, Becomes, Alone, Kept
  <2> QED BY <1>0, <2>1, NoDrift
<1>5. Known(r)'
  BY <1>0, <1>1, <1>3, <1>4, KeptKnown DEF Becomes
<1> QED BY <1>0, <1>1, <1>2, <1>3, <1>4, <1>5, AloneStep DEF Becomes

LEMMA WriteSettingsStep == ASSUME IInv, NEW s \in Settings, WriteSettings(s) PROVE IInv'
<1>1. UNCHANGED <<user, cached, sessions, req>> /\ org' \in Settings
  BY DEF WriteSettings
<1>2. TypeOK' /\ OnlyUsed'
  BY <1>1 DEF IInv, TypeOK, OnlyUsed, sessions
<1>3. ASSUME NEW r \in Request PROVE History(r)' /\ Found(r)' /\ Known(r)'
  BY <1>1 DEF IInv, History, Found, PageFound, AcsFound, IdpFound, LogoutFound, Known, Closed,
     sessions, NotActive
<1> QED BY <1>2, <1>3 DEF IInv

-----------------------------------------------------------------------------
(* A request comes. *)

LEMMA NewState ==
  ASSUME IInv, NEW route \in Route, NEW step \in Step
  PROVE  New(route, step) \in RequestState
  BY DEF IInv, TypeOK, New, RequestState, NotActive, Reply, Controller

LEMMA NewStep ==
  ASSUME IInv, NEW r \in Request, NEW q \in RequestState, req' = [req EXCEPT ![r] = q],
         q.barred = NotActive(user), ~q.opening,
         q.session # Null => q.session \in used, q.list = {}, q.closing = {}, q.stray = {},
         \A s \in Session : ~Gone(q, s),
         UNCHANGED <<user, org, cached, sessions>>, Found(r)'
  PROVE  IInv'
<1>1. ASSUME NEW p \in Request \ {r} PROVE Untouched(p) /\ req'[p] = req[p]
  <2>1. req[p] \in RequestState /\ History(p) /\ req'[p] = req[p]
    BY DEF IInv, TypeOK
  <2> QED BY <2>1 DEF Untouched, RequestState, History
<1>2. Only(r) /\ req'[r] = q
  BY <1>1 DEF Only, IInv, TypeOK
<1>3. Drift
  <2>1. Calm
    BY <1>1, <1>2 DEF Calm
  <2> QED BY <2>1, NoDrift
<1>4. Known(r)'
  BY <1>2 DEF Known, sessions
<1> QED BY <1>2, <1>3, <1>4, OwnStep DEF IInv, TypeOK, NotActive

LEMMA ComeStep ==
  ASSUME IInv, NEW r \in Request, NEW route \in Route, Come(r, route) PROVE IInv'
<1> DEFINE step == AskSettings("saml")
           q == New(route, step)
<1>1. step \in {"reading", "ready"} /\ route # "logout" /\ UNCHANGED <<user, org, cached, sessions>>
  BY DEF Come, AskSettings
<1>2. q \in RequestState
  BY <1>1, NewState DEF Step
<1>3. /\ q.route = route /\ q.step = step /\ q.answer = "none" /\ q.session = Null
      /\ q.barred = NotActive(user) /\ ~q.opening
      /\ q.list = {} /\ q.closing = {} /\ q.stray = {}
  BY DEF New
<1>4. req' = [req EXCEPT ![r] = q] /\ req'[r] = q
  BY DEF Come, IInv, TypeOK
<1> HIDE DEF q, step
<1>5. Found(r)' /\ \A s \in Session : ~Gone(q, s)
  BY <1>1, <1>3, <1>4 DEF Found, PageFound, AcsFound, IdpFound, LogoutFound, Page, Gone
<1> QED BY <1>1, <1>2, <1>3, <1>4, <1>5, NewStep

LEMMA ComeToLogOutStep ==
  ASSUME IInv, NEW r \in Request, NEW s \in Session, ComeToLogOut(r, s) PROVE IInv'
<1> DEFINE new == New("logout", "closeOwn")
           q == [new EXCEPT !.session = s, !.named = open[s]]
<1>1. new \in RequestState
  BY NewState DEF Route, Step
<1>2. open[s] \in User /\ s \in used /\ UNCHANGED <<user, org, cached, sessions>>
  BY DEF ComeToLogOut, IInv, TypeOK, OnlyUsed
<1>3. /\ new.route = "logout" /\ new.step = "closeOwn" /\ new.answer = "none"
      /\ new.barred = NotActive(user) /\ new.opening = FALSE
      /\ new.list = {} /\ new.closing = {} /\ new.stray = {}
  BY DEF New
<1>4. req' = [req EXCEPT ![r] = q]
  BY DEF ComeToLogOut, IInv, TypeOK
<1> HIDE DEF new
<1>5. /\ q \in RequestState /\ q.route = "logout" /\ q.step = "closeOwn" /\ q.answer = "none"
      /\ q.barred = NotActive(user) /\ q.opening = FALSE /\ q.session = s
      /\ q.list = {} /\ q.closing = {} /\ q.stray = {}
  BY <1>1, <1>2, <1>3 DEF RequestState
<1> HIDE DEF q
<1>6. req'[r] = q
  BY <1>4 DEF IInv, TypeOK
<1>7. Found(r)' /\ \A t \in Session : ~Gone(q, t)
  BY <1>5, <1>6, NullAssumption DEF Found, PageFound, AcsFound, IdpFound, LogoutFound, Page, Gone
<1> QED BY <1>2, <1>4, <1>5, <1>7, NewStep

-----------------------------------------------------------------------------
(* Accounts are written. *)

LEMMA WriteAccountStep ==
  ASSUME IInv, NEW u \in User, NEW a \in Account, WriteAccount(u, a) PROVE IInv'
<1>0. /\ user' = [user EXCEPT ![u] = a] /\ req \in [Request -> RequestState]
      /\ req' = [p \in Request |-> [req[p] EXCEPT !.barred = @ \cap NotActive(user')]]
      /\ UNCHANGED <<org, cached, sessions>>
  BY DEF WriteAccount, Written, IInv, TypeOK
<1>1. ASSUME NEW p \in Request PROVE Untouched(p)
  <2>1. req[p] \in RequestState /\ req'[p] = [req[p] EXCEPT !.barred = @ \cap NotActive(user')]
    BY <1>0
  <2> QED BY <2>1 DEF Untouched, RequestState
<1>2. TypeOK'
  BY <1>0, <1>1 DEF IInv, TypeOK, Untouched, sessions
<1>3. Drift
  <2>1. Calm
    BY <1>0 DEF Calm, RequestState
  <2> QED BY <1>0, <2>1, NoDrift
<1> QED BY <1>1, <1>2, <1>3, UntouchedKeeps DEF IInv, Drift

LEMMA BackendAnswersStep == ASSUME IInv, NEW r \in Request, BackendAnswers(r) PROVE IInv'
<1>0. /\ req \in [Request -> RequestState] /\ Found(r) /\ History(r)
      /\ req[r].step = "backend" /\ UNCHANGED <<org, cached, sessions>>
  BY DEF IInv, TypeOK, BackendAnswers, SendFails, At
<1>1. ASSUME NEW u \in User, NEW a \in {"inactive", "active"},
             Written([user EXCEPT ![u] = a], [req EXCEPT ![r].named = u, ![r].step = "user"])
      PROVE  IInv'
  <2> DEFINE next == [req EXCEPT ![r].named = u, ![r].step = "user"]
             q == [req[r] EXCEPT !.named = u, !.step = "user"]
  <2>1. /\ user' = [user EXCEPT ![u] = a] /\ user' \in [User -> Account]
        /\ req' = [p \in Request |-> [next[p] EXCEPT !.barred = @ \cap NotActive(user')]]
    BY <1>1 DEF Written, IInv, TypeOK, Account
  <2>2. ASSUME NEW p \in Request \ {r} PROVE Untouched(p)
    <3>1. req[p] \in RequestState /\ req'[p] = [req[p] EXCEPT !.barred = @ \cap NotActive(user')]
      BY <1>0, <2>1
    <3> QED BY <3>1 DEF Untouched, RequestState
  <2>3. req'[r] = [q EXCEPT !.barred = @ \cap NotActive(user')]
    <3>1. next[r] = q
      BY <1>0
    <3> QED BY <2>1, <3>1
  <2>4. /\ q \in RequestState /\ q.route = req[r].route /\ q.step = "user"
        /\ q.answer = req[r].answer
        /\ q.settings = req[r].settings /\ q.session = req[r].session /\ q.failed = req[r].failed
        /\ q.named = u /\ q.list = req[r].list /\ q.opening = req[r].opening
        /\ q.closing = req[r].closing /\ q.stray = req[r].stray
    <3>1. "user" \in Step
      BY DEF Step
    <3> QED BY <1>0, <3>1 DEF RequestState
  <2> HIDE DEF q
  <2>5. /\ req'[r] \in RequestState /\ req'[r].route = req[r].route /\ req'[r].step = "user"
        /\ req'[r].answer = req[r].answer /\ req'[r].settings = req[r].settings
        /\ req'[r].session = req[r].session /\ req'[r].list = req[r].list
        /\ req'[r].opening => req[r].opening
        /\ req'[r].closing \cup req'[r].stray \subseteq req[r].closing \cup req[r].stray
        /\ req'[r].barred \subseteq NotActive(user')
    BY <2>3, <2>4 DEF RequestState
  <2>6. Only(r)
    <3>1. \A p \in Request : req'[p] \in RequestState
      BY <2>2, <2>5 DEF Untouched
    <3> QED BY <2>1, <2>2, <3>1 DEF Only
  <2>7. Found(r)' /\ req[r].route = "acs"
    BY <1>0, <2>5 DEF Found, PageFound, AcsFound, IdpFound, LogoutFound, Page, RequestState, Route
  <2>8. Drift
    <3>1. \A p \in Request \ {r} :
            req'[p].opening = req[p].opening /\ req'[p].session = req[p].session
      BY <1>0, <2>2 DEF Untouched, RequestState
    <3>2. Calm
      BY <2>5, <3>1 DEF Calm
    <3> QED BY <1>0, <3>2, NoDrift
  <2>9. Known(r)'
    BY <1>0, <2>5, <2>7, <2>8 DEF IInv, Known, Gone, Drift
  <2> QED BY <1>0, <2>1, <2>5, <2>6, <2>7, <2>8, <2>9, OwnStep DEF IInv, TypeOK, NotActive
<1>2. ASSUME req' = Goes(r, "user"), UNCHANGED user PROVE IInv'
  <2>1. Becomes(r, "user", req[r].answer, req[r].settings, req[r].named)
    BY <1>2, GoBecomes DEF Step
  <2>2. Found(r)' /\ Word(req'[r], req[r])
    BY <1>0, <2>1 DEF Found, PageFound, AcsFound, IdpFound, LogoutFound, Becomes, Alone, Page,
       Gone, Word, Kept, RequestState, Route
  <2> QED BY <1>0, <1>2, <2>1, <2>2, QuietStep DEF Becomes
<1>3. ASSUME req' = Ends(r, "error"), UNCHANGED user PROVE IInv'
  <2>1. Becomes(r, "done", FirstOf(req[r].answer, "error"), req[r].settings, req[r].named)
    BY <1>3, EndBecomes DEF Reply
  <2>2. Found(r)' /\ Word(req'[r], req[r])
    BY <1>0, <2>1 DEF Found, PageFound, AcsFound, IdpFound, LogoutFound, Becomes, Alone, Page,
       FirstOf, Gone, Word, Kept, RequestState, Route
  <2> QED BY <1>0, <1>3, <2>1, <2>2, QuietStep DEF Becomes
<1> QED BY <1>1, <1>2, <1>3 DEF BackendAnswers, SendFails

-----------------------------------------------------------------------------
(* Logins. *)

LEMMA ParseLoginResponseStep == ASSUME IInv, NEW r \in Request, ParseLoginResponse(r) PROVE IInv'
<1> DEFINE a == IF req[r].settings # "on" THEN "notFound" ELSE "none"
           q == [req[r] EXCEPT !.answer = IF @ = "none" /\ req[r].settings # "on"
                                          THEN "notFound" ELSE @]
<1>0. /\ req \in [Request -> RequestState] /\ req[r] \in RequestState /\ Found(r)
      /\ req[r].step = "ready" /\ req[r].route = "acs" /\ UNCHANGED <<user, org, cached, sessions>>
  BY DEF IInv, TypeOK, ParseLoginResponse, At
<1>1. /\ q \in RequestState /\ q.route = req[r].route /\ q.step = "ready" /\ q.answer = a
      /\ q.settings = req[r].settings /\ q.named = req[r].named /\ q.session = Null
      /\ q.failed = req[r].failed /\ Kept(q, req[r])
  BY <1>0 DEF RequestState, Reply, Found, AcsFound, Kept
<1>2. \/ \E e \in {"error", "redirect"} : req' = [req EXCEPT ![r] = Answered(q, e)]
      \/ req' = [req EXCEPT ![r] = [q EXCEPT !.step = "backend"]]
  BY DEF ParseLoginResponse
<1> HIDE DEF q
<1>3. ASSUME NEW e \in {"error", "redirect"}, req' = [req EXCEPT ![r] = Answered(q, e)]
      PROVE  IInv'
  <2>1. /\ Answered(q, e) \in RequestState /\ Answered(q, e).step = "done"
        /\ Answered(q, e).answer = FirstOf(a, e) /\ Answered(q, e).route = "acs"
        /\ Answered(q, e).session = Null /\ Kept(Answered(q, e), req[r])
    BY <1>0, <1>1, AnsweredState DEF Reply, Kept
  <2>2. Alone(r) /\ req'[r] = Answered(q, e)
    BY <1>0, <1>3, <2>1 DEF Alone, Kept
  <2>3. Found(r)' /\ Word(req'[r], req[r])
    BY <2>1, <2>2 DEF Found, PageFound, AcsFound, IdpFound, LogoutFound, Page, FirstOf, Gone, Word
  <2> QED BY <1>0, <2>1, <2>2, <2>3, QuietStep
<1>4. ASSUME req' = [req EXCEPT ![r] = [q EXCEPT !.step = "backend"]] PROVE IInv'
  <2> DEFINE p == [q EXCEPT !.step = "backend"]
  <2>1. /\ p \in RequestState /\ p.step = "backend" /\ p.answer = a /\ p.route = "acs"
        /\ p.session = Null /\ p.settings = req[r].settings /\ Kept(p, req[r])
    BY <1>0, <1>1 DEF RequestState, Step, Kept
  <2>2. Alone(r) /\ req'[r] = p
    BY <1>0, <1>4, <2>1 DEF Alone, Kept
  <2> HIDE DEF p
  <2>3. Found(r)' /\ Word(req'[r], req[r])
    BY <2>1, <2>2 DEF Found, PageFound, AcsFound, IdpFound, LogoutFound, Page, Gone, Word
  <2> QED BY <1>0, <2>1, <2>2, <2>3, QuietStep
<1> QED BY <1>2, <1>3, <1>4

\* The route is known from the step.
LEMMA RouteOf ==
  ASSUME NEW q \in RequestState, PageFound(q), AcsFound(q), IdpFound(q), LogoutFound(q)
  PROVE  /\ q.step \in {"open", "adding", "lastLogin"} => q.route = "acs"
         /\ q.step \in {"closeAll", "closing", "dropping"} => q.route = "idplogout"
         /\ q.step \in {"closeOwn", "ownList", "ownStore", "ownRemove", "owner"} =>
                q.route = "logout"
  BY DEF PageFound, AcsFound, IdpFound, LogoutFound, Page, RequestState, Route

\* What holds of a request that is at a step.
LEMMA AtStep ==
  ASSUME IInv, NEW r \in Request
  PROVE  /\ req \in [Request -> RequestState] /\ req[r] \in RequestState
         /\ Found(r) /\ Known(r) /\ History(r)
         /\ cached \in [Controller -> Settings \cup {Null}] /\ used \subseteq Session
         /\ open \in [Session -> User \cup {Null}]
         /\ lists \in [User \cup {Null} -> SUBSET Session]
         /\ req[r].step \in {"open", "adding", "lastLogin"} => req[r].route = "acs"
         /\ req[r].step \in {"closeAll", "closing", "dropping"} => req[r].route = "idplogout"
         /\ req[r].step \in {"closeOwn", "ownList", "ownStore", "ownRemove", "owner"} =>
                req[r].route = "logout"
<1>1. req \in [Request -> RequestState] /\ req[r] \in RequestState /\ Found(r) /\ Known(r)
  BY DEF IInv, TypeOK
<1> QED BY <1>1, RouteOf DEF IInv, TypeOK, Found

LEMMA OpenSessionStep == ASSUME IInv, NEW r \in Request, OpenSession(r) PROVE IInv'
<1>0. /\ req \in [Request -> RequestState] /\ req[r] \in RequestState /\ Found(r) /\ Known(r)
      /\ req[r].step = "open" /\ req[r].route = "acs"
      /\ UNCHANGED <<user, org, cached, open, lists>>
      /\ cached \in [Controller -> Settings \cup {Null}] /\ used \subseteq Session
      /\ lists \in [User \cup {Null} -> SUBSET Session]
  BY AtStep DEF OpenSession, At
<1>1. req[r].named \in User \ req[r].barred
  BY <1>0 DEF Found, AcsFound
<1>2. PICK s \in Session \ used :
        /\ used' = used \cup {s}
        /\ req' = [req EXCEPT ![r].session = s, ![r].key = req[r].named, ![r].step = "adding",
                              ![r].list = lists[req[r].named] \cup {s},
                              ![r].opening = TRUE, ![r].storing = TRUE]
  BY DEF OpenSession
<1> DEFINE l == lists[req[r].named] \cup {s}
           q == [req[r] EXCEPT !.session = s, !.key = req[r].named, !.step = "adding",
                               !.list = l, !.opening = TRUE, !.storing = TRUE]
<1>3. l \subseteq used' /\ l \subseteq Session
  BY <1>0, <1>1, <1>2 DEF IInv, OnlyUsed
<1>4. req' = [req EXCEPT ![r] = q]
  BY <1>0, <1>2
<1>5. /\ q \in RequestState /\ q.route = "acs" /\ q.step = "adding" /\ q.session = s
      /\ q.answer = req[r].answer /\ q.settings = req[r].settings /\ q.named = req[r].named
      /\ q.barred = req[r].barred /\ q.list = l
      /\ q.closing = req[r].closing /\ q.stray = req[r].stray
  <2>1. "adding" \in Step
    BY DEF Step
  <2> HIDE DEF l
  <2> QED BY <1>0, <1>1, <1>2, <1>3, <2>1 DEF RequestState
<1> HIDE DEF q
<1>6. Alone(r) /\ req'[r] = q
  BY <1>0, <1>4, <1>5 DEF Alone
<1>7. Found(r)'
  BY <1>0, <1>1, <1>5, <1>6, NullAssumption DEF Found, PageFound, AcsFound, IdpFound, LogoutFound,
     Page
<1>8. ASSUME NEW t \in Session, Closed(t) PROVE Closed(t)'
  <2>1. t # s /\ t \in used' /\ open'[t] = Null
    BY <1>0, <1>2, <1>8 DEF Closed
  <2>2. ASSUME NEW p \in Request PROVE ~(req'[p].opening /\ req'[p].session = t)
    BY <1>5, <1>6, <1>8, <2>1 DEF Closed, Alone
  <2> QED BY <2>1, <2>2 DEF Closed
<1>9. Drift
  BY <1>0, <1>2, <1>8 DEF Drift, IInv, TypeOK, OnlyUsed
<1>10. Known(r)'
  BY <1>0, <1>2, <1>3, <1>5, <1>6 DEF Known, Gone
<1> QED BY <1>0, <1>6, <1>7, <1>9, <1>10, AloneStep

LEMMA SessionAddedStep == ASSUME IInv, NEW r \in Request, SessionAdded(r) PROVE IInv'
<1>0. /\ req[r] \in RequestState /\ Found(r) /\ req' = Goes(r, "lastLogin")
      /\ req[r].step = "adding" /\ req[r].route = "acs"
      /\ UNCHANGED <<user, org, cached, sessions>>
  BY AtStep DEF SessionAdded, At
<1>1. Becomes(r, "lastLogin", req[r].answer, req[r].settings, req[r].named)
  BY <1>0, GoBecomes DEF Step
<1>2. Found(r)' /\ Word(req'[r], req[r])
  BY <1>0, <1>1 DEF Found, PageFound, AcsFound, IdpFound, LogoutFound, Page, Becomes, Alone,
     Kept, Gone, Word
<1> QED BY <1>0, <1>1, <1>2, QuietStep DEF Becomes

-----------------------------------------------------------------------------
(* Logouts. *)

LEMMA CloseAllStep == ASSUME IInv, NEW r \in Request, CloseAll(r) PROVE IInv'
<1> DEFINE l == lists[req[r].named]
           q == [req[r] EXCEPT !.key = req[r].named, !.list = l, !.closing = l, !.step = "closing"]
<1>0. /\ req \in [Request -> RequestState] /\ req[r] \in RequestState /\ Found(r) /\ Known(r)
      /\ req[r].step = "closeAll" /\ req[r].route = "idplogout"
      /\ UNCHANGED <<user, org, cached, sessions>>
      /\ cached \in [Controller -> Settings \cup {Null}]
      /\ lists \in [User \cup {Null} -> SUBSET Session] /\ used \subseteq Session
  BY AtStep DEF CloseAll, At
<1>1. req[r].named \in User /\ req[r].answer = "none"
  BY <1>0 DEF Found, IdpFound
<1>2. l \subseteq used
  BY <1>1 DEF IInv, OnlyUsed
<1>3. req' = [req EXCEPT ![r] = q]
  BY <1>0 DEF CloseAll
<1>4. /\ q \in RequestState /\ q.route = "idplogout" /\ q.step = "closing" /\ q.answer = "none"
      /\ q.barred = req[r].barred /\ q.session = req[r].session /\ q.opening = req[r].opening
      /\ q.list = l /\ q.closing = l /\ q.stray = req[r].stray
  <2>1. "closing" \in Step
    BY DEF Step
  <2> HIDE DEF l
  <2> QED BY <1>0, <1>1, <1>2, <2>1 DEF RequestState
<1> HIDE DEF q
<1>5. Alone(r) /\ req'[r] = q
  BY <1>0, <1>3, <1>4 DEF Alone
<1>6. Found(r)'
  BY <1>4, <1>5 DEF Found, PageFound, AcsFound, IdpFound, LogoutFound, Page
<1>7. Drift
  <2>1. Calm
    BY <1>4, <1>5 DEF Calm, Alone
  <2> QED BY <1>0, <2>1, NoDrift
<1>8. Known(r)'
  BY <1>0, <1>2, <1>4, <1>5 DEF Known, Gone, sessions
<1> QED BY <1>0, <1>5, <1>6, <1>7, <1>8, AloneStep

LEMMA AllClosedStep == ASSUME IInv, NEW r \in Request, AllClosed(r) PROVE IInv'
<1> DEFINE q == [req[r] EXCEPT !.storing = TRUE, !.step = "dropping"]
<1>0. /\ req \in [Request -> RequestState] /\ req[r] \in RequestState /\ Found(r)
      /\ req[r].step = "closing" /\ req[r].route = "idplogout" /\ req[r].closing = {}
      /\ UNCHANGED <<user, org, cached, sessions>>
  BY AtStep DEF AllClosed, At, Settled
<1>1. req' = [req EXCEPT ![r] = q]
  BY <1>0 DEF AllClosed
<1>2. /\ q \in RequestState /\ q.route = "idplogout" /\ q.step = "dropping"
      /\ q.answer = req[r].answer /\ q.failed = req[r].failed
      /\ q.barred = req[r].barred /\ q.session = req[r].session /\ q.opening = req[r].opening
      /\ q.list = req[r].list /\ q.closing = req[r].closing /\ q.stray = req[r].stray
  <2>1. "dropping" \in Step
    BY DEF Step
  <2> QED BY <1>0, <2>1 DEF RequestState
<1> HIDE DEF q
<1>3. Alone(r) /\ req'[r] = q /\ Kept(q, req[r])
  BY <1>0, <1>1, <1>2 DEF Alone, Kept
<1>4. Found(r)' /\ Word(req'[r], req[r])
  BY <1>0, <1>2, <1>3 DEF Found, PageFound, AcsFound, IdpFound, LogoutFound, Page, Gone, Word
<1> QED BY <1>0, <1>3, <1>4, QuietStep

LEMMA ListDroppedStep == ASSUME IInv, NEW r \in Request, ListDropped(r) PROVE IInv'
<1>0. /\ req[r] \in RequestState /\ Found(r) /\ req' = Ends(r, "redirect")
      /\ req[r].step = "dropping" /\ req[r].route = "idplogout"
      /\ UNCHANGED <<user, org, cached, sessions>>
  BY AtStep DEF ListDropped, At
<1>1. Becomes(r, "done", FirstOf(req[r].answer, "redirect"), req[r].settings, req[r].named)
  BY <1>0, EndBecomes DEF Reply
<1>2. Found(r)' /\ Word(req'[r], req[r])
  BY <1>0, <1>1 DEF Found, PageFound, AcsFound, IdpFound, LogoutFound, Page, Becomes, Alone,
     Kept, Gone, Word
<1> QED BY <1>0, <1>1, <1>2, QuietStep DEF Becomes

LEMMA CloseOwnStep == ASSUME IInv, NEW r \in Request, CloseOwn(r) PROVE IInv'
<1> DEFINE q == [req[r] EXCEPT !.key = open[req[r].session], !.step = "ownList"]
<1>0. /\ req \in [Request -> RequestState] /\ req[r] \in RequestState /\ Found(r)
      /\ req[r].step = "closeOwn" /\ req[r].route = "logout"
      /\ UNCHANGED <<user, org, cached, sessions>> /\ open \in [Session -> User \cup {Null}]
  BY AtStep DEF CloseOwn, At
<1>1. req[r].session \in Session /\ req[r].answer = "none"
  BY <1>0 DEF Found, LogoutFound, RequestState
<1>2. req' = [req EXCEPT ![r] = q]
  BY <1>0 DEF CloseOwn
<1>3. /\ q \in RequestState /\ q.route = "logout" /\ q.step = "ownList" /\ q.answer = "none"
      /\ q.barred = req[r].barred /\ q.session = req[r].session /\ q.opening = req[r].opening
      /\ q.list = req[r].list /\ q.closing = req[r].closing /\ q.stray = req[r].stray
  <2>1. "ownList" \in Step /\ open[req[r].session] \in User \cup {Null}
    BY <1>0, <1>1 DEF Step
  <2> QED BY <1>0, <1>1, <2>1 DEF RequestState
<1> HIDE DEF q
<1>4. Alone(r) /\ req'[r] = q /\ Kept(q, req[r])
  BY <1>0, <1>2, <1>3 DEF Alone, Kept
<1>5. Found(r)' /\ Word(req'[r], req[r])
  BY <1>0, <1>3, <1>4 DEF Found, PageFound, AcsFound, IdpFound, LogoutFound, Page, Gone, Word
<1> QED BY <1>0, <1>4, <1>5, QuietStep

LEMMA ReadOwnListStep == ASSUME IInv, NEW r \in Request, ReadOwnList(r) PROVE IInv'
<1>0. /\ req \in [Request -> RequestState] /\ req[r] \in RequestState /\ Found(r) /\ Known(r)
      /\ req[r].step = "ownList" /\ req[r].route = "logout"
      /\ UNCHANGED <<user, org, cached, sessions>>
      /\ cached \in [Controller -> Settings \cup {Null}]
      /\ lists \in [User \cup {Null} -> SUBSET Session] /\ used \subseteq Session
  BY AtStep DEF ReadOwnList, At
<1>1. PICK l \in Spliced(lists[req[r].key], req[r].session) :
        req' = [req EXCEPT ![r].list = l, ![r].storing = TRUE, ![r].step = "ownStore"]
  BY DEF ReadOwnList
<1> DEFINE q == [req[r] EXCEPT !.list = l, !.storing = TRUE, !.step = "ownStore"]
<1>2. l \subseteq used
  <2>1. lists[req[r].key] \subseteq used
    BY <1>0 DEF IInv, OnlyUsed, RequestState
  <2>2. l \subseteq lists[req[r].key]
    BY <1>1 DEF Spliced
  <2> QED BY <2>1, <2>2
<1>3. req' = [req EXCEPT ![r] = q]
  BY <1>0, <1>1
<1>4. /\ q \in RequestState /\ q.route = "logout" /\ q.step = "ownStore"
      /\ q.answer = req[r].answer
      /\ q.barred = req[r].barred /\ q.session = req[r].session /\ q.opening = req[r].opening
      /\ q.list = l /\ q.closing = req[r].closing /\ q.stray = req[r].stray
  <2>1. "ownStore" \in Step /\ l \in SUBSET Session
    BY <1>0, <1>2 DEF Step
  <2> QED BY <1>0, <2>1 DEF RequestState
<1> HIDE DEF q
<1>5. Alone(r) /\ req'[r] = q
  BY <1>0, <1>3, <1>4 DEF Alone
<1>6. Found(r)' /\ ~ \E s \in Session : Gone(q, s)
  <2>1. q.answer = "none"
    BY <1>0, <1>4 DEF Found, LogoutFound
  <2> QED BY <1>0, <1>4, <1>5, <2>1 DEF Found, PageFound, AcsFound, IdpFound, LogoutFound,
         Page, Gone
<1>7. Drift
  <2>1. Calm
    BY <1>4, <1>5 DEF Calm, Alone
  <2> QED BY <1>0, <2>1, NoDrift
<1>8. Known(r)'
  BY <1>0, <1>2, <1>4, <1>5, <1>6 DEF Known, sessions
<1> QED BY <1>0, <1>5, <1>6, <1>7, <1>8, AloneStep

LEMMA RemoveOwnStep == ASSUME IInv, NEW r \in Request, RemoveOwn(r) PROVE IInv'
<1> DEFINE q == [req[r] EXCEPT !.closing = {req[r].session}, !.step = "ownRemove"]
<1>0. /\ req \in [Request -> RequestState] /\ req[r] \in RequestState /\ Found(r) /\ Known(r)
      /\ req[r].step = "ownStore" /\ req[r].route = "logout"
      /\ UNCHANGED <<user, org, cached, sessions>>
      /\ cached \in [Controller -> Settings \cup {Null}]
  BY AtStep DEF RemoveOwn, At
<1>1. req[r].session \in Session /\ req[r].session \in used /\ req[r].answer = "none"
  BY <1>0 DEF Found, LogoutFound, Known, RequestState
<1>2. req' = [req EXCEPT ![r] = q]
  BY <1>0 DEF RemoveOwn
<1>3. /\ q \in RequestState /\ q.route = "logout" /\ q.step = "ownRemove" /\ q.answer = "none"
      /\ q.barred = req[r].barred /\ q.session = req[r].session /\ q.opening = req[r].opening
      /\ q.list = req[r].list /\ q.closing = {req[r].session} /\ q.stray = req[r].stray
  <2>1. "ownRemove" \in Step
    BY DEF Step
  <2> QED BY <1>0, <1>1, <2>1 DEF RequestState
<1> HIDE DEF q
<1>4. Alone(r) /\ req'[r] = q
  BY <1>0, <1>2, <1>3 DEF Alone
<1>5. Found(r)' /\ ~ \E s \in Session : Gone(q, s)
  BY <1>0, <1>1, <1>3, <1>4 DEF Found, PageFound, AcsFound, IdpFound, LogoutFound, Page, Gone
<1>6. Drift
  <2>1. Calm
    BY <1>3, <1>4 DEF Calm, Alone
  <2> QED BY <1>0, <2>1, NoDrift
<1>7. Known(r)'
  BY <1>0, <1>1, <1>3, <1>4, <1>5 DEF Known, sessions
<1> QED BY <1>0, <1>4, <1>5, <1>6, <1>7, AloneStep

LEMMA OwnRemovedStep == ASSUME IInv, NEW r \in Request, OwnRemoved(r) PROVE IInv'
<1>0. /\ req[r] \in RequestState /\ Found(r) /\ req' = Goes(r, "owner")
      /\ req[r].step = "ownRemove" /\ req[r].route = "logout" /\ req[r].closing = {}
      /\ UNCHANGED <<user, org, cached, sessions>>
  BY AtStep DEF OwnRemoved, At, Settled
<1>1. Becomes(r, "owner", req[r].answer, req[r].settings, req[r].named)
  BY <1>0, GoBecomes DEF Step
<1>2. Found(r)' /\ Word(req'[r], req[r])
  BY <1>0, <1>1 DEF Found, PageFound, AcsFound, IdpFound, LogoutFound, Page, Becomes, Alone,
     Kept, Gone, Word
<1> QED BY <1>0, <1>1, <1>2, QuietStep DEF Becomes

-----------------------------------------------------------------------------
(* The commands. *)

\* Redis has executed a command: of the request only what is on its way changes.
Lighter(r) ==
    /\ Alone(r) /\ Kept(req'[r], req[r])
    /\ req'[r].step = req[r].step /\ req'[r].answer = req[r].answer
    /\ req'[r].settings = req[r].settings /\ req'[r].named = req[r].named
    /\ req'[r].failed = req[r].failed

LEMMA LighterStep ==
  ASSUME IInv, NEW r \in Request, Lighter(r), Drift, UNCHANGED <<user, org, cached>>,
         \A s \in Session : Gone(req'[r], s) => Gone(req[r], s) \/ Closed(s)'
  PROVE  IInv'
<1>1. Found(r)'
  <2>1. Found(r)
    BY DEF IInv
  <2> QED BY <2>1 DEF Found, PageFound, AcsFound, IdpFound, LogoutFound, Lighter, Kept
<1>2. Known(r)'
  <2>1. Known(r)
    BY DEF IInv
  <2>2. ASSUME NEW s \in Session, Gone(req'[r], s) PROVE Closed(s)'
    BY <2>1, <2>2 DEF Known, Drift
  <2> QED BY <2>1, <2>2 DEF Known, Lighter, Kept, Drift
<1> QED BY <1>1, <1>2, AloneStep DEF Lighter, IInv, TypeOK

LEMMA SessionStoredStep == ASSUME IInv, NEW r \in Request, SessionStored(r) PROVE IInv'
<1> DEFINE q == [req[r] EXCEPT !.opening = FALSE]
<1>0. /\ req \in [Request -> RequestState] /\ req[r] \in RequestState /\ Known(r)
      /\ req[r].opening /\ open' = [open EXCEPT ![req[r].session] = req[r].key]
      /\ req' = [req EXCEPT ![r] = q] /\ UNCHANGED <<user, org, cached, lists, used>>
      /\ open \in [Session -> User \cup {Null}]
  BY AtStep DEF SessionStored
<1>1. /\ q \in RequestState /\ q.route = req[r].route /\ q.step = req[r].step
      /\ q.answer = req[r].answer /\ q.settings = req[r].settings /\ q.named = req[r].named
      /\ q.failed = req[r].failed /\ q.barred = req[r].barred /\ q.session = req[r].session
      /\ q.opening = FALSE
      /\ q.list = req[r].list /\ q.closing = req[r].closing /\ q.stray = req[r].stray
  BY <1>0 DEF RequestState
<1> HIDE DEF q
<1>2. Lighter(r) /\ req'[r] = q
  BY <1>0, <1>1 DEF Lighter, Alone, Kept
<1>3. ASSUME NEW s \in Session, Closed(s) PROVE Closed(s)'
  <2>1. s # req[r].session /\ s \in used' /\ open'[s] = Null
    BY <1>0, <1>3 DEF Closed
  <2>2. ASSUME NEW p \in Request PROVE ~(req'[p].opening /\ req'[p].session = s)
    BY <1>1, <1>2, <1>3 DEF Closed, Lighter, Alone
  <2> QED BY <2>1, <2>2 DEF Closed
<1>4. open' \in [Session -> User \cup {Null}] /\ \A s \in Session : open'[s] # Null => s \in used
  <2>1. req[r].key \in User \cup {Null} /\ req[r].session \in Session \cup {Null}
    BY <1>0 DEF RequestState
  <2> QED BY <1>0, <2>1, NullAssumption DEF Known, IInv, OnlyUsed
<1>5. Drift
  BY <1>0, <1>3, <1>4 DEF Drift, IInv, TypeOK, OnlyUsed
<1> QED BY <1>0, <1>1, <1>2, <1>5, LighterStep DEF Gone

LEMMA ListStoredStep == ASSUME IInv, NEW r \in Request, ListStored(r) PROVE IInv'
<1> DEFINE q == [req[r] EXCEPT !.storing = FALSE]
           l == IF req[r].route = "idplogout" THEN {} ELSE req[r].list
<1>0. /\ req \in [Request -> RequestState] /\ req[r] \in RequestState /\ Known(r)
      /\ lists' = [lists EXCEPT ![req[r].key] = l]
      /\ req' = [req EXCEPT ![r] = q] /\ UNCHANGED <<user, org, cached, open, used>>
      /\ lists \in [User \cup {Null} -> SUBSET Session] /\ used \subseteq Session
  BY AtStep DEF ListStored
<1>1. /\ q \in RequestState /\ q.route = req[r].route /\ q.step = req[r].step
      /\ q.answer = req[r].answer /\ q.settings = req[r].settings /\ q.named = req[r].named
      /\ q.failed = req[r].failed /\ q.barred = req[r].barred /\ q.session = req[r].session
      /\ q.opening = req[r].opening
      /\ q.list = req[r].list /\ q.closing = req[r].closing /\ q.stray = req[r].stray
  BY <1>0 DEF RequestState
<1> HIDE DEF q
<1>2. Lighter(r) /\ req'[r] = q
  BY <1>0, <1>1 DEF Lighter, Alone, Kept
<1>3. ASSUME NEW s \in Session, Closed(s) PROVE Closed(s)'
  <2>1. ASSUME NEW p \in Request PROVE ~(req'[p].opening /\ req'[p].session = s)
    BY <1>1, <1>2, <1>3 DEF Closed, Lighter, Alone
  <2> QED BY <1>0, <1>3, <2>1 DEF Closed
<1>4. l \subseteq used
  BY <1>0 DEF Known
<1> HIDE DEF l
<1>5. /\ lists' \in [User \cup {Null} -> SUBSET Session]
      /\ \A u \in User \cup {Null} : lists'[u] \subseteq used
  BY <1>0, <1>4 DEF IInv, OnlyUsed
<1>6. Drift
  BY <1>0, <1>3, <1>5 DEF Drift, IInv, TypeOK, OnlyUsed
<1> QED BY <1>0, <1>1, <1>2, <1>6, LighterStep DEF Gone

LEMMA SessionRemovedStep ==
  ASSUME IInv, NEW r \in Request, NEW s \in Session, SessionRemoved(r, s) PROVE IInv'
<1> DEFINE q == [req[r] EXCEPT !.closing = @ \ {s}, !.stray = @ \ {s}]
<1>0. /\ req \in [Request -> RequestState] /\ req[r] \in RequestState /\ Known(r)
      /\ s \in req[r].closing \cup req[r].stray
      /\ \A p \in Request : ~(req[p].opening /\ req[p].session = s)
      /\ open' = [open EXCEPT ![s] = Null] /\ req' = [req EXCEPT ![r] = q]
      /\ UNCHANGED <<user, org, cached, lists, used>> /\ open \in [Session -> User \cup {Null}]
  BY AtStep DEF SessionRemoved
<1>1. /\ q \in RequestState /\ q.route = req[r].route /\ q.step = req[r].step
      /\ q.answer = req[r].answer /\ q.settings = req[r].settings /\ q.named = req[r].named
      /\ q.failed = req[r].failed /\ q.barred = req[r].barred /\ q.session = req[r].session
      /\ q.opening = req[r].opening
      /\ q.list = req[r].list /\ q.closing = req[r].closing \ {s} /\ q.stray = req[r].stray \ {s}
  BY <1>0 DEF RequestState
<1> HIDE DEF q
<1>2. Lighter(r) /\ req'[r] = q
  BY <1>0, <1>1 DEF Lighter, Alone, Kept
<1>3. ASSUME NEW t \in Session, Closed(t) \/ t = s PROVE Closed(t)'
  <2>1. ASSUME NEW p \in Request PROVE ~(req'[p].opening /\ req'[p].session = t)
    BY <1>0, <1>1, <1>2, <1>3 DEF Closed, Lighter, Alone
  <2> QED BY <1>0, <1>3, <2>1 DEF Closed, Known
<1>4. Drift
  BY <1>0, <1>3 DEF Drift, IInv, TypeOK, OnlyUsed
<1>5. ASSUME NEW t \in Session, Gone(req'[r], t) PROVE Gone(req[r], t) \/ Closed(t)'
  BY <1>1, <1>2, <1>3, <1>5 DEF Gone
<1> QED BY <1>0, <1>2, <1>4, <1>5, LighterStep

-----------------------------------------------------------------------------
(* Faults. *)

LEMMA CallFailsStep == ASSUME IInv, NEW r \in Request, CallFails(r) PROVE IInv'
<1> DEFINE e == Answered(req[r], "error")
<1>0. /\ req \in [Request -> RequestState] /\ req[r] \in RequestState /\ Found(r)
      /\ req[r].step \notin {"idle", "done"} /\ UNCHANGED <<user, org, cached, sessions>>
  BY AtStep DEF CallFails
<1>1. PICK opening, storing \in BOOLEAN :
        /\ opening => req[r].opening
        /\ req' = [req EXCEPT ![r] =
                     [e EXCEPT !.failed = TRUE, !.opening = opening, !.storing = storing]]
  BY DEF CallFails
<1> DEFINE q == [e EXCEPT !.failed = TRUE, !.opening = opening, !.storing = storing]
<1>2. /\ e \in RequestState /\ e.step = "done" /\ e.answer = FirstOf(req[r].answer, "error")
      /\ e.settings = req[r].settings /\ e.named = req[r].named /\ Kept(e, req[r])
  BY <1>0, AnsweredState DEF Reply
<1> HIDE DEF e
<1>3. /\ q \in RequestState /\ q.step = "done" /\ q.answer = FirstOf(req[r].answer, "error")
      /\ q.named = req[r].named /\ q.failed = TRUE /\ q.settings = req[r].settings
      /\ q.opening = opening
      /\ q.route = e.route /\ q.barred = e.barred /\ q.session = e.session /\ q.list = e.list
      /\ q.closing = e.closing /\ q.stray = e.stray
  BY <1>2 DEF RequestState
<1> HIDE DEF q
<1>4. Kept(q, req[r])
  BY <1>1, <1>2, <1>3 DEF Kept
<1>5. Alone(r) /\ req'[r] = q
  BY <1>0, <1>1, <1>3, <1>4 DEF q, Alone, Kept
<1>6. Found(r)'
  BY <1>0, <1>3, <1>4, <1>5 DEF Found, PageFound, AcsFound, IdpFound, LogoutFound, Page, FirstOf,
     Kept
<1>7. Word(q, req[r])
  BY <1>3 DEF Word, Gone
<1> QED BY <1>0, <1>4, <1>5, <1>6, <1>7, QuietStep

LEMMA RemovalFailsStep ==
  ASSUME IInv, NEW r \in Request, NEW s \in Session, RemovalFails(r, s) PROVE IInv'
<1>0. /\ req \in [Request -> RequestState] /\ req[r] \in RequestState /\ Found(r)
      /\ s \in req[r].closing /\ UNCHANGED <<user, org, cached, sessions>>
  BY AtStep DEF RemovalFails
<1>1. PICK stray \in {req[r].stray, req[r].stray \cup {s}} :
        req' = [req EXCEPT ![r].closing = @ \ {s}, ![r].stray = stray, ![r].failed = TRUE]
  BY DEF RemovalFails
<1> DEFINE q == [req[r] EXCEPT !.closing = @ \ {s}, !.stray = stray, !.failed = TRUE]
<1>2. req' = [req EXCEPT ![r] = q] /\ stray \subseteq Session
  BY <1>0, <1>1 DEF RequestState
<1>3. /\ q \in RequestState /\ q.route = req[r].route /\ q.step = req[r].step
      /\ q.answer = req[r].answer /\ q.settings = req[r].settings /\ q.named = req[r].named
      /\ q.failed = TRUE /\ q.barred = req[r].barred /\ q.session = req[r].session
      /\ q.opening = req[r].opening /\ q.list = req[r].list
      /\ q.closing = req[r].closing \ {s} /\ q.stray = stray
  BY <1>0, <1>2 DEF RequestState
<1> HIDE DEF q
<1>4. Kept(q, req[r]) /\ Word(q, req[r])
  BY <1>0, <1>1, <1>3 DEF Kept, Word, Gone
<1>5. Alone(r) /\ req'[r] = q
  BY <1>0, <1>2, <1>3 DEF Alone
<1>6. Found(r)'
  BY <1>0, <1>3, <1>5 DEF Found, PageFound, AcsFound, IdpFound, LogoutFound
<1> QED BY <1>0, <1>4, <1>5, <1>6, QuietStep

LEMMA RestartStep == ASSUME IInv, Restart PROVE IInv'
<1> DEFINE p(r) == IF UnderWay(r) THEN Answered(req[r], "lost") ELSE req[r]
<1>0. /\ req \in [Request -> RequestState] /\ UNCHANGED <<user, org, sessions>>
      /\ req' = [r \in Request |-> Silenced(p(r))]
      /\ cached' \in [Controller -> Settings \cup {Null}]
  BY DEF IInv, TypeOK, Restart
<1>1. ASSUME NEW r \in Request
      PROVE  /\ p(r) \in RequestState /\ Kept(p(r), req[r])
             /\ p(r).settings = req[r].settings /\ p(r).named = req[r].named
             /\ p(r).failed = req[r].failed
             /\ \/ /\ UnderWay(r) /\ p(r).step = "done"
                   /\ p(r).answer = FirstOf(req[r].answer, "lost")
                \/ /\ ~UnderWay(r) /\ p(r).step = req[r].step /\ p(r).answer = req[r].answer
  BY <1>0, AnsweredState DEF Reply, Kept
<1>2. ASSUME NEW r \in Request
      PROVE  /\ req'[r] \in RequestState /\ Kept(req'[r], req[r])
             /\ req'[r].settings = req[r].settings /\ req'[r].named = req[r].named
             /\ req'[r].failed = req[r].failed /\ ~req'[r].opening
             /\ \/ /\ UnderWay(r) /\ req'[r].step = "done"
                   /\ req'[r].answer = FirstOf(req[r].answer, "lost")
                \/ /\ ~UnderWay(r) /\ req'[r].step = req[r].step /\ req'[r].answer = req[r].answer
  <2> DEFINE o == p(r)
             q == Silenced(o)
  <2>1. o \in RequestState
    BY <1>1
  <2>2. req'[r] = q
    BY <1>0
  <2> HIDE DEF p, o
  <2>3. /\ q \in RequestState /\ q.route = o.route /\ q.step = o.step /\ q.answer = o.answer
        /\ q.settings = o.settings /\ q.named = o.named /\ q.failed = o.failed
        /\ q.barred = o.barred /\ q.session = o.session /\ q.list = o.list
        /\ q.opening = FALSE /\ q.closing = {} /\ q.stray = {}
    BY <2>1 DEF Silenced, RequestState
  <2> HIDE DEF q
  <2> QED BY <1>1, <2>2, <2>3 DEF o, Kept
<1> HIDE DEF p
<1>3. Drift
  <2>1. Calm
    BY <1>2 DEF Calm
  <2> QED BY <1>0, <2>1, NoDrift
<1>4. ASSUME NEW r \in Request PROVE Word(req'[r], req[r]) /\ Found(r)'
  <2>1. Found(r)
    BY DEF IInv
  <2>2. Word(req'[r], req[r])
    BY <1>2, <2>1 DEF Word, Gone, Kept, UnderWay, FirstOf, Found, IdpFound, LogoutFound
  <2>3. Found(r)'
    BY <1>2, <2>1 DEF Found, PageFound, AcsFound, IdpFound, LogoutFound, Page, FirstOf, Kept,
       UnderWay
  <2> QED BY <2>2, <2>3
<1>5. ASSUME NEW r \in Request PROVE History(r)' /\ Found(r)' /\ Known(r)'
  <2>1. History(r)'
    BY <1>0, <1>2 DEF IInv, History, NotActive, Kept
  <2>2. Known(r)'
    BY <1>2, <1>3, <1>4, KeptKnown DEF IInv
  <2> QED BY <1>4, <2>1, <2>2
<1>6. TypeOK'
  BY <1>0, <1>2, <1>3 DEF IInv, TypeOK, Drift
<1> QED BY <1>3, <1>5, <1>6 DEF IInv, Drift

-----------------------------------------------------------------------------
(* The theorems. *)

LEMMA StutterStep == ASSUME IInv, UNCHANGED vars PROVE IInv'
<1>1. TypeOK' /\ OnlyUsed'
  BY DEF IInv, TypeOK, OnlyUsed, vars, sessions
<1>2. ASSUME NEW r \in Request PROVE History(r)' /\ Found(r)' /\ Known(r)'
  BY DEF IInv, vars, sessions, History, NotActive, Found, PageFound, AcsFound, IdpFound,
     LogoutFound, Known, Closed
<1> QED BY <1>1, <1>2 DEF IInv

LEMMA NextIInv == ASSUME IInv, [Next]_vars PROVE IInv'
<1>1. ASSUME NEW r \in Request, Command(r) PROVE IInv'
  BY <1>1, SessionStoredStep, ListStoredStep, SessionRemovedStep DEF Command
<1>2. ASSUME NEW r \in Request, Advance(r) PROVE IInv'
  BY <1>1, <1>2, ReadSettingsStep, StoreSettingsStep, ShowPageStep, ParseLoginResponseStep,
     BackendAnswersStep, ReadUserStep, ReadUserAgainStep, OpenSessionStep, SessionAddedStep,
     StoreLastLoginStep, ParseLogoutRequestStep, FindUserStep, CloseAllStep, AllClosedStep,
     ListDroppedStep, CloseOwnStep, ReadOwnListStep, RemoveOwnStep, OwnRemovedStep,
     ReadOwnerStep, EndLogoutStep DEF Advance
<1> QED BY <1>2, CallFailsStep, RemovalFailsStep, RestartStep, WriteAccountStep,
           WriteSettingsStep, ComeStep, ComeToLogOutStep, StutterStep DEF Next

\* The invariant that carries the others: a request has gone through the steps of its
\* route and knows what they found out; and the sessions that it knows to be closed are
\* closed, with no HSET on its way that could open them again.
THEOREM Inductive == Spec => []IInv
<1>1. Init => IInv
  BY InitIInv
<1>2. IInv /\ [Next]_vars => IInv'
  BY NextIInv
<1> QED BY <1>1, <1>2, PTL DEF Spec

\* Every variable keeps its type.
THEOREM TypeCorrect == Spec => []TypeOK
<1>1. IInv => TypeOK
  BY DEF IInv
<1> QED BY <1>1, Inductive, PTL

\* acs lets nobody in who was not active all the time, whatever the backend names and
\* whoever writes the account between the reads of doSamlLogin.
THEOREM Inactive == Spec => []InactiveStayOut
<1>1. ASSUME IInv, NEW r \in Request, req[r].route = "acs", req[r].session # Null
      PROVE  req[r].named \notin req[r].barred
  BY <1>1 DEF IInv, Found, AcsFound
<1>2. IInv => InactiveStayOut
  BY <1>1 DEF InactiveStayOut
<1> QED BY <1>2, Inductive, PTL

\* A session opened by acs comes with its ticket, or with a fault to blame.
THEOREM Tickets == Spec => []SessionsHaveTickets
<1>1. IInv => SessionsHaveTickets
  BY DEF IInv, Found, AcsFound, SessionsHaveTickets, At
<1> QED BY <1>1, Inductive, PTL

\* A logout that reports success has closed for good what its list named, or the own
\* session of the client, however the logins and logouts of one user overlap, and
\* whatever they lose from the list.
THEOREM Logouts == Spec => []LogoutsClose
<1>1. ASSUME IInv, NEW r \in Request, ~req[r].failed
      PROVE  /\ req[r].route = "idplogout" /\ req[r].answer = "redirect" =>
                   \A s \in req[r].list : open[s] = Null
             /\ req[r].route = "logout" /\ req[r].answer \in {"page", "provider"} =>
                   open[req[r].session] = Null
  <2>1. req[r] \in RequestState /\ LogoutFound(req[r]) /\ Known(r)
    BY <1>1 DEF IInv, TypeOK, Found
  <2>2. /\ req[r].list \subseteq Session
        /\ req[r].route = "logout" => req[r].session \in Session
    BY <2>1 DEF RequestState, LogoutFound
  <2>3. \A s \in Session : Gone(req[r], s) => open[s] = Null
    BY <2>1 DEF Known, Closed
  <2> QED BY <1>1, <2>2, <2>3 DEF Gone
<1>2. IInv => LogoutsClose
  BY <1>1 DEF LogoutsClose
<1> QED BY <1>2, Inductive, PTL
=============================================================================
