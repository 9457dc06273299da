------------------------------ MODULE SamlLogin ------------------------------
(***************************************************************************)
(* Logins and logouts through a SAML identity provider.  The controller    *)
(* reads the settings of the organization, once per process; hands the     *)
(* attributes of a login response to the backend, which saves the account  *)
(* and names the user; reads that user and opens a session.  Meanwhile     *)
(* accounts are activated, deactivated and deleted, settings change, calls *)
(* fail and the process crashes.                                           *)
(*                                                                         *)
(* Sessions are opened and closed as SessionService does it: the list of a *)
(* user's sessions is read and written back, and the commands of one       *)
(* Promise.all are on their way together, while requests of the same user  *)
(* do the same.  SessionStore has the store in detail; here it is a set of *)
(* sessions for each user, without indexes and announcements.              *)
(*                                                                         *)
(* What the provider sends, the backend answers and samlify makes of it is *)
(* open; samlify waits for nothing, so a request that has its settings     *)
(* goes on with them up to its next call.                                  *)
(***************************************************************************)
EXTENDS Naturals

CONSTANTS
    User, Session,
    Request,        \* slots for the requests under way
    Null

ASSUME NullAssumption == Null \notin User /\ Null \notin Session

VARIABLES
    user,       \* the table user_t: whether a user exists and is active
    org,        \* the SAML settings in the row of the organization
    cached,     \* SamlService._samlSettings of both controllers
    open,       \* the hash auth:session: the user of each open session
    lists,      \* the hash auth:user: the sessions in the list of each user
    used,       \* the ids that were drawn for a session
    req

sessions == <<open, lists, used>>
vars == <<user, org, cached, sessions, req>>

\* "missing": no row, or no metadata in it.  "off": complete, but not saml_enabled.
Settings == {"missing", "off", "on"}
Account == {"absent", "inactive", "active"}

\* SamlController and SecureController each have a SamlService of their own.
Controller == {"saml", "secure"}

Page == {"index", "getUrl", "send", "metadata"}
Route == Page \cup {"acs", "idplogout", "logout"}
Step == {"idle", "reading", "arriving", "ready", "backend", "user", "again", "open", "adding",
         "lastLogin", "samlUser", "closeAll", "closing", "dropping",
         "closeOwn", "ownList", "ownStore", "ownRemove", "owner", "silent", "done"}
Reply == {"none", "page", "disabled", "notFound", "redirect", "inactive", "ticket",
          "provider", "error", "lost"}

\* answer: what the client got, which is the first answer.  failed: a call has failed.
\* key, list: whose list SessionService works on, and what it makes of it (idplogout:
\* what it found).  Commands on their way to Redis: opening, the HSET of the session;
\* storing, the HSET or HDEL of the list; closing, the HDEL of sessions; stray, of those
\* whose removeSession has failed, so that nobody waits for it.
\* barred (history): the users that were not active at any time since the request came.
RequestState ==
    [route : Route, step : Step, settings : Settings \cup {Null}, named : User \cup {Null},
     session : Session \cup {Null}, answer : Reply, failed : BOOLEAN, barred : SUBSET User,
     key : User \cup {Null}, list : SUBSET Session,
     opening : BOOLEAN, storing : BOOLEAN, closing : SUBSET Session, stray : SUBSET Session]

TypeOK ==
    /\ user \in [User -> Account] /\ org \in Settings
    /\ cached \in [Controller -> Settings \cup {Null}]
    /\ open \in [Session -> User \cup {Null}] /\ used \subseteq Session
    /\ lists \in [User \cup {Null} -> SUBSET Session]
    /\ req \in [Request -> RequestState]

NotActive(account) == {u \in User : account[u] # "active"}
New(route, step) ==
    [route |-> route, step |-> step, settings |-> cached["saml"], named |-> Null,
     session |-> Null, answer |-> "none", failed |-> FALSE, barred |-> NotActive(user),
     key |-> Null, list |-> {},
     opening |-> FALSE, storing |-> FALSE, closing |-> {}, stray |-> {}]

Init ==
    /\ user \in [User -> Account] /\ org \in Settings
    /\ cached = [c \in Controller |-> Null]
    /\ open = [s \in Session |-> Null] /\ used = {}
    /\ lists = [u \in User \cup {Null} |-> {}]
    /\ req = [r \in Request |-> New("index", "idle")]

At(r, step) == req[r].step = step
UnderWay(r) == req[r].step \notin {"idle", "silent", "done"}

\* What the request waits for has been answered; and nothing of it is on its way.
Settled(r) == ~req[r].opening /\ ~req[r].storing /\ req[r].closing = {}
Quiet(r) == ~UnderWay(r) /\ Settled(r) /\ req[r].stray = {}

-----------------------------------------------------------------------------
(* The surroundings. *)

\* The backend writes an account; a request that came before may find it active now.
Written(account, next) ==
    /\ user' = account
    /\ req' = [r \in Request |-> [next[r] EXCEPT !.barred = @ \cap NotActive(account)]]

WriteAccount(u, a) ==
    /\ user[u] # a
    /\ Written([user EXCEPT ![u] = a], req)
    /\ UNCHANGED <<org, cached, sessions>>

WriteSettings(s) ==
    /\ org' = s /\ s # org
    /\ UNCHANGED <<user, cached, sessions, req>>

-----------------------------------------------------------------------------
(* The steps of a request. *)

Goes(r, step) == [req EXCEPT ![r].step = step]

\* The first answer is sent; another one throws, since the headers are gone.
Answered(q, answer) == [q EXCEPT !.answer = IF @ = "none" THEN answer ELSE @, !.step = "done"]
Ends(r, answer) == [req EXCEPT ![r] = Answered(@, answer)]

\* getSamlSettings: a promise that is there, or a read.
AskSettings(c) == IF cached[c] = Null THEN "reading" ELSE "ready"

Come(r, route) ==
    /\ Quiet(r) /\ route # "logout"
    /\ req' = [req EXCEPT ![r] = New(route, AskSettings("saml"))]
    /\ UNCHANGED <<user, org, cached, sessions>>

\* secure/logout with the token of a session.
ComeToLogOut(r, s) ==
    /\ Quiet(r) /\ open[s] # Null
    /\ req' = [req EXCEPT ![r] =
                 [New("logout", "closeOwn") EXCEPT !.session = s, !.named = open[s]]]
    /\ UNCHANGED <<user, org, cached, sessions>>

\* The row is read at one moment and stored at a later one, over what another request
\* has stored meanwhile.
ReadSettings(r) ==
    /\ At(r, "reading")
    /\ req' = [req EXCEPT ![r].settings = org, ![r].step = "arriving"]
    /\ UNCHANGED <<user, org, cached, sessions>>

StoreSettings(r) ==
    /\ At(r, "arriving")
    /\ cached' = [cached EXCEPT ![IF req[r].route = "logout" THEN "secure" ELSE "saml"] =
                                  req[r].settings]
    /\ req' = Goes(r, "ready")
    /\ UNCHANGED <<user, org, sessions>>

\* index, getUrl, send and metadata.
Shown(page, settings) ==
    CASE page = "metadata" -> IF settings = "on" THEN "page" ELSE "notFound"
      [] page = "send"     -> IF settings = "missing" THEN "error" ELSE "redirect"
      [] OTHER             -> IF settings = "on" THEN "page" ELSE "disabled"

ShowPage(r) ==
    /\ At(r, "ready") /\ req[r].route \in Page
    /\ req' = Ends(r, Shown(req[r].route, req[r].settings))
    /\ UNCHANGED <<user, org, cached, sessions>>

\* Mutant of ParseLoginResponse: the redirect to the client is sent first.
RedirectFirst(r) ==
    /\ At(r, "ready") /\ req[r].route = "acs"
    /\ req' = [req EXCEPT ![r].answer = "redirect", ![r].step = "backend"]
    /\ UNCHANGED <<user, org, cached, sessions>>

\* acs: without SAML it answers 404 and goes on.  The response of the provider is bad,
\* has no attributes, or has some.
ParseLoginResponse(r) ==
    /\ At(r, "ready") /\ req[r].route = "acs"
    /\ LET q == [req[r] EXCEPT !.answer = IF @ = "none" /\ req[r].settings # "on"
                                          THEN "notFound" ELSE @]
       IN  \/ req' = [req EXCEPT ![r] = Answered(q, "error")]
           \/ /\ q.settings # "missing"
              /\ \/ req' = [req EXCEPT ![r] = Answered(q, "redirect")]
                 \/ req' = [req EXCEPT ![r] = [q EXCEPT !.step = "backend"]]
    /\ UNCHANGED <<user, org, cached, sessions>>

\* HttpService.send: without a response of the backend, createHttpResponse throws.  So
\* does makeBackendCall when it cannot read the answer.
SendFails(r) == Ends(r, "error")

\* provisionUser: the backend has saved the account of u, active or not, and names it;
\* or it answers without a user (-1, or no user_id); or the call fails.
BackendAnswers(r) ==
    /\ At(r, "backend")
    /\ \/ \E u \in User, a \in {"inactive", "active"} :
             Written([user EXCEPT ![u] = a],
                     [req EXCEPT ![r].named = u, ![r].step = "user"])
       \/ req' = Goes(r, "user") /\ UNCHANGED user
       \/ req' = SendFails(r) /\ UNCHANGED user
    /\ UNCHANGED <<org, cached, sessions>>

AccountOf(r) == IF req[r].named = Null THEN "absent" ELSE user[req[r].named]

\* Mutants of ReadUser: is_active is not looked at; an error is caught and forgotten.
ReadAnyUser(r) ==
    /\ At(r, "user")
    /\ req' = IF AccountOf(r) = "absent" THEN Ends(r, "error") ELSE Goes(r, "again")
    /\ UNCHANGED <<user, org, cached, sessions>>
ReadUserQuietly(r) ==
    /\ At(r, "user")
    /\ req' = Goes(r, IF AccountOf(r) = "active" THEN "again" ELSE "silent")
    /\ UNCHANGED <<user, org, cached, sessions>>

\* acs after provisionUser.  An absent user ends in an error: in doSamlLogin for -1, in
\* user.username else.  The page for an inactive user needs the attribute mapping.
ReadUser(r) ==
    /\ At(r, "user")
    /\ \/ AccountOf(r) = "absent" /\ req' = Ends(r, "error")
       \/ AccountOf(r) = "inactive" /\ \E a \in {"inactive", "error"} : req' = Ends(r, a)
       \/ AccountOf(r) = "active" /\ req' = Goes(r, "again")
    /\ UNCHANGED <<user, org, cached, sessions>>

\* doSamlLogin reads the user once more, and does not look at is_active.
ReadUserAgain(r) ==
    /\ At(r, "again")
    /\ req' = IF AccountOf(r) = "absent" THEN Ends(r, "error") ELSE Goes(r, "open")
    /\ UNCHANGED <<user, org, cached, sessions>>

\* addSession: the list is read, an id drawn, and both are stored side by side.
OpenSession(r) ==
    /\ At(r, "open")
    /\ \E s \in Session \ used :
          /\ used' = used \cup {s}
          /\ req' = [req EXCEPT ![r].session = s, ![r].key = req[r].named, ![r].step = "adding",
                                ![r].list = lists[req[r].named] \cup {s},
                                ![r].opening = TRUE, ![r].storing = TRUE]
    /\ UNCHANGED <<user, org, cached, open, lists>>

SessionAdded(r) ==
    /\ At(r, "adding") /\ Settled(r)
    /\ req' = Goes(r, "lastLogin")
    /\ UNCHANGED <<user, org, cached, sessions>>

\* updateLastLogin; then the ticket is sent, unless an answer was.
StoreLastLogin(r) ==
    /\ At(r, "lastLogin")
    /\ req' = Ends(r, "ticket")
    /\ UNCHANGED <<user, org, cached, sessions>>

\* idplogout: the request of the provider is bad, names nobody, which is never answered,
\* or somebody, maybe unknown.
ParseLogoutRequest(r) ==
    /\ At(r, "ready") /\ req[r].route = "idplogout"
    /\ \/ req' = Ends(r, "error")
       \/ /\ req[r].settings # "missing"
          /\ \/ req' = Goes(r, "silent")
             \/ \E u \in User \cup {Null} :
                   req' = [req EXCEPT ![r].named = u, ![r].step = "samlUser"]
    /\ UNCHANGED <<user, org, cached, sessions>>

\* getUserBySamlId
FindUser(r) ==
    /\ At(r, "samlUser")
    /\ req' = IF AccountOf(r) = "active" THEN Goes(r, "closeAll") ELSE Ends(r, "error")
    /\ UNCHANGED <<user, org, cached, sessions>>

\* clearAllSessions: the list is read, its sessions are removed side by side, and the
\* list is dropped after them.
CloseAll(r) ==
    /\ At(r, "closeAll")
    /\ req' = [req EXCEPT ![r].key = req[r].named, ![r].list = lists[req[r].named],
                          ![r].closing = lists[req[r].named], ![r].step = "closing"]
    /\ UNCHANGED <<user, org, cached, sessions>>

\* Mutant of AllClosed: removeSession is not waited for.
CloseUnawaited(r) ==
    /\ At(r, "closing")
    /\ req' = [req EXCEPT ![r].storing = TRUE, ![r].closing = {}, ![r].stray = req[r].closing,
                          ![r].step = "dropping"]
    /\ UNCHANGED <<user, org, cached, sessions>>

AllClosed(r) ==
    /\ At(r, "closing") /\ Settled(r)
    /\ req' = [req EXCEPT ![r].storing = TRUE, ![r].step = "dropping"]
    /\ UNCHANGED <<user, org, cached, sessions>>

ListDropped(r) ==
    /\ At(r, "dropping") /\ Settled(r)
    /\ req' = Ends(r, "redirect")
    /\ UNCHANGED <<user, org, cached, sessions>>

\* secure/logout: clearSessionById reads the user of the session, which may be gone ...
CloseOwn(r) ==
    /\ At(r, "closeOwn")
    /\ req' = [req EXCEPT ![r].key = open[req[r].session], ![r].step = "ownList"]
    /\ UNCHANGED <<user, org, cached, sessions>>

\* ... then the list, of which splice removes the session; or the last one, here any,
\* when the session is not in it ...
Spliced(list, s) ==
    IF s \in list \/ list = {} THEN {list \ {s}} ELSE {list \ {t} : t \in list}

ReadOwnList(r) ==
    /\ At(r, "ownList")
    /\ \E list \in Spliced(lists[req[r].key], req[r].session) :
          req' = [req EXCEPT ![r].list = list, ![r].storing = TRUE, ![r].step = "ownStore"]
    /\ UNCHANGED <<user, org, cached, sessions>>

\* ... stores it, and removes the session.
RemoveOwn(r) ==
    /\ At(r, "ownStore") /\ Settled(r)
    /\ req' = [req EXCEPT ![r].closing = {req[r].session}, ![r].step = "ownRemove"]
    /\ UNCHANGED <<user, org, cached, sessions>>

\* The user is read next, then the settings, of a service of its own.
OwnRemoved(r) ==
    /\ At(r, "ownRemove") /\ Settled(r)
    /\ req' = Goes(r, "owner")
    /\ UNCHANGED <<user, org, cached, sessions>>

\* Mutant of ReadOwner: the row is kept for the user.
ReadOwnerRow(r) ==
    /\ At(r, "owner")
    /\ req' = [req EXCEPT ![r].named = AccountOf(r), ![r].settings = cached["secure"],
                          ![r].step = AskSettings("secure")]
    /\ UNCHANGED <<user, org, cached, sessions>>

ReadOwner(r) ==
    /\ At(r, "owner")
    /\ req' = [req EXCEPT ![r].named = IF AccountOf(r) = "absent" THEN Null ELSE @,
                          ![r].settings = cached["secure"],
                          ![r].step = AskSettings("secure")]
    /\ UNCHANGED <<user, org, cached, sessions>>

\* A user with a saml_id, which not every user has, is sent to the provider to log out
\* there, too.
EndLogout(r) ==
    /\ At(r, "ready") /\ req[r].route = "logout"
    /\ \/ req[r].settings = "on" /\ req[r].named # Null /\ req' = Ends(r, "provider")
       \/ req' = Ends(r, "page")
    /\ UNCHANGED <<user, org, cached, sessions>>

-----------------------------------------------------------------------------
(* The commands that are on their way, also those of a request that has ended. *)

SessionStored(r) ==
    /\ req[r].opening
    /\ open' = [open EXCEPT ![req[r].session] = req[r].key]
    /\ req' = [req EXCEPT ![r].opening = FALSE]
    /\ UNCHANGED <<user, org, cached, lists, used>>

ListStored(r) ==
    /\ req[r].storing
    /\ lists' = [lists EXCEPT ![req[r].key] =
                    IF req[r].route = "idplogout" THEN {} ELSE req[r].list]
    /\ req' = [req EXCEPT ![r].storing = FALSE]
    /\ UNCHANGED <<user, org, cached, open, used>>

\* The connection of auth:session keeps the order of its commands: a session that is
\* in a list has had its HSET sent.
SessionRemoved(r, s) ==
    /\ s \in req[r].closing \cup req[r].stray
    /\ \A q \in Request : ~(req[q].opening /\ req[q].session = s)
    /\ open' = [open EXCEPT ![s] = Null]
    /\ req' = [req EXCEPT ![r].closing = @ \ {s}, ![r].stray = @ \ {s}]
    /\ UNCHANGED <<user, org, cached, lists, used>>

Command(r) == SessionStored(r) \/ ListStored(r) \/ \E s \in Session : SessionRemoved(r, s)

Advance(r) ==
    \/ Command(r)
    \/ ReadSettings(r) \/ StoreSettings(r) \/ ShowPage(r)
    \/ ParseLoginResponse(r) \/ BackendAnswers(r) \/ ReadUser(r) \/ ReadUserAgain(r)
    \/ OpenSession(r) \/ SessionAdded(r) \/ StoreLastLogin(r)
    \/ ParseLogoutRequest(r) \/ FindUser(r) \/ CloseAll(r) \/ AllClosed(r) \/ ListDropped(r)
    \/ CloseOwn(r) \/ ReadOwnList(r) \/ RemoveOwn(r) \/ OwnRemoved(r)
    \/ ReadOwner(r) \/ EndLogout(r)

-----------------------------------------------------------------------------
(* Faults. *)

\* A read or write throws, which ends the request.  Of the commands it has sent, those
\* that failed are lost; one may have failed for the index after it, and one that did
\* not fail is on its way still.
CallFails(r) ==
    /\ req[r].step \in {"reading", "user", "again", "open", "adding", "lastLogin", "samlUser",
                        "closeAll", "dropping", "closeOwn", "ownList", "ownStore", "owner"}
    /\ \E opening, storing \in BOOLEAN :
          /\ opening => req[r].opening
          /\ storing => req[r].storing
          /\ req' = [req EXCEPT ![r] = [Answered(@, "error") EXCEPT
                         !.failed = TRUE, !.opening = opening, !.storing = storing]]
    /\ UNCHANGED <<user, org, cached, sessions>>

\* removeSession reports a failure to the log only: its HDEL is lost, or XADD has
\* failed and the HDEL comes later.
RemovalFails(r, s) ==
    /\ s \in req[r].closing
    /\ \E stray \in {req[r].stray, req[r].stray \cup {s}} :
          req' = [req EXCEPT ![r].closing = @ \ {s}, ![r].stray = stray, ![r].failed = TRUE]
    /\ UNCHANGED <<user, org, cached, sessions>>

\* The process starts anew: it reads the settings again; its requests are lost, and
\* what is left of their commands.
Silenced(q) ==
    [q EXCEPT !.opening = FALSE, !.storing = FALSE, !.closing = {}, !.stray = {}]

Restart ==
    /\ cached' = [c \in Controller |-> Null]
    /\ req' = [r \in Request |->
                  Silenced(IF UnderWay(r) THEN Answered(req[r], "lost") ELSE req[r])]
    /\ UNCHANGED <<user, org, sessions>>

Next ==
    \/ \E u \in User, a \in Account : WriteAccount(u, a)
    \/ \E s \in Settings : WriteSettings(s)
    \/ \E r \in Request, route \in Route : Come(r, route)
    \/ \E r \in Request, s \in Session : ComeToLogOut(r, s)
    \/ \E r \in Request : Advance(r) \/ CallFails(r)
    \/ \E r \in Request, s \in Session : RemovalFails(r, s)
    \/ Restart

Spec == Init /\ [][Next]_vars

-----------------------------------------------------------------------------
(* Properties. *)

\* Whoever was not active when the login response came, and was not made active since,
\* gets no session: neither by the account the backend names nor by the two reads of it
\* with an await between them.  (One who is deactivated meanwhile may still get in.)
InactiveStayOut ==
    \A r \in Request : req[r].route = "acs" /\ req[r].session # Null =>
        req[r].named \notin req[r].barred

\* A session is never opened without its ticket being sent, unless a call failed, the
\* process was restarted, or SAML was switched off; and no ticket is sent without.
SessionsHaveTickets ==
    \A r \in Request : req[r].route = "acs" /\ At(r, "done") =>
        /\ req[r].answer = "ticket" => req[r].session # Null /\ req[r].settings = "on"
        /\ req[r].session # Null /\ req[r].answer # "ticket" =>
              req[r].failed \/ req[r].answer = "lost" \/ req[r].settings # "on"

\* A logout that tells client or provider of its success has closed sessions for good,
\* whatever logins and logouts of the same user run beside it: all that the list named
\* when the provider asked, also one that is not stored yet, or the client's own.  (A
\* session that the list has lost in the race of two logins is not among them.)
LogoutsClose ==
    \A r \in Request : ~req[r].failed =>
        /\ req[r].route = "idplogout" /\ req[r].answer = "redirect" =>
              \A s \in req[r].list : open[s] = Null
        /\ req[r].route = "logout" /\ req[r].answer \in {"page", "provider"} =>
              open[req[r].session] = Null

\* With SAML switched off, as far as the process knows, no session is opened by acs.
DisabledOpensNothing ==
    \A r \in Request : req[r].route = "acs" /\ req[r].settings # "on" => req[r].session = Null

\* Every request is answered, or lost with its process; but a logout request of the
\* provider that names nobody.
RequestsAnswered ==
    \A r \in Request :
        UnderWay(r) ~> \/ req[r].answer # "none"
                       \/ req[r].route = "idplogout" /\ At(r, "silent") /\ req[r].named = Null
=============================================================================
