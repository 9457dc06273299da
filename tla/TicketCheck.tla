----------------------------- MODULE TicketCheck -----------------------------
(***************************************************************************)
(* How a request is signed in.  A client holds a ticket: a token of some   *)
(* minutes and a cookie of 30 days, both jwts that name its session.  Two  *)
(* programs check it: the middleware of the auth service, which asks Redis *)
(* whether the session exists, and osauthlib in the other services, which  *)
(* asks its list of logouts and turns to the auth service only when a jwt  *)
(* is expired.  The service renews an expired token while the cookie is    *)
(* good; who-am-i renews it for the cookie alone.                          *)
(*                                                                         *)
(* One request is under way at a time: requests meet in Redis only, and    *)
(* what other requests do there (logins, logouts) is in the actions of the *)
(* surroundings, which happen between any two of its steps.                *)
(***************************************************************************)
EXTENDS Integers

CONSTANTS
    Session,        \* session ids
    TokenTtl,       \* Config.TOKEN_EXPIRATION_TIME
    CookieTtl,      \* the 30 days of a cookie
    Skews,          \* by how much the clock of the library may be fast
    Null

ASSUME TimesAssumption == TokenTtl \in Nat /\ CookieTtl \in Nat /\ Skews \subseteq Int
ASSUME NullAssumption == Null \notin Session

VARIABLES
    now,        \* clock of the auth service, in seconds
    skew,       \* by how much the clock of the library is fast
    used,       \* sessions that were opened
    live,       \* sessions in the hash auth:session
    announced,  \* sessions in the stream "logout"
    jobs,       \* commands of logins and logouts that are under way
    tokens, cookies,    \* jwts that were sent to clients
    req,        \* the request
    step,       \* where it is
    failed,     \* whether a call it made has failed
    answer      \* how it ended

redis == <<used, live, announced, jobs>>
clocks == <<now, skew>>
vars == <<clocks, redis, tokens, cookies, req, step, failed, answer>>

Jwt == [session : Session, iat : Nat]
Job == [kind : {"ticket", "hdel", "xadd"}, session : Session]

\* A header or a cookie of a request: as it was issued; with "Bearer" for "bearer";
\* without it; changed, so that the signature is wrong; or not there.
Form == {"sound", "Bearer", "plain", "broken", "absent"}
Part == [form : Form, jwt : Jwt]

\* "secure": a route of the service behind TicketMiddleware.  "library":
\* AuthHandler.authenticate of osauthlib.  "whoAmI": POST who-am-i.
Route == {"secure", "library", "whoAmI"}
Request == [route : Route, token : Part, cookie : Part, at : Nat,
            live : SUBSET Session, announced : SUBSET Session]
Step == {"idle", "library", "xread", "validate", "hasSession",
         "whoAmI", "ownSession", "user", "answered"}

\* session: for whom the request goes on.  renewed: the session of a new token.
\* cleared: the client is told to delete its cookie.
Answer == [kind : {"none", "pass", "anonymous", "refused"}, session : Session \cup {Null},
           renewed : Session \cup {Null}, cleared : BOOLEAN]

Reply(kind, cleared) ==
    [kind |-> kind, session |-> Null, renewed |-> Null, cleared |-> cleared]
Pass(s, renewed) ==
    [kind |-> "pass", session |-> s, renewed |-> renewed, cleared |-> FALSE]

\* Only types; what relates the variables is in the properties below.
TypeOK ==
    /\ now \in Nat /\ skew \in Skews
    /\ used \subseteq Session /\ live \subseteq Session /\ announced \subseteq Session
    /\ jobs \subseteq Job
    /\ tokens \subseteq Jwt /\ cookies \subseteq Jwt
    /\ step \in Step
    /\ step # "idle" => req \in Request
    /\ failed \in BOOLEAN
    /\ answer \in Answer

Init ==
    /\ now = 1 /\ skew \in Skews
    /\ used = {} /\ live = {} /\ announced = {} /\ jobs = {}
    /\ tokens = {} /\ cookies = {}
    /\ req = Null /\ step = "idle" /\ failed = FALSE
    /\ answer = Reply("none", FALSE)

-----------------------------------------------------------------------------
(* The surroundings: time, logins, logouts. *)

request == <<req, step, failed, answer>>

Tick == now' = now + 1 /\ UNCHANGED <<skew, redis, tokens, cookies, request>>

\* addSession of a login; the ticket is created when updateLastLogin is through.
Login(s) ==
    /\ s \notin used
    /\ used' = used \cup {s} /\ live' = live \cup {s}
    /\ jobs' = jobs \cup {[kind |-> "ticket", session |-> s]}
    /\ UNCHANGED <<clocks, announced, tokens, cookies, request>>

CreateTicket(j) ==
    /\ j.kind = "ticket"
    /\ jobs' = jobs \ {j}
    /\ LET jwt == [session |-> j.session, iat |-> now]
       IN  tokens' = tokens \cup {jwt} /\ cookies' = cookies \cup {jwt}
    /\ UNCHANGED <<clocks, used, live, announced, request>>

\* Mutant of RemoveSession: no event is sent.
RemoveSilently(s) ==
    /\ s \in used
    /\ jobs' = jobs \cup {[kind |-> "hdel", session |-> s]}
    /\ UNCHANGED <<clocks, used, live, announced, tokens, cookies, request>>

\* removeSession sends both commands at once, on two connections.
RemoveSession(s) ==
    /\ s \in used
    /\ jobs' = jobs \cup [kind : {"hdel", "xadd"}, session : {s}]
    /\ UNCHANGED <<clocks, used, live, announced, tokens, cookies, request>>

HDel(j) ==
    /\ j.kind = "hdel"
    /\ live' = live \ {j.session} /\ jobs' = jobs \ {j}
    /\ UNCHANGED <<clocks, used, announced, tokens, cookies, request>>

XAdd(j) ==
    /\ j.kind = "xadd"
    /\ announced' = announced \cup {j.session} /\ jobs' = jobs \ {j}
    /\ UNCHANGED <<clocks, used, live, tokens, cookies, request>>

-----------------------------------------------------------------------------
(* jwts.  A check that fails throws: the first failure decides. *)

Absent(part) == part.form = "absent"
SessionOf(part) == part.jwt.session
FirstFailure(a, b) == IF a = "sound" THEN b ELSE a

IsBearer(part) == part.form # "plain"

\* Mutant of VerifyJwt: exp is looked at before the signature.
ExpiryFirst(part, ttl) ==
    IF ~IsBearer(part) THEN "refused"
    ELSE IF now >= part.jwt.iat + ttl THEN "expired"
    ELSE IF part.form = "broken" THEN "refused" ELSE "sound"

\* TicketService.verifyJwt: jsonwebtoken looks at the signature, then at exp.
VerifyJwt(part, ttl) ==
    IF ~IsBearer(part) \/ part.form = "broken" THEN "refused"
    ELSE IF now >= part.jwt.iat + ttl THEN "expired" ELSE "sound"

\* TicketMiddleware.validateTicket up to the session; the comparison of the users in
\* verifyTicket has no effect, since jwt.decode makes null of a jwt with its "bearer".
VerifyTicket(token, cookie) ==
    IF Absent(token) \/ Absent(cookie) THEN "anonymous"
    ELSE IF ~IsBearer(token) \/ ~IsBearer(cookie) THEN "refused"
    ELSE FirstFailure(VerifyJwt(token, TokenTtl), VerifyJwt(cookie, CookieTtl))

\* AuthService.whoAmI up to the session.
VerifyCookie(cookie) ==
    IF Absent(cookie) THEN "anonymous" ELSE VerifyJwt(cookie, CookieTtl)

\* Validator.__decode: PyJWT looks at the signature, at iat, then at exp.
LibraryClock == now + skew
DecodeJwt(part, ttl) ==
    IF part.form = "broken" \/ part.jwt.iat > LibraryClock THEN "refused"
    ELSE IF LibraryClock >= part.jwt.iat + ttl THEN "expired" ELSE "sound"

IsLowerBearer(part) == part.form \notin {"plain", "Bearer"}

\* Mutant of VerifyByLibrary: it does not turn to the auth service.
NoFallback(token, cookie) ==
    IF Absent(token) \/ Absent(cookie) THEN "anonymous"
    ELSE IF /\ IsLowerBearer(token) /\ IsLowerBearer(cookie)
            /\ DecodeJwt(cookie, CookieTtl) = "sound" /\ DecodeJwt(token, TokenTtl) = "sound"
    THEN "sound" ELSE "refused"

\* AuthHandler.authenticate and Validator.verify up to the session: "bearer " has to be
\* in lower case here.
VerifyByLibrary(token, cookie) ==
    IF Absent(token) \/ Absent(cookie) THEN "anonymous"
    ELSE IF ~IsLowerBearer(token) \/ ~IsLowerBearer(cookie) THEN "refused"
    ELSE FirstFailure(DecodeJwt(cookie, CookieTtl), DecodeJwt(token, TokenTtl))

-----------------------------------------------------------------------------
(* The request. *)

\* A client sends what it was given, as it was or damaged.
Send(route, token, cookie) ==
    /\ step \in {"idle", "answered"}
    /\ token.jwt \in tokens /\ cookie.jwt \in cookies
    /\ req' = [route |-> route, token |-> token, cookie |-> cookie, at |-> now,
               live |-> live, announced |-> announced]
    /\ step' = CASE route = "secure"  -> "validate"
                 [] route = "library" -> "library"
                 [] route = "whoAmI"  -> "whoAmI"
    /\ failed' = FALSE /\ answer' = Reply("none", FALSE)
    /\ UNCHANGED <<clocks, redis, tokens, cookies>>

GoTo(next) == step' = next /\ UNCHANGED <<answer, failed>>
End(reply) == step' = "answered" /\ answer' = reply /\ UNCHANGED failed
quiet == <<clocks, redis, cookies, req>>

\* Mutant of Refused: a failed refresh clears the cookie, too.
RefusalsClear == Reply("refused", req.route # "library")

\* The route who-am-i clears the cookie whatever went wrong.
Refused == Reply("refused", req.route = "whoAmI")

VerifiedByLibrary ==
    /\ step = "library"
    /\ LET r == VerifyByLibrary(req.token, req.cookie)
       IN  \/ r = "sound" /\ GoTo("xread")
           \/ r = "expired" /\ GoTo("validate")
           \/ r \in {"anonymous", "refused"} /\ End(Reply(r, FALSE))
    /\ UNCHANGED <<quiet, tokens>>

\* SessionHandler.is_session_invalid, for the token; the session of the cookie is not
\* looked at.  The list is kept long enough for every token (InvalidSessions).
LibraryReads ==
    /\ step = "xread"
    /\ End(IF SessionOf(req.token) \in announced THEN Refused
           ELSE Pass(SessionOf(req.token), Null))
    /\ UNCHANGED <<quiet, tokens>>

ValidateTicket ==
    /\ step = "validate"
    /\ LET r == VerifyTicket(req.token, req.cookie)
       IN  \/ r = "sound" /\ SessionOf(req.token) = SessionOf(req.cookie) /\ GoTo("hasSession")
           \/ r = "sound" /\ SessionOf(req.token) # SessionOf(req.cookie) /\ End(Refused)
           \/ r = "expired" /\ GoTo("whoAmI")
           \/ r \in {"anonymous", "refused"} /\ End(Reply(r, FALSE))
    /\ UNCHANGED <<quiet, tokens>>

HasSession ==
    /\ step = "hasSession"
    /\ End(IF SessionOf(req.cookie) \in live THEN Pass(SessionOf(req.token), Null)
           ELSE Refused)
    /\ UNCHANGED <<quiet, tokens>>

\* whoAmI, of the route or of refreshToken.  Both clear an expired cookie; the library
\* does not hand that on.
WhoAmI ==
    /\ step = "whoAmI"
    /\ LET r == VerifyCookie(req.cookie)
       IN  \/ r = "sound" /\ GoTo("ownSession")
           \/ r \in {"anonymous", "expired"} /\ End(Reply("anonymous", req.route # "library"))
           \/ r = "refused" /\ End(Refused)
    /\ UNCHANGED <<quiet, tokens>>

\* Mutant of CheckOwnSession: a good cookie is enough.
OwnSessionUnchecked ==
    step = "ownSession" /\ GoTo("user") /\ UNCHANGED <<quiet, tokens>>

CheckOwnSession ==
    /\ step = "ownSession"
    /\ \/ SessionOf(req.cookie) \in live /\ GoTo("user")
       \/ SessionOf(req.cookie) \notin live /\ End(Refused)
    /\ UNCHANGED <<quiet, tokens>>

\* Mutant of Renew: the payload of the new token is not the cookie's.
RenewWithoutSession ==
    /\ step = "user"
    /\ tokens' = tokens \cup {[session |-> answer.session, iat |-> now]}
    /\ End(Pass(SessionOf(req.token), SessionOf(req.cookie)))
    /\ UNCHANGED quiet

\* getUserByUserId answers an object for every id, so the branch "Wrong user" is never
\* taken.  The new token is the cookie's; the request goes on with the old token.
Renew ==
    /\ step = "user"
    /\ tokens' = tokens \cup {[session |-> SessionOf(req.cookie), iat |-> now]}
    /\ End(Pass(SessionOf(IF req.route = "whoAmI" THEN req.cookie ELSE req.token),
                SessionOf(req.cookie)))
    /\ UNCHANGED quiet

\* Redis or the datastore fails, or the library cannot reach the service.
CallFails ==
    /\ \/ step \in {"xread", "hasSession", "ownSession", "user"}
       \/ step = "validate" /\ req.route = "library"
    /\ step' = "answered" /\ failed' = TRUE /\ answer' = Refused
    /\ UNCHANGED <<quiet, tokens>>

Advance ==
    \/ VerifiedByLibrary \/ LibraryReads \/ ValidateTicket \/ HasSession
    \/ WhoAmI \/ CheckOwnSession \/ Renew

Next ==
    \/ Tick
    \/ \E s \in Session : Login(s) \/ RemoveSession(s)
    \/ \E j \in jobs : CreateTicket(j) \/ HDel(j) \/ XAdd(j)
    \/ \E route \in Route, token, cookie \in Part : Send(route, token, cookie)
    \/ Advance
    \/ CallFails

Spec == Init /\ [][Next]_vars

-----------------------------------------------------------------------------
(* Properties. *)

Answered == step = "answered"
Intact(part) == part.form = "sound"

\* A client that sends its ticket as it got it, for a session that nobody closes, is let
\* in with that session, keeps its cookie, and if its token had expired gets a new one:
\* whatever expires or is renewed meanwhile, and whichever program it asks.  The
\* exceptions are a call that fails and a library whose clock is behind: PyJWT refuses a
\* jwt of its future.
SignedInClientsPass ==
    LET s == SessionOf(req.cookie)
    IN  (/\ Answered /\ ~failed
         /\ Intact(req.token) /\ Intact(req.cookie) /\ SessionOf(req.token) = s
         /\ s \in live /\ s \notin announced
         /\ now < req.cookie.jwt.iat + CookieTtl
         /\ req.route = "library" =>
              \A part \in {req.token, req.cookie} : part.jwt.iat <= req.at + skew)
        => /\ answer.kind = "pass" /\ answer.session = s /\ ~answer.cleared
           /\ (req.route = "secure" /\ req.at >= req.token.jwt.iat + TokenTtl)
                => answer.renewed = s

\* Whoever is let in is vouched for, by Redis for the session of the cookie or by the
\* logouts the library knows for the session of the token: that session was not closed
\* before the request was sent.  A closed session never lets a later request in, and
\* never gets a later request a token.
PassesAreVouched ==
    Answered /\ answer.kind = "pass" =>
        /\ \/ SessionOf(req.cookie) \in req.live
           \/ /\ req.route = "library" /\ answer.renewed = Null
              /\ SessionOf(req.token) \notin req.announced
        /\ answer.renewed # Null =>
              /\ answer.renewed = SessionOf(req.cookie)
              /\ answer.renewed \in req.live

\* A jwt that was changed opens nothing, and an expired one nothing but a renewal: a
\* request is let in without a new token only if its token had not expired when it was
\* sent, and with one only if its cookie had not.
OnlySoundJwtsPass ==
    Answered /\ answer.kind = "pass" =>
        /\ req.cookie.form \notin {"broken", "plain", "absent"}
        /\ req.route # "whoAmI" => req.token.form \notin {"broken", "plain", "absent"}
        /\ answer.renewed # Null => req.at < req.cookie.jwt.iat + CookieTtl
        /\ answer.renewed = Null =>
              req.at + (IF req.route = "library" /\ skew < 0 THEN skew ELSE 0)
                < req.token.jwt.iat + TokenTtl

\* A client is told to delete its cookie only for a reason that stays: the cookie is
\* damaged or expired, or its session is closed; the route who-am-i also does it when a
\* call fails.
CookiesClearedForCause ==
    Answered /\ answer.cleared =>
        \/ ~Intact(req.cookie)
        \/ now >= req.cookie.jwt.iat + CookieTtl
        \/ SessionOf(req.cookie) \notin live
        \/ req.route = "whoAmI" /\ failed

\* What each program would say of a ticket, if no call fails.
ServiceLetsIn(token, cookie) ==
    LET r == VerifyTicket(token, cookie)
    IN  /\ r = "sound" => SessionOf(token) = SessionOf(cookie)
        /\ r \in {"sound", "expired"}
        /\ r = "expired" => VerifyCookie(cookie) = "sound"
        /\ SessionOf(cookie) \in live
LibraryLetsIn(token, cookie) ==
    LET r == VerifyByLibrary(token, cookie)
    IN  \/ r = "sound" /\ SessionOf(token) \notin announced
        \/ r = "expired" /\ ServiceLetsIn(token, cookie)

\* The two programs agree on every ticket of one session that a client may hold,
\* damaged or not, when no login or logout of the session is under way and their clocks
\* agree.  They differ on "Bearer", which only the service takes.
ProgramsAgree ==
    \A t \in tokens, c \in cookies, f, g \in Form \ {"Bearer"} :
        t.session = c.session /\ skew = 0 /\ (\A j \in jobs : j.session # t.session) =>
            LET token == [form |-> f, jwt |-> t]
                cookie == [form |-> g, jwt |-> c]
            IN  ServiceLetsIn(token, cookie) <=> LibraryLetsIn(token, cookie)
=============================================================================
