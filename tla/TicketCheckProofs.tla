-------------------------- MODULE TicketCheckProofs --------------------------
(***************************************************************************)
(* Proofs of the invariants of TicketCheck, for any sessions, lifetimes    *)
(* and clocks.                                                             *)
(***************************************************************************)
EXTENDS TicketCheck, TLAPS

(* The inductive invariant. *)

OnlyUsed ==
    /\ live \subseteq used /\ announced \subseteq used
    /\ \A j \in jobs : j.session \in used
    /\ \A jwt \in tokens \cup cookies : jwt.session \in used

IssuedBefore == \A jwt \in tokens \cup cookies : jwt.iat <= now

\* A session leaves the hash and is announced, or neither.
RemovalsComplete ==
    \A s \in used :
        (s \notin live \/ [kind |-> "hdel", session |-> s] \in jobs)
            <=> (s \in announced \/ [kind |-> "xadd", session |-> s] \in jobs)

\* What the request was sent with is what clients hold, and what was seen at Send only
\* changes in one direction.
Sent ==
    step # "idle" =>
        /\ req.at <= now
        /\ \A s \in {SessionOf(req.token), SessionOf(req.cookie)} :
               s \in used /\ (s \in live => s \in req.live)
        /\ req.announced \subseteq announced

\* What was found out before a step.
Usable(part) == part.form \in {"sound", "Bearer"}
Found ==
    /\ step \in {"library", "xread"} => req.route = "library"
    /\ step \in {"validate", "hasSession"} => req.route # "whoAmI"
    /\ step = "xread" =>
          /\ Usable(req.token) /\ Usable(req.cookie)
          /\ req.at + skew < req.token.jwt.iat + TokenTtl
    /\ step = "hasSession" =>
          /\ Usable(req.token) /\ Usable(req.cookie)
          /\ SessionOf(req.token) = SessionOf(req.cookie)
          /\ req.at < req.token.jwt.iat + TokenTtl
    /\ step \in {"whoAmI", "ownSession", "user"} /\ req.route # "whoAmI" => Usable(req.token)
    /\ step \in {"ownSession", "user"} =>
          Usable(req.cookie) /\ req.at < req.cookie.jwt.iat + CookieTtl
    /\ step = "user" => SessionOf(req.cookie) \in req.live

Redis == OnlyUsed /\ RemovalsComplete
Underway == Sent /\ Found
Answers == SignedInClientsPass /\ PassesAreVouched /\ OnlySoundJwtsPass /\ CookiesClearedForCause

IInv == TypeOK /\ Redis /\ Underway /\ Answers

LEMMA InitIInv == Init => IInv
<1> SUFFICES ASSUME Init PROVE IInv
  OBVIOUS
<1> USE DEF Init
<1>1. TypeOK
  BY DEF TypeOK, Reply, Answer, Step
<1>2. Redis
  BY DEF Redis, OnlyUsed, RemovalsComplete
<1>3. Underway
  BY DEF Underway, Sent, Found
<1>4. Answers
  BY DEF Answers, SignedInClientsPass, PassesAreVouched, OnlySoundJwtsPass,
     CookiesClearedForCause, Answered
<1> QED BY <1>1, <1>2, <1>3, <1>4 DEF IInv

-----------------------------------------------------------------------------
(* The surroundings. *)

Surroundings ==
    \/ Tick
    \/ \E s \in Session : Login(s) \/ RemoveSession(s)
    \/ \E j \in jobs : CreateTicket(j) \/ HDel(j) \/ XAdd(j)

\* What they may do to a request: time passes, sessions are closed, none is reopened.
Drift ==
    /\ UNCHANGED request /\ skew' = skew
    /\ now' \in Nat /\ now <= now'
    /\ used \subseteq used' /\ announced \subseteq announced'
    /\ \A s \in used : s \in live' => s \in live

LEMMA SurroundingsDrift ==
  ASSUME IInv, Surroundings
  PROVE  TypeOK' /\ Redis' /\ Drift
<1> USE DEF IInv
<1>1. CASE Tick
  BY <1>1 DEF Tick, TypeOK, Redis, OnlyUsed, RemovalsComplete, Drift, redis, request, Answer
<1>2. ASSUME NEW s \in Session, Login(s) PROVE TypeOK' /\ Redis' /\ Drift
  <2> USE <1>2 DEF Login
  <2>1. TypeOK'
    BY DEF TypeOK, clocks, request, Job
  <2>2. OnlyUsed'
    BY DEF Redis, OnlyUsed, TypeOK
  <2>3. RemovalsComplete'
    <3> SUFFICES ASSUME NEW r \in used'
                 PROVE  (r \notin live' \/ [kind |-> "hdel", session |-> r] \in jobs')
                          <=> (r \in announced' \/ [kind |-> "xadd", session |-> r] \in jobs')
      BY DEF RemovalsComplete
    <3>1. CASE r = s
      BY <3>1 DEF Redis, OnlyUsed
    <3>2. CASE r # s
      BY <3>2 DEF Redis, RemovalsComplete
    <3> QED BY <3>1, <3>2
  <2>4. Drift
    BY DEF Drift, clocks, TypeOK
  <2> QED BY <2>1, <2>2, <2>3, <2>4 DEF Redis
<1>3. ASSUME NEW s \in Session, RemoveSession(s) PROVE TypeOK' /\ Redis' /\ Drift
  <2> USE <1>3 DEF RemoveSession
  <2>0. [kind : {"hdel", "xadd"}, session : {s}] \subseteq Job
    BY DEF Job
  <2>1. TypeOK'
    BY <2>0 DEF TypeOK, clocks, request
  <2>2. OnlyUsed'
    BY DEF Redis, OnlyUsed, TypeOK
  <2>3. RemovalsComplete'
    BY DEF Redis, RemovalsComplete
  <2>4. Drift
    BY DEF Drift, clocks, TypeOK
  <2> QED BY <2>1, <2>2, <2>3, <2>4 DEF Redis
<1>4. ASSUME NEW j \in jobs, CreateTicket(j) PROVE TypeOK' /\ Redis' /\ Drift
  <2> USE <1>4 DEF CreateTicket
  <2>1. j \in Job /\ j.session \in used
    BY DEF TypeOK, Redis, OnlyUsed
  <2>2. TypeOK'
    BY <2>1 DEF TypeOK, clocks, request, Job, Jwt
  <2>3. OnlyUsed'
    BY <2>1 DEF Redis, OnlyUsed, TypeOK
  <2>4. RemovalsComplete'
    <3>1. \A r \in used : j # [kind |-> "hdel", session |-> r] /\ j # [kind |-> "xadd", session |-> r]
      OBVIOUS
    <3> QED BY <3>1 DEF Redis, RemovalsComplete
  <2>5. Drift
    BY DEF Drift, clocks, TypeOK
  <2> QED BY <2>2, <2>3, <2>4, <2>5 DEF Redis
<1>5. ASSUME NEW j \in jobs, HDel(j) PROVE TypeOK' /\ Redis' /\ Drift
  <2> USE <1>5 DEF HDel
  <2>1. j \in Job /\ j.session \in used /\ j = [kind |-> "hdel", session |-> j.session]
    BY DEF TypeOK, Redis, OnlyUsed, Job
  <2>2. TypeOK'
    BY <2>1 DEF TypeOK, clocks, request
  <2>3. OnlyUsed'
    BY <2>1 DEF Redis, OnlyUsed, TypeOK
  <2>4. RemovalsComplete'
    <3> SUFFICES ASSUME NEW r \in used
                 PROVE  (r \notin live' \/ [kind |-> "hdel", session |-> r] \in jobs')
                          <=> (r \in announced' \/ [kind |-> "xadd", session |-> r] \in jobs')
      BY DEF RemovalsComplete
    <3>1. CASE r = j.session
      BY <2>1, <3>1 DEF Redis, RemovalsComplete
    <3>2. CASE r # j.session
      BY <2>1, <3>2 DEF Redis, RemovalsComplete
    <3> QED BY <3>1, <3>2
  <2>5. Drift
    BY DEF Drift, clocks, TypeOK
  <2> QED BY <2>2, <2>3, <2>4, <2>5 DEF Redis
<1>6. ASSUME NEW j \in jobs, XAdd(j) PROVE TypeOK' /\ Redis' /\ Drift
  <2> USE <1>6 DEF XAdd
  <2>1. j \in Job /\ j.session \in used /\ j = [kind |-> "xadd", session |-> j.session]
    BY DEF TypeOK, Redis, OnlyUsed, Job
  <2>2. TypeOK'
    BY <2>1 DEF TypeOK, clocks, request, Job
  <2>3. OnlyUsed'
    BY <2>1 DEF Redis, OnlyUsed, TypeOK
  <2>4. RemovalsComplete'
    <3> SUFFICES ASSUME NEW r \in used
                 PROVE  (r \notin live' \/ [kind |-> "hdel", session |-> r] \in jobs')
                          <=> (r \in announced' \/ [kind |-> "xadd", session |-> r] \in jobs')
      BY DEF RemovalsComplete
    <3>1. CASE r = j.session
      BY <2>1, <3>1 DEF Redis, RemovalsComplete
    <3>2. CASE r # j.session
      BY <2>1, <3>2 DEF Redis, RemovalsComplete
    <3> QED BY <3>1, <3>2
  <2>5. Drift
    BY DEF Drift, clocks, TypeOK
  <2> QED BY <2>2, <2>3, <2>4, <2>5 DEF Redis
<1> QED BY <1>1, <1>2, <1>3, <1>4, <1>5, <1>6 DEF Surroundings

\* Nothing that was found out or answered is undone by the surroundings.
LEMMA DriftKeeps ==
  ASSUME IInv, Drift
  PROVE  Underway' /\ Answers'
<1> USE DEF IInv, Drift, request
<1>0. now \in Nat /\ (step # "idle" => req \in Request)
  BY DEF TypeOK
<1>1. Sent'
  BY <1>0 DEF Underway, Sent, Request, SessionOf
<1>2. Found'
  BY DEF Underway, Found, Usable, SessionOf
<1>3. SignedInClientsPass'
  <2> SUFFICES ASSUME Answered', SessionOf(req.cookie) \in live',
                      SessionOf(req.cookie) \notin announced',
                      now' < req.cookie.jwt.iat + CookieTtl
               PROVE  /\ SessionOf(req.cookie) \in live
                      /\ SessionOf(req.cookie) \notin announced
                      /\ now < req.cookie.jwt.iat + CookieTtl
    BY DEF Answers, SignedInClientsPass, Answered, Intact, SessionOf
  <2>1. req \in Request /\ SessionOf(req.cookie) \in used
    BY <1>0 DEF Answered, Underway, Sent
  <2>2. req.cookie.jwt.iat + CookieTtl \in Nat
    BY <2>1, TimesAssumption DEF Request, Part, Jwt
  <2> QED BY <1>0, <2>1, <2>2
<1>4. PassesAreVouched'
  BY DEF Answers, PassesAreVouched, Answered, SessionOf
<1>5. OnlySoundJwtsPass'
  BY DEF Answers, OnlySoundJwtsPass, Answered
<1>6. CookiesClearedForCause'
  BY <1>0, TimesAssumption DEF Underway, Sent, Answers, CookiesClearedForCause, Answered, Intact,
     SessionOf, Request, Part, Jwt
<1> QED BY <1>1, <1>2, <1>3, <1>4, <1>5, <1>6 DEF Underway, Answers

-----------------------------------------------------------------------------
(* The steps of the request. *)

\* Those that go on answer nothing, those that end the request find nothing out.
LEMMA GoOn == ASSUME step' # "answered" PROVE Answers'
  BY DEF Answers, SignedInClientsPass, PassesAreVouched, OnlySoundJwtsPass,
     CookiesClearedForCause, Answered

LEMMA Ends ==
  ASSUME IInv, UNCHANGED quiet, step # "idle", step' = "answered"
  PROVE  Underway'
  BY DEF IInv, Underway, Sent, Found, quiet, clocks, redis

LEMMA QuietSteps ==
  ASSUME IInv, UNCHANGED <<quiet, tokens>>, step # "idle", step' \in Step, failed' \in BOOLEAN,
         answer' \in Answer
  PROVE  TypeOK' /\ Redis'
  BY DEF IInv, TypeOK, Redis, OnlyUsed, RemovalsComplete, quiet, clocks, redis

LEMMA Replies ==
  /\ \A kind \in {"none", "anonymous", "refused"}, b \in BOOLEAN : Reply(kind, b) \in Answer
  /\ \A s \in Session, r \in Session \cup {Null} : Pass(s, r) \in Answer
  BY DEF Reply, Pass, Answer

LEMMA SendStep ==
  ASSUME IInv, NEW route \in Route, NEW token \in Part, NEW cookie \in Part,
         Send(route, token, cookie)
  PROVE  IInv'
<1> USE DEF Send
<1>0. IInv /\ token.jwt.session \in used /\ cookie.jwt.session \in used /\ now \in Nat
  BY DEF IInv, Redis, OnlyUsed, TypeOK
<1>1. step' \in {"validate", "library", "whoAmI"}
  BY DEF Route
<1>2. TypeOK'
  BY <1>1, Replies DEF IInv, TypeOK, Request, Step, clocks, redis
<1>3. Redis'
  BY DEF IInv, Redis, OnlyUsed, RemovalsComplete, redis
<1>4. Underway'
  BY <1>0 DEF Underway, Sent, Found, Route, clocks, redis, SessionOf
<1>5. Answers'
  BY <1>1, GoOn
<1> QED BY <1>2, <1>3, <1>4, <1>5 DEF IInv

LEMMA VerifiedByLibraryStep == ASSUME IInv, VerifiedByLibrary PROVE IInv'
<1> DEFINE r == VerifyByLibrary(req.token, req.cookie)
<1> USE DEF VerifiedByLibrary
<1>0. /\ IInv /\ TypeOK /\ Underway /\ Answers /\ step = "library" /\ req \in Request
      /\ req.route = "library" /\ UNCHANGED <<quiet, tokens>>
  BY DEF IInv, TypeOK, Underway, Found
<1>1. CASE r \in {"sound", "expired"} /\ GoTo(IF r = "sound" THEN "xread" ELSE "validate")
  <2>1. TypeOK' /\ Redis'
    BY <1>0, <1>1, QuietSteps DEF GoTo, TypeOK, Step
  <2>2. Found'
    <3>1. CASE r = "sound"
      <4>1. Usable(req.token) /\ Usable(req.cookie) /\ LibraryClock < req.token.jwt.iat + TokenTtl
        BY <1>0, <3>1, TimesAssumption DEF VerifyByLibrary, Absent, IsLowerBearer, FirstFailure,
           DecodeJwt, Usable, Request, Part, Form, Jwt, LibraryClock, TypeOK
      <4>2. req.at + skew < req.token.jwt.iat + TokenTtl
        BY <1>0, <4>1, TimesAssumption DEF Underway, Sent, Request, Part, Jwt, LibraryClock, TypeOK
      <4> QED BY <1>0, <1>1, <3>1, <4>1, <4>2 DEF Found, GoTo, quiet, clocks
    <3>2. CASE r = "expired"
      BY <1>0, <1>1, <3>2 DEF Found, GoTo, quiet, clocks
    <3> QED BY <1>1, <3>1, <3>2
  <2>3. Sent'
    BY <1>0, <1>1 DEF Underway, Sent, GoTo, quiet, clocks, redis
  <2>4. Answers'
    BY <1>1, GoOn DEF GoTo
  <2> QED BY <2>1, <2>2, <2>3, <2>4 DEF IInv, Underway
<1>2. CASE r \in {"anonymous", "refused"} /\ End(Reply(r, FALSE))
  <2>1. TypeOK' /\ Redis'
    BY <1>0, <1>2, QuietSteps, Replies DEF End, TypeOK, Step
  <2>2. Underway'
    BY <1>0, <1>2, Ends DEF End
  <2>3. SignedInClientsPass'
    <3> SUFFICES ASSUME Intact(req.token), Intact(req.cookie),
                        \A part \in {req.token, req.cookie} : part.jwt.iat <= req.at + skew
                 PROVE  FALSE
      BY <1>0, <1>2 DEF SignedInClientsPass, Answered, quiet, clocks, redis, Intact, SessionOf
    <3>1. req.token.jwt.iat <= LibraryClock /\ req.cookie.jwt.iat <= LibraryClock
      BY <1>0, TimesAssumption DEF Underway, Sent, LibraryClock, Request, Part, Jwt, TypeOK
    <3>2. DecodeJwt(req.cookie, CookieTtl) \in {"sound", "expired"}
      BY <1>0, <3>1, TimesAssumption DEF DecodeJwt, Intact, LibraryClock, Request, Part, Jwt, TypeOK
    <3>3. DecodeJwt(req.token, TokenTtl) \in {"sound", "expired"}
      BY <1>0, <3>1, TimesAssumption DEF DecodeJwt, Intact, LibraryClock, Request, Part, Jwt, TypeOK
    <3> QED BY <1>2, <3>2, <3>3 DEF VerifyByLibrary, Absent, IsLowerBearer, FirstFailure, Intact
  <2>4. PassesAreVouched' /\ OnlySoundJwtsPass' /\ CookiesClearedForCause'
    BY <1>2 DEF PassesAreVouched, OnlySoundJwtsPass, CookiesClearedForCause, Answered, End, Reply
  <2> QED BY <2>1, <2>2, <2>3, <2>4 DEF IInv, Answers
<1> QED BY <1>1, <1>2

LEMMA LibraryReadsStep == ASSUME IInv, LibraryReads PROVE IInv'
<1> USE DEF LibraryReads
<1>0. /\ IInv /\ TypeOK /\ Underway /\ step = "xread" /\ req \in Request
      /\ req.route = "library" /\ UNCHANGED <<quiet, tokens>> /\ step' = "answered"
      /\ failed' = failed /\ SessionOf(req.token) \in Session
  BY DEF IInv, TypeOK, Underway, Found, End, Request, Part, Jwt, SessionOf
<1>1. answer' = IF SessionOf(req.token) \in announced THEN Reply("refused", FALSE)
                ELSE Pass(SessionOf(req.token), Null)
  BY <1>0 DEF End, Refused
<1>2. TypeOK' /\ Redis'
  BY <1>0, <1>1, QuietSteps, Replies DEF TypeOK, Step
<1>3. Underway'
  BY <1>0, Ends
<1>4. SignedInClientsPass'
  BY <1>0, <1>1 DEF SignedInClientsPass, Pass, quiet, clocks, redis
<1>5. PassesAreVouched'
  BY <1>0, <1>1 DEF PassesAreVouched, Underway, Sent, Reply, Pass, quiet, clocks, redis
<1>6. OnlySoundJwtsPass'
  BY <1>0, <1>1, TimesAssumption DEF OnlySoundJwtsPass, Underway, Found, Usable, Reply, Pass, quiet, clocks,
     TypeOK, Request, Part, Jwt
<1>7. CookiesClearedForCause'
  BY <1>0, <1>1 DEF CookiesClearedForCause, Reply, Pass
<1> QED BY <1>2, <1>3, <1>4, <1>5, <1>6, <1>7 DEF IInv, Answers

LEMMA HasSessionStep == ASSUME IInv, HasSession PROVE IInv'
<1> USE DEF HasSession
<1>0. /\ IInv /\ TypeOK /\ Underway /\ step = "hasSession" /\ req \in Request
      /\ req.route # "whoAmI" /\ UNCHANGED <<quiet, tokens>> /\ step' = "answered"
      /\ failed' = failed /\ SessionOf(req.token) \in Session
  BY DEF IInv, TypeOK, Underway, Found, End, Request, Part, Jwt, SessionOf
<1>1. answer' = IF SessionOf(req.cookie) \in live THEN Pass(SessionOf(req.token), Null)
                ELSE Reply("refused", FALSE)
  BY <1>0 DEF End, Refused
<1>2. TypeOK' /\ Redis'
  BY <1>0, <1>1, QuietSteps, Replies DEF TypeOK, Step
<1>3. Underway'
  BY <1>0, Ends
<1>4. SignedInClientsPass'
  <2>1. req.at < req.token.jwt.iat + TokenTtl
    BY <1>0 DEF Underway, Found
  <2>2. ~(req.at >= req.token.jwt.iat + TokenTtl)
    BY <1>0, <2>1, TimesAssumption DEF Request, Part, Jwt
  <2> QED BY <1>0, <1>1, <2>2 DEF SignedInClientsPass, Pass, quiet, clocks, redis
<1>5. PassesAreVouched'
  BY <1>0, <1>1 DEF PassesAreVouched, Underway, Sent, Reply, Pass, quiet, clocks, redis
<1>6. OnlySoundJwtsPass'
  <2>1. req.at + (IF req.route = "library" /\ skew < 0 THEN skew ELSE 0)
          < req.token.jwt.iat + TokenTtl
    BY <1>0, TimesAssumption DEF Underway, Found, TypeOK, Request, Part, Jwt
  <2> QED BY <1>0, <1>1, <2>1 DEF OnlySoundJwtsPass, Underway, Found, Usable, Reply, Pass, quiet, clocks
<1>7. CookiesClearedForCause'
  BY <1>0, <1>1 DEF CookiesClearedForCause, Reply, Pass
<1> QED BY <1>2, <1>3, <1>4, <1>5, <1>6, <1>7 DEF IInv, Answers

LEMMA ValidateTicketStep == ASSUME IInv, ValidateTicket PROVE IInv'
<1> DEFINE r == VerifyTicket(req.token, req.cookie)
<1> USE DEF ValidateTicket
<1>0. /\ IInv /\ TypeOK /\ Underway /\ step = "validate" /\ req \in Request
      /\ req.route # "whoAmI" /\ UNCHANGED <<quiet, tokens>>
  BY DEF IInv, TypeOK, Underway, Found
<1>1. CASE /\ r = "sound" /\ SessionOf(req.token) = SessionOf(req.cookie)
           /\ GoTo("hasSession")
  <2>1. TypeOK' /\ Redis'
    BY <1>0, <1>1, QuietSteps DEF GoTo, TypeOK, Step
  <2>2. /\ Usable(req.token) /\ Usable(req.cookie) /\ now < req.token.jwt.iat + TokenTtl
    BY <1>0, <1>1, TimesAssumption DEF VerifyTicket, Absent, IsBearer, FirstFailure,
       VerifyJwt, Usable, Request, Part, Form, Jwt, TypeOK
  <2>3. req.at < req.token.jwt.iat + TokenTtl
    BY <1>0, <2>2, TimesAssumption DEF Underway, Sent, Request, Part, Jwt, TypeOK
  <2>4. Found'
    BY <1>0, <1>1, <2>2, <2>3 DEF Found, GoTo, quiet, clocks
  <2>5. Sent'
    BY <1>0, <1>1 DEF Underway, Sent, GoTo, quiet, clocks, redis
  <2>6. Answers'
    BY <1>1, GoOn DEF GoTo
  <2> QED BY <2>1, <2>4, <2>5, <2>6 DEF IInv, Underway
<1>2. CASE r = "expired" /\ GoTo("whoAmI")
  <2>1. TypeOK' /\ Redis'
    BY <1>0, <1>2, QuietSteps DEF GoTo, TypeOK, Step
  <2>2. Usable(req.token)
    BY <1>0, <1>2 DEF VerifyTicket, Absent, IsBearer, FirstFailure, VerifyJwt, Usable,
       Request, Part, Form
  <2>3. Underway'
    BY <1>0, <1>2, <2>2 DEF Underway, Sent, Found, GoTo, quiet, clocks, redis
  <2>4. Answers'
    BY <1>2, GoOn DEF GoTo
  <2> QED BY <2>1, <2>3, <2>4 DEF IInv
<1>3. CASE \/ r = "sound" /\ SessionOf(req.token) # SessionOf(req.cookie) /\ End(Refused)
           \/ r \in {"anonymous", "refused"} /\ End(Reply(r, FALSE))
  <2>1. /\ step' = "answered" /\ failed' = failed
        /\ \E kind \in {"anonymous", "refused"} : answer' = Reply(kind, FALSE)
    BY <1>0, <1>3 DEF End, Refused
  <2>2. TypeOK' /\ Redis'
    BY <1>0, <2>1, QuietSteps, Replies DEF TypeOK, Step
  <2>3. Underway'
    BY <1>0, <2>1, Ends
  <2>4. SignedInClientsPass'
    <3> SUFFICES ASSUME Intact(req.token), Intact(req.cookie),
                        SessionOf(req.token) = SessionOf(req.cookie)
                 PROVE  FALSE
      BY <1>0 DEF SignedInClientsPass, quiet, Intact, SessionOf
    <3> QED BY <1>3 DEF VerifyTicket, VerifyJwt, FirstFailure, Absent, IsBearer, Intact
  <2>5. PassesAreVouched' /\ OnlySoundJwtsPass' /\ CookiesClearedForCause'
    BY <2>1 DEF PassesAreVouched, OnlySoundJwtsPass, CookiesClearedForCause, Reply
  <2> QED BY <2>2, <2>3, <2>4, <2>5 DEF IInv, Answers
<1> QED BY <1>1, <1>2, <1>3

LEMMA WhoAmIStep == ASSUME IInv, WhoAmI PROVE IInv'
<1> DEFINE r == VerifyCookie(req.cookie)
<1> USE DEF WhoAmI
<1>0. /\ IInv /\ TypeOK /\ Underway /\ step = "whoAmI" /\ req \in Request
      /\ UNCHANGED <<quiet, tokens>>
  BY DEF IInv, TypeOK
<1>1. CASE r = "sound" /\ GoTo("ownSession")
  <2>1. TypeOK' /\ Redis'
    BY <1>0, <1>1, QuietSteps DEF GoTo, TypeOK, Step
  <2>2. Usable(req.cookie) /\ now < req.cookie.jwt.iat + CookieTtl
    BY <1>0, <1>1, TimesAssumption DEF VerifyCookie, VerifyJwt, Absent, IsBearer, Usable,
       Request, Part, Form, Jwt, TypeOK
  <2>3. req.at < req.cookie.jwt.iat + CookieTtl
    BY <1>0, <2>2, TimesAssumption DEF Underway, Sent, Request, Part, Jwt, TypeOK
  <2>4. Underway'
    BY <1>0, <1>1, <2>2, <2>3 DEF Underway, Sent, Found, GoTo, quiet, clocks, redis
  <2>5. Answers'
    BY <1>1, GoOn DEF GoTo
  <2> QED BY <2>1, <2>4, <2>5 DEF IInv
<1>2. CASE \/ r \in {"anonymous", "expired"} /\ End(Reply("anonymous", req.route # "library"))
           \/ r = "refused" /\ End(Refused)
  <2>1. /\ step' = "answered" /\ failed' = failed
        /\ \E kind \in {"anonymous", "refused"}, b \in BOOLEAN : answer' = Reply(kind, b)
    BY <1>2 DEF End, Refused
  <2>2. TypeOK' /\ Redis'
    BY <1>0, <2>1, QuietSteps, Replies DEF TypeOK, Step
  <2>3. Underway'
    BY <1>0, <2>1, Ends
  <2>4. r = "sound" \/ ~Intact(req.cookie) \/ now >= req.cookie.jwt.iat + CookieTtl
    BY DEF VerifyCookie, VerifyJwt, Absent, IsBearer, Intact
  <2>5. req.cookie.jwt.iat + CookieTtl \in Nat /\ now \in Nat
    BY <1>0, TimesAssumption DEF Request, Part, Jwt, TypeOK
  <2>6. SignedInClientsPass' /\ CookiesClearedForCause'
    BY <1>0, <1>2, <2>4, <2>5 DEF SignedInClientsPass, CookiesClearedForCause, quiet, clocks, Intact
  <2>7. PassesAreVouched' /\ OnlySoundJwtsPass'
    BY <2>1 DEF PassesAreVouched, OnlySoundJwtsPass, Reply
  <2> QED BY <2>2, <2>3, <2>6, <2>7 DEF IInv, Answers
<1> QED BY <1>1, <1>2

LEMMA CheckOwnSessionStep == ASSUME IInv, CheckOwnSession PROVE IInv'
<1> USE DEF CheckOwnSession
<1>0. /\ IInv /\ TypeOK /\ Underway /\ step = "ownSession" /\ req \in Request
      /\ UNCHANGED <<quiet, tokens>>
  BY DEF IInv, TypeOK
<1>1. CASE SessionOf(req.cookie) \in live /\ GoTo("user")
  <2>1. TypeOK' /\ Redis'
    BY <1>0, <1>1, QuietSteps DEF GoTo, TypeOK, Step
  <2>2. Underway'
    BY <1>0, <1>1 DEF Underway, Sent, Found, GoTo, quiet, clocks, redis
  <2>3. Answers'
    BY <1>1, GoOn DEF GoTo
  <2> QED BY <2>1, <2>2, <2>3 DEF IInv
<1>2. CASE SessionOf(req.cookie) \notin live /\ End(Refused)
  <2>1. /\ step' = "answered" /\ failed' = failed
        /\ answer' = Reply("refused", req.route = "whoAmI")
    BY <1>2 DEF End, Refused
  <2>2. TypeOK' /\ Redis'
    BY <1>0, <2>1, QuietSteps, Replies DEF TypeOK, Step
  <2>3. Underway'
    BY <1>0, <2>1, Ends
  <2>4. SignedInClientsPass' /\ CookiesClearedForCause'
    BY <1>0, <1>2 DEF SignedInClientsPass, CookiesClearedForCause, quiet, clocks, redis
  <2>5. PassesAreVouched' /\ OnlySoundJwtsPass'
    BY <2>1 DEF PassesAreVouched, OnlySoundJwtsPass, Reply
  <2> QED BY <2>2, <2>3, <2>4, <2>5 DEF IInv, Answers
<1> QED BY <1>1, <1>2

LEMMA RenewStep == ASSUME IInv, Renew PROVE IInv'
<1> DEFINE s == SessionOf(req.cookie)
           for == SessionOf(IF req.route = "whoAmI" THEN req.cookie ELSE req.token)
<1> USE DEF Renew
<1>0. /\ IInv /\ TypeOK /\ Redis /\ Underway /\ step = "user" /\ req \in Request
      /\ UNCHANGED quiet /\ step' = "answered" /\ failed' = failed
      /\ answer' = Pass(for, s) /\ s # Null
      /\ s \in Session /\ SessionOf(req.token) \in Session /\ for \in Session /\ s \in used
  BY NullAssumption DEF IInv, TypeOK, End, Request, Part, Jwt, SessionOf, Underway, Sent
<1>1. TypeOK'
  BY <1>0, Replies DEF TypeOK, Step, Jwt, quiet, clocks, redis
<1>2. Redis'
  BY <1>0 DEF Redis, OnlyUsed, RemovalsComplete, quiet, redis
<1>3. Underway'
  BY <1>0, Ends
<1>4. SignedInClientsPass'
  BY <1>0 DEF SignedInClientsPass, Pass, quiet
<1>5. PassesAreVouched'
  BY <1>0 DEF PassesAreVouched, Underway, Found, Pass, quiet
<1>6. OnlySoundJwtsPass'
  BY <1>0 DEF OnlySoundJwtsPass, Underway, Found, Usable, Pass, quiet
<1>7. CookiesClearedForCause'
  BY <1>0 DEF CookiesClearedForCause, Pass
<1> QED BY <1>1, <1>2, <1>3, <1>4, <1>5, <1>6, <1>7 DEF IInv, Answers

LEMMA CallFailsStep == ASSUME IInv, CallFails PROVE IInv'
<1> USE DEF CallFails
<1>0. /\ IInv /\ TypeOK /\ step # "idle" /\ UNCHANGED <<quiet, tokens>>
      /\ step' = "answered" /\ failed' = TRUE
      /\ answer' = Reply("refused", req.route = "whoAmI")
  BY DEF IInv, Refused
<1>1. TypeOK' /\ Redis'
  BY <1>0, QuietSteps, Replies DEF Step
<1>2. Underway'
  BY <1>0, Ends
<1>3. SignedInClientsPass' /\ PassesAreVouched' /\ OnlySoundJwtsPass'
  BY <1>0 DEF SignedInClientsPass, PassesAreVouched, OnlySoundJwtsPass, Reply
<1>4. CookiesClearedForCause'
  <2>1. req' = req /\ failed' = TRUE /\ answer'.cleared = (req.route = "whoAmI")
    BY <1>0 DEF Reply, quiet
  <2>2. CASE req.route = "whoAmI"
    BY <2>1, <2>2 DEF CookiesClearedForCause
  <2>3. CASE req.route # "whoAmI"
    BY <2>1, <2>3 DEF CookiesClearedForCause
  <2> QED BY <2>2, <2>3
<1> QED BY <1>1, <1>2, <1>3, <1>4 DEF IInv, Answers

-----------------------------------------------------------------------------
(* The theorems. *)

LEMMA NextIInv == IInv /\ [Next]_vars => IInv'
<1> SUFFICES ASSUME IInv, [Next]_vars PROVE IInv'
  OBVIOUS
<1>1. CASE Surroundings
  BY <1>1, SurroundingsDrift, DriftKeeps DEF IInv
<1>2. CASE Advance
  BY <1>2, VerifiedByLibraryStep, LibraryReadsStep, ValidateTicketStep, HasSessionStep,
     WhoAmIStep, CheckOwnSessionStep, RenewStep DEF Advance
<1>3. CASE CallFails
  BY <1>3, CallFailsStep
<1>4. CASE \E route \in Route, token, cookie \in Part : Send(route, token, cookie)
  BY <1>4, SendStep
<1>5. CASE UNCHANGED vars
  BY <1>5 DEF vars, clocks, redis, IInv, TypeOK, Redis, OnlyUsed, RemovalsComplete, Underway,
     Sent, Found, Answers, SignedInClientsPass, PassesAreVouched, OnlySoundJwtsPass,
     CookiesClearedForCause, Answered
<1> QED BY <1>1, <1>2, <1>3, <1>4, <1>5 DEF Next, Surroundings

THEOREM Inductive == Spec => []IInv
  BY InitIInv, NextIInv, PTL DEF Spec

\* Type correctness of the ticket check.
THEOREM TypeCorrect == Spec => []TypeOK
  BY Inductive, PTL DEF IInv

\* A client with a good ticket of a session nobody closes is let in, whichever program
\* checks the ticket and whatever expires meanwhile.
THEOREM SignedIn == Spec => []SignedInClientsPass
<1>1. IInv => SignedInClientsPass
  BY DEF IInv, Answers
<1> QED BY <1>1, Inductive, PTL

\* A closed session lets no later request in and gets no later request a token.
THEOREM Vouched == Spec => []PassesAreVouched
<1>1. IInv => PassesAreVouched
  BY DEF IInv, Answers
<1> QED BY <1>1, Inductive, PTL

\* A changed jwt opens nothing, an expired token nothing but a renewal.
THEOREM OnlySound == Spec => []OnlySoundJwtsPass
<1>1. IInv => OnlySoundJwtsPass
  BY DEF IInv, Answers
<1> QED BY <1>1, Inductive, PTL

\* A cookie is cleared for a reason that stays, or by who-am-i when a call fails.
THEOREM Cleared == Spec => []CookiesClearedForCause
<1>1. IInv => CookiesClearedForCause
  BY DEF IInv, Answers
<1> QED BY <1>1, Inductive, PTL

LEMMA NextIssuedBefore == TypeOK /\ IssuedBefore /\ [Next]_vars => IssuedBefore'
<1> SUFFICES ASSUME TypeOK, IssuedBefore, [Next]_vars PROVE IssuedBefore'
  OBVIOUS
<1>1. now \in Nat /\ \A jwt \in tokens \cup cookies : jwt.iat \in Nat
  BY DEF TypeOK, Jwt
<1>2. CASE Tick
  BY <1>1, <1>2 DEF Tick, IssuedBefore
<1>3. ASSUME NEW j \in jobs, CreateTicket(j) PROVE IssuedBefore'
  BY <1>1, <1>3 DEF CreateTicket, IssuedBefore, clocks
<1>4. CASE Renew
  BY <1>1, <1>4 DEF Renew, IssuedBefore, quiet, clocks
<1>5. CASE UNCHANGED <<clocks, tokens, cookies>>
  BY <1>5 DEF IssuedBefore, clocks
<1> QED BY <1>2, <1>3, <1>4, <1>5 DEF Next, Login, RemoveSession, HDel, XAdd, Send, Advance,
  VerifiedByLibrary, LibraryReads, ValidateTicket, HasSession, WhoAmI, CheckOwnSession,
  CallFails, quiet, clocks, vars

LEMMA IInvAgree == IInv /\ IssuedBefore => ProgramsAgree
<1> SUFFICES ASSUME IInv, IssuedBefore, NEW t \in tokens, NEW c \in cookies, t.session = c.session, skew = 0,
                    \A j \in jobs : j.session # t.session,
                    NEW f \in Form \ {"Bearer"}, NEW g \in Form \ {"Bearer"}
             PROVE  LET token == [form |-> f, jwt |-> t]
                        cookie == [form |-> g, jwt |-> c]
                    IN  ServiceLetsIn(token, cookie) <=> LibraryLetsIn(token, cookie)
  BY DEF ProgramsAgree
<1> DEFINE token == [form |-> f, jwt |-> t]
           cookie == [form |-> g, jwt |-> c]
<1>1. t \in Jwt /\ c \in Jwt /\ now \in Nat
  BY DEF IInv, TypeOK
<1>2. t.session \in live <=> t.session \notin announced
  <2>1. /\ [kind |-> "hdel", session |-> t.session] \notin jobs
        /\ [kind |-> "xadd", session |-> t.session] \notin jobs
    OBVIOUS
  <2> QED BY <2>1 DEF IInv, Redis, OnlyUsed, RemovalsComplete
<1>3. t.iat <= now /\ c.iat <= now /\ LibraryClock = now
  BY <1>1 DEF IssuedBefore, LibraryClock
<1>4. /\ VerifyJwt(token, TokenTtl) = IF f = "plain" THEN "refused" ELSE DecodeJwt(token, TokenTtl)
      /\ VerifyJwt(cookie, CookieTtl) = IF g = "plain" THEN "refused" ELSE DecodeJwt(cookie, CookieTtl)
  BY <1>1, <1>3 DEF VerifyJwt, DecodeJwt, IsBearer, Jwt
<1>5. /\ DecodeJwt(token, TokenTtl) \in {"refused", "expired", "sound"}
      /\ DecodeJwt(cookie, CookieTtl) \in {"refused", "expired", "sound"}
  BY DEF DecodeJwt
<1>6. SessionOf(token) = t.session /\ SessionOf(cookie) = t.session
  BY DEF SessionOf
<1> HIDE DEF token, cookie
<1>7. /\ IsBearer(token) <=> f # "plain"
      /\ IsBearer(cookie) <=> g # "plain"
      /\ IsLowerBearer(token) <=> f # "plain"
      /\ IsLowerBearer(cookie) <=> g # "plain"
      /\ Absent(token) <=> f = "absent"
      /\ Absent(cookie) <=> g = "absent"
  BY DEF IsBearer, IsLowerBearer, Absent, token, cookie
<1>8. ServiceLetsIn(token, cookie) <=> LibraryLetsIn(token, cookie)
  BY <1>2, <1>4, <1>5, <1>6, <1>7 DEF ServiceLetsIn, LibraryLetsIn, VerifyTicket,
     VerifyByLibrary, VerifyCookie, FirstFailure
<1> QED BY <1>8 DEF token, cookie

\* The service and the library agree on every ticket of a session that nobody closes.
THEOREM Agreement == Spec => []ProgramsAgree
<1>1. Init => IssuedBefore
  BY DEF Init, IssuedBefore
<1>2. IInv => TypeOK
  BY DEF IInv
<1> QED BY <1>1, <1>2, NextIssuedBefore, Inductive, IInvAgree, PTL DEF Spec
=============================================================================
