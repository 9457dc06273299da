--------------------------- MODULE InvalidSessions ---------------------------
(***************************************************************************)
(* How a logout reaches the services that use osauthlib, the Python        *)
(* library.  They check tokens without asking the auth service: a token is *)
(* accepted until it expires, unless its session is in the library's list  *)
(* of invalid sessions.  The list is fed from the Redis stream "logout"    *)
(* and forgets a logout after PRUNE_TIME, when every token of the session  *)
(* should have expired.                                                    *)
(*                                                                         *)
(* The auth service is modelled as far as the timing needs it: commands    *)
(* and answers of its requests ("jobs") take up to RequestTime.  A library *)
(* process blocks in XREAD for as long as Redis likes.  Redis is healthy   *)
(* for the auth service; a read of the library may fail.                   *)
(***************************************************************************)
EXTENDS Integers, FiniteSets

CONSTANTS
    Session,        \* session ids
    Process,        \* processes that verify tokens with a SessionHandler of their own
    TokenTtl,       \* seconds a token is valid
    PruneTime,      \* seconds the library remembers a logout
    RequestTime,    \* seconds a request of the auth service is under way, at most
    Offset,         \* by how much the clock of a process is fast
    Null

ASSUME TimesAssumption ==
    /\ TokenTtl \in Nat /\ PruneTime \in Nat /\ RequestTime \in Nat
    /\ Offset \in [Process -> Int]
\* PRUNE_TIME = int(600 * 1.1): the margin of a minute is what requests may take.
ASSUME MarginAssumption == TokenTtl + 2 * RequestTime <= PruneTime

VARIABLES
    now,        \* clock of Redis and of the auth service, in seconds
    used,       \* sessions that were opened
    live,       \* sessions in the hash auth:session
    jobs,       \* what requests of the auth service still have to do
    tokens,     \* access tokens that were sent to clients
    stream,     \* entries of the Redis stream "logout"
    lastId,     \* MessageBus.last_ids["logout"] of each process
    invalid,    \* SessionHandler.invalid_sessions of each process
    check,      \* the verification a process is in, waiting for XREAD
    verdict,    \* the answer a process has just given
    loggedOut   \* history: the first logout entry of a session

service == <<used, live, jobs, tokens>>
library == <<lastId, invalid, check>>
vars == <<now, service, stream, library, verdict, loggedOut>>

Entry == [session : Session, ts : Nat, seq : Nat]
StreamId == [ts : Int, seq : Nat]
Job == [kind : {"ticket", "hdel", "xadd"}, session : Session, at : Nat]
Token == [session : Session, iat : Nat]
Check == [via : {"token", "cookie", "authorization"}, session : Session \cup {Null},
          after : StreamId]
ASSUME NullAssumption == Null \notin Session /\ Null \notin Entry /\ Null \notin Check

NoVerdict == [by |-> Null, via |-> "none", session |-> Null, ok |-> FALSE]

TypeOK ==
    /\ now \in Nat
    /\ used \subseteq Session /\ live \subseteq Session
    /\ jobs \subseteq Job
    /\ tokens \subseteq Token
    /\ stream \subseteq Entry
    /\ lastId \in [Process -> StreamId]
    /\ invalid \in [Process -> SUBSET stream]
    /\ check \in [Process -> Check \cup {Null}]
    /\ verdict \in [by : Process \cup {Null}, via : {"token", "cookie", "authorization", "none"},
                    session : Session \cup {Null}, ok : BOOLEAN]
    /\ loggedOut \in [Session -> stream \cup {Null}]

Clock(p) == now + Offset[p]

\* Redis stream ids are ordered by time, then by sequence number.
After(a, b) == a.ts > b.ts \/ (a.ts = b.ts /\ a.seq > b.seq)

Knows(entries, s) == \E e \in entries : e.session = s

Init ==
    /\ now = 1
    /\ used = {} /\ live = {} /\ jobs = {} /\ tokens = {}
    /\ stream = {}
    /\ lastId = [p \in Process |-> [ts |-> 0, seq |-> 0]]
    /\ invalid = [p \in Process |-> {}]
    /\ check = [p \in Process |-> Null]
    /\ verdict = NoVerdict
    /\ loggedOut = [s \in Session |-> Null]

-----------------------------------------------------------------------------
(* The auth service. *)

Start(kinds, s) == jobs' = jobs \cup [kind : kinds, session : {s}, at : {now}]

\* addSession has stored s; the ticket is created when updateLastLogin is through.
Login(s) ==
    /\ s \notin used
    /\ used' = used \cup {s} /\ live' = live \cup {s}
    /\ Start({"ticket"}, s)
    /\ verdict' = NoVerdict
    /\ UNCHANGED <<now, tokens, stream, library, loggedOut>>

\* whoAmI, or the refresh of an expired token, with the cookie of s: hasSession says
\* yes, the token is created when the user was read.
CheckSession(s) ==
    /\ s \in live /\ Knows(tokens, s)
    /\ Start({"ticket"}, s)
    /\ verdict' = NoVerdict
    /\ UNCHANGED <<now, used, live, tokens, stream, library, loggedOut>>

IssueToken(j) ==
    /\ j.kind = "ticket"
    /\ tokens' = tokens \cup {[session |-> j.session, iat |-> now]}
    /\ jobs' = jobs \ {j}
    /\ verdict' = NoVerdict
    /\ UNCHANGED <<now, used, live, stream, library, loggedOut>>

\* A logout or a clear reaches removeSession, maybe for a session that is gone.
RemoveSession(s) ==
    /\ s \in used
    /\ Start({"hdel", "xadd"}, s)
    /\ verdict' = NoVerdict
    /\ UNCHANGED <<now, used, live, tokens, stream, library, loggedOut>>

HDel(j) ==
    /\ j.kind = "hdel"
    /\ live' = live \ {j.session}
    /\ jobs' = jobs \ {j}
    /\ verdict' = NoVerdict
    /\ UNCHANGED <<now, used, tokens, stream, library, loggedOut>>

\* XADD logout * sessionId s: Redis makes the id from its clock.
XAdd(j) ==
    /\ j.kind = "xadd"
    /\ \E n \in {0} \cup {d.seq + 1 : d \in stream} :
        LET e == [session |-> j.session, ts |-> now, seq |-> n]
        IN  /\ \A d \in stream : After(e, d)
            /\ n = 0 \/ \E d \in stream : d.ts = now /\ n = d.seq + 1
            /\ stream' = stream \cup {e}
            /\ loggedOut' = [loggedOut EXCEPT ![j.session] = IF @ = Null THEN e ELSE @]
    /\ jobs' = jobs \ {j}
    /\ verdict' = NoVerdict
    /\ UNCHANGED <<now, used, live, tokens, library>>

\* No request takes longer than RequestTime.
Tick ==
    /\ \A j \in jobs : now < j.at + RequestTime
    /\ now' = now + 1
    /\ verdict' = NoVerdict
    /\ UNCHANGED <<service, stream, library, loggedOut>>

-----------------------------------------------------------------------------
(* The library. *)

\* The element at index len // 2: the list is ordered by stream id, since updates
\* append newer entries only.
IsMedian(m, entries) ==
    Cardinality({e \in entries : After(m, e)}) = Cardinality(entries) \div 2

\* Mutants of Pruned: it looks at the oldest element; it keeps the median.
PrunedByOldest(entries, limit) ==
    {e \in entries : \A m \in entries :
        IsMedian(m, entries) /\ (\E d \in entries : d.ts < limit) => After(e, m)}
PrunedBelowMedian(entries, limit) ==
    {e \in entries : \A m \in entries :
        IsMedian(m, entries) /\ m.ts < limit => ~After(m, e)}

\* When the median is stale, it is dropped with everything before it.
Pruned(entries, limit) ==
    {e \in entries : \A m \in entries :
        IsMedian(m, entries) /\ m.ts < limit => After(e, m)}

\* Mutant of ReadAfter: a process reads what was logged out since it started.
ReadFromNow(p) ==
    IF lastId[p].ts = 0 THEN [ts |-> Clock(p), seq |-> 0] ELSE lastId[p]

\* The id XREAD is given: where the process stopped, or PRUNE_TIME ago.
ReadAfter(p) ==
    IF Clock(p) - PruneTime > lastId[p].ts
    THEN [ts |-> Clock(p) - PruneTime, seq |-> 0]
    ELSE lastId[p]

\* is_session_invalid up to the blocking XREAD.
AskWhetherInvalid(p, via, s) ==
    /\ check[p] = Null
    /\ invalid' = [invalid EXCEPT ![p] = Pruned(@, Clock(p) - PruneTime)]
    /\ check' = [check EXCEPT ![p] = [via |-> via, session |-> s, after |-> ReadAfter(p)]]
    /\ verdict' = NoVerdict
    /\ UNCHANGED <<now, service, stream, lastId, loggedOut>>

\* verify: the token's signature has not expired.  (An expired token goes to the
\* auth service: CheckSession.)
VerifyToken(p, t) ==
    /\ Clock(p) < t.iat + TokenTtl
    /\ AskWhetherInvalid(p, "token", t.session)

\* verify_only_cookie; cookies are valid for 30 days.
VerifyCookie(p, s) ==
    /\ Knows(tokens, s)
    /\ AskWhetherInvalid(p, "cookie", s)

\* verify_authorization_token: these tokens carry no session.
VerifyAuthorization(p) == AskWhetherInvalid(p, "authorization", Null)

\* OrderedSet.update: a session that is in the set keeps its place and timestamp.
Updated(entries, new) ==
    entries \cup {e \in new :
        ~Knows(entries, e.session) /\ \A d \in new : d.session = e.session => ~After(e, d)}

\* Mutant of IdOfLast: entries[-1] for entries[-1][0].
LastEntry(e) == e
IdOfLast(e) == [ts |-> e.ts, seq |-> e.seq]

\* XREAD is answered, and with it the question.
XRead(p) ==
    LET new == {e \in stream : After(e, check[p].after)}
    IN  /\ check[p] # Null
        /\ \/ new = {} /\ lastId' = [lastId EXCEPT ![p] = check[p].after]
           \/ \E e \in new :
                /\ \A d \in new : ~After(d, e)
                /\ lastId' = [lastId EXCEPT ![p] = IdOfLast(e)]
        /\ invalid' = [invalid EXCEPT ![p] = Updated(@, new)]
        /\ verdict' = [by |-> p, via |-> check[p].via, session |-> check[p].session,
                       ok |-> ~Knows(invalid'[p], check[p].session)]
        /\ check' = [check EXCEPT ![p] = Null]
        /\ UNCHANGED <<now, service, stream, loggedOut>>

\* XREAD fails: the exception ends the verification, last_ids stays.
XReadFails(p) ==
    /\ check[p] # Null
    /\ check' = [check EXCEPT ![p] = Null]
    /\ verdict' = NoVerdict
    /\ UNCHANGED <<now, service, stream, lastId, invalid, loggedOut>>

Restart(p) ==
    /\ lastId' = [lastId EXCEPT ![p] = [ts |-> 0, seq |-> 0]]
    /\ invalid' = [invalid EXCEPT ![p] = {}]
    /\ check' = [check EXCEPT ![p] = Null]
    /\ verdict' = NoVerdict
    /\ UNCHANGED <<now, service, stream, loggedOut>>

-----------------------------------------------------------------------------
Serve ==
    \/ \E s \in Session : Login(s) \/ CheckSession(s) \/ RemoveSession(s)
    \/ \E j \in jobs : IssueToken(j) \/ HDel(j) \/ XAdd(j)

Ask(p) ==
    \/ \E t \in tokens : VerifyToken(p, t)
    \/ \E s \in Session : VerifyCookie(p, s)
    \/ VerifyAuthorization(p)

Next ==
    \/ Tick
    \/ Serve
    \/ \E p \in Process : Ask(p) \/ XRead(p) \/ XReadFails(p) \/ Restart(p)

Spec == Init /\ [][Next]_vars

-----------------------------------------------------------------------------
(* Properties. *)

\* No process accepts a token of a session whose logout is on the stream, however
\* late the token was created and however wrong the clock of the process is: when the
\* list of invalid sessions forgets a logout, the last token of the session is dead.
TokensDieWithLogout ==
    verdict.via = "token" /\ verdict.ok => loggedOut[verdict.session] = Null

\* verify_only_cookie refuses a session for PRUNE_TIME after its logout (the first
\* one: a repeated logout keeps the timestamp of the first).
CookiesRefusedForPruneTime ==
    verdict.via = "cookie" /\ verdict.ok
        => \/ loggedOut[verdict.session] = Null
           \/ loggedOut[verdict.session].ts <= Clock(verdict.by) - PruneTime

Stale(p) == invalid[p] # {} /\ \A e \in invalid[p] : e.ts < Clock(p) - PruneTime

\* A list of invalid sessions that are all long expired loses more than half of them
\* with every verification the process begins: its memory is given back.
StaleListsShrink ==
    [][\A p \in Process :
          Stale(p) /\ check[p] = Null /\ check'[p] # Null
            => 2 * Cardinality(invalid'[p]) < Cardinality(invalid[p])]_vars
=============================================================================
