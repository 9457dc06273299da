---------------------------- MODULE SessionStore ----------------------------
(***************************************************************************)
(* The sessions of the auth service: SessionService over its three Redis   *)
(* connections, driven by the login, logout and clear requests of the      *)
(* controllers.                                                            *)
(*                                                                         *)
(* A session lives in two places that no transaction ties together: the    *)
(* hash auth:session (session -> user) and the hash auth:user (user ->     *)
(* list of sessions).  Every request runs in one Node process and gives up *)
(* control at each await, so one step below is one Redis command, and the  *)
(* steps of different requests interleave.  Commands of one Promise.all    *)
(* are in flight together: a request's "todo" holds those not yet executed.*)
(*                                                                         *)
(* Spec is the service with a healthy Redis; SpecF adds commands that      *)
(* fail and crashes of the process.                                        *)
(***************************************************************************)
EXTENDS Naturals, Sequences, SequencesExt

CONSTANTS
    Session,    \* the session ids Random.cryptoKey can draw
    User,       \* user ids
    Request,    \* slots for the requests the service runs at the same time
    Null        \* the null an absent Redis field is read as

ASSUME NullAssumption == Null \notin User /\ Null \notin Session /\ Null \notin Seq(Session)

VARIABLES
    sessionDb,      \* hash auth:session
    sessionIndex,   \* set auth:session:index
    userDb,         \* hash auth:user; a stored JSON null reads as an absent field
    userIndex,      \* set auth:user:index
    logouts,        \* the sessions published on the stream "logout"
    userConn,       \* order in which requests' commands wait on the connection of auth:user
    req,            \* what each request is doing
    owner,          \* history: the user a session id was drawn for
    issued,         \* history: sessions whose ticket a client received
    removed         \* history: sessions whose HDEL was executed

stored == <<sessionDb, sessionIndex, userDb, userIndex, logouts>>
vars == <<stored, userConn, req, owner, issued, removed>>

Key == User \cup {Null}
List == Seq(Session) \cup {Null}

Removing == {"hdel", "srem", "xadd"}
SessionCommand == (Removing \cup {"hset", "sadd"}) \X Session
UserCommand == {"hsetUser", "saddUser", "hdelUser", "sremUser"} \X Key

\* pc is the phase of the request: which await it is at.  "swallowed" holds the
\* sessions whose removeSession ended in its catch, "opened" (history) the
\* sessions a clear request found open when it began.
RequestState ==
    [op        : {"none", "login", "logout", "clearExcept", "clearAll"},
     pc        : {"idle", "getUid", "getList", "store", "storeList", "remove",
                  "drop", "done", "failed"},
     sid       : Session \cup {Null},
     key       : Key,
     list      : List,
     todo      : SUBSET (SessionCommand \cup UserCommand),
     swallowed : SUBSET Session,
     opened    : SUBSET Session]

Idle == [op |-> "none", pc |-> "idle", sid |-> Null, key |-> Null, list |-> Null,
         todo |-> {}, swallowed |-> {}, opened |-> {}]

Live(s) == sessionDb[s] # Null
DefaultHoldsNull(list) == IF list = Null THEN <<Null>> ELSE list      \* mutant
OrEmpty(list) == IF list = Null THEN <<>> ELSE list
InFlight(cmd, s) == \E r \in Request : <<cmd, s>> \in req[r].todo

ShiftList(list, s) == Tail(list)      \* mutant of Splice: list.shift()

\* list.splice(list.findIndex(x => x === s), 1).  findIndex gives -1 for a session
\* that is not in the list, and splice(-1, 1) removes the last element.
Splice(list, s) ==
    [i \in 1..(Len(list) - 1) |->
        IF \E j \in 1..i : list[j] = s THEN list[i + 1] ELSE list[i]]

WithoutSession(list, s) == IF list = Null \/ list = <<>> THEN list ELSE Splice(list, s)

RemoveUnannounced(S) == {"hdel"} \X S      \* mutant: no sendEvent
RemoveWithoutHDel(S) == {"xadd"} \X S      \* mutant: the event alone

\* removeSession(s) for every s of S, side by side.
RemoveSessions(S) == {"hdel", "xadd"} \X S

TypeOK ==
    /\ sessionDb \in [Session -> Key]
    /\ sessionIndex \subseteq Session
    /\ userDb \in [Key -> List]
    /\ userIndex \subseteq Key
    /\ logouts \subseteq Session
    /\ userConn \in Seq(Request)
    /\ req \in [Request -> RequestState]
    /\ owner \in [Session -> Key]
    /\ issued \subseteq Session
    /\ removed \subseteq Session

Init ==
    /\ sessionDb = [s \in Session |-> Null]
    /\ sessionIndex = {}
    /\ userDb = [u \in Key |-> Null]
    /\ userIndex = {}
    /\ logouts = {}
    /\ userConn = <<>>
    /\ req = [r \in Request |-> Idle]
    /\ owner = [s \in Session |-> Null]
    /\ issued = {}
    /\ removed = {}

-----------------------------------------------------------------------------
(* Requests arrive. *)

Begin(r, op, pc, sid, key, opened) ==
    /\ req[r].pc = "idle"
    /\ req' = [req EXCEPT ![r] = [Idle EXCEPT !.op = op, !.pc = pc, !.sid = sid,
                                              !.key = key, !.opened = opened]]
    /\ UNCHANGED <<stored, userConn, owner, issued, removed>>

\* Mutant of BeginLogin: session ids that are not unique.
BeginLoginAnyId(r, u) == \E s \in Session : Begin(r, "login", "getList", s, u, {})

\* login and doSamlLogin, once the credentials are accepted: addSession begins.
\* The id is picked here, but nobody sees it before addSession has read the list.
BeginLogin(r, u) ==
    \E s \in Session :
        /\ owner[s] = Null
        /\ \A other \in Request : req[other].sid # s
        /\ Begin(r, "login", "getList", s, u, {})

\* The ticket validator accepts a token of s: a ticket of s with a live session,
\* or an expired token of s next to the cookie of any live session (refreshToken).
Accepted(s) == s \in issued /\ \E c \in issued : Live(c)

BeginLogout(r, s) ==
    /\ Accepted(s)
    /\ Begin(r, "logout", "getUid", s, Null, {})

BeginClearExcept(r, s) ==
    /\ Accepted(s)
    /\ Begin(r, "clearExcept", "getUid", s, Null,
             IF Live(s) THEN {t \in issued \ {s} : sessionDb[t] = sessionDb[s]} ELSE {})

\* secure/clear-all-sessions, the internal clear-all-sessions-by-user-id and the
\* identity provider's logout.
BeginClearAll(r, u) ==
    Begin(r, "clearAll", "getList", Null, u, {t \in issued : sessionDb[t] = u})

-----------------------------------------------------------------------------
(* Requests read, and send what they write. *)

GetUserId(r) ==
    /\ req[r].pc = "getUid"
    /\ req' = [req EXCEPT ![r].key = sessionDb[req[r].sid], ![r].pc = "getList"]
    /\ UNCHANGED <<stored, userConn, owner, issued, removed>>

LoginGetsList(r) ==
    LET s == req[r].sid
        u == req[r].key
    IN  /\ req[r].op = "login" /\ req[r].pc = "getList"
        /\ req' = [req EXCEPT ![r].list = Append(OrEmpty(userDb[u]), s),
                              ![r].pc   = "store",
                              ![r].todo = {<<"hset", s>>, <<"hsetUser", u>>}]
        /\ owner' = [owner EXCEPT ![s] = u]
        /\ userConn' = Append(userConn, r)
        /\ UNCHANGED <<stored, issued, removed>>

LogoutGetsList(r) ==
    /\ req[r].op = "logout" /\ req[r].pc = "getList"
    /\ req' = [req EXCEPT ![r].list = WithoutSession(userDb[req[r].key], req[r].sid),
                          ![r].pc   = "storeList",
                          ![r].todo = {<<"hsetUser", req[r].key>>}]
    /\ userConn' = Append(userConn, r)
    /\ UNCHANGED <<stored, owner, issued, removed>>

\* Mutant of ClearGetsList: the requesting session is not spared.
ClearSparesNone(r) ==
    /\ req[r].op \in {"clearExcept", "clearAll"} /\ req[r].pc = "getList"
    /\ req' = [req EXCEPT ![r].pc   = "remove",
                          ![r].todo = RemoveSessions(ToSet(OrEmpty(userDb[req[r].key])))]
    /\ UNCHANGED <<stored, userConn, owner, issued, removed>>

\* Both clear operations: the list is what they read, minus the session kept.
ClearGetsList(r) ==
    /\ req[r].op \in {"clearExcept", "clearAll"} /\ req[r].pc = "getList"
    /\ req' = [req EXCEPT
                 ![r].pc   = "remove",
                 ![r].todo = RemoveSessions(ToSet(OrEmpty(userDb[req[r].key])) \ {req[r].sid})]
    /\ UNCHANGED <<stored, userConn, owner, issued, removed>>

\* Mutant of Settled: Promise.race, which never resolves for the empty array a user
\* without a list gives.
Raced(r) == req[r].todo = {} /\ ~(req[r].op = "clearAll" /\ userDb[req[r].key] = Null)

\* The Promise.all a request waits for has resolved.  A removeSession that has
\* failed counts as resolved: what is left of it runs on unobserved.
Settled(r) == \A c \in req[r].todo : c[1] \in Removing /\ c[2] \in req[r].swallowed

LogoutStored(r) ==
    /\ req[r].op = "logout" /\ req[r].pc = "storeList" /\ Settled(r)
    /\ req' = [req EXCEPT ![r].pc = "remove", ![r].todo = RemoveSessions({req[r].sid})]
    /\ UNCHANGED <<stored, userConn, owner, issued, removed>>

ClearExceptRemoved(r) ==
    /\ req[r].op = "clearExcept" /\ req[r].pc = "remove" /\ Settled(r)
    /\ req' = [req EXCEPT ![r].list = <<req[r].sid>>,
                          ![r].pc   = "storeList",
                          ![r].todo = @ \cup {<<"hsetUser", req[r].key>>}]
    /\ userConn' = Append(userConn, r)
    /\ UNCHANGED <<stored, owner, issued, removed>>

ClearAllRemoved(r) ==
    /\ req[r].op = "clearAll" /\ req[r].pc = "remove" /\ Settled(r)
    /\ req' = [req EXCEPT ![r].pc = "drop", ![r].todo = @ \cup {<<"hdelUser", req[r].key>>}]
    /\ userConn' = Append(userConn, r)
    /\ UNCHANGED <<stored, owner, issued, removed>>

LastPhase == [login |-> "store", logout |-> "remove",
              clearExcept |-> "storeList", clearAll |-> "drop"]

\* The last await of SessionService is over.
Finish(r) ==
    /\ req[r].op # "none" /\ req[r].pc = LastPhase[req[r].op] /\ Settled(r)
    /\ req' = [req EXCEPT ![r].pc = "done"]
    /\ UNCHANGED <<stored, userConn, owner, issued, removed>>

\* The slot is free again once none of its commands is left.
Leave(r) ==
    /\ req[r].todo = {}
    /\ req' = [req EXCEPT ![r] = Idle]
    /\ UNCHANGED <<stored, userConn, owner, removed>>

\* updateLastLogin succeeded: the client gets the ticket of the session.
LoginReturns(r) ==
    /\ req[r].op = "login" /\ req[r].pc = "done"
    /\ issued' = issued \cup {req[r].sid}
    /\ Leave(r)

\* updateLastLogin threw: the session stays, the client gets no ticket.
LoginFails(r) ==
    /\ req[r].op = "login" /\ req[r].pc = "done"
    /\ issued' = issued
    /\ Leave(r)

Return(r) ==
    /\ \/ req[r].op # "login" /\ req[r].pc = "done"
       \/ req[r].pc = "failed"
    /\ issued' = issued
    /\ Leave(r)

-----------------------------------------------------------------------------
(* Redis executes a command, and the continuation of its reply is run.     *)
(* Commands on one connection are executed and answered in the order sent: *)
(* of the session commands only HSET before HDEL and SADD before SREM of   *)
(* the same session are told apart, the others commute.                    *)

Executed(r, c, next) == req' = [req EXCEPT ![r].todo = (@ \ {c}) \cup next]

HSet(r, s) ==
    /\ <<"hset", s>> \in req[r].todo
    /\ sessionDb' = [sessionDb EXCEPT ![s] = req[r].key]
    /\ Executed(r, <<"hset", s>>, {<<"sadd", s>>})
    /\ UNCHANGED <<sessionIndex, userDb, userIndex, logouts, userConn, owner, issued, removed>>

SAdd(r, s) ==
    /\ <<"sadd", s>> \in req[r].todo
    /\ sessionIndex' = sessionIndex \cup {s}
    /\ Executed(r, <<"sadd", s>>, {})
    /\ UNCHANGED <<sessionDb, userDb, userIndex, logouts, userConn, owner, issued, removed>>

\* Mutants of HDel: it overtakes the HSET on another connection; remove() forgets
\* the SREM.
HDelOvertakes(r, s) ==
    /\ <<"hdel", s>> \in req[r].todo
    /\ sessionDb' = [sessionDb EXCEPT ![s] = Null]
    /\ removed' = removed \cup {s}
    /\ Executed(r, <<"hdel", s>>, {<<"srem", s>>})
    /\ UNCHANGED <<sessionIndex, userDb, userIndex, logouts, userConn, owner, issued>>
HDelOnly(r, s) ==
    /\ <<"hdel", s>> \in req[r].todo /\ ~InFlight("hset", s)
    /\ sessionDb' = [sessionDb EXCEPT ![s] = Null]
    /\ removed' = removed \cup {s}
    /\ Executed(r, <<"hdel", s>>, {})
    /\ UNCHANGED <<sessionIndex, userDb, userIndex, logouts, userConn, owner, issued>>

HDel(r, s) ==
    /\ <<"hdel", s>> \in req[r].todo /\ ~InFlight("hset", s)
    /\ sessionDb' = [sessionDb EXCEPT ![s] = Null]
    /\ removed' = removed \cup {s}
    /\ Executed(r, <<"hdel", s>>, {<<"srem", s>>})
    /\ UNCHANGED <<sessionIndex, userDb, userIndex, logouts, userConn, owner, issued>>

\* Mutant of SRem: it overtakes the SADD on another connection.
SRemOvertakes(r, s) ==
    /\ <<"srem", s>> \in req[r].todo
    /\ sessionIndex' = sessionIndex \ {s}
    /\ Executed(r, <<"srem", s>>, {})
    /\ UNCHANGED <<sessionDb, userDb, userIndex, logouts, userConn, owner, issued, removed>>

SRem(r, s) ==
    /\ <<"srem", s>> \in req[r].todo /\ ~InFlight("sadd", s)
    /\ sessionIndex' = sessionIndex \ {s}
    /\ Executed(r, <<"srem", s>>, {})
    /\ UNCHANGED <<sessionDb, userDb, userIndex, logouts, userConn, owner, issued, removed>>

XAdd(r, s) ==
    /\ <<"xadd", s>> \in req[r].todo
    /\ logouts' = logouts \cup {s}
    /\ Executed(r, <<"xadd", s>>, {})
    /\ UNCHANGED <<sessionDb, sessionIndex, userDb, userIndex, userConn, owner, issued, removed>>

\* A request has at most one command on the connection of auth:user.
First(r) == userConn # <<>> /\ Head(userConn) = r

HSetUser(r, u) ==
    /\ <<"hsetUser", u>> \in req[r].todo /\ First(r)
    /\ userDb' = [userDb EXCEPT ![u] = req[r].list]
    /\ Executed(r, <<"hsetUser", u>>, {<<"saddUser", u>>})
    /\ userConn' = Append(Tail(userConn), r)
    /\ UNCHANGED <<sessionDb, sessionIndex, userIndex, logouts, owner, issued, removed>>

SAddUser(r, u) ==
    /\ <<"saddUser", u>> \in req[r].todo /\ First(r)
    /\ userIndex' = userIndex \cup {u}
    /\ Executed(r, <<"saddUser", u>>, {})
    /\ userConn' = Tail(userConn)
    /\ UNCHANGED <<sessionDb, sessionIndex, userDb, logouts, owner, issued, removed>>

HDelUser(r, u) ==
    /\ <<"hdelUser", u>> \in req[r].todo /\ First(r)
    /\ userDb' = [userDb EXCEPT ![u] = Null]
    /\ Executed(r, <<"hdelUser", u>>, {<<"sremUser", u>>})
    /\ userConn' = Append(Tail(userConn), r)
    /\ UNCHANGED <<sessionDb, sessionIndex, userIndex, logouts, owner, issued, removed>>

SRemUser(r, u) ==
    /\ <<"sremUser", u>> \in req[r].todo /\ First(r)
    /\ userIndex' = userIndex \ {u}
    /\ Executed(r, <<"sremUser", u>>, {})
    /\ userConn' = Tail(userConn)
    /\ UNCHANGED <<sessionDb, sessionIndex, userDb, logouts, owner, issued, removed>>

-----------------------------------------------------------------------------
(* Faults. *)

\* A read is answered with an error: the exception ends the request.
ReadFails(r) ==
    /\ req[r].pc \in {"getUid", "getList"}
    /\ req' = [req EXCEPT ![r].pc = "failed"]
    /\ UNCHANGED <<stored, userConn, owner, issued, removed>>

\* removeSession catches an error of its commands and reports success.
RemovalFails(r, s) ==
    \E cmd \in Removing :
        /\ <<cmd, s>> \in req[r].todo
        /\ req' = [req EXCEPT ![r].todo = @ \ {<<cmd, s>>}, ![r].swallowed = @ \cup {s}]
        /\ UNCHANGED <<stored, userConn, owner, issued, removed>>

\* Mutant of WriteFails: addSession catches errors the way removeSession does.
WriteErrorCaught(r, c) ==
    /\ c \in req[r].todo /\ c[1] \notin Removing
    /\ \/ c \in UserCommand /\ First(r) /\ userConn' = Tail(userConn)
       \/ c \in SessionCommand /\ UNCHANGED userConn
    /\ req' = [req EXCEPT ![r].todo = @ \ {c}]
    /\ UNCHANGED <<stored, owner, issued, removed>>

\* An error of any other write ends the request; what is in flight goes on.
WriteFails(r, c) ==
    /\ c \in req[r].todo /\ c[1] \notin Removing
    /\ \/ c \in UserCommand /\ First(r) /\ userConn' = Tail(userConn)
       \/ c \in SessionCommand /\ UNCHANGED userConn
    /\ req' = [req EXCEPT ![r].todo = @ \ {c}, ![r].pc = "failed"]
    /\ UNCHANGED <<stored, owner, issued, removed>>

\* The process dies and is started again: only what Redis holds is left.
Crash ==
    /\ req' = [r \in Request |-> Idle]
    /\ userConn' = <<>>
    /\ UNCHANGED <<stored, owner, issued, removed>>

-----------------------------------------------------------------------------
Arrive(r) ==
    \/ \E u \in User : BeginLogin(r, u) \/ BeginClearAll(r, u)
    \/ \E s \in Session : BeginLogout(r, s) \/ BeginClearExcept(r, s)

\* What a request does once it has arrived.
Progress(r) ==
    \/ GetUserId(r) \/ LoginGetsList(r) \/ LogoutGetsList(r) \/ ClearGetsList(r)
    \/ LogoutStored(r) \/ ClearExceptRemoved(r) \/ ClearAllRemoved(r)
    \/ Finish(r) \/ LoginReturns(r) \/ LoginFails(r) \/ Return(r)
    \/ \E s \in Session : HSet(r, s) \/ SAdd(r, s) \/ HDel(r, s) \/ SRem(r, s) \/ XAdd(r, s)
    \/ \E u \in Key : HSetUser(r, u) \/ SAddUser(r, u) \/ HDelUser(r, u) \/ SRemUser(r, u)

Fault(r) ==
    \/ ReadFails(r)
    \/ \E s \in Session : RemovalFails(r, s)
    \/ \E c \in req[r].todo : WriteFails(r, c)

Next == \E r \in Request : Arrive(r) \/ Progress(r)
NextF == Next \/ (\E r \in Request : Fault(r)) \/ Crash

Spec == Init /\ [][Next]_vars
SpecF == Init /\ [][NextF]_vars

\* Redis answers every command and the event loop runs every continuation; that
\* requests arrive is not promised.
FairSpec == Spec /\ \A r \in Request : WF_vars(Progress(r))

-----------------------------------------------------------------------------
(* Properties. *)

\* Whatever the interleaving of requests and faults, the list of a user never
\* names a session of somebody else, and the list stored under the key "null"
\* (clearSessionById and clearAllSessionsExceptThemselves of a session that is gone)
\* names only dead ones: no clear can reach into another account.
ListsHoldOwnSessions ==
    /\ \A u \in User : \A s \in ToSet(OrEmpty(userDb[u])) : owner[s] = u
    /\ \A s \in ToSet(OrEmpty(userDb[Null])) : ~Live(s)

\* A session that was deleted never comes back, although the HSET of the login
\* that created it and the HDEL of a clear can be under way together.
LoggedOutStaysOut == \A s \in removed : ~Live(s)

\* A ticket that reached a client has its session in Redis until someone deletes it.
TicketsAreBacked == \A s \in issued : Live(s) \/ s \in removed

\* The libraries learn of logouts from the stream only: without faults, a deleted
\* session is published or about to be, and nothing else is ever published.
BusAgreesWithStore ==
    \A s \in Session :
        /\ s \in removed => s \in logouts \/ InFlight("xadd", s)
        /\ s \in logouts => s \in removed \/ InFlight("hdel", s)

\* Without faults getAllActiveSessions answers exactly the live sessions, up to the
\* index command of a set or remove that is half done.
ActiveSessionsAgree ==
    \A s \in Session :
        Live(s) # (s \in sessionIndex) => InFlight("sadd", s) \/ InFlight("srem", s)

\* The request may delete session s: it logs s out, or clears the sessions of the
\* owner of s and is not asked to keep s.
ActsFor(r, s) ==
    \/ req[r].op = "logout" /\ req[r].sid = s
    \/ req[r].op = "clearExcept" /\ req[r].key = owner[s] /\ req[r].sid # s
    \/ req[r].op = "clearAll" /\ req[r].key = owner[s]

\* A live session is closed only by a request that acts for it; faults close none.
OnlyOwnRequestsClose ==
    [][\A s \in Session : Live(s) /\ ~Live(s)' => \E r \in Request : ActsFor(r, s)]_vars

\* The user whose sessions a request is about, and the schedules in which no two requests
\* of one user overlap: what a lock for each user would achieve.
AccountOf(r) ==
    IF req[r].op \in {"logout", "clearExcept"} THEN owner[req[r].sid] ELSE req[r].key
Busy(r, u) == req[r].pc # "idle" /\ AccountOf(r) = u
Serial == \A a, b \in Request, u \in User : Busy(a, u) /\ Busy(b, u) => a = b

\* When clearAllSessions or clearAllSessionsExceptThemselves answers, every session
\* of the user that was open when the request came in is closed, except the
\* requesting one.
ClearKillsOpenSessions ==
    \A r \in Request : req[r].pc = "done" => \A s \in req[r].opened : ~Live(s)

\* Every request ends: none waits for another one for ever, neither in the queue
\* of a connection nor in a Promise.all.
RequestsFinish == \A r \in Request : req[r].pc # "idle" ~> req[r].pc = "idle"

\* Without faults, a logout that is answered has deleted its session and published it,
\* whatever other requests did to the session and its list meanwhile.
LogoutsTakeEffect ==
    \A r \in Request : req[r].op = "logout" /\ req[r].pc = "done" =>
        req[r].sid \in removed /\ req[r].sid \in logouts

\* Without faults and as long as Serial holds, the store is the registry in which each
\* operation is a single step.  A session is closed from the moment its HDEL is sent.
Registry == INSTANCE SessionRegistry WITH
    open <- [s \in Session |-> IF InFlight("hdel", s) THEN Null ELSE sessionDb[s]],
    used <- {s \in Session : Live(s)} \cup removed,
    told <- logouts
ImplementsRegistry == Registry!Spec
=============================================================================
