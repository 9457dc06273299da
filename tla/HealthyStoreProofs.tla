------------------------- MODULE HealthyStoreProofs -------------------------
(***************************************************************************)
(* What holds of SessionStore as long as no command fails and the process  *)
(* does not crash: hash, index and stream agree up to the commands that    *)
(* are on their way, and a logout that is answered has taken effect.       *)
(***************************************************************************)
EXTENDS SessionStoreProofs, MCSessionStore

\* Both commands of a removeSession are sent together, and an SREM follows an HDEL.
PairInv(r) ==
    \A s \in Session :
        /\ <<"hdel", s>> \in req[r].todo => s \in logouts \/ <<"xadd", s>> \in req[r].todo
        /\ <<"xadd", s>> \in req[r].todo => s \in removed \/ <<"hdel", s>> \in req[r].todo
        /\ <<"srem", s>> \in req[r].todo => s \in removed

\* What is left of a logout.
LogoutInv(r) ==
    req[r].op = "logout" =>
        /\ req[r].pc = "remove" =>
              /\ req[r].sid \in removed \/ <<"hdel", req[r].sid>> \in req[r].todo
              /\ req[r].sid \in logouts \/ <<"xadd", req[r].sid>> \in req[r].todo
        /\ req[r].pc = "done" => req[r].sid \in removed /\ req[r].sid \in logouts

\* An index that lags behind the hash has its command on the way, and a dead session
\* whose SADD comes late has its SREM behind it.
IndexInv ==
    \A s \in Session :
        /\ Live(s) => s \in sessionIndex \/ InFlight("sadd", s)
        /\ ~Live(s) /\ (s \in sessionIndex \/ InFlight("sadd", s)) => InFlight("srem", s)

HInv ==
    /\ BusAgreesWithStore /\ IndexInv
    /\ \A r \in Request : PairInv(r) /\ LogoutInv(r) /\ req[r].swallowed = {}

-----------------------------------------------------------------------------
(* Steps that send commands, or none. *)

\* Removals come in pairs, and nothing about the index is sent.
Paired(new) ==
    \A s \in Session :
        /\ <<"hdel", s>> \in new <=> <<"xadd", s>> \in new
        /\ <<"sadd", s>> \notin new /\ <<"srem", s>> \notin new

LEMMA SendStep ==
    ASSUME HInv, NEW r \in Request, NEW new, Paired(new),
           req'[r].todo = req[r].todo \cup new, req'[r].swallowed = {}, LogoutInv(r)',
           \A o \in Request \ {r} : req'[o] = req[o],
           UNCHANGED <<sessionDb, sessionIndex, logouts, removed>>
    PROVE  HInv'
  <1>1. ASSUME NEW s \in Session, NEW c \in {"hdel", "xadd", "sadd", "srem"}, InFlight(c, s)
        PROVE  InFlight(c, s)'
    BY <1>1 DEF InFlight
  <1>2. ASSUME NEW s \in Session, NEW c \in {"sadd", "srem"}, InFlight(c, s)'
        PROVE  InFlight(c, s)
    BY <1>2 DEF InFlight, Paired
  <1>3. BusAgreesWithStore'
    BY <1>1 DEF HInv, BusAgreesWithStore
  <1>4. IndexInv'
    BY <1>1, <1>2 DEF HInv, IndexInv, Live
  <1>5. PairInv(r)'
    BY DEF HInv, PairInv, Paired
  <1>6. ASSUME NEW o \in Request \ {r} PROVE PairInv(o)' /\ LogoutInv(o)' /\ req'[o].swallowed = {}
    BY DEF HInv, PairInv, LogoutInv
  <1> QED BY <1>3, <1>4, <1>5, <1>6 DEF HInv

\* A request with new fields, before its first command or after a Promise.all.
LEMMA PhaseKeeps ==
    ASSUME IInv, HInv, NEW r \in Request, NEW q, req' = [req EXCEPT ![r] = q],
           NEW new, Paired(new), q.todo = req[r].todo \cup new, q.swallowed = {},
           q.op = "logout" =>
               \/ q.pc \notin {"remove", "done"}
               \/ q.pc = "remove" /\ <<"hdel", q.sid>> \in q.todo /\ <<"xadd", q.sid>> \in q.todo
               \/ q.pc = "done" /\ q.sid \in removed /\ q.sid \in logouts,
           UNCHANGED <<sessionDb, sessionIndex, logouts, removed>>
    PROVE  HInv'
  <1>1. req'[r] = q /\ \A o \in Request \ {r} : req'[o] = req[o]
    BY DEF IInv, TypeOK
  <1>2. LogoutInv(r)'
    BY <1>1 DEF LogoutInv
  <1> QED BY <1>1, <1>2, SendStep

LEMMA SettledEmpty ==
    ASSUME HInv, NEW r \in Request, Settled(r) PROVE req[r].todo = {}
  BY DEF HInv, Settled

LEMMA PairedRemovals == ASSUME NEW S PROVE Paired(RemoveSessions(S)) /\ Paired({})
  BY DEF Paired, RemoveSessions

LEMMA BeginKeeps ==
    ASSUME IInv, HInv, NEW r \in Request, NEW op, NEW pc \in {"getUid", "getList"}, NEW sid,
           NEW key, NEW opened, Begin(r, op, pc, sid, key, opened)
    PROVE  HInv'
  <1> DEFINE q == [Idle EXCEPT !.op = op, !.pc = pc, !.sid = sid, !.key = key, !.opened = opened]
  <1>1. req[r].todo = {}
    BY DEF Begin, IInv, RequestInv, PhaseInv
  <1>2. /\ req' = [req EXCEPT ![r] = q] /\ UNCHANGED <<sessionDb, sessionIndex, logouts, removed>>
    BY DEF Begin, stored
  <1>3. q.todo = {} /\ q.swallowed = {} /\ q.pc \notin {"remove", "done"}
    BY DEF Idle
  <1> HIDE DEF q
  <1> QED BY <1>1, <1>2, <1>3, PairedRemovals, PhaseKeeps

LEMMA LeaveKeeps ==
    ASSUME IInv, HInv, NEW r \in Request, Leave(r) PROVE HInv'
  <1>1. /\ req' = [req EXCEPT ![r] = Idle] /\ req[r].todo = {}
        /\ UNCHANGED <<sessionDb, sessionIndex, logouts, removed>>
    BY DEF Leave, stored
  <1>2. Idle.todo = {} /\ Idle.swallowed = {} /\ Idle.pc \notin {"remove", "done"}
    BY DEF Idle
  <1> QED BY <1>1, <1>2, PairedRemovals, PhaseKeeps

\* The fields of a request are set one by one.
LEMMA SendKeeps ==
    ASSUME IInv, HInv, NEW r \in Request,
           GetUserId(r) \/ LoginGetsList(r) \/ LogoutGetsList(r) \/ ClearGetsList(r)
             \/ LogoutStored(r) \/ ClearExceptRemoved(r) \/ ClearAllRemoved(r) \/ Finish(r)
    PROVE  HInv'
  <1>0. /\ req \in [Request -> RequestState] /\ req[r] \in RequestState /\ req[r].swallowed = {}
        /\ PhaseInv(r) /\ LogoutInv(r)
    BY DEF IInv, TypeOK, HInv, RequestInv
  <1>1. CASE GetUserId(r)
    <2> DEFINE q == [req[r] EXCEPT !.key = sessionDb[req[r].sid], !.pc = "getList"]
    <2>1. req' = [req EXCEPT ![r] = q] /\ UNCHANGED <<sessionDb, sessionIndex, logouts, removed>>
      BY <1>0, <1>1 DEF GetUserId, stored
    <2>2. q.todo = req[r].todo \cup {} /\ q.swallowed = {} /\ q.pc = "getList"
      BY <1>0 DEF RequestState
    <2> HIDE DEF q
    <2> QED BY <2>1, <2>2, PairedRemovals, PhaseKeeps
  <1>2. CASE LoginGetsList(r)
    <2> DEFINE new == {<<"hset", req[r].sid>>, <<"hsetUser", req[r].key>>}
               l == Append(OrEmpty(userDb[req[r].key]), req[r].sid)
               q == [req[r] EXCEPT !.list = l, !.pc = "store", !.todo = new]
    <2>1. req' = [req EXCEPT ![r] = q] /\ UNCHANGED <<sessionDb, sessionIndex, logouts, removed>>
      BY <1>0, <1>2 DEF LoginGetsList, stored
    <2>2. req[r].todo = {}
      BY <1>0, <1>2 DEF LoginGetsList, PhaseInv
    <2>3. Paired(new)
      BY DEF Paired
    <2> HIDE DEF l, new
    <2>4. q.todo = req[r].todo \cup new /\ q.swallowed = {} /\ q.pc = "store"
      BY <1>0, <2>2 DEF RequestState
    <2> HIDE DEF q
    <2> QED BY <2>1, <2>3, <2>4, PhaseKeeps
  <1>3. CASE LogoutGetsList(r)
    <2> DEFINE new == {<<"hsetUser", req[r].key>>}
               l == WithoutSession(userDb[req[r].key], req[r].sid)
               q == [req[r] EXCEPT !.list = l, !.pc = "storeList", !.todo = new]
    <2>1. req' = [req EXCEPT ![r] = q] /\ UNCHANGED <<sessionDb, sessionIndex, logouts, removed>>
      BY <1>0, <1>3 DEF LogoutGetsList, stored
    <2>2. req[r].todo = {}
      BY <1>0, <1>3 DEF LogoutGetsList, PhaseInv
    <2>3. Paired(new)
      BY DEF Paired
    <2> HIDE DEF l, new
    <2>4. q.todo = req[r].todo \cup new /\ q.swallowed = {} /\ q.pc = "storeList"
      BY <1>0, <2>2 DEF RequestState
    <2> HIDE DEF q
    <2> QED BY <2>1, <2>3, <2>4, PhaseKeeps
  <1>4. CASE ClearGetsList(r)
    <2> DEFINE new == RemoveSessions(ToSet(OrEmpty(userDb[req[r].key])) \ {req[r].sid})
               q == [req[r] EXCEPT !.pc = "remove", !.todo = new]
    <2>1. req' = [req EXCEPT ![r] = q] /\ UNCHANGED <<sessionDb, sessionIndex, logouts, removed>>
      BY <1>0, <1>4 DEF ClearGetsList, stored
    <2>2. req[r].todo = {} /\ req[r].op # "logout"
      BY <1>0, <1>4 DEF ClearGetsList, PhaseInv
    <2>3. Paired(new)
      BY PairedRemovals
    <2> HIDE DEF new
    <2>4. q.todo = req[r].todo \cup new /\ q.swallowed = {} /\ q.op # "logout"
      BY <1>0, <2>2 DEF RequestState
    <2> HIDE DEF q
    <2> QED BY <2>1, <2>3, <2>4, PhaseKeeps
  <1>5. CASE LogoutStored(r)
    <2> DEFINE new == RemoveSessions({req[r].sid})
               q == [req[r] EXCEPT !.pc = "remove", !.todo = new]
    <2>1. req' = [req EXCEPT ![r] = q] /\ UNCHANGED <<sessionDb, sessionIndex, logouts, removed>>
      BY <1>0, <1>5 DEF LogoutStored, stored
    <2>2. req[r].todo = {}
      BY <1>5, SettledEmpty DEF LogoutStored
    <2>3. Paired(new) /\ <<"hdel", req[r].sid>> \in new /\ <<"xadd", req[r].sid>> \in new
      BY PairedRemovals DEF RemoveSessions
    <2> HIDE DEF new
    <2>4. /\ q.todo = req[r].todo \cup new /\ q.swallowed = {} /\ q.pc = "remove"
          /\ q.sid = req[r].sid /\ q.todo = new
      BY <1>0, <2>2 DEF RequestState
    <2> HIDE DEF q
    <2> QED BY <2>1, <2>3, <2>4, PhaseKeeps
  <1>6. CASE ClearExceptRemoved(r)
    <2> DEFINE new == {<<"hsetUser", req[r].key>>}
               c == req[r].todo \cup new
               l == <<req[r].sid>>
               q == [req[r] EXCEPT !.list = l, !.pc = "storeList", !.todo = c]
    <2>1. req' = [req EXCEPT ![r] = q] /\ UNCHANGED <<sessionDb, sessionIndex, logouts, removed>>
      BY <1>0, <1>6 DEF ClearExceptRemoved, stored
    <2>2. Paired(new) /\ req[r].op # "logout" /\ c = req[r].todo \cup new
      BY <1>6 DEF Paired, ClearExceptRemoved
    <2> HIDE DEF l, c, new
    <2>3. q.todo = req[r].todo \cup new /\ q.swallowed = {} /\ q.op # "logout"
      BY <1>0, <2>2 DEF RequestState
    <2> HIDE DEF q
    <2> QED BY <2>1, <2>2, <2>3, PhaseKeeps
  <1>7. CASE ClearAllRemoved(r)
    <2> DEFINE new == {<<"hdelUser", req[r].key>>}
               c == req[r].todo \cup new
               q == [req[r] EXCEPT !.pc = "drop", !.todo = c]
    <2>1. req' = [req EXCEPT ![r] = q] /\ UNCHANGED <<sessionDb, sessionIndex, logouts, removed>>
      BY <1>0, <1>7 DEF ClearAllRemoved, stored
    <2>2. Paired(new) /\ req[r].op # "logout" /\ c = req[r].todo \cup new
      BY <1>7 DEF Paired, ClearAllRemoved
    <2> HIDE DEF c, new
    <2>3. q.todo = req[r].todo \cup new /\ q.swallowed = {} /\ q.op # "logout"
      BY <1>0, <2>2 DEF RequestState
    <2> HIDE DEF q
    <2> QED BY <2>1, <2>2, <2>3, PhaseKeeps
  <1>8. CASE Finish(r)
    <2> DEFINE q == [req[r] EXCEPT !.pc = "done"]
    <2>1. req' = [req EXCEPT ![r] = q] /\ UNCHANGED <<sessionDb, sessionIndex, logouts, removed>>
      BY <1>0, <1>8 DEF Finish, stored
    <2>2. req[r].todo = {} /\ (req[r].op = "logout" => req[r].pc = "remove")
      BY <1>8, SettledEmpty DEF Finish, LastPhase
    <2>3. req[r].op = "logout" => req[r].sid \in removed /\ req[r].sid \in logouts
      BY <1>0, <2>2 DEF LogoutInv
    <2>4. /\ q.todo = req[r].todo \cup {} /\ q.swallowed = {} /\ q.pc = "done"
          /\ q.op = req[r].op /\ q.sid = req[r].sid
      BY <1>0 DEF RequestState
    <2> HIDE DEF q
    <2> QED BY <2>1, <2>3, <2>4, PairedRemovals, PhaseKeeps
  <1> QED BY <1>1, <1>2, <1>3, <1>4, <1>5, <1>6, <1>7, <1>8

-----------------------------------------------------------------------------
(* Redis executes a command. *)

LEMMA ExecutedKeeps ==
    ASSUME IInv, HInv, NEW r \in Request, NEW cmd \in req[r].todo, NEW next, Executed(r, cmd, next)
    PROVE  /\ req'[r].todo = (req[r].todo \ {cmd}) \cup next
           /\ req'[r].op = req[r].op /\ req'[r].pc = req[r].pc /\ req'[r].sid = req[r].sid
           /\ req'[r].swallowed = {}
           /\ \A o \in Request \ {r} : req'[o] = req[o]
  <1>0. PICK d : d = (req[r].todo \ {cmd}) \cup next
    OBVIOUS
  <1>1. req \in [Request -> RequestState] /\ req[r] \in RequestState /\ req[r].swallowed = {}
    BY DEF IInv, TypeOK, HInv
  <1>2. req' = [req EXCEPT ![r].todo = d]
    BY <1>0, <1>1 DEF Executed
  <1> QED BY <1>0, <1>1, <1>2 DEF RequestState

LEMMA HSetKeeps == ASSUME IInv, HInv, NEW r \in Request, NEW s \in Session, HSet(r, s) PROVE HInv'
  <1>1. /\ req'[r].todo = (req[r].todo \ {<<"hset", s>>}) \cup {<<"sadd", s>>}
        /\ req'[r].op = req[r].op /\ req'[r].pc = req[r].pc /\ req'[r].sid = req[r].sid
        /\ req'[r].swallowed = {} /\ \A o \in Request \ {r} : req'[o] = req[o]
    BY ExecutedKeeps DEF HSet
  <1>2. /\ sessionDb' = [sessionDb EXCEPT ![s] = req[r].key] /\ req[r].key # Null
        /\ sessionDb \in [Session -> Key] /\ UNCHANGED <<sessionIndex, logouts, removed>>
    <2>1. <<"hset", s>> \in req[r].todo /\ CommandInv(r)
      BY DEF HSet, IInv, RequestInv
    <2>2. req[r].key # Null
      BY <2>1, NullAssumption DEF CommandInv
    <2> QED BY <2>2 DEF HSet, IInv, TypeOK
  <1>3. ASSUME NEW t \in Session, NEW c \in {"hdel", "xadd", "srem"}
        PROVE  InFlight(c, t)' <=> InFlight(c, t)
    BY <1>1 DEF InFlight
  <1>4. InFlight("sadd", s)' /\ \A t \in Session \ {s} : InFlight("sadd", t)' <=> InFlight("sadd", t)
    BY <1>1 DEF InFlight
  <1>5. BusAgreesWithStore'
    BY <1>2, <1>3 DEF HInv, BusAgreesWithStore
  <1>6. IndexInv'
    BY <1>2, <1>3, <1>4 DEF HInv, IndexInv, Live
  <1>7. ASSUME NEW o \in Request PROVE PairInv(o)' /\ LogoutInv(o)' /\ req'[o].swallowed = {}
    BY <1>1, <1>2 DEF HInv, PairInv, LogoutInv
  <1> QED BY <1>5, <1>6, <1>7 DEF HInv

LEMMA SAddKeeps == ASSUME IInv, HInv, NEW r \in Request, NEW s \in Session, SAdd(r, s) PROVE HInv'
  <1>1. /\ req'[r].todo = (req[r].todo \ {<<"sadd", s>>}) \cup {}
        /\ req'[r].op = req[r].op /\ req'[r].pc = req[r].pc /\ req'[r].sid = req[r].sid
        /\ req'[r].swallowed = {} /\ \A o \in Request \ {r} : req'[o] = req[o]
    BY ExecutedKeeps DEF SAdd
  <1>2. /\ sessionIndex' = sessionIndex \cup {s} /\ InFlight("sadd", s)
        /\ UNCHANGED <<sessionDb, logouts, removed>>
    BY DEF SAdd, InFlight
  <1>3. ASSUME NEW t \in Session, NEW c \in {"hdel", "xadd", "srem"}
        PROVE  InFlight(c, t)' <=> InFlight(c, t)
    BY <1>1 DEF InFlight
  <1>4. \A t \in Session \ {s} : InFlight("sadd", t)' <=> InFlight("sadd", t)
    BY <1>1 DEF InFlight
  <1>5. BusAgreesWithStore'
    BY <1>2, <1>3 DEF HInv, BusAgreesWithStore
  <1>6. IndexInv'
    BY <1>2, <1>3, <1>4 DEF HInv, IndexInv, Live
  <1>7. ASSUME NEW o \in Request PROVE PairInv(o)' /\ LogoutInv(o)' /\ req'[o].swallowed = {}
    BY <1>1, <1>2 DEF HInv, PairInv, LogoutInv
  <1> QED BY <1>5, <1>6, <1>7 DEF HInv

LEMMA HDelKeeps == ASSUME IInv, HInv, NEW r \in Request, NEW s \in Session, HDel(r, s) PROVE HInv'
  <1>1. /\ req'[r].todo = (req[r].todo \ {<<"hdel", s>>}) \cup {<<"srem", s>>}
        /\ req'[r].op = req[r].op /\ req'[r].pc = req[r].pc /\ req'[r].sid = req[r].sid
        /\ req'[r].swallowed = {} /\ \A o \in Request \ {r} : req'[o] = req[o]
    BY ExecutedKeeps DEF HDel
  <1>2. /\ sessionDb' = [sessionDb EXCEPT ![s] = Null] /\ sessionDb \in [Session -> Key]
        /\ removed' = removed \cup {s} /\ UNCHANGED <<sessionIndex, logouts>>
        /\ <<"hdel", s>> \in req[r].todo
    BY DEF HDel, IInv, TypeOK
  <1>3. ASSUME NEW t \in Session, NEW c \in {"xadd", "sadd"}
        PROVE  InFlight(c, t)' <=> InFlight(c, t)
    BY <1>1 DEF InFlight
  <1>4. /\ InFlight("srem", s)'
        /\ \A t \in Session \ {s} : /\ InFlight("srem", t)' <=> InFlight("srem", t)
                                    /\ InFlight("hdel", t)' <=> InFlight("hdel", t)
    BY <1>1 DEF InFlight
  <1>5. s \in logouts \/ InFlight("xadd", s)
    BY <1>2 DEF HInv, PairInv, InFlight
  <1>6. BusAgreesWithStore'
    BY <1>2, <1>3, <1>4, <1>5 DEF HInv, BusAgreesWithStore
  <1>7. IndexInv'
    BY <1>2, <1>3, <1>4 DEF HInv, IndexInv, Live
  <1>8. ASSUME NEW o \in Request PROVE PairInv(o)' /\ LogoutInv(o)' /\ req'[o].swallowed = {}
    BY <1>1, <1>2 DEF HInv, PairInv, LogoutInv
  <1> QED BY <1>6, <1>7, <1>8 DEF HInv

LEMMA SRemKeeps == ASSUME IInv, HInv, NEW r \in Request, NEW s \in Session, SRem(r, s) PROVE HInv'
  <1>1. /\ req'[r].todo = (req[r].todo \ {<<"srem", s>>}) \cup {}
        /\ req'[r].op = req[r].op /\ req'[r].pc = req[r].pc /\ req'[r].sid = req[r].sid
        /\ req'[r].swallowed = {} /\ \A o \in Request \ {r} : req'[o] = req[o]
    BY ExecutedKeeps DEF SRem
  <1>2. /\ sessionIndex' = sessionIndex \ {s} /\ ~InFlight("sadd", s)
        /\ UNCHANGED <<sessionDb, logouts, removed>> /\ <<"srem", s>> \in req[r].todo
    BY DEF SRem
  <1>3. ~Live(s)
    BY <1>2 DEF HInv, PairInv, IInv, StoreInv, SessionInv, Live
  <1>4. ASSUME NEW t \in Session, NEW c \in {"hdel", "xadd", "sadd"}
        PROVE  InFlight(c, t)' <=> InFlight(c, t)
    BY <1>1 DEF InFlight
  <1>5. \A t \in Session \ {s} : InFlight("srem", t)' <=> InFlight("srem", t)
    BY <1>1 DEF InFlight
  <1>6. BusAgreesWithStore'
    BY <1>2, <1>4 DEF HInv, BusAgreesWithStore
  <1>7. IndexInv'
    BY <1>2, <1>3, <1>4, <1>5 DEF HInv, IndexInv, Live
  <1>8. ASSUME NEW o \in Request PROVE PairInv(o)' /\ LogoutInv(o)' /\ req'[o].swallowed = {}
    BY <1>1, <1>2 DEF HInv, PairInv, LogoutInv
  <1> QED BY <1>6, <1>7, <1>8 DEF HInv

LEMMA XAddKeeps == ASSUME IInv, HInv, NEW r \in Request, NEW s \in Session, XAdd(r, s) PROVE HInv'
  <1>1. /\ req'[r].todo = (req[r].todo \ {<<"xadd", s>>}) \cup {}
        /\ req'[r].op = req[r].op /\ req'[r].pc = req[r].pc /\ req'[r].sid = req[r].sid
        /\ req'[r].swallowed = {} /\ \A o \in Request \ {r} : req'[o] = req[o]
    BY ExecutedKeeps DEF XAdd
  <1>2. /\ logouts' = logouts \cup {s} /\ UNCHANGED <<sessionDb, sessionIndex, removed>>
        /\ <<"xadd", s>> \in req[r].todo
    BY DEF XAdd
  <1>3. ASSUME NEW t \in Session, NEW c \in {"hdel", "sadd", "srem"}
        PROVE  InFlight(c, t)' <=> InFlight(c, t)
    BY <1>1 DEF InFlight
  <1>4. \A t \in Session \ {s} : InFlight("xadd", t)' <=> InFlight("xadd", t)
    BY <1>1 DEF InFlight
  <1>5. s \in removed \/ InFlight("hdel", s)
    BY <1>2 DEF HInv, PairInv, InFlight
  <1>6. BusAgreesWithStore'
    BY <1>2, <1>3, <1>4, <1>5 DEF HInv, BusAgreesWithStore
  <1>7. IndexInv'
    BY <1>2, <1>3 DEF HInv, IndexInv, Live
  <1>8. ASSUME NEW o \in Request PROVE PairInv(o)' /\ LogoutInv(o)' /\ req'[o].swallowed = {}
    BY <1>1, <1>2 DEF HInv, PairInv, LogoutInv
  <1> QED BY <1>6, <1>7, <1>8 DEF HInv

LEMMA UserCommandKeeps ==
    ASSUME IInv, HInv, NEW r \in Request, NEW u \in Key,
           HSetUser(r, u) \/ SAddUser(r, u) \/ HDelUser(r, u) \/ SRemUser(r, u)
    PROVE  HInv'
  <1>1. PICK c \in {"hsetUser", "saddUser", "hdelUser", "sremUser"},
             next \in SUBSET {<<"saddUser", u>>, <<"sremUser", u>>} :
            /\ <<c, u>> \in req[r].todo /\ Executed(r, <<c, u>>, next)
            /\ UNCHANGED <<sessionDb, sessionIndex, logouts, removed>>
    BY DEF HSetUser, SAddUser, HDelUser, SRemUser
  <1>2. /\ req'[r].todo = (req[r].todo \ {<<c, u>>}) \cup next
        /\ req'[r].op = req[r].op /\ req'[r].pc = req[r].pc /\ req'[r].sid = req[r].sid
        /\ req'[r].swallowed = {} /\ \A o \in Request \ {r} : req'[o] = req[o]
    BY <1>1, ExecutedKeeps
  <1>3. \A s, d : d \in {"hdel", "xadd", "sadd", "srem"} =>
            (<<d, s>> \in req'[r].todo <=> <<d, s>> \in req[r].todo)
    BY <1>1, <1>2
  <1>4. ASSUME NEW s \in Session, NEW d \in {"hdel", "xadd", "sadd", "srem"}
        PROVE  InFlight(d, s)' <=> InFlight(d, s)
    BY <1>2, <1>3 DEF InFlight
  <1>5. BusAgreesWithStore' /\ IndexInv'
    BY <1>1, <1>4 DEF HInv, BusAgreesWithStore, IndexInv, Live
  <1>6. ASSUME NEW o \in Request PROVE PairInv(o)' /\ LogoutInv(o)' /\ req'[o].swallowed = {}
    BY <1>1, <1>2, <1>3 DEF HInv, PairInv, LogoutInv
  <1> QED BY <1>5, <1>6 DEF HInv

-----------------------------------------------------------------------------
(* The theorems. *)

LEMMA HealthyStep == IInv /\ HInv /\ [Next]_vars => HInv'
  <1> SUFFICES ASSUME IInv, HInv, [Next]_vars PROVE HInv'
    OBVIOUS
  <1>1. ASSUME NEW r \in Request, Arrive(r) PROVE HInv'
    BY <1>1, BeginKeeps DEF Arrive, BeginLogin, BeginLogout, BeginClearExcept, BeginClearAll
  <1>2. ASSUME NEW r \in Request, Progress(r) PROVE HInv'
    <2>1. LoginReturns(r) \/ LoginFails(r) \/ Return(r) => Leave(r)
      BY DEF LoginReturns, LoginFails, Return
    <2> QED BY <1>2, <2>1, SendKeeps, LeaveKeeps, HSetKeeps, SAddKeeps, HDelKeeps, SRemKeeps,
               XAddKeeps, UserCommandKeeps DEF Progress
  <1>3. CASE UNCHANGED vars
    BY <1>3 DEF vars, stored, HInv, BusAgreesWithStore, IndexInv, PairInv, LogoutInv, Live, InFlight
  <1> QED BY <1>1, <1>2, <1>3 DEF Next

LEMMA InitHInv == Init => HInv
  <1> SUFFICES ASSUME Init PROVE HInv
    OBVIOUS
  <1>1. \A r \in Request : req[r].todo = {} /\ req[r].swallowed = {} /\ req[r].op = "none"
    BY DEF Init, Idle
  <1> QED BY <1>1 DEF Init, HInv, BusAgreesWithStore, IndexInv, PairInv, LogoutInv, Live, InFlight

\* The invariant of the healthy service, on top of that of the service with faults.
THEOREM Healthy == Spec => []HInv
  <1>1. [Next]_vars => [NextF]_vars
    BY DEF NextF
  <1> QED BY <1>1, InitHInv, HealthyStep, Invariant, PTL DEF Spec, SpecF

\* What the invariant says to the libraries, to getAllActiveSessions and to a client.
LEMMA HealthyAgrees == HInv => BusAgreesWithStore /\ ActiveSessionsAgree /\ LogoutsTakeEffect
  <1>1. ASSUME HInv, NEW s \in Session, Live(s) # (s \in sessionIndex)
        PROVE  InFlight("sadd", s) \/ InFlight("srem", s)
    <2>1. CASE Live(s)
      <3>1. s \notin sessionIndex
        BY <1>1, <2>1 DEF Live
      <3> QED BY <1>1, <2>1, <3>1 DEF HInv, IndexInv
    <2>2. CASE ~Live(s)
      <3>1. s \in sessionIndex
        BY <1>1, <2>2 DEF Live
      <3> QED BY <1>1, <2>2, <3>1 DEF HInv, IndexInv
    <2> QED BY <2>1, <2>2
  <1>2. HInv => ActiveSessionsAgree
    BY <1>1 DEF ActiveSessionsAgree
  <1>3. HInv => BusAgreesWithStore /\ LogoutsTakeEffect
    BY DEF HInv, LogoutInv, LogoutsTakeEffect
  <1> QED BY <1>2, <1>3

\* The stream tells the libraries of all deleted sessions, and of no other.
THEOREM BusAgrees == Spec => []BusAgreesWithStore
  BY HealthyAgrees, Healthy, PTL

\* The index of the sessions lags behind the hash by commands on their way only.
THEOREM IndexAgrees == Spec => []ActiveSessionsAgree
  BY HealthyAgrees, Healthy, PTL

\* Whoever is told of the logout is logged out, everywhere.
THEOREM LogoutsAreEffective == Spec => []LogoutsTakeEffect
  BY HealthyAgrees, Healthy, PTL

-----------------------------------------------------------------------------
(* Runs with faults: MCSpec counts them.                                   *)

\* A run is a behaviour of SpecF, and one of Spec until the first fault.
LEMMA CountedStep ==
    ASSUME [MCNext]_mcVars
    PROVE  /\ [NextF]_vars
           /\ faults \in Nat => faults' \in Nat
           /\ faults \in Nat /\ faults' = 0 => faults = 0 /\ [Next]_vars
  <1>1. ASSUME NEW r \in Request, Arrive(r) \/ Progress(r) PROVE Next /\ NextF
    BY <1>1 DEF Next, NextF
  <1>2. ASSUME (\E r \in Request : Fault(r)) \/ Crash PROVE NextF
    BY <1>2 DEF NextF
  <1>3. CASE UNCHANGED mcVars
    BY <1>3 DEF mcVars
  <1> QED BY <1>1, <1>2, <1>3 DEF MCNext, Bounded, Spent

CountedInv == faults \in Nat /\ (faults = 0 => HInv)

\* Up to the first failed command or crash the stream and the index agree with the hash
\* and every answered logout has taken effect, however many requests and faults a run has.
THEOREM KeepsWord == MCSpec => []HealthyStoreKeepsWord
  <1>1. MCInit => Init /\ CountedInv
    BY InitHInv DEF MCInit, CountedInv
  <1>2. [MCNext]_mcVars => [NextF]_vars
    BY CountedStep
  <1>3. CountedInv /\ IInv /\ [MCNext]_mcVars => CountedInv'
    <2> SUFFICES ASSUME CountedInv, IInv, [MCNext]_mcVars PROVE CountedInv'
      OBVIOUS
    <2>1. faults' \in Nat /\ (faults' = 0 => faults = 0 /\ [Next]_vars)
      <3>1. faults \in Nat
        BY DEF CountedInv
      <3> QED BY <3>1, CountedStep
    <2>2. ASSUME faults' = 0 PROVE HInv'
      BY <2>1, <2>2, HealthyStep DEF CountedInv
    <2> QED BY <2>1, <2>2 DEF CountedInv
  <1>4. CountedInv => HealthyStoreKeepsWord
    BY HealthyAgrees DEF CountedInv, HealthyStoreKeepsWord
  <1> QED BY <1>1, <1>2, <1>3, <1>4, Invariant, PTL DEF MCSpec, SpecF
=============================================================================
