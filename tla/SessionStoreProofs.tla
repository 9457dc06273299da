------------------------- MODULE SessionStoreProofs -------------------------
(***************************************************************************)
(* What holds of SessionStore for every set of sessions, users and         *)
(* requests, faults included.                                              *)
(***************************************************************************)
EXTENDS SessionStore, TLAPS

\* Session s may stand in a list stored under key k: it is a session of user k,
\* or, under "null", one that has been deleted.
Belongs(s, k) == IF k = Null THEN s \in removed ELSE owner[s] = k
ListOK(list, k) == \A i \in 1..Len(OrEmpty(list)) : Belongs(OrEmpty(list)[i], k)

\* A session is live for the user it was drawn for, and not once it was deleted.
SessionInv ==
    \A s \in Session :
        /\ sessionDb[s] # Null => sessionDb[s] = owner[s] /\ s \notin removed
        /\ s \in issued => sessionDb[s] # Null \/ s \in removed

StoredListsInv == \A k \in Key : ListOK(userDb[k], k)

\* The commands a request has in flight, against what it was asked to do.
CommandInv(r) ==
    /\ \A s \in Session :
        /\ <<"hset", s>> \in req[r].todo =>
            /\ req[r].op = "login" /\ req[r].sid = s
            /\ req[r].key \in User /\ req[r].key = owner[s] /\ s \notin removed
        /\ <<"hdel", s>> \in req[r].todo =>
            owner[s] # Null /\ (ActsFor(r, s) \/ s \in removed)
    /\ \A k \in Key : <<"hsetUser", k>> \in req[r].todo => k = req[r].key

PhaseInv(r) ==
    /\ req[r].pc \in {"idle", "getUid", "getList"} => req[r].todo = {} /\ req[r].list = Null
    /\ req[r].op = "login" =>
        /\ req[r].sid \in Session /\ req[r].key \in User
        /\ req[r].pc \in {"getList", "store", "done", "failed"}
        /\ req[r].pc = "getList" => owner[req[r].sid] = Null
        /\ req[r].pc = "store" => \/ <<"hset", req[r].sid>> \in req[r].todo
                                  \/ sessionDb[req[r].sid] # Null
                                  \/ req[r].sid \in removed
        /\ req[r].pc = "done" => sessionDb[req[r].sid] # Null \/ req[r].sid \in removed
    /\ req[r].op \in {"logout", "clearExcept"} =>
        /\ req[r].sid \in issued
        /\ req[r].pc \notin {"getUid", "failed"} => Belongs(req[r].sid, req[r].key)
    /\ ListOK(req[r].list, req[r].key)

\* Two logins under way never hold the same id.
DistinctIds ==
    \A r1, r2 \in Request :
        /\ r1 # r2
        /\ req[r1].op = "login" /\ req[r1].pc = "getList"
        /\ req[r2].op = "login" /\ req[r2].pc = "getList"
        => req[r1].sid # req[r2].sid

\* An id that was not drawn yet has left no trace.
FreshInv ==
    \A s \in Session : owner[s] = Null =>
        /\ sessionDb[s] = Null /\ s \notin issued /\ s \notin removed

StoreInv == SessionInv /\ StoredListsInv /\ FreshInv
RequestInv(r) == CommandInv(r) /\ PhaseInv(r)

IInv ==
    /\ TypeOK
    /\ StoreInv
    /\ \A r \in Request : RequestInv(r)
    /\ DistinctIds

-----------------------------------------------------------------------------
(* Lists of sessions. *)

LEMMA SpliceType ==
    ASSUME NEW list \in Seq(Session), NEW s \in Session, list # <<>>
    PROVE  Splice(list, s) \in Seq(Session)
  BY DEF Splice

LEMMA WithoutSessionType ==
    ASSUME NEW list \in List, NEW s \in Session
    PROVE  WithoutSession(list, s) \in List
  BY SpliceType DEF WithoutSession, List

\* Taking a session out of a list brings in no other.
LEMMA WithoutSessionOK ==
    ASSUME NEW list \in List, NEW s \in Session, NEW k, ListOK(list, k)
    PROVE  ListOK(WithoutSession(list, s), k)
  <1>1. CASE list = Null \/ list = <<>>
    BY <1>1 DEF WithoutSession
  <1>2. CASE ~(list = Null \/ list = <<>>)
    <2>1. list \in Seq(Session) /\ Len(list) \in Nat /\ Len(list) # 0
      BY <1>2 DEF List
    <2>2. OrEmpty(list) = list
      BY <1>2 DEF OrEmpty
    <2>3. WithoutSession(list, s) = Splice(list, s)
      BY <1>2 DEF WithoutSession
    <2>4. CASE Splice(list, s) = Null
      BY <2>3, <2>4 DEF ListOK, OrEmpty
    <2>5. CASE Splice(list, s) # Null
      <3>1. OrEmpty(Splice(list, s)) = Splice(list, s)
        BY <2>5 DEF OrEmpty
      <3>2. Len(Splice(list, s)) = Len(list) - 1
        BY <2>1 DEF Splice
      <3>3. \A i \in 1..(Len(list) - 1) :
              Splice(list, s)[i] = list[i] \/ Splice(list, s)[i] = list[i + 1]
        BY <2>1 DEF Splice
      <3>4. \A i \in 1..(Len(list) - 1) : i \in 1..Len(list) /\ i + 1 \in 1..Len(list)
        BY <2>1
      <3> QED BY <2>2, <2>3, <3>1, <3>2, <3>3, <3>4 DEF ListOK
    <2> QED BY <2>4, <2>5
  <1> QED BY <1>1, <1>2

LEMMA EmptyOK == ASSUME NEW k PROVE ListOK(Null, k)
  BY DEF ListOK, OrEmpty

LEMMA AppendOK ==
    ASSUME NEW list \in List, NEW s \in Session, NEW k, ListOK(list, k), Belongs(s, k)
    PROVE  /\ Append(OrEmpty(list), s) \in Seq(Session)
           /\ ListOK(Append(OrEmpty(list), s), k)
  <1> DEFINE l == OrEmpty(list)
  <1>1. l \in Seq(Session)
    BY DEF OrEmpty, List
  <1>2. \A i \in 1..Len(l) : Belongs(l[i], k)
    BY DEF ListOK
  <1> HIDE DEF l
  <1>3. /\ Append(l, s) \in Seq(Session) /\ Len(Append(l, s)) = Len(l) + 1
        /\ \A i \in 1..Len(l) + 1 : Append(l, s)[i] = IF i = Len(l) + 1 THEN s ELSE l[i]
    BY <1>1
  <1>4. \A i \in 1..Len(Append(l, s)) : Belongs(Append(l, s)[i], k)
    BY <1>1, <1>2, <1>3
  <1>5. Append(l, s) \in Seq(Session) /\ ListOK(Append(l, s), k)
    BY <1>3, <1>4 DEF ListOK, OrEmpty
  <1> QED BY <1>5 DEF l

-----------------------------------------------------------------------------
(* Types.  TypeOK alone is not inductive: a request other than clearAll puts *)
(* its sid into lists and commands, so it must be a session.               *)

SidInv == \A r \in Request :
    req[r].op \in {"login", "logout", "clearExcept"} => req[r].sid \in Session

TypeInv == TypeOK /\ SidInv

LEMMA BeginType ==
    ASSUME TypeOK, NEW r \in Request,
           NEW op \in {"login", "logout", "clearExcept", "clearAll"},
           NEW pc \in {"getUid", "getList"},
           NEW sid \in Session \cup {Null}, NEW key \in Key, NEW opened \in SUBSET Session,
           op # "clearAll" => sid \in Session, SidInv,
           Begin(r, op, pc, sid, key, opened)
    PROVE  TypeInv'
  <1>1. [Idle EXCEPT !.op = op, !.pc = pc, !.sid = sid, !.key = key, !.opened = opened]
          \in RequestState
    BY DEF Idle, RequestState, Key, List
  <1>2. req' \in [Request -> RequestState]
    BY <1>1 DEF TypeOK, Begin
  <1>3. SidInv'
    BY DEF SidInv, TypeOK, Begin, Idle
  <1> QED BY <1>2, <1>3 DEF TypeInv, TypeOK, Begin, stored

LEMMA ExecutedType ==
    ASSUME TypeInv, NEW r \in Request, NEW c,
           NEW next \in SUBSET (SessionCommand \cup UserCommand), Executed(r, c, next)
    PROVE  req' \in [Request -> RequestState] /\ SidInv'
  <1>1. req[r] \in RequestState
    BY DEF TypeInv, TypeOK
  <1> DEFINE d == (req[r].todo \ {c}) \cup next
  <1>2. d \in SUBSET (SessionCommand \cup UserCommand)
    BY <1>1 DEF RequestState
  <1>3. req' = [req EXCEPT ![r].todo = d]
    BY <1>1 DEF Executed, TypeInv, TypeOK
  <1> HIDE DEF d
  <1>4. req' \in [Request -> RequestState]
    BY <1>1, <1>2, <1>3 DEF RequestState, TypeInv, TypeOK
  <1>5. \A o \in Request : req'[o].op = req[o].op /\ req'[o].sid = req[o].sid
    BY <1>1, <1>3 DEF RequestState, TypeInv, TypeOK
  <1> QED BY <1>4, <1>5 DEF SidInv, TypeInv

LEMMA TypeStep == TypeInv /\ [NextF]_vars => TypeInv'
  <1> SUFFICES ASSUME TypeInv, [NextF]_vars PROVE TypeInv'
    OBVIOUS
  <1>1. ASSUME NEW r \in Request, NEW u \in User, BeginLogin(r, u) PROVE TypeInv'
    <2>1. PICK s \in Session : Begin(r, "login", "getList", s, u, {})
      BY <1>1 DEF BeginLogin
    <2> QED BY <2>1, BeginType DEF Key, TypeInv
  <1>2. ASSUME NEW r \in Request, NEW s \in Session, BeginLogout(r, s) PROVE TypeInv'
    <2>1. Begin(r, "logout", "getUid", s, Null, {})
      BY <1>2 DEF BeginLogout
    <2> QED BY <2>1, BeginType DEF Key, TypeInv
  <1>3. ASSUME NEW r \in Request, NEW s \in Session, BeginClearExcept(r, s) PROVE TypeInv'
    <2> DEFINE S == IF Live(s) THEN {t \in issued \ {s} : sessionDb[t] = sessionDb[s]} ELSE {}
    <2>1. Begin(r, "clearExcept", "getUid", s, Null, S)
      BY <1>3 DEF BeginClearExcept
    <2>2. S \in SUBSET Session
      BY DEF TypeInv, TypeOK
    <2> HIDE DEF S
    <2> QED BY <2>1, <2>2, BeginType DEF Key, TypeInv
  <1>4. ASSUME NEW r \in Request, NEW u \in User, BeginClearAll(r, u) PROVE TypeInv'
    <2> DEFINE S == {t \in issued : sessionDb[t] = u}
    <2>1. Begin(r, "clearAll", "getList", Null, u, S)
      BY <1>4 DEF BeginClearAll
    <2>2. S \in SUBSET Session
      BY DEF TypeInv, TypeOK
    <2> HIDE DEF S
    <2> QED BY <2>1, <2>2, BeginType DEF Key, TypeInv
  <1> USE DEF TypeInv, TypeOK, SidInv, stored
  <1>5. ASSUME NEW r \in Request, GetUserId(r) PROVE TypeInv'
    BY <1>5 DEF GetUserId, RequestState
  <1>6. ASSUME NEW r \in Request, LoginGetsList(r) PROVE TypeInv'
    <2> DEFINE s == req[r].sid
               u == req[r].key
               l == Append(OrEmpty(userDb[u]), s)
               c == {<<"hset", s>>, <<"hsetUser", u>>}
    <2>1. s \in Session /\ u \in Key /\ req[r] \in RequestState
      BY <1>6 DEF LoginGetsList, RequestState
    <2>2. l \in List /\ c \in SUBSET (SessionCommand \cup UserCommand)
      BY <2>1 DEF OrEmpty, List, SessionCommand, UserCommand
    <2>3. req' = [req EXCEPT ![r].list = l, ![r].pc = "store", ![r].todo = c]
      BY <1>6 DEF LoginGetsList
    <2> HIDE DEF l, c
    <2>4. req' \in [Request -> RequestState]
      BY <2>1, <2>2, <2>3 DEF RequestState
    <2>5. \A o \in Request : req'[o].op = req[o].op /\ req'[o].sid = req[o].sid
      BY <2>1, <2>3 DEF RequestState
    <2>6. userConn' \in Seq(Request) /\ owner' \in [Session -> Key] /\ UNCHANGED <<stored, issued, removed>>
      BY <1>6, <2>1 DEF LoginGetsList
    <2> QED BY <2>4, <2>5, <2>6
  <1>7. ASSUME NEW r \in Request, LogoutGetsList(r) PROVE TypeInv'
    <2> DEFINE l == WithoutSession(userDb[req[r].key], req[r].sid)
               c == {<<"hsetUser", req[r].key>>}
    <2>1. req[r].sid \in Session /\ req[r].key \in Key /\ req[r] \in RequestState
      BY <1>7 DEF LogoutGetsList, RequestState
    <2>2. l \in List /\ c \in SUBSET (SessionCommand \cup UserCommand)
      BY <2>1, WithoutSessionType DEF UserCommand
    <2>3. req' = [req EXCEPT ![r].list = l, ![r].pc = "storeList", ![r].todo = c]
      BY <1>7 DEF LogoutGetsList
    <2> HIDE DEF l, c
    <2>4. req' \in [Request -> RequestState]
      BY <2>1, <2>2, <2>3 DEF RequestState
    <2>5. \A o \in Request : req'[o].op = req[o].op /\ req'[o].sid = req[o].sid
      BY <2>1, <2>3 DEF RequestState
    <2>6. userConn' \in Seq(Request) /\ owner' \in [Session -> Key] /\ UNCHANGED <<stored, issued, removed>>
      BY <1>7, <2>1 DEF LogoutGetsList
    <2> QED BY <2>4, <2>5, <2>6
  <1>8. ASSUME NEW r \in Request, ClearGetsList(r) PROVE TypeInv'
    <2> DEFINE l == OrEmpty(userDb[req[r].key])
               c == RemoveSessions(ToSet(l) \ {req[r].sid})
    <2>1. req[r].key \in Key /\ req[r] \in RequestState
      BY <1>8 DEF RequestState
    <2>2. l \in Seq(Session)
      BY <2>1 DEF OrEmpty, List
    <2>3. ToSet(l) \subseteq Session
      BY <2>2 DEF ToSet
    <2>4. c \in SUBSET (SessionCommand \cup UserCommand)
      BY <2>3 DEF RemoveSessions, SessionCommand, Removing
    <2>5. req' = [req EXCEPT ![r].pc = "remove", ![r].todo = c]
      BY <1>8 DEF ClearGetsList
    <2> HIDE DEF l, c
    <2>6. req' \in [Request -> RequestState]
      BY <2>1, <2>4, <2>5 DEF RequestState
    <2>7. \A o \in Request : req'[o].op = req[o].op /\ req'[o].sid = req[o].sid
      BY <2>1, <2>5 DEF RequestState
    <2>8. UNCHANGED <<stored, userConn, owner, issued, removed>>
      BY <1>8 DEF ClearGetsList
    <2> QED BY <2>6, <2>7, <2>8
  <1>9. ASSUME NEW r \in Request, LogoutStored(r) PROVE TypeInv'
    <2> DEFINE c == RemoveSessions({req[r].sid})
    <2>1. c \in SUBSET (SessionCommand \cup UserCommand) /\ req[r] \in RequestState
      BY <1>9 DEF LogoutStored, RemoveSessions, SessionCommand, Removing
    <2>2. req' = [req EXCEPT ![r].pc = "remove", ![r].todo = c]
      BY <1>9 DEF LogoutStored
    <2> HIDE DEF c
    <2>3. req' \in [Request -> RequestState]
      BY <2>1, <2>2 DEF RequestState
    <2>4. \A o \in Request : req'[o].op = req[o].op /\ req'[o].sid = req[o].sid
      BY <2>1, <2>2 DEF RequestState
    <2> QED BY <1>9, <2>3, <2>4 DEF LogoutStored
  <1>10. ASSUME NEW r \in Request, ClearExceptRemoved(r) PROVE TypeInv'
    <2> DEFINE l == <<req[r].sid>>
               c == req[r].todo \cup {<<"hsetUser", req[r].key>>}
    <2>1. req[r].sid \in Session /\ req[r].key \in Key /\ req[r] \in RequestState
      BY <1>10 DEF ClearExceptRemoved, RequestState
    <2>2. l \in List /\ c \in SUBSET (SessionCommand \cup UserCommand)
      BY <2>1 DEF List, UserCommand, RequestState
    <2>3. req' = [req EXCEPT ![r].list = l, ![r].pc = "storeList", ![r].todo = c]
      BY <1>10, <2>1 DEF ClearExceptRemoved
    <2> HIDE DEF l, c
    <2>4. req' \in [Request -> RequestState]
      BY <2>1, <2>2, <2>3 DEF RequestState
    <2>5. \A o \in Request : req'[o].op = req[o].op /\ req'[o].sid = req[o].sid
      BY <2>1, <2>3 DEF RequestState
    <2>6. userConn' \in Seq(Request) /\ UNCHANGED <<stored, owner, issued, removed>>
      BY <1>10, <2>1 DEF ClearExceptRemoved
    <2> QED BY <2>4, <2>5, <2>6
  <1>11. ASSUME NEW r \in Request, ClearAllRemoved(r) PROVE TypeInv'
    <2> DEFINE c == req[r].todo \cup {<<"hdelUser", req[r].key>>}
    <2>1. req[r].key \in Key /\ req[r] \in RequestState
      BY DEF RequestState
    <2>2. c \in SUBSET (SessionCommand \cup UserCommand)
      BY <2>1 DEF UserCommand, RequestState
    <2>3. req' = [req EXCEPT ![r].pc = "drop", ![r].todo = c]
      BY <1>11, <2>1 DEF ClearAllRemoved
    <2> HIDE DEF c
    <2>4. req' \in [Request -> RequestState]
      BY <2>1, <2>2, <2>3 DEF RequestState
    <2>5. \A o \in Request : req'[o].op = req[o].op /\ req'[o].sid = req[o].sid
      BY <2>1, <2>3 DEF RequestState
    <2>6. userConn' \in Seq(Request) /\ UNCHANGED <<stored, owner, issued, removed>>
      BY <1>11, <2>1 DEF ClearAllRemoved
    <2> QED BY <2>4, <2>5, <2>6
  <1>12. ASSUME NEW r \in Request, Finish(r) PROVE TypeInv'
    BY <1>12 DEF Finish, RequestState
  <1>13. ASSUME NEW r \in Request, LoginReturns(r) \/ LoginFails(r) \/ Return(r) PROVE TypeInv'
    <2>1. Idle \in RequestState /\ Idle.op = "none"
      BY DEF Idle, RequestState, Key, List
    <2>2. Leave(r) /\ issued' \subseteq Session
      BY <1>13 DEF LoginReturns, LoginFails, Return
    <2> QED BY <2>1, <2>2 DEF Leave
  <1>14. ASSUME NEW r \in Request, NEW s \in Session, HSet(r, s) PROVE TypeInv'
    <2>1. {<<"sadd", s>>} \in SUBSET (SessionCommand \cup UserCommand)
      BY DEF SessionCommand, Removing
    <2>2. req' \in [Request -> RequestState] /\ SidInv'
      BY <1>14, <2>1, ExecutedType DEF HSet
    <2> QED BY <1>14, <2>2 DEF HSet, RequestState
  <1>15. ASSUME NEW r \in Request, NEW s \in Session, SAdd(r, s) PROVE TypeInv'
    <2>1. {} \in SUBSET (SessionCommand \cup UserCommand)
      BY DEF SessionCommand, Removing
    <2>2. req' \in [Request -> RequestState] /\ SidInv'
      BY <1>15, <2>1, ExecutedType DEF SAdd
    <2> QED BY <1>15, <2>2 DEF SAdd
  <1>16. ASSUME NEW r \in Request, NEW s \in Session, HDel(r, s) PROVE TypeInv'
    <2>1. {<<"srem", s>>} \in SUBSET (SessionCommand \cup UserCommand)
      BY DEF SessionCommand, Removing
    <2>2. req' \in [Request -> RequestState] /\ SidInv'
      BY <1>16, <2>1, ExecutedType DEF HDel
    <2> QED BY <1>16, <2>2 DEF HDel, Key
  <1>17. ASSUME NEW r \in Request, NEW s \in Session, SRem(r, s) PROVE TypeInv'
    <2>1. {} \in SUBSET (SessionCommand \cup UserCommand)
      BY DEF SessionCommand, Removing
    <2>2. req' \in [Request -> RequestState] /\ SidInv'
      BY <1>17, <2>1, ExecutedType DEF SRem
    <2> QED BY <1>17, <2>2 DEF SRem
  <1>18. ASSUME NEW r \in Request, NEW s \in Session, XAdd(r, s) PROVE TypeInv'
    <2>1. {} \in SUBSET (SessionCommand \cup UserCommand)
      BY DEF SessionCommand, Removing
    <2>2. req' \in [Request -> RequestState] /\ SidInv'
      BY <1>18, <2>1, ExecutedType DEF XAdd
    <2> QED BY <1>18, <2>2 DEF XAdd
  <1>19. ASSUME NEW r \in Request, NEW u \in Key, HSetUser(r, u) PROVE TypeInv'
    <2>1. {<<"saddUser", u>>} \in SUBSET (SessionCommand \cup UserCommand)
      BY DEF UserCommand
    <2>2. req' \in [Request -> RequestState] /\ SidInv'
      BY <1>19, <2>1, ExecutedType DEF HSetUser
    <2>3. userConn' \in Seq(Request)
      BY <1>19 DEF HSetUser, First
    <2> QED BY <1>19, <2>2, <2>3 DEF HSetUser, RequestState
  <1>20. ASSUME NEW r \in Request, NEW u \in Key, SAddUser(r, u) PROVE TypeInv'
    <2>1. {} \in SUBSET (SessionCommand \cup UserCommand)
      BY DEF UserCommand
    <2>2. req' \in [Request -> RequestState] /\ SidInv'
      BY <1>20, <2>1, ExecutedType DEF SAddUser
    <2>3. userConn' \in Seq(Request)
      BY <1>20 DEF SAddUser, First
    <2> QED BY <1>20, <2>2, <2>3 DEF SAddUser
  <1>21. ASSUME NEW r \in Request, NEW u \in Key, HDelUser(r, u) PROVE TypeInv'
    <2>1. {<<"sremUser", u>>} \in SUBSET (SessionCommand \cup UserCommand)
      BY DEF UserCommand
    <2>2. req' \in [Request -> RequestState] /\ SidInv'
      BY <1>21, <2>1, ExecutedType DEF HDelUser
    <2>3. userConn' \in Seq(Request)
      BY <1>21 DEF HDelUser, First
    <2> QED BY <1>21, <2>2, <2>3 DEF HDelUser, List
  <1>22. ASSUME NEW r \in Request, NEW u \in Key, SRemUser(r, u) PROVE TypeInv'
    <2>1. {} \in SUBSET (SessionCommand \cup UserCommand)
      BY DEF UserCommand
    <2>2. req' \in [Request -> RequestState] /\ SidInv'
      BY <1>22, <2>1, ExecutedType DEF SRemUser
    <2>3. userConn' \in Seq(Request)
      BY <1>22 DEF SRemUser, First
    <2> QED BY <1>22, <2>2, <2>3 DEF SRemUser
  <1>23. ASSUME NEW r \in Request, ReadFails(r) PROVE TypeInv'
    <2>1. req' = [req EXCEPT ![r].pc = "failed"] /\ req[r] \in RequestState
      BY <1>23 DEF ReadFails
    <2>2. req' \in [Request -> RequestState]
      BY <2>1 DEF RequestState
    <2>3. \A o \in Request : req'[o].op = req[o].op /\ req'[o].sid = req[o].sid
      BY <2>1 DEF RequestState
    <2> QED BY <1>23, <2>2, <2>3 DEF ReadFails
  <1>24. ASSUME NEW r \in Request, NEW s \in Session, RemovalFails(r, s) PROVE TypeInv'
    <2>1. PICK cmd \in Removing :
            req' = [req EXCEPT ![r].todo = @ \ {<<cmd, s>>}, ![r].swallowed = @ \cup {s}]
      BY <1>24 DEF RemovalFails
    <2> DEFINE c == req[r].todo \ {<<cmd, s>>}
               w == req[r].swallowed \cup {s}
    <2>2. /\ c \in SUBSET (SessionCommand \cup UserCommand) /\ w \in SUBSET Session
          /\ req[r] \in RequestState
      BY DEF RequestState
    <2>3. req' = [req EXCEPT ![r].todo = c, ![r].swallowed = w]
      BY <2>1
    <2> HIDE DEF c, w
    <2>4. req' \in [Request -> RequestState]
      BY <2>2, <2>3 DEF RequestState
    <2>5. \A o \in Request : req'[o].op = req[o].op /\ req'[o].sid = req[o].sid
      BY <2>2, <2>3 DEF RequestState
    <2>6. UNCHANGED <<stored, userConn, owner, issued, removed>>
      BY <1>24 DEF RemovalFails
    <2> QED BY <2>4, <2>5, <2>6
  <1>25. ASSUME NEW r \in Request, NEW c \in req[r].todo, WriteFails(r, c) PROVE TypeInv'
    <2> DEFINE d == req[r].todo \ {c}
    <2>1. d \in SUBSET (SessionCommand \cup UserCommand) /\ req[r] \in RequestState
      BY DEF RequestState
    <2>2. req' = [req EXCEPT ![r].todo = d, ![r].pc = "failed"]
      BY <1>25 DEF WriteFails
    <2> HIDE DEF d
    <2>3. req' \in [Request -> RequestState]
      BY <2>1, <2>2 DEF RequestState
    <2>4. \A o \in Request : req'[o].op = req[o].op /\ req'[o].sid = req[o].sid
      BY <2>1, <2>2 DEF RequestState
    <2>5. userConn # <<>> => Tail(userConn) \in Seq(Request)
      OBVIOUS
    <2>6. (userConn # <<>> /\ userConn' = Tail(userConn)) \/ userConn' = userConn
      BY <1>25 DEF WriteFails, First
    <2>7. UNCHANGED <<stored, owner, issued, removed>>
      BY <1>25 DEF WriteFails
    <2> QED BY <2>3, <2>4, <2>5, <2>6, <2>7
  <1>26. CASE Crash
    <2>1. Idle \in RequestState /\ Idle.op = "none"
      BY DEF Idle, RequestState, Key, List
    <2> QED BY <1>26, <2>1 DEF Crash
  <1>27. CASE UNCHANGED vars
    BY <1>27 DEF vars
  <1> QED
    BY <1>1, <1>2, <1>3, <1>4, <1>5, <1>6, <1>7, <1>8, <1>9, <1>10, <1>11, <1>12, <1>13,
       <1>14, <1>15, <1>16, <1>17, <1>18, <1>19, <1>20, <1>21, <1>22, <1>23, <1>24, <1>25,
       <1>26, <1>27
       DEF NextF, Next, Arrive, Progress, Fault

\* TypeOK holds in every reachable state, faults included.
THEOREM TypeCorrect == SpecF => []TypeOK
  <1>1. Init => TypeInv
    BY DEF Init, TypeInv, TypeOK, SidInv, Idle, RequestState, Key, List
  <1>2. TypeInv => TypeOK
    BY DEF TypeInv
  <1> QED BY <1>1, <1>2, TypeStep, PTL DEF SpecF

-----------------------------------------------------------------------------
(* The inductive invariant. *)

\* How a step may change what the invariant of a request that does not move reads.
Frame ==
    /\ \A s \in Session : owner[s] # Null => owner'[s] = owner[s]
    /\ removed \subseteq removed' /\ issued \subseteq issued'
    /\ \A s \in Session : sessionDb[s] # Null => sessionDb'[s] # Null \/ s \in removed'

LEMMA BelongsStable ==
    ASSUME TypeOK, FreshInv, Frame, NEW s \in Session, NEW k \in Key, Belongs(s, k)
    PROVE  Belongs(s, k)'
  BY DEF Belongs, Frame

LEMMA ListStable ==
    ASSUME TypeOK, FreshInv, Frame, NEW list \in List, NEW k \in Key, ListOK(list, k)
    PROVE  ListOK(list, k)'
  <1>1. OrEmpty(list) \in Seq(Session)
    BY DEF OrEmpty, List
  <1>2. \A i \in 1..Len(OrEmpty(list)) : OrEmpty(list)[i] \in Session
    BY <1>1
  <1> QED BY <1>2, BelongsStable DEF ListOK

\* A request that does not move keeps its invariant.
LEMMA RequestStable ==
    ASSUME IInv, Frame, NEW r \in Request, req'[r] = req[r],
           \A s \in Session : <<"hset", s>> \in req[r].todo => s \notin removed',
           req[r].op = "login" /\ req[r].pc = "getList" => owner'[req[r].sid] = Null
    PROVE  RequestInv(r)'
  <1> USE DEF IInv, StoreInv
  <1>1. req[r] \in RequestState /\ CommandInv(r) /\ PhaseInv(r)
    BY DEF TypeOK, RequestInv
  <1>2. CommandInv(r)'
    <2>1. ASSUME NEW s \in Session, <<"hdel", s>> \in req'[r].todo
          PROVE  owner'[s] # Null /\ (ActsFor(r, s)' \/ s \in removed')
      BY <1>1, <2>1 DEF CommandInv, ActsFor, Frame
    <2>2. ASSUME NEW s \in Session, <<"hset", s>> \in req'[r].todo
          PROVE  /\ req'[r].op = "login" /\ req'[r].sid = s
                 /\ req'[r].key \in User /\ req'[r].key = owner'[s] /\ s \notin removed'
      BY <1>1, <2>2, NullAssumption DEF CommandInv, Frame
    <2> QED BY <1>1, <2>1, <2>2 DEF CommandInv
  <1>3. ListOK(req[r].list, req[r].key)'
    BY <1>1, ListStable DEF RequestState, PhaseInv
  <1>4. ASSUME req[r].op \in {"logout", "clearExcept"}, req[r].pc \notin {"getUid", "failed"}
        PROVE  Belongs(req[r].sid, req[r].key)'
    BY <1>1, <1>4, BelongsStable DEF RequestState, PhaseInv, TypeOK
  <1> QED BY <1>1, <1>2, <1>3, <1>4 DEF RequestInv, PhaseInv, Frame

\* A step that changes requests only.
LEMMA StoreStable ==
    ASSUME StoreInv, UNCHANGED <<sessionDb, userDb, owner, issued, removed>>
    PROVE  StoreInv' /\ Frame
  BY DEF StoreInv, SessionInv, StoredListsInv, FreshInv, ListOK, Belongs, Frame

\* A step of request r keeps the invariant if it keeps what is stored and its own.
LEMMA Compose ==
    ASSUME IInv, TypeOK', StoreInv', Frame, NEW r \in Request, RequestInv(r)',
           \A o \in Request \ {r} : req'[o] = req[o],
           \A s \in removed' \ removed : ~InFlight("hset", s),
           \A o \in Request \ {r} : req[o].op = "login" /\ req[o].pc = "getList" =>
                /\ owner'[req[o].sid] = Null
                /\ req'[r].op = "login" /\ req'[r].pc = "getList" => req'[r].sid # req[o].sid
    PROVE  IInv'
  <1>1. ASSUME NEW o \in Request \ {r} PROVE RequestInv(o)'
    <2>1. \A s \in Session : <<"hset", s>> \in req[o].todo => s \notin removed'
      BY DEF IInv, RequestInv, CommandInv, InFlight
    <2> QED BY <2>1, RequestStable
  <1>2. DistinctIds'
    BY DEF DistinctIds, IInv
  <1> QED BY <1>1, <1>2 DEF IInv

\* The same for a step that changes requests only.
LEMMA ComposeRequest ==
    ASSUME IInv, TypeOK', UNCHANGED <<sessionDb, userDb, owner, issued, removed>>,
           NEW r \in Request, RequestInv(r)',
           \A o \in Request \ {r} : req'[o] = req[o],
           \A o \in Request \ {r} :
                /\ req'[r].op = "login" /\ req'[r].pc = "getList"
                /\ req[o].op = "login" /\ req[o].pc = "getList"
                => req'[r].sid # req[o].sid
    PROVE  IInv'
  <1>1. StoreInv' /\ Frame
    BY StoreStable DEF IInv
  <1>2. \A o \in Request : req[o].op = "login" /\ req[o].pc = "getList" => owner[req[o].sid] = Null
    BY DEF IInv, RequestInv, PhaseInv
  <1> QED BY <1>1, <1>2, Compose

LEMMA BeginStep ==
    ASSUME IInv, TypeOK', NEW r \in Request, NEW op, NEW pc \in {"getUid", "getList"},
           NEW sid, NEW key, NEW opened, Begin(r, op, pc, sid, key, opened),
           op = "login" => /\ sid \in Session /\ key \in User /\ owner[sid] = Null
                           /\ \A o \in Request : req[o].sid # sid /\ pc = "getList",
           op \in {"logout", "clearExcept"} => sid \in issued /\ pc = "getUid"
    PROVE  IInv'
  <1>1. /\ req'[r] = [Idle EXCEPT !.op = op, !.pc = pc, !.sid = sid, !.key = key, !.opened = opened]
        /\ \A o \in Request \ {r} : req'[o] = req[o]
    BY DEF Begin, IInv, TypeOK
  <1>2. /\ req'[r].op = op /\ req'[r].pc = pc /\ req'[r].sid = sid /\ req'[r].key = key
        /\ req'[r].todo = {} /\ req'[r].list = Null
    BY <1>1 DEF Idle
  <1>3. UNCHANGED <<sessionDb, userDb, owner, issued, removed>>
    BY DEF Begin, stored
  <1>4. RequestInv(r)'
    BY <1>2, <1>3 DEF RequestInv, CommandInv, PhaseInv, ListOK, OrEmpty
  <1> QED BY <1>1, <1>2, <1>3, <1>4, ComposeRequest

LEMMA GetUserIdStep ==
    ASSUME IInv, TypeOK', NEW r \in Request, GetUserId(r)
    PROVE  IInv'
  <1>1. /\ req[r] \in RequestState /\ PhaseInv(r) /\ req[r].pc = "getUid"
        /\ req[r].op # "login" /\ req[r].todo = {} /\ req[r].list = Null
    BY DEF IInv, TypeOK, RequestInv, PhaseInv, GetUserId
  <1>2. /\ req' = [req EXCEPT ![r].key = sessionDb[req[r].sid], ![r].pc = "getList"]
        /\ UNCHANGED <<sessionDb, userDb, owner, issued, removed>>
    BY DEF GetUserId, stored
  <1>3. /\ req'[r].op = req[r].op /\ req'[r].sid = req[r].sid
        /\ req'[r].key = sessionDb[req[r].sid] /\ req'[r].pc = "getList"
        /\ req'[r].todo = {} /\ req'[r].list = Null
        /\ \A o \in Request \ {r} : req'[o] = req[o]
    BY <1>1, <1>2 DEF IInv, TypeOK, RequestState
  <1>4. req[r].op \in {"logout", "clearExcept"} => Belongs(req[r].sid, sessionDb[req[r].sid])
    BY <1>1 DEF PhaseInv, Belongs, IInv, StoreInv, SessionInv, TypeOK
  <1>5. CommandInv(r)' /\ ListOK(req[r].list, req[r].key)'
    BY <1>3 DEF CommandInv, ListOK, OrEmpty
  <1>6. req[r].op \in {"logout", "clearExcept"} => Belongs(req[r].sid, req[r].key)'
    BY <1>2, <1>3, <1>4 DEF Belongs
  <1>7. PhaseInv(r)'
    <2>1. req'[r].op \in {"logout", "clearExcept"} => req'[r].sid \in issued' /\ Belongs(req[r].sid, req[r].key)'
      BY <1>1, <1>2, <1>3, <1>6 DEF PhaseInv
    <2>2. req'[r].op # "login"
      BY <1>1, <1>3
    <2> QED BY <1>3, <1>5, <2>1, <2>2 DEF PhaseInv
  <1>8. RequestInv(r)'
    BY <1>5, <1>7 DEF RequestInv
  <1> QED BY <1>1, <1>2, <1>3, <1>8, ComposeRequest

LEMMA LoginListOK ==
    ASSUME IInv, Frame, NEW s \in Session, NEW u \in User, Belongs(s, u)',
           NEW l, l = Append(OrEmpty(userDb[u]), s)
    PROVE  l \in Seq(Session) /\ ListOK(l, u)'
  <1>0. PICK d : d = OrEmpty(userDb[u])
    OBVIOUS
  <1>1. userDb[u] \in List /\ ListOK(userDb[u], u)
    BY DEF IInv, StoreInv, StoredListsInv, TypeOK, Key
  <1>2. d \in Seq(Session)
    BY <1>0, <1>1 DEF OrEmpty, List
  <1>3. \A j \in 1..Len(d) : Belongs(d[j], u)'
    <2>1. \A j \in 1..Len(d) : d[j] \in Session /\ Belongs(d[j], u)
      BY <1>0, <1>1, <1>2 DEF ListOK
    <2> QED BY <2>1, BelongsStable DEF IInv, StoreInv, Key
  <1>4. /\ l \in Seq(Session) /\ Len(l) = Len(d) + 1
        /\ \A i \in 1..Len(l) : l[i] = s \/ \E j \in 1..Len(d) : l[i] = d[j]
    BY <1>0, <1>2
  <1>5. OrEmpty(l) = l \/ OrEmpty(l) = <<>>
    BY DEF OrEmpty
  <1>6. \A i \in 1..Len(l) : Belongs(l[i], u)'
    BY <1>3, <1>4
  <1> QED BY <1>4, <1>5, <1>6 DEF ListOK

LEMMA LoginGetsListStep ==
    ASSUME IInv, TypeOK', NEW r \in Request, LoginGetsList(r),
           NEW s, s = req[r].sid, NEW u, u = req[r].key,
           NEW l, l = Append(OrEmpty(userDb[u]), s),
           NEW c, c = {<<"hset", s>>, <<"hsetUser", u>>}
    PROVE  IInv'
  <1>1. /\ req[r] \in RequestState /\ PhaseInv(r) /\ req[r].pc = "getList" /\ req[r].op = "login"
        /\ s \in Session /\ u \in User /\ owner[s] = Null
    BY DEF IInv, TypeOK, RequestInv, PhaseInv, LoginGetsList
  <1>2. /\ req' = [req EXCEPT ![r].list = l, ![r].pc = "store", ![r].todo = c]
        /\ owner' = [owner EXCEPT ![s] = u]
        /\ UNCHANGED <<sessionDb, userDb, issued, removed>>
    BY DEF LoginGetsList, stored
  <1>3. s \notin removed /\ sessionDb[s] = Null /\ s \notin issued
    BY <1>1 DEF IInv, StoreInv, FreshInv
  <1>4. Frame
    BY <1>1, <1>2 DEF Frame, IInv, TypeOK
  <1>6. Belongs(s, u)'
    BY <1>1, <1>2, NullAssumption DEF Belongs, IInv, TypeOK
  <1>7. l \in Seq(Session) /\ ListOK(l, u)'
    BY <1>1, <1>4, <1>6, LoginListOK
  <1>8. /\ req'[r].op = "login" /\ req'[r].sid = s /\ req'[r].key = u /\ req'[r].pc = "store"
        /\ req'[r].list = l /\ req'[r].todo = c
        /\ \A o \in Request \ {r} : req'[o] = req[o]
    <2>1. req \in [Request -> RequestState]
      BY DEF IInv, TypeOK
    <2>2. \A o \in Request \ {r} : req'[o] = req[o]
      BY <1>2, <2>1
    <2>3. req'[r] = [req[r] EXCEPT !.list = l, !.pc = "store", !.todo = c]
      BY <1>2, <2>1
    <2> QED BY <1>1, <2>2, <2>3 DEF RequestState
  <1>9. CommandInv(r)'
    BY <1>1, <1>2, <1>3, <1>8 DEF CommandInv, IInv, TypeOK
  <1>10. RequestInv(r)'
    <2>1. ListOK(req[r].list, req[r].key)'
      BY <1>7, <1>8 DEF ListOK, Belongs
    <2> QED BY <1>1, <1>8, <1>9, <2>1 DEF RequestInv, PhaseInv
  <1>11. StoreInv'
    <2>1. SessionInv'
      BY <1>2, <1>3 DEF SessionInv, IInv, StoreInv, TypeOK
    <2>2. StoredListsInv'
      BY <1>2, <1>4, ListStable DEF StoredListsInv, IInv, StoreInv, TypeOK
    <2>3. FreshInv'
      BY <1>1, <1>2, NullAssumption DEF FreshInv, IInv, StoreInv, TypeOK
    <2> QED BY <2>1, <2>2, <2>3 DEF StoreInv
  <1>12. \A o \in Request \ {r} : req[o].op = "login" /\ req[o].pc = "getList" =>
            owner'[req[o].sid] = Null
    <2> SUFFICES ASSUME NEW o \in Request \ {r}, req[o].op = "login", req[o].pc = "getList"
                 PROVE  owner'[req[o].sid] = Null
      OBVIOUS
    <2>1. owner[req[o].sid] = Null /\ req[o].sid \in Session /\ req[o].sid # s
      BY <1>1 DEF IInv, RequestInv, PhaseInv, DistinctIds
    <2> QED BY <1>2, <2>1 DEF IInv, TypeOK
  <1> QED BY <1>2, <1>4, <1>8, <1>10, <1>11, <1>12, Compose

LEMMA LogoutGetsListStep ==
    ASSUME IInv, TypeOK', NEW r \in Request, LogoutGetsList(r),
           NEW k, k = req[r].key, NEW l, l = WithoutSession(userDb[k], req[r].sid),
           NEW c, c = {<<"hsetUser", k>>}
    PROVE  IInv'
  <1>1. /\ req[r] \in RequestState /\ PhaseInv(r) /\ req[r].pc = "getList" /\ req[r].op = "logout"
        /\ req[r].sid \in issued /\ req[r].sid \in Session /\ k \in Key /\ Belongs(req[r].sid, k)
    BY DEF IInv, TypeOK, RequestInv, PhaseInv, LogoutGetsList, RequestState
  <1>2. /\ req' = [req EXCEPT ![r].list = l, ![r].pc = "storeList", ![r].todo = c]
        /\ UNCHANGED <<sessionDb, userDb, owner, issued, removed>>
    BY DEF LogoutGetsList, stored
  <1>3. /\ req'[r].op = "logout" /\ req'[r].sid = req[r].sid /\ req'[r].key = k
        /\ req'[r].pc = "storeList" /\ req'[r].list = l /\ req'[r].todo = c
        /\ \A o \in Request \ {r} : req'[o] = req[o]
    <2>1. req \in [Request -> RequestState]
      BY DEF IInv, TypeOK
    <2>2. \A o \in Request \ {r} : req'[o] = req[o]
      BY <1>2, <2>1
    <2>3. req'[r] = [req[r] EXCEPT !.list = l, !.pc = "storeList", !.todo = c]
      BY <1>2, <2>1
    <2> QED BY <1>1, <2>2, <2>3 DEF RequestState
  <1>4. ListOK(l, k)
    BY <1>1, WithoutSessionOK DEF IInv, StoreInv, StoredListsInv, TypeOK
  <1>5. ListOK(req[r].list, req[r].key)' /\ Belongs(req[r].sid, req[r].key)'
    BY <1>1, <1>2, <1>3, <1>4 DEF ListOK, Belongs
  <1>6. CommandInv(r)'
    BY <1>3 DEF CommandInv
  <1>7. RequestInv(r)'
    BY <1>1, <1>2, <1>3, <1>5, <1>6 DEF RequestInv, PhaseInv
  <1> QED BY <1>2, <1>3, <1>7, ComposeRequest

LEMMA ClearGetsListStep ==
    ASSUME IInv, TypeOK', NEW r \in Request, ClearGetsList(r),
           NEW k, k = req[r].key, NEW l, l = OrEmpty(userDb[k]),
           NEW c, c = RemoveSessions(ToSet(l) \ {req[r].sid})
    PROVE  IInv'
  <1>1. /\ req[r] \in RequestState /\ PhaseInv(r) /\ req[r].pc = "getList"
        /\ req[r].op \in {"clearExcept", "clearAll"} /\ req[r].list = Null /\ k \in Key
    BY DEF IInv, TypeOK, RequestInv, PhaseInv, ClearGetsList, RequestState
  <1>2. /\ req' = [req EXCEPT ![r].pc = "remove", ![r].todo = c]
        /\ UNCHANGED <<sessionDb, userDb, owner, issued, removed>>
    BY DEF ClearGetsList, stored
  <1>3. /\ req'[r].op = req[r].op /\ req'[r].sid = req[r].sid /\ req'[r].key = k
        /\ req'[r].pc = "remove" /\ req'[r].list = Null /\ req'[r].todo = c
        /\ \A o \in Request \ {r} : req'[o] = req[o]
    <2>1. req \in [Request -> RequestState]
      BY DEF IInv, TypeOK
    <2>2. \A o \in Request \ {r} : req'[o] = req[o]
      BY <1>2, <2>1
    <2>3. req'[r] = [req[r] EXCEPT !.pc = "remove", !.todo = c]
      BY <1>2, <2>1
    <2> QED BY <1>1, <2>2, <2>3 DEF RequestState
  <1>4. ListOK(req[r].list, req[r].key)'
    BY <1>3 DEF ListOK, OrEmpty
  <1>5. \A s \in ToSet(l) : Belongs(s, k)
    BY <1>1 DEF IInv, StoreInv, StoredListsInv, ListOK, TypeOK, ToSet, List, OrEmpty
  <1>6. CommandInv(r)'
    <2>1. ASSUME NEW s \in Session, <<"hdel", s>> \in c
          PROVE  owner[s] # Null /\ (ActsFor(r, s)' \/ s \in removed)
      <3>1. s \in ToSet(l) /\ s # req[r].sid
        BY <2>1 DEF RemoveSessions
      <3>2. CASE k = Null
        BY <1>5, <3>1, <3>2 DEF Belongs, IInv, StoreInv, FreshInv
      <3>3. CASE k # Null
        BY <1>1, <1>2, <1>3, <1>5, <3>1, <3>3 DEF Belongs, ActsFor
      <3> QED BY <3>2, <3>3
    <2>2. /\ \A s \in Session : <<"hset", s>> \notin c
          /\ \A u \in Key : <<"hsetUser", u>> \notin c
      BY DEF RemoveSessions
    <2>3. \A s \in Session : <<"hdel", s>> \in req'[r].todo =>
            owner'[s] # Null /\ (ActsFor(r, s)' \/ s \in removed')
      BY <1>2, <1>3, <2>1
    <2>4. /\ \A s \in Session : <<"hset", s>> \notin req'[r].todo
          /\ \A u \in Key : <<"hsetUser", u>> \notin req'[r].todo
      BY <1>3, <2>2
    <2> QED BY <2>3, <2>4 DEF CommandInv
  <1>7. req[r].op = "clearExcept" => req[r].sid \in issued /\ Belongs(req[r].sid, req[r].key)'
    BY <1>1, <1>2, <1>3 DEF PhaseInv, Belongs
  <1>8. RequestInv(r)'
    BY <1>1, <1>2, <1>3, <1>4, <1>6, <1>7 DEF RequestInv, PhaseInv
  <1> QED BY <1>2, <1>3, <1>8, ComposeRequest

\* LogoutStored, ClearAllRemoved, Finish, RemovalFails: the request keeps its list,
\* and takes on at most the removal of the session it logs out.
LEMMA PhaseStep ==
    ASSUME IInv, TypeOK', UNCHANGED <<sessionDb, userDb, owner, issued, removed>>,
           NEW r \in Request, req[r].pc \notin {"idle", "getUid", "getList"},
           NEW pc, req'[r].pc = pc, NEW c, req'[r].todo = c,
           req'[r].op = req[r].op, req'[r].sid = req[r].sid,
           req'[r].key = req[r].key, req'[r].list = req[r].list,
           \A o \in Request \ {r} : req'[o] = req[o],
           \A s \in Session :
              /\ <<"hset", s>> \in c => <<"hset", s>> \in req[r].todo
              /\ <<"hdel", s>> \in c => \/ <<"hdel", s>> \in req[r].todo
                                        \/ req[r].op = "logout" /\ s = req[r].sid,
           \A k \in Key : <<"hsetUser", k>> \in c => <<"hsetUser", k>> \in req[r].todo,
           pc \notin {"idle", "getUid", "getList"},
           req[r].pc = "failed" => pc = "failed",
           req[r].op = "login" => \/ pc = "failed"
                                  \/ pc = req[r].pc
                                     /\ (pc = "store" => \A s \in Session :
                                            <<"hset", s>> \in req[r].todo => <<"hset", s>> \in c)
                                  \/ pc = "done" /\ req[r].pc = "store"
                                     /\ \A s \in Session : <<"hset", s>> \notin req[r].todo
    PROVE  IInv'
  <1>1. req[r] \in RequestState /\ PhaseInv(r) /\ CommandInv(r)
    BY DEF IInv, TypeOK, RequestInv
  <1>2. CommandInv(r)'
    <2>1. ASSUME NEW s \in Session, <<"hdel", s>> \in c
          PROVE  owner[s] # Null /\ (ActsFor(r, s)' \/ s \in removed)
      <3>1. CASE <<"hdel", s>> \in req[r].todo
        BY <1>1, <3>1 DEF CommandInv, ActsFor
      <3>2. CASE req[r].op = "logout" /\ s = req[r].sid
        BY <1>1, <3>2 DEF PhaseInv, ActsFor, IInv, StoreInv, FreshInv
      <3> QED BY <2>1, <3>1, <3>2
    <2>2. \A s \in Session : <<"hset", s>> \in req'[r].todo =>
            /\ req'[r].op = "login" /\ req'[r].sid = s
            /\ req'[r].key \in User /\ req'[r].key = owner'[s] /\ s \notin removed'
      BY <1>1 DEF CommandInv
    <2>3. \A k \in Key : <<"hsetUser", k>> \in req'[r].todo => k = req'[r].key
      BY <1>1 DEF CommandInv
    <2> QED BY <2>1, <2>2, <2>3 DEF CommandInv
  <1>3. ListOK(req[r].list, req[r].key)'
    BY <1>1 DEF PhaseInv, ListOK, Belongs
  <1>4. req[r].op \in {"logout", "clearExcept"} =>
            /\ req[r].sid \in issued
            /\ pc # "failed" => Belongs(req[r].sid, req[r].key)'
    BY <1>1 DEF PhaseInv, Belongs
  <1>5. RequestInv(r)'
    BY <1>1, <1>2, <1>3, <1>4 DEF RequestInv, PhaseInv
  <1> QED BY <1>5, ComposeRequest

LEMMA LogoutStoredStep ==
    ASSUME IInv, TypeOK', NEW r \in Request, LogoutStored(r),
           NEW c, c = RemoveSessions({req[r].sid})
    PROVE  IInv'
  <1>1. req[r] \in RequestState /\ req \in [Request -> RequestState] /\ req[r].op = "logout"
    BY DEF IInv, TypeOK, LogoutStored
  <1>2. /\ req' = [req EXCEPT ![r].pc = "remove", ![r].todo = c]
        /\ UNCHANGED <<sessionDb, userDb, owner, issued, removed>>
        /\ req[r].pc = "storeList"
    BY DEF LogoutStored, stored
  <1>3. req'[r] = [req[r] EXCEPT !.pc = "remove", !.todo = c] /\ \A o \in Request \ {r} : req'[o] = req[o]
    BY <1>1, <1>2
  <1>4. /\ req'[r].op = req[r].op /\ req'[r].sid = req[r].sid /\ req'[r].key = req[r].key
        /\ req'[r].list = req[r].list /\ req'[r].pc = "remove" /\ req'[r].todo = c
    BY <1>1, <1>3 DEF RequestState
  <1>5. /\ \A s \in Session : <<"hset", s>> \notin c /\ (<<"hdel", s>> \in c => s = req[r].sid)
        /\ \A k \in Key : <<"hsetUser", k>> \notin c
    BY DEF RemoveSessions
  <1> QED BY <1>1, <1>2, <1>3, <1>4, <1>5, PhaseStep

LEMMA ClearAllRemovedStep ==
    ASSUME IInv, TypeOK', NEW r \in Request, ClearAllRemoved(r),
           NEW c, c = req[r].todo \cup {<<"hdelUser", req[r].key>>}
    PROVE  IInv'
  <1>1. req[r] \in RequestState /\ req \in [Request -> RequestState] /\ req[r].op = "clearAll"
    BY DEF IInv, TypeOK, ClearAllRemoved
  <1>2. /\ req' = [req EXCEPT ![r].pc = "drop", ![r].todo = c]
        /\ UNCHANGED <<sessionDb, userDb, owner, issued, removed>>
        /\ req[r].pc = "remove"
    BY <1>1 DEF ClearAllRemoved, stored
  <1>3. req'[r] = [req[r] EXCEPT !.pc = "drop", !.todo = c] /\ \A o \in Request \ {r} : req'[o] = req[o]
    BY <1>1, <1>2
  <1>4. /\ req'[r].op = req[r].op /\ req'[r].sid = req[r].sid /\ req'[r].key = req[r].key
        /\ req'[r].list = req[r].list /\ req'[r].pc = "drop" /\ req'[r].todo = c
    BY <1>1, <1>3 DEF RequestState
  <1>5. /\ \A s \in Session : /\ <<"hset", s>> \in c => <<"hset", s>> \in req[r].todo
                              /\ <<"hdel", s>> \in c => <<"hdel", s>> \in req[r].todo
        /\ \A k \in Key : <<"hsetUser", k>> \in c => <<"hsetUser", k>> \in req[r].todo
    OBVIOUS
  <1> QED BY <1>1, <1>2, <1>3, <1>4, <1>5, PhaseStep

LEMMA FinishStep ==
    ASSUME IInv, TypeOK', NEW r \in Request, Finish(r), NEW c, c = req[r].todo
    PROVE  IInv'
  <1>1. req[r] \in RequestState /\ req \in [Request -> RequestState]
    BY DEF IInv, TypeOK
  <1>2. /\ req' = [req EXCEPT ![r].pc = "done"]
        /\ UNCHANGED <<sessionDb, userDb, owner, issued, removed>>
        /\ req[r].pc \in {"store", "remove", "storeList", "drop"}
        /\ req[r].op = "login" => req[r].pc = "store"
    BY <1>1 DEF Finish, stored, LastPhase, RequestState
  <1>3. req'[r] = [req[r] EXCEPT !.pc = "done"] /\ \A o \in Request \ {r} : req'[o] = req[o]
    BY <1>1, <1>2
  <1>4. /\ req'[r].op = req[r].op /\ req'[r].sid = req[r].sid /\ req'[r].key = req[r].key
        /\ req'[r].list = req[r].list /\ req'[r].pc = "done" /\ req'[r].todo = c
    BY <1>1, <1>3 DEF RequestState
  <1>5. \A s \in Session : <<"hset", s>> \notin c
    BY DEF Finish, Settled, Removing
  <1> QED BY <1>2, <1>3, <1>4, <1>5, PhaseStep

LEMMA RemovalFailsStep ==
    ASSUME IInv, TypeOK', NEW r \in Request, NEW t \in Session, RemovalFails(r, t)
    PROVE  IInv'
  <1>1. req[r] \in RequestState /\ req \in [Request -> RequestState] /\ PhaseInv(r)
    BY DEF IInv, TypeOK, RequestInv
  <1>2. PICK cmd \in Removing : /\ <<cmd, t>> \in req[r].todo
                                /\ req' = [req EXCEPT ![r].todo = @ \ {<<cmd, t>>},
                                                      ![r].swallowed = @ \cup {t}]
    BY DEF RemovalFails
  <1>3. PICK c, w : c = req[r].todo \ {<<cmd, t>>} /\ w = req[r].swallowed \cup {t}
    OBVIOUS
  <1>4. req' = [req EXCEPT ![r].todo = c, ![r].swallowed = w]
    BY <1>1, <1>2, <1>3
  <1>5. req'[r] = [req[r] EXCEPT !.todo = c, !.swallowed = w] /\ \A o \in Request \ {r} : req'[o] = req[o]
    BY <1>1, <1>4
  <1>6. /\ req'[r].op = req[r].op /\ req'[r].sid = req[r].sid /\ req'[r].key = req[r].key
        /\ req'[r].list = req[r].list /\ req'[r].pc = req[r].pc /\ req'[r].todo = c
    BY <1>1, <1>5 DEF RequestState
  <1>7. /\ UNCHANGED <<sessionDb, userDb, owner, issued, removed>>
        /\ req[r].pc \notin {"idle", "getUid", "getList"}
    BY <1>1, <1>2 DEF RemovalFails, stored, PhaseInv
  <1>8. /\ \A s \in Session : /\ <<"hset", s>> \in c <=> <<"hset", s>> \in req[r].todo
                              /\ <<"hdel", s>> \in c => <<"hdel", s>> \in req[r].todo
        /\ \A k \in Key : <<"hsetUser", k>> \in c => <<"hsetUser", k>> \in req[r].todo
    BY <1>2, <1>3 DEF Removing
  <1> QED BY <1>1, <1>5, <1>6, <1>7, <1>8, PhaseStep

LEMMA WriteFailsStep ==
    ASSUME IInv, TypeOK', NEW r \in Request, NEW d \in req[r].todo, WriteFails(r, d),
           NEW c, c = req[r].todo \ {d}
    PROVE  IInv'
  <1>1. req[r] \in RequestState /\ req \in [Request -> RequestState] /\ PhaseInv(r)
    BY DEF IInv, TypeOK, RequestInv
  <1>2. /\ req' = [req EXCEPT ![r].todo = c, ![r].pc = "failed"]
        /\ UNCHANGED <<sessionDb, userDb, owner, issued, removed>>
        /\ req[r].pc \notin {"idle", "getUid", "getList"}
    BY <1>1 DEF WriteFails, stored, PhaseInv
  <1>3. req'[r] = [req[r] EXCEPT !.todo = c, !.pc = "failed"] /\ \A o \in Request \ {r} : req'[o] = req[o]
    BY <1>1, <1>2
  <1>4. /\ req'[r].op = req[r].op /\ req'[r].sid = req[r].sid /\ req'[r].key = req[r].key
        /\ req'[r].list = req[r].list /\ req'[r].pc = "failed" /\ req'[r].todo = c
    BY <1>1, <1>3 DEF RequestState
  <1>5. /\ \A s \in Session : /\ <<"hset", s>> \in c => <<"hset", s>> \in req[r].todo
                              /\ <<"hdel", s>> \in c => <<"hdel", s>> \in req[r].todo
        /\ \A k \in Key : <<"hsetUser", k>> \in c => <<"hsetUser", k>> \in req[r].todo
    OBVIOUS
  <1> QED BY <1>1, <1>2, <1>3, <1>4, <1>5, PhaseStep

LEMMA ReadFailsStep ==
    ASSUME IInv, TypeOK', NEW r \in Request, ReadFails(r)
    PROVE  IInv'
  <1>1. /\ req[r] \in RequestState /\ req \in [Request -> RequestState] /\ PhaseInv(r)
        /\ req[r].todo = {} /\ req[r].list = Null
    BY DEF IInv, TypeOK, RequestInv, ReadFails, PhaseInv
  <1>2. /\ req' = [req EXCEPT ![r].pc = "failed"]
        /\ UNCHANGED <<sessionDb, userDb, owner, issued, removed>>
    BY <1>1 DEF ReadFails, stored
  <1>3. req'[r] = [req[r] EXCEPT !.pc = "failed"] /\ \A o \in Request \ {r} : req'[o] = req[o]
    BY <1>1, <1>2
  <1>4. /\ req'[r].op = req[r].op /\ req'[r].sid = req[r].sid /\ req'[r].key = req[r].key
        /\ req'[r].list = Null /\ req'[r].pc = "failed" /\ req'[r].todo = {}
    BY <1>1, <1>3 DEF RequestState
  <1>5. CommandInv(r)' /\ ListOK(req[r].list, req[r].key)'
    BY <1>4 DEF CommandInv, ListOK, OrEmpty
  <1>6. RequestInv(r)'
    BY <1>1, <1>2, <1>4, <1>5 DEF RequestInv, PhaseInv
  <1> QED BY <1>2, <1>3, <1>4, <1>6, ComposeRequest

LEMMA ClearExceptRemovedStep ==
    ASSUME IInv, TypeOK', NEW r \in Request, ClearExceptRemoved(r),
           NEW k, k = req[r].key, NEW l, l = <<req[r].sid>>,
           NEW c, c = req[r].todo \cup {<<"hsetUser", k>>}
    PROVE  IInv'
  <1>1. /\ req[r] \in RequestState /\ req \in [Request -> RequestState]
        /\ PhaseInv(r) /\ CommandInv(r)
        /\ req[r].op = "clearExcept" /\ req[r].pc = "remove"
        /\ req[r].sid \in issued /\ req[r].sid \in Session /\ Belongs(req[r].sid, k)
    BY DEF IInv, TypeOK, RequestInv, PhaseInv, ClearExceptRemoved
  <1>2. /\ req' = [req EXCEPT ![r].list = l, ![r].pc = "storeList", ![r].todo = c]
        /\ UNCHANGED <<sessionDb, userDb, owner, issued, removed>>
    BY <1>1 DEF ClearExceptRemoved, stored
  <1>3. /\ req'[r] = [req[r] EXCEPT !.list = l, !.pc = "storeList", !.todo = c]
        /\ \A o \in Request \ {r} : req'[o] = req[o]
    BY <1>1, <1>2
  <1>4. /\ req'[r].op = "clearExcept" /\ req'[r].sid = req[r].sid /\ req'[r].key = k
        /\ req'[r].list = l /\ req'[r].pc = "storeList" /\ req'[r].todo = c
    BY <1>1, <1>3 DEF RequestState
  <1>5. ListOK(l, k)
    BY <1>1 DEF ListOK, OrEmpty
  <1>6. ListOK(req[r].list, req[r].key)' /\ Belongs(req[r].sid, req[r].key)'
    BY <1>1, <1>2, <1>4, <1>5 DEF ListOK, Belongs
  <1>7. CommandInv(r)'
    <2>1. \A s \in Session : <<"hset", s>> \notin c
      BY <1>1 DEF CommandInv
    <2>2. ASSUME NEW s \in Session, <<"hdel", s>> \in c
          PROVE  owner'[s] # Null /\ (ActsFor(r, s)' \/ s \in removed')
      <3>1. <<"hdel", s>> \in req[r].todo
        BY <2>2
      <3> QED BY <1>1, <1>2, <1>4, <3>1 DEF CommandInv, ActsFor
    <2>3. \A u \in Key : <<"hsetUser", u>> \in c => u = k
      BY <1>1 DEF CommandInv
    <2> QED BY <1>4, <2>1, <2>2, <2>3 DEF CommandInv
  <1>8. RequestInv(r)'
    BY <1>1, <1>2, <1>4, <1>6, <1>7 DEF RequestInv, PhaseInv
  <1> QED BY <1>2, <1>3, <1>4, <1>8, ComposeRequest

LEMMA IdleOK ==
    ASSUME NEW r \in Request, req'[r] = Idle
    PROVE  RequestInv(r)' /\ req'[r].op = "none"
  <1>1. /\ req'[r].op = "none" /\ req'[r].pc = "idle" /\ req'[r].todo = {}
        /\ req'[r].list = Null /\ req'[r].key = Null
    BY DEF Idle
  <1>2. ListOK(req[r].list, req[r].key)' /\ CommandInv(r)'
    BY <1>1 DEF ListOK, OrEmpty, CommandInv
  <1> QED BY <1>1, <1>2 DEF RequestInv, PhaseInv

LEMMA LeaveStep ==
    ASSUME IInv, TypeOK', NEW r \in Request, LoginReturns(r) \/ LoginFails(r) \/ Return(r)
    PROVE  IInv'
  <1>1. /\ req' = [req EXCEPT ![r] = Idle] /\ req \in [Request -> RequestState]
        /\ UNCHANGED <<sessionDb, userDb, owner, removed>>
    BY DEF LoginReturns, LoginFails, Return, Leave, stored, IInv, TypeOK
  <1>2. issued' = issued \/ LoginReturns(r)
    BY DEF LoginFails, Return
  <1>3. req'[r] = Idle /\ \A o \in Request \ {r} : req'[o] = req[o]
    BY <1>1
  <1>4. RequestInv(r)' /\ req'[r].op # "login"
    BY <1>3, IdleOK
  <1>5. CASE issued' = issued
    BY <1>1, <1>3, <1>4, <1>5, ComposeRequest
  <1>6. CASE LoginReturns(r)
    <2>1. PICK s \in Session : s = req[r].sid /\ (sessionDb[s] # Null \/ s \in removed)
      BY <1>6 DEF LoginReturns, IInv, RequestInv, PhaseInv
    <2>2. issued' = issued \cup {s}
      BY <1>6, <2>1 DEF LoginReturns
    <2>3. Frame
      BY <1>1, <2>2 DEF Frame
    <2>4. StoreInv'
      BY <1>1, <2>1, <2>2 DEF StoreInv, SessionInv, StoredListsInv, FreshInv, ListOK, Belongs, IInv
    <2>5. \A o \in Request : req[o].op = "login" /\ req[o].pc = "getList" => owner[req[o].sid] = Null
      BY DEF IInv, RequestInv, PhaseInv
    <2> QED BY <1>1, <1>3, <1>4, <2>3, <2>4, <2>5, Compose
  <1> QED BY <1>2, <1>5, <1>6

LEMMA CrashStep == ASSUME IInv, TypeOK', Crash PROVE IInv'
  <1>1. /\ \A r \in Request : req'[r] = Idle
        /\ UNCHANGED <<sessionDb, userDb, owner, issued, removed>>
    BY DEF Crash, stored
  <1>2. StoreInv'
    BY <1>1, StoreStable DEF IInv
  <1>3. \A r \in Request : RequestInv(r)' /\ req'[r].op = "none"
    BY <1>1, IdleOK
  <1> QED BY <1>2, <1>3 DEF IInv, DistinctIds

\* A command was executed: only the request's set of commands changes.
CommandOnly(r) ==
    /\ req'[r].op = req[r].op /\ req'[r].sid = req[r].sid /\ req'[r].key = req[r].key
    /\ req'[r].list = req[r].list /\ req'[r].pc = req[r].pc /\ req'[r].opened = req[r].opened
    /\ \A o \in Request \ {r} : req'[o] = req[o]
    /\ req[r].pc \notin {"idle", "getUid", "getList"}
    /\ req[r] \in RequestState /\ PhaseInv(r) /\ CommandInv(r)

LEMMA ExecutedFacts ==
    ASSUME IInv, NEW r \in Request, NEW cmd \in req[r].todo, NEW next, Executed(r, cmd, next)
    PROVE  CommandOnly(r) /\ req'[r].todo = (req[r].todo \ {cmd}) \cup next
  <1>0. PICK c : c = (req[r].todo \ {cmd}) \cup next
    OBVIOUS
  <1>1. /\ req[r] \in RequestState /\ req \in [Request -> RequestState]
        /\ PhaseInv(r) /\ CommandInv(r)
    BY DEF IInv, TypeOK, RequestInv
  <1>2. req' = [req EXCEPT ![r].todo = c]
    BY <1>0, <1>1 DEF Executed
  <1>3. req'[r] = [req[r] EXCEPT !.todo = c] /\ \A o \in Request \ {r} : req'[o] = req[o]
    BY <1>1, <1>2
  <1>4. /\ req'[r].op = req[r].op /\ req'[r].sid = req[r].sid /\ req'[r].key = req[r].key
        /\ req'[r].list = req[r].list /\ req'[r].pc = req[r].pc /\ req'[r].todo = c
        /\ req'[r].opened = req[r].opened
    BY <1>1, <1>3 DEF RequestState
  <1>5. req[r].pc \notin {"idle", "getUid", "getList"}
    BY <1>1 DEF PhaseInv
  <1> QED BY <1>0, <1>1, <1>3, <1>4, <1>5 DEF CommandOnly

\* Commands that write neither hash: SAdd, SRem, XAdd, SAddUser, SRemUser.
LEMMA MinorCommandStep ==
    ASSUME IInv, TypeOK', NEW r \in Request, NEW cmd \in req[r].todo,
           cmd[1] # "hset", Executed(r, cmd, {}),
           UNCHANGED <<sessionDb, userDb, owner, issued, removed>>
    PROVE  IInv'
  <1>1. PICK c, pc : c = req'[r].todo /\ pc = req[r].pc
    OBVIOUS
  <1>2. CommandOnly(r) /\ c = (req[r].todo \ {cmd}) \cup {}
    BY <1>1, ExecutedFacts
  <1>3. /\ req'[r].op = req[r].op /\ req'[r].sid = req[r].sid /\ req'[r].key = req[r].key
        /\ req'[r].list = req[r].list /\ req'[r].pc = pc /\ req'[r].todo = c
        /\ \A o \in Request \ {r} : req'[o] = req[o]
        /\ pc \notin {"idle", "getUid", "getList"}
    BY <1>1, <1>2 DEF CommandOnly
  <1>4. /\ \A s \in Session : /\ <<"hset", s>> \in c <=> <<"hset", s>> \in req[r].todo
                              /\ <<"hdel", s>> \in c => <<"hdel", s>> \in req[r].todo
        /\ \A k \in Key : <<"hsetUser", k>> \in c => <<"hsetUser", k>> \in req[r].todo
    BY <1>2
  <1> QED BY <1>1, <1>3, <1>4, PhaseStep

LEMMA HSetStep ==
    ASSUME IInv, TypeOK', NEW r \in Request, NEW s \in Session, HSet(r, s)
    PROVE  IInv'
  <1>0. <<"hset", s>> \in req[r].todo /\ Executed(r, <<"hset", s>>, {<<"sadd", s>>})
    BY DEF HSet
  <1>1. PICK c : c = (req[r].todo \ {<<"hset", s>>}) \cup {<<"sadd", s>>}
    OBVIOUS
  <1>2. /\ req'[r].op = req[r].op /\ req'[r].sid = req[r].sid /\ req'[r].key = req[r].key
        /\ req'[r].list = req[r].list /\ req'[r].pc = req[r].pc /\ req'[r].todo = c
        /\ \A o \in Request \ {r} : req'[o] = req[o]
        /\ req[r] \in RequestState /\ PhaseInv(r) /\ CommandInv(r)
    BY <1>0, <1>1, ExecutedFacts DEF CommandOnly
  <1>3. /\ req[r].op = "login" /\ req[r].sid = s /\ req[r].key \in User
        /\ req[r].key = owner[s] /\ s \notin removed /\ owner[s] # Null
    BY <1>2, NullAssumption DEF HSet, CommandInv
  <1>4. /\ sessionDb' = [sessionDb EXCEPT ![s] = owner[s]]
        /\ UNCHANGED <<userDb, owner, issued, removed>>
    BY <1>3 DEF HSet
  <1>5. Frame
    BY <1>3, <1>4 DEF Frame, IInv, TypeOK
  <1>6. StoreInv'
    <2>1. SessionInv' /\ FreshInv'
      BY <1>3, <1>4 DEF SessionInv, FreshInv, StoreInv, IInv, TypeOK
    <2>2. StoredListsInv'
      BY <1>4 DEF StoredListsInv, StoreInv, IInv, ListOK, Belongs
    <2> QED BY <2>1, <2>2 DEF StoreInv
  <1>7. CommandInv(r)'
    BY <1>1, <1>2, <1>4 DEF CommandInv, ActsFor
  <1>8. ListOK(req[r].list, req[r].key)'
    BY <1>2, <1>4 DEF PhaseInv, ListOK, Belongs
  <1>9. sessionDb'[s] # Null
    BY <1>3, <1>4 DEF IInv, TypeOK
  <1>10. RequestInv(r)'
    BY <1>2, <1>3, <1>4, <1>7, <1>8, <1>9 DEF RequestInv, PhaseInv
  <1>11. req[r].pc # "getList"
    BY <1>2 DEF PhaseInv, HSet
  <1>12. \A o \in Request : req[o].op = "login" /\ req[o].pc = "getList" => owner[req[o].sid] = Null
    BY DEF IInv, RequestInv, PhaseInv
  <1> QED BY <1>2, <1>4, <1>5, <1>6, <1>10, <1>11, <1>12, Compose

LEMMA HDelStep ==
    ASSUME IInv, TypeOK', NEW r \in Request, NEW s \in Session, HDel(r, s)
    PROVE  IInv'
  <1>0. <<"hdel", s>> \in req[r].todo /\ Executed(r, <<"hdel", s>>, {<<"srem", s>>})
    BY DEF HDel
  <1>1. PICK c : c = (req[r].todo \ {<<"hdel", s>>}) \cup {<<"srem", s>>}
    OBVIOUS
  <1>2. /\ req'[r].op = req[r].op /\ req'[r].sid = req[r].sid /\ req'[r].key = req[r].key
        /\ req'[r].list = req[r].list /\ req'[r].pc = req[r].pc /\ req'[r].todo = c
        /\ \A o \in Request \ {r} : req'[o] = req[o]
        /\ req[r] \in RequestState /\ PhaseInv(r) /\ CommandInv(r)
        /\ req[r].pc # "getList"
    BY <1>0, <1>1, ExecutedFacts DEF CommandOnly
  <1>3. owner[s] # Null
    BY <1>2 DEF HDel, CommandInv
  <1>4. /\ sessionDb' = [sessionDb EXCEPT ![s] = Null] /\ removed' = removed \cup {s}
        /\ UNCHANGED <<userDb, owner, issued>> /\ ~InFlight("hset", s)
    BY DEF HDel
  <1>5. Frame
    BY <1>4 DEF Frame, IInv, TypeOK
  <1>6. StoreInv'
    <2>1. SessionInv' /\ FreshInv'
      BY <1>3, <1>4 DEF SessionInv, FreshInv, StoreInv, IInv, TypeOK
    <2>2. StoredListsInv'
      BY <1>4, <1>5, ListStable DEF StoredListsInv, StoreInv, IInv, TypeOK
    <2> QED BY <2>1, <2>2 DEF StoreInv
  <1>7. CommandInv(r)'
    <2>1. ASSUME NEW t \in Session, <<"hset", t>> \in c
          PROVE  /\ req'[r].op = "login" /\ req'[r].sid = t
                 /\ req'[r].key \in User /\ req'[r].key = owner'[t] /\ t \notin removed'
      <3>1. <<"hset", t>> \in req[r].todo /\ t # s
        BY <1>1, <1>4, <2>1 DEF InFlight
      <3> QED BY <1>2, <1>4, <3>1 DEF CommandInv
    <2>2. ASSUME NEW t \in Session, <<"hdel", t>> \in c
          PROVE  owner'[t] # Null /\ (ActsFor(r, t)' \/ t \in removed')
      <3>1. <<"hdel", t>> \in req[r].todo
        BY <1>1, <2>2
      <3> QED BY <1>2, <1>4, <3>1 DEF CommandInv, ActsFor
    <2>3. \A k \in Key : <<"hsetUser", k>> \in c => k = req'[r].key
      BY <1>1, <1>2 DEF CommandInv
    <2> QED BY <1>2, <2>1, <2>2, <2>3 DEF CommandInv
  <1>8. /\ ListOK(req[r].list, req[r].key)'
        /\ req[r].op \in {"logout", "clearExcept"} /\ req[r].pc \notin {"getUid", "failed"} =>
                Belongs(req[r].sid, req[r].key)'
    BY <1>2, <1>4 DEF PhaseInv, ListOK, Belongs
  <1>9. req[r].op = "login" => sessionDb'[req[r].sid] = sessionDb[req[r].sid] \/ req[r].sid \in removed'
    BY <1>4 DEF IInv, TypeOK
  <1>10. req[r].op = "login" /\ <<"hset", req[r].sid>> \in req[r].todo => <<"hset", req[r].sid>> \in c
    BY <1>1
  <1>11. PhaseInv(r)'
    <2>1. req'[r].pc \notin {"idle", "getUid", "getList"}
      BY <1>0, <1>2 DEF PhaseInv
    <2>2. ASSUME req[r].op = "login"
          PROVE  /\ req'[r].sid \in Session /\ req'[r].key \in User
                 /\ req'[r].pc \in {"getList", "store", "done", "failed"}
                 /\ req'[r].pc = "store" => \/ <<"hset", req'[r].sid>> \in req'[r].todo
                                            \/ sessionDb'[req'[r].sid] # Null
                                            \/ req'[r].sid \in removed'
                 /\ req'[r].pc = "done" => sessionDb'[req'[r].sid] # Null \/ req'[r].sid \in removed'
      BY <1>2, <1>4, <1>9, <1>10, <2>2 DEF PhaseInv
    <2>3. req[r].op \in {"logout", "clearExcept"} => req'[r].sid \in issued'
      BY <1>2, <1>4 DEF PhaseInv
    <2> QED BY <1>2, <1>8, <2>1, <2>2, <2>3 DEF PhaseInv
  <1>13. RequestInv(r)'
    BY <1>7, <1>11 DEF RequestInv
  <1>12. \A o \in Request : req[o].op = "login" /\ req[o].pc = "getList" => owner[req[o].sid] = Null
    BY DEF IInv, RequestInv, PhaseInv
  <1> QED BY <1>2, <1>4, <1>5, <1>6, <1>12, <1>13, Compose

\* HSetUser and HDelUser: one field of auth:user changes.
LEMMA UserListStep ==
    ASSUME IInv, TypeOK', NEW r \in Request, NEW cmd \in req[r].todo, NEW next,
           cmd[1] # "hset", Executed(r, cmd, next),
           \A s \in Session : <<"hset", s>> \notin next /\ <<"hdel", s>> \notin next,
           \A k \in Key : <<"hsetUser", k>> \notin next,
           NEW u \in Key, NEW l, ListOK(l, u), userDb' = [userDb EXCEPT ![u] = l],
           UNCHANGED <<sessionDb, owner, issued, removed>>
    PROVE  IInv'
  <1>1. PICK c : c = (req[r].todo \ {cmd}) \cup next
    OBVIOUS
  <1>2. /\ req'[r].op = req[r].op /\ req'[r].sid = req[r].sid /\ req'[r].key = req[r].key
        /\ req'[r].list = req[r].list /\ req'[r].pc = req[r].pc /\ req'[r].todo = c
        /\ \A o \in Request \ {r} : req'[o] = req[o]
        /\ req[r].pc \notin {"idle", "getUid", "getList"}
        /\ req[r] \in RequestState /\ PhaseInv(r) /\ CommandInv(r)
    BY <1>1, ExecutedFacts DEF CommandOnly
  <1>3. /\ \A s \in Session : /\ <<"hset", s>> \in c <=> <<"hset", s>> \in req[r].todo
                              /\ <<"hdel", s>> \in c => <<"hdel", s>> \in req[r].todo
        /\ \A k \in Key : <<"hsetUser", k>> \in c => <<"hsetUser", k>> \in req[r].todo
    BY <1>1
  <1>4. Frame
    BY DEF Frame
  <1>5. StoreInv'
    BY DEF StoreInv, SessionInv, FreshInv, StoredListsInv, ListOK, Belongs, IInv, TypeOK
  <1>6. CommandInv(r)'
    BY <1>2, <1>3 DEF CommandInv, ActsFor
  <1>7. /\ ListOK(req[r].list, req[r].key)'
        /\ req[r].op \in {"logout", "clearExcept"} /\ req[r].pc \notin {"getUid", "failed"} =>
                Belongs(req[r].sid, req[r].key)'
    BY <1>2 DEF PhaseInv, ListOK, Belongs
  <1>8. RequestInv(r)'
    BY <1>2, <1>3, <1>6, <1>7 DEF RequestInv, PhaseInv
  <1>9. \A o \in Request : req[o].op = "login" /\ req[o].pc = "getList" => owner[req[o].sid] = Null
    BY DEF IInv, RequestInv, PhaseInv
  <1> QED BY <1>2, <1>4, <1>5, <1>8, <1>9, Compose

LEMMA UserCommandStep ==
    ASSUME IInv, TypeOK', NEW r \in Request, NEW u \in Key,
           HSetUser(r, u) \/ HDelUser(r, u) \/ SAddUser(r, u) \/ SRemUser(r, u)
    PROVE  IInv'
  <1>1. CASE HSetUser(r, u)
    <2>1. ListOK(req[r].list, u)
      BY <1>1 DEF HSetUser, IInv, RequestInv, CommandInv, PhaseInv
    <2>2. /\ <<"hsetUser", u>> \in req[r].todo
          /\ Executed(r, <<"hsetUser", u>>, {<<"saddUser", u>>})
          /\ userDb' = [userDb EXCEPT ![u] = req[r].list]
          /\ UNCHANGED <<sessionDb, owner, issued, removed>>
      BY <1>1 DEF HSetUser
    <2>3. PICK cmd, next, l : /\ cmd = <<"hsetUser", u>> /\ next = {<<"saddUser", u>>}
                              /\ l = req[r].list
      OBVIOUS
    <2>4. /\ cmd \in req[r].todo /\ cmd[1] # "hset" /\ Executed(r, cmd, next) /\ ListOK(l, u)
          /\ userDb' = [userDb EXCEPT ![u] = l]
      BY <2>1, <2>2, <2>3
    <2>5. /\ \A s \in Session : <<"hset", s>> \notin next /\ <<"hdel", s>> \notin next
          /\ \A k \in Key : <<"hsetUser", k>> \notin next
      BY <2>3
    <2> QED BY <2>2, <2>4, <2>5, UserListStep
  <1>2. CASE HDelUser(r, u)
    <2>1. /\ <<"hdelUser", u>> \in req[r].todo
          /\ Executed(r, <<"hdelUser", u>>, {<<"sremUser", u>>})
          /\ userDb' = [userDb EXCEPT ![u] = Null]
          /\ UNCHANGED <<sessionDb, owner, issued, removed>>
      BY <1>2 DEF HDelUser
    <2>2. PICK cmd, next : cmd = <<"hdelUser", u>> /\ next = {<<"sremUser", u>>}
      OBVIOUS
    <2>3. /\ cmd \in req[r].todo /\ cmd[1] # "hset" /\ Executed(r, cmd, next)
          /\ userDb' = [userDb EXCEPT ![u] = Null] /\ ListOK(Null, u)
      BY <2>1, <2>2, EmptyOK
    <2>4. /\ \A s \in Session : <<"hset", s>> \notin next /\ <<"hdel", s>> \notin next
          /\ \A k \in Key : <<"hsetUser", k>> \notin next
      BY <2>2
    <2> QED BY <2>1, <2>3, <2>4, UserListStep
  <1>3. CASE SAddUser(r, u)
    <2>1. /\ <<"saddUser", u>> \in req[r].todo /\ Executed(r, <<"saddUser", u>>, {})
          /\ UNCHANGED <<sessionDb, userDb, owner, issued, removed>>
      BY <1>3 DEF SAddUser
    <2> QED BY <2>1, MinorCommandStep
  <1>4. CASE SRemUser(r, u)
    <2>1. /\ <<"sremUser", u>> \in req[r].todo /\ Executed(r, <<"sremUser", u>>, {})
          /\ UNCHANGED <<sessionDb, userDb, owner, issued, removed>>
      BY <1>4 DEF SRemUser
    <2> QED BY <2>1, MinorCommandStep
  <1> QED BY <1>1, <1>2, <1>3, <1>4

LEMMA SessionCommandStep ==
    ASSUME IInv, TypeOK', NEW r \in Request, NEW s \in Session,
           SAdd(r, s) \/ SRem(r, s) \/ XAdd(r, s)
    PROVE  IInv'
  <1>1. PICK cmd \in {"sadd", "srem", "xadd"} :
            /\ <<cmd, s>> \in req[r].todo /\ Executed(r, <<cmd, s>>, {})
            /\ UNCHANGED <<sessionDb, userDb, owner, issued, removed>>
    BY DEF SAdd, SRem, XAdd
  <1> QED BY <1>1, MinorCommandStep

LEMMA InvStep == IInv /\ TypeOK' /\ [NextF]_vars => IInv'
  <1> SUFFICES ASSUME IInv, TypeOK', [NextF]_vars PROVE IInv'
    OBVIOUS
  <1>1. ASSUME NEW r \in Request, Arrive(r) PROVE IInv'
    <2>1. ASSUME NEW u \in User, BeginLogin(r, u) PROVE IInv'
      <3>1. PICK s \in Session : /\ owner[s] = Null /\ \A o \in Request : req[o].sid # s
                                 /\ Begin(r, "login", "getList", s, u, {})
        BY <2>1 DEF BeginLogin
      <3> QED BY <3>1, BeginStep
    <2>2. ASSUME NEW u \in User, BeginClearAll(r, u) PROVE IInv'
      BY <2>2, BeginStep DEF BeginClearAll
    <2>3. ASSUME NEW s \in Session, BeginLogout(r, s) PROVE IInv'
      BY <2>3, BeginStep DEF BeginLogout, Accepted
    <2>4. ASSUME NEW s \in Session, BeginClearExcept(r, s) PROVE IInv'
      <3>1. PICK opened : Begin(r, "clearExcept", "getUid", s, Null, opened)
        BY <2>4 DEF BeginClearExcept
      <3> QED BY <2>4, <3>1, BeginStep DEF BeginClearExcept, Accepted
    <2> QED BY <1>1, <2>1, <2>2, <2>3, <2>4 DEF Arrive
  <1>2. ASSUME NEW r \in Request, Progress(r) PROVE IInv'
    BY <1>2, GetUserIdStep, LoginGetsListStep, LogoutGetsListStep, ClearGetsListStep,
       LogoutStoredStep, ClearExceptRemovedStep, ClearAllRemovedStep, FinishStep, LeaveStep,
       HSetStep, HDelStep, SessionCommandStep, UserCommandStep DEF Progress
  <1>3. ASSUME NEW r \in Request, Fault(r) PROVE IInv'
    BY <1>3, ReadFailsStep, RemovalFailsStep, WriteFailsStep DEF Fault
  <1>4. CASE Crash
    BY <1>4, CrashStep
  <1>5. CASE UNCHANGED vars
    <2>1. UNCHANGED <<sessionDb, userDb, owner, issued, removed, req>>
      BY <1>5 DEF vars, stored
    <2>2. StoreInv' /\ Frame
      BY <2>1, StoreStable DEF IInv
    <2>3. \A r \in Request : RequestInv(r)'
      BY <2>1 DEF IInv, RequestInv, CommandInv, PhaseInv, ListOK, Belongs, ActsFor
    <2> QED BY <2>1, <2>2, <2>3 DEF IInv, DistinctIds
  <1> QED BY <1>1, <1>2, <1>3, <1>4, <1>5 DEF NextF, Next

LEMMA InitIInv == Init => IInv
  <1> SUFFICES ASSUME Init PROVE IInv
    OBVIOUS
  <1>1. TypeOK
    BY DEF Init, TypeOK, Idle, RequestState, Key, List
  <1>2. StoreInv
    BY DEF Init, StoreInv, SessionInv, FreshInv, StoredListsInv, ListOK, OrEmpty
  <1>3. \A r \in Request : RequestInv(r) /\ req[r].op = "none"
    BY DEF Init, Idle, RequestInv, CommandInv, PhaseInv, ListOK, OrEmpty
  <1> QED BY <1>1, <1>2, <1>3 DEF IInv, DistinctIds

\* IInv holds in every reachable state, faults included.
THEOREM Invariant == SpecF => []IInv
  <1> QED BY InitIInv, InvStep, TypeCorrect, PTL DEF SpecF

\* Whatever the interleaving and the faults, no list names another user's session.
THEOREM ListsAreOwn == SpecF => []ListsHoldOwnSessions
  <1>1. IInv => ListsHoldOwnSessions
    <2> SUFFICES ASSUME IInv, NEW k \in Key, NEW s \in ToSet(OrEmpty(userDb[k]))
                 PROVE  IF k = Null THEN ~Live(s) ELSE owner[s] = k
      BY NullAssumption DEF ListsHoldOwnSessions, Key
    <2>1. OrEmpty(userDb[k]) \in Seq(Session) /\ ListOK(userDb[k], k)
      BY DEF IInv, TypeOK, List, OrEmpty, StoreInv, StoredListsInv
    <2>2. s \in Session /\ Belongs(s, k)
      BY <2>1 DEF ListOK, ToSet
    <2> QED BY <2>2 DEF Belongs, Live, IInv, StoreInv, SessionInv
  <1> QED BY <1>1, Invariant, PTL

\* A deleted session never comes back.
THEOREM NoResurrection == SpecF => []LoggedOutStaysOut
  <1>1. IInv => LoggedOutStaysOut
    BY DEF IInv, TypeOK, StoreInv, SessionInv, LoggedOutStaysOut, Live
  <1> QED BY <1>1, Invariant, PTL

\* A ticket that was handed out has its session until somebody deletes it.
THEOREM TicketsBacked == SpecF => []TicketsAreBacked
  <1>1. IInv => TicketsAreBacked
    BY DEF IInv, TypeOK, StoreInv, SessionInv, TicketsAreBacked, Live
  <1> QED BY <1>1, Invariant, PTL

\* A session is only ever closed by a request that acts for it.
THEOREM ClosedByOwnRequest == SpecF => OnlyOwnRequestsClose
  <1> DEFINE A == \A s \in Session : Live(s) /\ ~Live(s)' => \E r \in Request : ActsFor(r, s)
  <1>1. IInv /\ [NextF]_vars => [A]_vars
    <2> SUFFICES ASSUME IInv, NextF, NEW s \in Session, Live(s), ~Live(s)'
                 PROVE  \E r \in Request : ActsFor(r, s)
      OBVIOUS
    <2>1. sessionDb \in [Session -> Key] /\ sessionDb[s] # Null /\ sessionDb'[s] = Null /\ s \notin removed
      BY DEF Live, IInv, TypeOK, StoreInv, SessionInv
    <2>2. ASSUME NEW r \in Request, NEW t \in Session, HSet(r, t) PROVE FALSE
      <3>1. sessionDb' = [sessionDb EXCEPT ![t] = req[r].key] /\ req[r].key \in User
        BY <2>2 DEF HSet, IInv, RequestInv, CommandInv
      <3> QED BY <2>1, <3>1, NullAssumption
    <2>3. ASSUME NEW r \in Request, NEW t \in Session, HDel(r, t) PROVE ActsFor(r, s)
      <3>1. t = s
        BY <2>1, <2>3 DEF HDel
      <3> QED BY <2>1, <2>3, <3>1 DEF HDel, IInv, RequestInv, CommandInv
    <2>4. (\E r \in Request, t \in Session : HSet(r, t) \/ HDel(r, t)) \/ UNCHANGED sessionDb
      <3>1. ASSUME NEW r \in Request, Arrive(r) PROVE UNCHANGED sessionDb
        BY <3>1 DEF Arrive, BeginLogin, BeginClearAll, BeginLogout, BeginClearExcept, Begin, stored
      <3>2. ASSUME NEW r \in Request, Fault(r) PROVE UNCHANGED sessionDb
        BY <3>2 DEF Fault, ReadFails, RemovalFails, WriteFails, stored
      <3>3. ASSUME NEW r \in Request, Progress(r)
            PROVE  (\E t \in Session : HSet(r, t) \/ HDel(r, t)) \/ UNCHANGED sessionDb
        <4>1. ASSUME NEW t \in Session, SAdd(r, t) \/ SRem(r, t) \/ XAdd(r, t) PROVE UNCHANGED sessionDb
          BY <4>1 DEF SAdd, SRem, XAdd
        <4>2. ASSUME NEW u \in Key, HSetUser(r, u) \/ SAddUser(r, u) \/ HDelUser(r, u) \/ SRemUser(r, u)
              PROVE  UNCHANGED sessionDb
          BY <4>2 DEF HSetUser, SAddUser, HDelUser, SRemUser
        <4>3. GetUserId(r) \/ LoginGetsList(r) \/ LogoutGetsList(r) \/ ClearGetsList(r)
                => UNCHANGED sessionDb
          BY DEF GetUserId, LoginGetsList, LogoutGetsList, ClearGetsList, stored
        <4>4. LogoutStored(r) \/ ClearExceptRemoved(r) \/ ClearAllRemoved(r) \/ Finish(r)
                => UNCHANGED sessionDb
          BY DEF LogoutStored, ClearExceptRemoved, ClearAllRemoved, Finish, stored
        <4>5. LoginReturns(r) \/ LoginFails(r) \/ Return(r) => UNCHANGED sessionDb
          BY DEF LoginReturns, LoginFails, Return, Leave, stored
        <4> QED BY <3>3, <4>1, <4>2, <4>3, <4>4, <4>5 DEF Progress
      <3>4. Crash => UNCHANGED sessionDb
        BY DEF Crash, stored
      <3> QED BY <3>1, <3>2, <3>3, <3>4 DEF NextF, Next
    <2> QED BY <2>1, <2>2, <2>3, <2>4
  <1> QED BY <1>1, Invariant, PTL DEF SpecF, OnlyOwnRequestsClose
=============================================================================
