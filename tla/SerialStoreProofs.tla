-------------------------- MODULE SerialStoreProofs --------------------------
(***************************************************************************)
(* What SessionStore promises when no two requests of one user overlap     *)
(* (Serial) and Redis is healthy: a clear closes all that was open, and    *)
(* the store implements SessionRegistry.  Requests of different users may  *)
(* interleave in any way.                                                  *)
(***************************************************************************)
EXTENDS HealthyStoreProofs

OpenOf(u) == {s \in Session : sessionDb[s] = u}
Listed(u) == ToSet(OrEmpty(userDb[u]))

\* The session that may be open and not listed while r is at work.
Unlisted(r, u) ==
    IF \/ req[r].op = "login" /\ <<"hsetUser", u>> \in req[r].todo
       \/ req[r].op = "logout" /\ req[r].pc \notin {"getUid", "getList"}
    THEN {req[r].sid} ELSE {}

\* What the list of u, and the list that r is about to store for u, name.
ListsInv(r, u) ==
    /\ OpenOf(u) \ Unlisted(r, u) \subseteq Listed(u)
    /\ <<"hsetUser", u>> \in req[r].todo =>
        /\ OpenOf(u) \ {req[r].sid} \subseteq ToSet(OrEmpty(req[r].list))
        /\ req[r].op \in {"login", "clearExcept"} => req[r].sid \in ToSet(OrEmpty(req[r].list))
    /\ <<"hdelUser", u>> \in req[r].todo => OpenOf(u) = {}
    /\ req[r].op = "login" /\ req[r].pc \in {"store", "done"} =>
        <<"hsetUser", u>> \in req[r].todo \/ req[r].sid \in Listed(u)

\* A clear that has read the list closes every session but its own.
ClearInv(r, u) ==
    req[r].op \in {"clearExcept", "clearAll"} /\ req[r].key = u =>
        /\ req[r].pc = "remove" =>
            \A s \in OpenOf(u) \ {req[r].sid} : <<"hdel", s>> \in req[r].todo
        /\ req[r].pc \in {"storeList", "drop", "done"} => OpenOf(u) \subseteq {req[r].sid}

\* The session with whose cookie r came is still open when r has read its user, or was
\* open when r came and found other sessions of the user open.
CallerInv(r, u) ==
    /\ req[r].op \in {"logout", "clearExcept"} /\ req[r].pc = "getList" /\ req[r].key # Null =>
        req[r].sid \in OpenOf(u)
    /\ \A s \in req[r].opened : owner[s] = u /\ s # req[r].sid
    /\ req[r].opened # {} =>
        /\ req[r].op \in {"clearExcept", "clearAll"}
        /\ IF req[r].pc = "getUid" THEN req[r].sid \in OpenOf(u) ELSE req[r].key = u

AccountInv(u) ==
    /\ (\A r \in Request : ~Busy(r, u)) => OpenOf(u) \subseteq Listed(u)
    /\ \A r \in Request : Busy(r, u) => ListsInv(r, u) /\ ClearInv(r, u) /\ CallerInv(r, u)

\* An id that was drawn has its HSET on the way, or has been stored.
DrawnInv ==
    \A s \in Session : owner[s] # Null => InFlight("hset", s) \/ Live(s) \/ s \in removed

StartedInv(r) ==
    /\ req[r].pc # "failed"
    /\ req[r].op = "none" => req[r].pc = "idle"
    /\ req[r].pc = "getUid" => req[r].op \in {"logout", "clearExcept"}
    /\ req[r].op = "clearAll" => req[r].key \in User /\ req[r].sid = Null
    /\ \A s \in Session : <<"hset", s>> \in req[r].todo => ~Live(s)
    /\ \A k \in Key : <<"hdelUser", k>> \in req[r].todo => req[r].op = "clearAll" /\ k = req[r].key

SInv ==
    /\ \A u \in User : AccountInv(u)
    /\ DrawnInv
    /\ \A r \in Request : StartedInv(r)

-----------------------------------------------------------------------------
(* Lists. *)

\* What splice leaves when the session is in the list: everything else.
LEMMA SpliceKeeps ==
    ASSUME NEW list \in Seq(Session), NEW s \in ToSet(list)
    PROVE  Splice(list, s) \in Seq(Session) /\ ToSet(list) \ {s} \subseteq ToSet(Splice(list, s))
  <1>1. PICK k \in 1..Len(list) : list[k] = s
    BY DEF ToSet
  <1>2. list # <<>> /\ Len(list) \in Nat /\ s \in Session
    BY <1>1
  <1>3. Splice(list, s) \in Seq(Session) /\ Len(Splice(list, s)) = Len(list) - 1
    BY <1>1, <1>2, SpliceType DEF Splice
  <1>4. ASSUME NEW j \in 1..Len(list), list[j] # s
        PROVE  \E i \in 1..(Len(list) - 1) : Splice(list, s)[i] = list[j]
    <2>1. CASE \E i \in 1..j : list[i] = s
      <3>1. PICK i \in 1..j : list[i] = s
        BY <2>1
      <3>2. i \in 1..(j - 1) /\ j - 1 \in 1..(Len(list) - 1)
        BY <1>2, <1>4, <3>1
      <3>3. Splice(list, s)[j - 1] = list[(j - 1) + 1] /\ (j - 1) + 1 = j
        BY <1>2, <3>1, <3>2 DEF Splice
      <3> QED BY <3>2, <3>3
    <2>2. CASE \A i \in 1..j : list[i] # s
      <3>1. j < k /\ j \in 1..(Len(list) - 1)
        BY <1>1, <1>2, <1>4, <2>2
      <3>2. Splice(list, s)[j] = list[j]
        BY <2>2, <3>1 DEF Splice
      <3> QED BY <3>1, <3>2
    <2> QED BY <2>1, <2>2
  <1> QED BY <1>3, <1>4 DEF ToSet

LEMMA WithoutKeeps ==
    ASSUME NEW list \in List, NEW s \in ToSet(OrEmpty(list))
    PROVE  ToSet(OrEmpty(list)) \ {s} \subseteq ToSet(OrEmpty(WithoutSession(list, s)))
  <1>1. list # Null /\ list \in Seq(Session) /\ list # <<>>
    BY DEF OrEmpty, ToSet, List
  <1>2. OrEmpty(list) = list /\ WithoutSession(list, s) = Splice(list, s)
    BY <1>1 DEF OrEmpty, WithoutSession
  <1>3. Splice(list, s) # Null
    BY <1>1, <1>2, SpliceKeeps, NullAssumption
  <1> QED BY <1>1, <1>2, <1>3, SpliceKeeps DEF OrEmpty

LEMMA AppendKeeps ==
    ASSUME NEW list \in List, NEW s \in Session
    PROVE  ToSet(OrEmpty(Append(OrEmpty(list), s))) = ToSet(OrEmpty(list)) \cup {s}
  <1> DEFINE l == OrEmpty(list)
  <1>1. l \in Seq(Session)
    BY DEF OrEmpty, List
  <1> HIDE DEF l
  <1>2. /\ Append(l, s) \in Seq(Session) /\ Len(Append(l, s)) = Len(l) + 1 /\ Len(l) \in Nat
        /\ \A i \in 1..Len(l) + 1 : Append(l, s)[i] = IF i = Len(l) + 1 THEN s ELSE l[i]
    BY <1>1
  <1>3. OrEmpty(Append(l, s)) = Append(l, s)
    BY <1>2, NullAssumption DEF OrEmpty
  <1>4. ToSet(Append(l, s)) = ToSet(l) \cup {s}
    BY <1>2 DEF ToSet
  <1> QED BY <1>3, <1>4 DEF l

-----------------------------------------------------------------------------
(* One request for each user. *)

\* A command that writes a session of u, or the list of u, is one of the request of u.
LEMMA OwnCommands ==
    ASSUME IInv, SInv, NEW r \in Request
    PROVE  /\ \A s \in Session : <<"hset", s>> \in req[r].todo =>
                  /\ owner[s] \in User /\ Busy(r, owner[s]) /\ req[r].key = owner[s]
                  /\ req[r].op = "login" /\ req[r].sid = s
           /\ \A s \in Session : <<"hdel", s>> \in req[r].todo /\ s \notin removed =>
                  owner[s] \in User /\ Busy(r, owner[s])
           /\ \A u \in User : <<"hsetUser", u>> \in req[r].todo \/ <<"hdelUser", u>> \in req[r].todo =>
                  Busy(r, u) /\ req[r].key = u
  <1>1. /\ CommandInv(r) /\ PhaseInv(r) /\ StartedInv(r) /\ req[r] \in RequestState
        /\ owner \in [Session -> Key]
    BY DEF IInv, SInv, RequestInv, TypeOK
  <1>2. ASSUME NEW c \in req[r].todo PROVE req[r].pc \notin {"idle", "getUid", "getList", "failed"}
    BY <1>1 DEF PhaseInv, StartedInv
  <1>3. ASSUME req[r].op \in {"logout", "clearExcept"}, req[r].pc \notin {"idle", "getUid", "getList", "failed"},
               req[r].key # Null
        PROVE  owner[req[r].sid] = req[r].key
    BY <1>1, <1>3 DEF PhaseInv, Belongs
  <1>4. ASSUME NEW s \in Session, <<"hset", s>> \in req[r].todo
        PROVE  /\ owner[s] \in User /\ Busy(r, owner[s]) /\ req[r].key = owner[s]
               /\ req[r].op = "login" /\ req[r].sid = s
    BY <1>1, <1>2, <1>4 DEF CommandInv, Busy, AccountOf
  <1>5. ASSUME NEW s \in Session, <<"hdel", s>> \in req[r].todo, s \notin removed
        PROVE  owner[s] \in User /\ Busy(r, owner[s])
    <2>1. owner[s] \in User /\ ActsFor(r, s)
      BY <1>1, <1>5 DEF CommandInv, Key
    <2> QED BY <1>2, <1>3, <1>5, <2>1, NullAssumption DEF ActsFor, Busy, AccountOf
  <1>6. ASSUME NEW u \in User, <<"hsetUser", u>> \in req[r].todo \/ <<"hdelUser", u>> \in req[r].todo
        PROVE  Busy(r, u) /\ req[r].key = u
    <2>1. u \in Key /\ u # Null
      BY NullAssumption DEF Key
    <2>2. req[r].key = u
      BY <1>1, <1>6, <2>1 DEF CommandInv, StartedInv
    <2> QED BY <1>2, <1>3, <1>6, <2>1, <2>2 DEF Busy, AccountOf
  <1> QED BY <1>4, <1>5, <1>6

\* A step of r disturbs no account but its own, and there it meets no other request.
LEMMA AccountsKept ==
    ASSUME IInv, SInv, Serial, Serial', NEW r \in Request,
           \A o \in Request \ {r} : req'[o] = req[o],
           \A s \in Session : owner[s] # Null => owner'[s] = owner[s],
           \A u \in User : ~Busy(r, u) /\ ~Busy(r, u)' =>
                OpenOf(u)' = OpenOf(u) /\ Listed(u)' = Listed(u),
           \A u \in User : Busy(r, u)' => ListsInv(r, u)' /\ ClearInv(r, u)' /\ CallerInv(r, u)',
           \A u \in User : Busy(r, u) /\ ~Busy(r, u)' => (OpenOf(u) \subseteq Listed(u))'
    PROVE  \A u \in User : AccountInv(u)'
  <1>1. ASSUME NEW o \in Request \ {r}, NEW u \in User PROVE Busy(o, u)' <=> Busy(o, u)
    <2>1. req[o].op \in {"logout", "clearExcept"} => owner'[req[o].sid] = owner[req[o].sid]
      BY DEF IInv, RequestInv, PhaseInv, StoreInv, FreshInv, TypeOK
    <2> QED BY <2>1 DEF Busy, AccountOf
  <1>2. ASSUME NEW u \in User, Busy(r, u)' PROVE AccountInv(u)'
    <2>1. \A o \in Request : Busy(o, u)' => o = r
      BY <1>2 DEF Serial
    <2> QED BY <1>2, <2>1 DEF AccountInv
  <1>3. ASSUME NEW u \in User, Busy(r, u), ~Busy(r, u)' PROVE AccountInv(u)'
    <2>1. \A o \in Request : ~Busy(o, u)'
      BY <1>1, <1>3 DEF Serial
    <2> QED BY <1>3, <2>1 DEF AccountInv
  <1>4. ASSUME NEW u \in User, ~Busy(r, u), ~Busy(r, u)' PROVE AccountInv(u)'
    <2>1. OpenOf(u)' = OpenOf(u) /\ Listed(u)' = Listed(u) /\ AccountInv(u) /\ u # Null
      BY <1>4, NullAssumption DEF SInv
    <2>2. ASSUME \A o \in Request : ~Busy(o, u)' PROVE (OpenOf(u) \subseteq Listed(u))'
      BY <1>1, <1>4, <2>1, <2>2 DEF AccountInv
    <2>3. ASSUME NEW o \in Request, Busy(o, u)' PROVE ListsInv(o, u)' /\ ClearInv(o, u)' /\ CallerInv(o, u)'
      <3>1. o # r /\ req'[o] = req[o] /\ ListsInv(o, u) /\ ClearInv(o, u) /\ CallerInv(o, u)
        BY <1>1, <1>4, <2>1, <2>3 DEF AccountInv
      <3>2. \A s \in req[o].opened : owner'[s] = u
        BY <2>1, <3>1 DEF CallerInv, IInv, TypeOK, RequestState
      <3> QED BY <2>1, <3>1, <3>2 DEF ListsInv, Unlisted, ClearInv, CallerInv
    <2> QED BY <2>2, <2>3 DEF AccountInv
  <1> QED BY <1>2, <1>3, <1>4

-----------------------------------------------------------------------------
(* Requests arrive, read, and go from one await to the next. *)

\* The request goes on with new values of these fields; no hash is written.
Becomes(r, pc, key, list, todo) ==
    /\ req'[r].pc = pc /\ req'[r].key = key /\ req'[r].list = list /\ req'[r].todo = todo
    /\ req'[r].op = req[r].op /\ req'[r].sid = req[r].sid /\ req'[r].opened = req[r].opened
    /\ \A o \in Request \ {r} : req'[o] = req[o]
    /\ UNCHANGED <<stored, issued, removed>>

LEMMA PhaseFacts ==
    ASSUME IInv, HInv, NEW r \in Request
    PROVE  /\ GetUserId(r) =>
                Becomes(r, "getList", sessionDb[req[r].sid], req[r].list, req[r].todo)
           /\ LoginGetsList(r) =>
                Becomes(r, "store", req[r].key, Append(OrEmpty(userDb[req[r].key]), req[r].sid),
                        {<<"hset", req[r].sid>>, <<"hsetUser", req[r].key>>})
           /\ LogoutGetsList(r) =>
                Becomes(r, "storeList", req[r].key, WithoutSession(userDb[req[r].key], req[r].sid),
                        {<<"hsetUser", req[r].key>>})
           /\ ClearGetsList(r) =>
                Becomes(r, "remove", req[r].key, req[r].list,
                        RemoveSessions(ToSet(OrEmpty(userDb[req[r].key])) \ {req[r].sid}))
           /\ LogoutStored(r) =>
                Becomes(r, "remove", req[r].key, req[r].list, RemoveSessions({req[r].sid}))
           /\ ClearExceptRemoved(r) =>
                Becomes(r, "storeList", req[r].key, <<req[r].sid>>, {<<"hsetUser", req[r].key>>})
           /\ ClearAllRemoved(r) =>
                Becomes(r, "drop", req[r].key, req[r].list, {<<"hdelUser", req[r].key>>})
           /\ Finish(r) => Becomes(r, "done", req[r].key, req[r].list, {})
  <1>0. req \in [Request -> RequestState] /\ req[r] \in RequestState
    BY DEF IInv, TypeOK
  <1> USE DEF Becomes, RequestState, stored
  <1>1. GetUserId(r) =>
            Becomes(r, "getList", sessionDb[req[r].sid], req[r].list, req[r].todo)
    BY <1>0 DEF GetUserId
  <1>2. ASSUME LoginGetsList(r)
        PROVE  Becomes(r, "store", req[r].key, Append(OrEmpty(userDb[req[r].key]), req[r].sid),
                       {<<"hset", req[r].sid>>, <<"hsetUser", req[r].key>>})
    <2>1. PICK l, t : /\ l = Append(OrEmpty(userDb[req[r].key]), req[r].sid)
                      /\ t = {<<"hset", req[r].sid>>, <<"hsetUser", req[r].key>>}
      OBVIOUS
    <2>2. req' = [req EXCEPT ![r].list = l, ![r].pc = "store", ![r].todo = t]
      BY <1>2, <2>1 DEF LoginGetsList
    <2>3. Becomes(r, "store", req[r].key, l, t)
      BY <1>0, <1>2, <2>2 DEF LoginGetsList
    <2> QED BY <2>1, <2>3
  <1>3. ASSUME LogoutGetsList(r)
        PROVE  Becomes(r, "storeList", req[r].key, WithoutSession(userDb[req[r].key], req[r].sid),
                       {<<"hsetUser", req[r].key>>})
    <2>1. PICK l, t : /\ l = WithoutSession(userDb[req[r].key], req[r].sid)
                      /\ t = {<<"hsetUser", req[r].key>>}
      OBVIOUS
    <2>2. req' = [req EXCEPT ![r].list = l, ![r].pc = "storeList", ![r].todo = t]
      BY <1>3, <2>1 DEF LogoutGetsList
    <2>3. Becomes(r, "storeList", req[r].key, l, t)
      BY <1>0, <1>3, <2>2 DEF LogoutGetsList
    <2> QED BY <2>1, <2>3
  <1>4. ASSUME ClearGetsList(r)
        PROVE  Becomes(r, "remove", req[r].key, req[r].list,
                       RemoveSessions(ToSet(OrEmpty(userDb[req[r].key])) \ {req[r].sid}))
    <2>1. PICK t : t = RemoveSessions(ToSet(OrEmpty(userDb[req[r].key])) \ {req[r].sid})
      OBVIOUS
    <2>2. req' = [req EXCEPT ![r].pc = "remove", ![r].todo = t]
      BY <1>4, <2>1 DEF ClearGetsList
    <2>3. Becomes(r, "remove", req[r].key, req[r].list, t)
      BY <1>0, <1>4, <2>2 DEF ClearGetsList
    <2> QED BY <2>1, <2>3
  <1>5. ASSUME LogoutStored(r)
        PROVE  Becomes(r, "remove", req[r].key, req[r].list, RemoveSessions({req[r].sid}))
    <2>1. PICK t : t = RemoveSessions({req[r].sid})
      OBVIOUS
    <2>2. req' = [req EXCEPT ![r].pc = "remove", ![r].todo = t]
      BY <1>5, <2>1 DEF LogoutStored
    <2>3. Becomes(r, "remove", req[r].key, req[r].list, t)
      BY <1>0, <1>5, <2>2 DEF LogoutStored
    <2> QED BY <2>1, <2>3
  <1>6. ASSUME ClearExceptRemoved(r)
        PROVE  Becomes(r, "storeList", req[r].key, <<req[r].sid>>, {<<"hsetUser", req[r].key>>})
    <2>1. PICK l, t : l = <<req[r].sid>> /\ t = {<<"hsetUser", req[r].key>>}
      OBVIOUS
    <2>2. req[r].todo \cup {<<"hsetUser", req[r].key>>} = t
      BY <1>6, <2>1, SettledEmpty DEF ClearExceptRemoved
    <2>3. req' = [req EXCEPT ![r].list = l, ![r].pc = "storeList", ![r].todo = t]
      BY <1>0, <1>6, <2>1, <2>2 DEF ClearExceptRemoved
    <2>4. Becomes(r, "storeList", req[r].key, l, t)
      BY <1>0, <1>6, <2>3 DEF ClearExceptRemoved
    <2> QED BY <2>1, <2>4
  <1>7. ASSUME ClearAllRemoved(r)
        PROVE  Becomes(r, "drop", req[r].key, req[r].list, {<<"hdelUser", req[r].key>>})
    <2>1. PICK t : t = {<<"hdelUser", req[r].key>>}
      OBVIOUS
    <2>2. req[r].todo \cup {<<"hdelUser", req[r].key>>} = t
      BY <1>7, <2>1, SettledEmpty DEF ClearAllRemoved
    <2>3. req' = [req EXCEPT ![r].pc = "drop", ![r].todo = t]
      BY <1>0, <1>7, <2>1, <2>2 DEF ClearAllRemoved
    <2>4. Becomes(r, "drop", req[r].key, req[r].list, t)
      BY <1>0, <1>7, <2>3 DEF ClearAllRemoved
    <2> QED BY <2>1, <2>4
  <1>8. ASSUME Finish(r) PROVE Becomes(r, "done", req[r].key, req[r].list, {})
    <2>1. req[r].todo = {}
      BY <1>8, SettledEmpty DEF Finish
    <2> QED BY <1>0, <1>8, <2>1 DEF Finish
  <1> QED BY <1>1, <1>2, <1>3, <1>4, <1>5, <1>6, <1>7, <1>8

\* A step of a request that writes no hash.
LEMMA BecomesKeeps ==
    ASSUME IInv, SInv, Serial, Serial', NEW r \in Request,
           NEW pc \in {"getList", "store", "storeList", "remove", "drop", "done"}, NEW key, NEW list,
           NEW todo, Becomes(r, pc, key, list, todo), req[r].pc # "idle",
           \A s \in Session : owner[s] # Null => owner'[s] = owner[s],
           req[r].op \in {"logout", "clearExcept"} \/ key = req[r].key,
           \A u \in User : Busy(r, u) /\ Busy(r, u)' =>
                ListsInv(r, u)' /\ ClearInv(r, u)' /\ CallerInv(r, u)',
           \A s \in Session : owner'[s] # owner[s] => <<"hset", s>> \in todo,
           \A s \in Session : <<"hset", s>> \in req[r].todo => <<"hset", s>> \in todo,
           \A s \in Session : <<"hset", s>> \in todo => ~Live(s),
           \A k \in Key : <<"hdelUser", k>> \in todo => req[r].op = "clearAll" /\ k = key
    PROVE  SInv'
  <1> USE DEF Becomes
  <1>1. AccountOf(r)' = AccountOf(r)
    <2>1. req[r].op \in {"logout", "clearExcept"} => owner'[req[r].sid] = owner[req[r].sid]
      BY DEF IInv, RequestInv, PhaseInv, StoreInv, FreshInv, TypeOK
    <2> QED BY <2>1 DEF AccountOf
  <1>2. \A u \in User : Busy(r, u)' <=> Busy(r, u)
    BY <1>1 DEF Busy
  <1>3. \A u \in User : OpenOf(u)' = OpenOf(u) /\ Listed(u)' = Listed(u)
    BY DEF OpenOf, Listed, stored
  <1>4. \A u \in User : AccountInv(u)'
    BY <1>2, <1>3, AccountsKept
  <1>5. DrawnInv'
    <2>1. \A s \in Session : InFlight("hset", s) => InFlight("hset", s)'
      BY DEF InFlight
    <2>2. \A s \in Session : <<"hset", s>> \in todo => InFlight("hset", s)'
      BY DEF InFlight
    <2> QED BY <2>1, <2>2 DEF SInv, DrawnInv, Live, stored
  <1>6. StartedInv(r) /\ StartedInv(r)'
    BY DEF SInv, StartedInv, Live, stored
  <1>7. ASSUME NEW o \in Request \ {r} PROVE StartedInv(o)'
    BY DEF SInv, StartedInv, Live, stored
  <1> QED BY <1>4, <1>5, <1>6, <1>7 DEF SInv

\* The invariants of the account of r.
LEMMA BusyFacts ==
    ASSUME IInv, SInv, NEW r \in Request, NEW u \in User, Busy(r, u)
    PROVE  ListsInv(r, u) /\ ClearInv(r, u) /\ CallerInv(r, u)
  BY DEF SInv, AccountInv

LEMMA BeginSerial ==
    ASSUME IInv, SInv, Serial, Serial', NEW r \in Request,
           NEW op \in {"login", "logout", "clearExcept", "clearAll"},
           NEW pc \in {"getUid", "getList"}, NEW sid, NEW key, NEW opened \in SUBSET Session,
           Begin(r, op, pc, sid, key, opened),
           pc = "getUid" <=> op \in {"logout", "clearExcept"},
           op = "clearAll" => key \in User /\ sid = Null,
           opened # {} => op \in {"clearExcept", "clearAll"},
           \A s \in opened :
                /\ s # sid
                /\ op = "clearExcept" => sessionDb[s] # Null /\ sessionDb[s] = sessionDb[sid] /\ sid \in Session
                /\ op = "clearAll" => sessionDb[s] = key
    PROVE  SInv'
  <1>0. req'[r] = [Idle EXCEPT !.op = op, !.pc = pc, !.sid = sid, !.key = key, !.opened = opened]
    BY DEF Begin, IInv, TypeOK
  <1>1. /\ \A o \in Request \ {r} : req'[o] = req[o]
        /\ req[r].pc = "idle"
        /\ UNCHANGED <<sessionDb, userDb, owner, issued, removed>>
    BY DEF Begin, stored, IInv, TypeOK
  <1>2. /\ req'[r].op = op /\ req'[r].pc = pc /\ req'[r].sid = sid /\ req'[r].key = key
        /\ req'[r].todo = {} /\ req'[r].opened = opened
    BY <1>0 DEF Idle
  <1>3. req[r].todo = {}
    BY <1>1 DEF IInv, RequestInv, PhaseInv
  <1>4. \A u \in User : OpenOf(u)' = OpenOf(u) /\ Listed(u)' = Listed(u)
    BY <1>1 DEF OpenOf, Listed
  <1>5. ASSUME NEW u \in User, Busy(r, u)'
        PROVE  ListsInv(r, u)' /\ ClearInv(r, u)' /\ CallerInv(r, u)'
    <2>1. \A o \in Request : ~Busy(o, u)
      <3>1. ASSUME NEW o \in Request \ {r} PROVE ~Busy(o, u)
        BY <1>1, <1>5 DEF Serial, Busy, AccountOf
      <3> QED BY <1>1, <3>1 DEF Busy
    <2>2. OpenOf(u) \subseteq Listed(u)
      BY <2>1 DEF SInv, AccountInv
    <2>3. \A s \in Session : sessionDb[s] # Null => owner[s] = sessionDb[s]
      BY DEF IInv, StoreInv, SessionInv
    <2>4. u = IF op \in {"logout", "clearExcept"} THEN owner[sid] ELSE key
      BY <1>1, <1>2, <1>5 DEF Busy, AccountOf
    <2>5. \A s \in opened : owner[s] = u /\ (op = "clearExcept" => sid \in OpenOf(u))
      BY <2>3, <2>4, NullAssumption DEF OpenOf
    <2> QED BY <1>1, <1>2, <1>4, <2>2, <2>4, <2>5 DEF ListsInv, Unlisted, ClearInv, CallerInv
  <1>6. \A u \in User : AccountInv(u)'
    <2>1. \A u \in User : ~Busy(r, u)
      BY <1>1 DEF Busy
    <2> QED BY <1>1, <1>4, <1>5, <2>1, AccountsKept
  <1>7. DrawnInv'
    <2>1. \A s \in Session : InFlight("hset", s) => InFlight("hset", s)'
      BY <1>1, <1>3 DEF InFlight
    <2> QED BY <1>1, <2>1 DEF SInv, DrawnInv, Live
  <1>8. ASSUME NEW o \in Request PROVE StartedInv(o)'
    BY <1>1, <1>2 DEF SInv, StartedInv, Live
  <1> QED BY <1>6, <1>7, <1>8 DEF SInv

LEMMA ArriveSerial ==
    ASSUME IInv, SInv, Serial, Serial', NEW r \in Request, Arrive(r) PROVE SInv'
  <1>1. issued \subseteq Session /\ sessionDb \in [Session -> Key]
    BY DEF IInv, TypeOK
  <1>2. ASSUME NEW u \in User, BeginLogin(r, u) PROVE SInv'
    BY <1>2, BeginSerial DEF BeginLogin
  <1>3. ASSUME NEW s \in Session, BeginLogout(r, s) PROVE SInv'
    BY <1>3, BeginSerial DEF BeginLogout
  <1>4. ASSUME NEW s \in Session, BeginClearExcept(r, s) PROVE SInv'
    <2>1. PICK opened \in SUBSET Session :
            /\ Begin(r, "clearExcept", "getUid", s, Null, opened)
            /\ \A t \in opened : t # s /\ sessionDb[t] # Null /\ sessionDb[t] = sessionDb[s]
      BY <1>1, <1>4 DEF BeginClearExcept, Live
    <2> QED BY <2>1, BeginSerial
  <1>5. ASSUME NEW u \in User, BeginClearAll(r, u) PROVE SInv'
    <2>1. PICK opened \in SUBSET Session :
            /\ Begin(r, "clearAll", "getList", Null, u, opened)
            /\ \A t \in opened : t # Null /\ sessionDb[t] = u
      BY <1>1, <1>5, NullAssumption DEF BeginClearAll
    <2> QED BY <2>1, BeginSerial
  <1> QED BY <1>2, <1>3, <1>4, <1>5 DEF Arrive

LEMMA GetUserIdSerial ==
    ASSUME IInv, HInv, SInv, Serial, Serial', NEW r \in Request, GetUserId(r) PROVE SInv'
  <1>1. /\ Becomes(r, "getList", sessionDb[req[r].sid], req[r].list, req[r].todo)
        /\ req[r].pc = "getUid" /\ owner' = owner
    BY PhaseFacts DEF GetUserId
  <1>2. req[r].op \in {"logout", "clearExcept"} /\ req[r].todo = {} /\ req[r].sid \in Session
    BY <1>1 DEF SInv, StartedInv, IInv, RequestInv, PhaseInv, TypeOK
  <1>3. ASSUME NEW u \in User, Busy(r, u)
        PROVE  ListsInv(r, u)' /\ ClearInv(r, u)' /\ CallerInv(r, u)'
    <2>1. ListsInv(r, u) /\ ClearInv(r, u) /\ CallerInv(r, u)
      BY <1>3, BusyFacts
    <2>2. OpenOf(u)' = OpenOf(u) /\ Listed(u)' = Listed(u)
      BY <1>1 DEF Becomes, OpenOf, Listed, stored
    <2>3. sessionDb[req[r].sid] # Null => req[r].sid \in OpenOf(u)
      BY <1>2, <1>3 DEF Busy, AccountOf, IInv, StoreInv, SessionInv, OpenOf
    <2>4. req[r].sid \in OpenOf(u) => sessionDb[req[r].sid] = u
      BY DEF OpenOf
    <2> QED BY <1>1, <1>2, <2>1, <2>2, <2>3, <2>4
            DEF Becomes, ListsInv, Unlisted, ClearInv, CallerInv
  <1> QED BY <1>1, <1>2, <1>3, BecomesKeeps

LEMMA LoginGetsListSerial ==
    ASSUME IInv, HInv, SInv, Serial, Serial', NEW r \in Request, LoginGetsList(r) PROVE SInv'
  <1>1. PICK list, todo :
            /\ list = Append(OrEmpty(userDb[req[r].key]), req[r].sid)
            /\ todo = {<<"hset", req[r].sid>>, <<"hsetUser", req[r].key>>}
    OBVIOUS
  <1>2. /\ Becomes(r, "store", req[r].key, list, todo) /\ req[r].pc = "getList"
        /\ req[r].op = "login" /\ owner' = [owner EXCEPT ![req[r].sid] = req[r].key]
    BY <1>1, PhaseFacts DEF LoginGetsList
  <1>3. /\ req[r].sid \in Session /\ req[r].todo = {} /\ owner[req[r].sid] = Null
        /\ req[r].key \in User /\ owner \in [Session -> Key] /\ userDb[req[r].key] \in List
    BY <1>2 DEF IInv, RequestInv, PhaseInv, TypeOK, Key
  <1>4. sessionDb[req[r].sid] = Null
    BY <1>3 DEF IInv, StoreInv, FreshInv
  <1>5. ASSUME NEW u \in User, Busy(r, u)
        PROVE  ListsInv(r, u)' /\ ClearInv(r, u)' /\ CallerInv(r, u)'
    <2>1. ListsInv(r, u) /\ CallerInv(r, u) /\ req[r].key = u
      BY <1>2, <1>5, BusyFacts DEF Busy, AccountOf
    <2>2. OpenOf(u)' = OpenOf(u) /\ Listed(u)' = Listed(u)
      BY <1>2 DEF Becomes, OpenOf, Listed, stored
    <2>3. OpenOf(u) \subseteq Listed(u)
      BY <1>2, <1>3, <2>1 DEF ListsInv, Unlisted
    <2>4. ToSet(OrEmpty(list)) = Listed(u) \cup {req[r].sid}
      BY <1>1, <1>3, <2>1, AppendKeeps DEF Listed
    <2>5. <<"hdelUser", u>> \notin todo /\ <<"hsetUser", u>> \in todo
      BY <1>1, <2>1
    <2>6. req[r].opened = {}
      BY <1>2, <2>1 DEF CallerInv
    <2> QED BY <1>2, <2>1, <2>2, <2>3, <2>4, <2>5, <2>6
            DEF Becomes, ListsInv, Unlisted, ClearInv, CallerInv
  <1>6. \A s \in Session : owner'[s] # owner[s] => s = req[r].sid
    BY <1>2, <1>3
  <1>7. /\ \A s \in Session : <<"hset", s>> \in todo <=> s = req[r].sid
        /\ \A k \in Key : <<"hdelUser", k>> \notin todo
    BY <1>1
  <1> QED BY <1>2, <1>3, <1>4, <1>5, <1>6, <1>7, BecomesKeeps DEF Live

LEMMA LogoutGetsListSerial ==
    ASSUME IInv, HInv, SInv, Serial, Serial', NEW r \in Request, LogoutGetsList(r) PROVE SInv'
  <1>1. PICK list, todo :
            /\ list = WithoutSession(userDb[req[r].key], req[r].sid)
            /\ todo = {<<"hsetUser", req[r].key>>}
    OBVIOUS
  <1>2. /\ Becomes(r, "storeList", req[r].key, list, todo) /\ req[r].pc = "getList"
        /\ req[r].op = "logout" /\ owner' = owner
    BY <1>1, PhaseFacts DEF LogoutGetsList
  <1>3. req[r].todo = {} /\ req[r].key \in Key /\ userDb[req[r].key] \in List
    BY <1>2 DEF IInv, RequestInv, PhaseInv, TypeOK, RequestState
  <1>4. ASSUME NEW u \in User, Busy(r, u)
        PROVE  ListsInv(r, u)' /\ ClearInv(r, u)' /\ CallerInv(r, u)'
    <2>1. ListsInv(r, u) /\ CallerInv(r, u) /\ u # Null
      BY <1>4, BusyFacts, NullAssumption
    <2>2. OpenOf(u)' = OpenOf(u) /\ Listed(u)' = Listed(u)
      BY <1>2 DEF Becomes, OpenOf, Listed, stored
    <2>3. OpenOf(u) \subseteq Listed(u)
      BY <1>2, <1>3, <2>1 DEF ListsInv, Unlisted
    <2>4. ASSUME req[r].key = u
          PROVE  Listed(u) \ {req[r].sid} \subseteq ToSet(OrEmpty(list))
      <3>1. req[r].sid \in Listed(u)
        BY <1>2, <2>1, <2>3, <2>4 DEF CallerInv
      <3> QED BY <1>1, <1>3, <2>4, <3>1, WithoutKeeps DEF Listed
    <2>5. <<"hdelUser", u>> \notin todo /\ (<<"hsetUser", u>> \in todo => u = req[r].key)
      BY <1>1
    <2> QED BY <1>2, <2>1, <2>2, <2>3, <2>4, <2>5
            DEF Becomes, ListsInv, Unlisted, ClearInv, CallerInv
  <1>5. /\ \A s \in Session : <<"hset", s>> \notin todo
        /\ \A k \in Key : <<"hdelUser", k>> \notin todo
    BY <1>1
  <1> QED BY <1>2, <1>3, <1>4, <1>5, BecomesKeeps

LEMMA ClearGetsListSerial ==
    ASSUME IInv, HInv, SInv, Serial, Serial', NEW r \in Request, ClearGetsList(r) PROVE SInv'
  <1>1. PICK todo : todo = RemoveSessions(ToSet(OrEmpty(userDb[req[r].key])) \ {req[r].sid})
    OBVIOUS
  <1>2. /\ Becomes(r, "remove", req[r].key, req[r].list, todo) /\ req[r].pc = "getList"
        /\ req[r].op \in {"clearExcept", "clearAll"} /\ owner' = owner
    BY <1>1, PhaseFacts DEF ClearGetsList
  <1>3. req[r].todo = {}
    BY <1>2 DEF IInv, RequestInv, PhaseInv
  <1>4. /\ \A s \in Session : <<"hset", s>> \notin todo
        /\ \A k : <<"hsetUser", k>> \notin todo /\ <<"hdelUser", k>> \notin todo
    BY <1>1 DEF RemoveSessions
  <1>5. ASSUME NEW u \in User, Busy(r, u)
        PROVE  ListsInv(r, u)' /\ ClearInv(r, u)' /\ CallerInv(r, u)'
    <2>1. ListsInv(r, u) /\ CallerInv(r, u)
      BY <1>5, BusyFacts
    <2>2. OpenOf(u)' = OpenOf(u) /\ Listed(u)' = Listed(u)
      BY <1>2 DEF Becomes, OpenOf, Listed, stored
    <2>3. OpenOf(u) \subseteq Listed(u)
      BY <1>2, <1>3, <2>1 DEF ListsInv, Unlisted
    <2>4. ASSUME req[r].key = u, NEW s \in OpenOf(u) \ {req[r].sid} PROVE <<"hdel", s>> \in todo
      BY <1>1, <2>3, <2>4 DEF RemoveSessions, Listed
    <2> QED BY <1>2, <1>4, <2>1, <2>2, <2>3, <2>4
            DEF Becomes, ListsInv, Unlisted, ClearInv, CallerInv
  <1> QED BY <1>2, <1>3, <1>4, <1>5, BecomesKeeps

LEMMA LogoutStoredSerial ==
    ASSUME IInv, HInv, SInv, Serial, Serial', NEW r \in Request, LogoutStored(r) PROVE SInv'
  <1>1. PICK todo : todo = RemoveSessions({req[r].sid})
    OBVIOUS
  <1>2. /\ Becomes(r, "remove", req[r].key, req[r].list, todo) /\ req[r].pc = "storeList"
        /\ req[r].op = "logout" /\ owner' = owner /\ req[r].todo = {}
    BY <1>1, PhaseFacts, SettledEmpty DEF LogoutStored
  <1>3. /\ \A s \in Session : <<"hset", s>> \notin todo
        /\ \A k : <<"hsetUser", k>> \notin todo /\ <<"hdelUser", k>> \notin todo
    BY <1>1 DEF RemoveSessions
  <1>4. ASSUME NEW u \in User, Busy(r, u)
        PROVE  ListsInv(r, u)' /\ ClearInv(r, u)' /\ CallerInv(r, u)'
    <2>1. ListsInv(r, u) /\ CallerInv(r, u)
      BY <1>4, BusyFacts
    <2>2. OpenOf(u)' = OpenOf(u) /\ Listed(u)' = Listed(u)
      BY <1>2 DEF Becomes, OpenOf, Listed, stored
    <2> QED BY <1>2, <1>3, <2>1, <2>2
            DEF Becomes, ListsInv, Unlisted, ClearInv, CallerInv
  <1> QED BY <1>2, <1>3, <1>4, BecomesKeeps

LEMMA ClearRemovedSerial ==
    ASSUME IInv, HInv, SInv, Serial, Serial', NEW r \in Request,
           ClearExceptRemoved(r) \/ ClearAllRemoved(r)
    PROVE  SInv'
  <1>1. PICK pc, list, todo :
            /\ pc \in {"storeList", "drop"}
            /\ Becomes(r, pc, req[r].key, list, todo)
            /\ \/ req[r].op = "clearExcept" /\ list = <<req[r].sid>> /\ todo = {<<"hsetUser", req[r].key>>}
               \/ req[r].op = "clearAll" /\ todo = {<<"hdelUser", req[r].key>>}
    <2>1. CASE ClearExceptRemoved(r)
      <3>1. Becomes(r, "storeList", req[r].key, <<req[r].sid>>, {<<"hsetUser", req[r].key>>})
        BY <2>1, PhaseFacts
      <3> QED BY <2>1, <3>1 DEF ClearExceptRemoved
    <2>2. CASE ClearAllRemoved(r)
      <3>1. Becomes(r, "drop", req[r].key, req[r].list, {<<"hdelUser", req[r].key>>})
        BY <2>2, PhaseFacts
      <3> QED BY <2>2, <3>1 DEF ClearAllRemoved
    <2> QED BY <2>1, <2>2
  <1>2. req[r].pc = "remove" /\ owner' = owner /\ req[r].todo = {}
    <2>1. req[r].pc = "remove" /\ owner' = owner /\ Settled(r)
      BY DEF ClearExceptRemoved, ClearAllRemoved
    <2> QED BY <2>1, SettledEmpty
  <1>3. req[r].op = "clearExcept" => ToSet(OrEmpty(list)) = {req[r].sid}
    <2>1. ASSUME req[r].op = "clearExcept" PROVE req[r].sid \in Session
      BY <2>1 DEF IInv, RequestInv, PhaseInv, TypeOK
    <2>2. ASSUME req[r].op = "clearExcept"
          PROVE  list \in Seq(Session) /\ ToSet(list) = {req[r].sid}
      <3>1. list = <<req[r].sid>> /\ req[r].sid \in Session
        BY <1>1, <2>1, <2>2
      <3>2. list \in Seq(Session) /\ DOMAIN list = {1} /\ list[1] = req[r].sid
        BY <3>1
      <3> QED BY <3>2 DEF ToSet
    <2> QED BY <2>2, NullAssumption DEF OrEmpty
  <1>4. ASSUME NEW u \in User, Busy(r, u)
        PROVE  ListsInv(r, u)' /\ ClearInv(r, u)' /\ CallerInv(r, u)'
    <2>1. ListsInv(r, u) /\ ClearInv(r, u) /\ CallerInv(r, u)
      BY <1>4, BusyFacts
    <2>2. OpenOf(u)' = OpenOf(u) /\ Listed(u)' = Listed(u) /\ OpenOf(u) \subseteq Session
      BY <1>1 DEF Becomes, OpenOf, Listed, stored
    <2>3. OpenOf(u) \subseteq Listed(u)
      BY <1>1, <1>2, <2>1 DEF ListsInv, Unlisted
    <2>4. req[r].key = u => OpenOf(u) \subseteq {req[r].sid}
      BY <1>1, <1>2, <2>1 DEF ClearInv
    <2>5. req[r].op = "clearAll" => req[r].key = u /\ req[r].sid \notin OpenOf(u)
      BY <1>4, <2>2, NullAssumption DEF Busy, AccountOf, SInv, StartedInv
    <2>6. /\ <<"hsetUser", u>> \in todo => req[r].key = u /\ req[r].op = "clearExcept"
          /\ <<"hdelUser", u>> \in todo => req[r].key = u /\ req[r].op = "clearAll"
      BY <1>1
    <2> QED BY <1>1, <1>2, <1>3, <2>1, <2>2, <2>3, <2>4, <2>5, <2>6
            DEF Becomes, ListsInv, Unlisted, ClearInv, CallerInv
  <1>5. /\ \A s \in Session : <<"hset", s>> \notin todo
        /\ \A k \in Key : <<"hdelUser", k>> \in todo => req[r].op = "clearAll" /\ k = req[r].key
    BY <1>1
  <1> QED BY <1>1, <1>2, <1>4, <1>5, BecomesKeeps

LEMMA FinishSerial ==
    ASSUME IInv, HInv, SInv, Serial, Serial', NEW r \in Request, Finish(r) PROVE SInv'
  <1>1. /\ Becomes(r, "done", req[r].key, req[r].list, {}) /\ owner' = owner /\ req[r].todo = {}
        /\ \/ req[r].op = "login" /\ req[r].pc = "store"
           \/ req[r].op = "logout" /\ req[r].pc = "remove"
           \/ req[r].op = "clearExcept" /\ req[r].pc = "storeList"
           \/ req[r].op = "clearAll" /\ req[r].pc = "drop"
    <2>1. req[r].op \in {"login", "logout", "clearExcept", "clearAll"}
      BY DEF Finish, IInv, TypeOK, RequestState
    <2>2. req[r].pc = LastPhase[req[r].op] /\ req[r].todo = {}
      BY SettledEmpty DEF Finish
    <2>3. Becomes(r, "done", req[r].key, req[r].list, {}) /\ owner' = owner
      BY PhaseFacts DEF Finish
    <2> QED BY <2>1, <2>2, <2>3 DEF LastPhase
  <1>2. ASSUME NEW u \in User, Busy(r, u)
        PROVE  ListsInv(r, u)' /\ ClearInv(r, u)' /\ CallerInv(r, u)'
    <2>1. ListsInv(r, u) /\ ClearInv(r, u) /\ CallerInv(r, u)
      BY <1>2, BusyFacts
    <2>2. OpenOf(u)' = OpenOf(u) /\ Listed(u)' = Listed(u)
      BY <1>1 DEF Becomes, OpenOf, Listed, stored
    <2> QED BY <1>1, <2>1, <2>2 DEF Becomes, ListsInv, Unlisted, ClearInv, CallerInv
  <1> QED BY <1>1, <1>2, BecomesKeeps

\* A request leaves its user with a list that names every open session.
LEMMA LeaveSerial ==
    ASSUME IInv, HInv, SInv, Serial, Serial', NEW r \in Request,
           LoginReturns(r) \/ LoginFails(r) \/ Return(r)
    PROVE  SInv'
  <1>1. /\ req' = [req EXCEPT ![r] = Idle] /\ req[r].todo = {}
        /\ UNCHANGED <<sessionDb, userDb, owner, removed>>
        /\ req[r].pc = "done"
    BY DEF LoginReturns, LoginFails, Return, Leave, stored, SInv, StartedInv
  <1>2. /\ req'[r].pc = "idle" /\ req'[r].op = "none" /\ req'[r].todo = {}
        /\ \A o \in Request \ {r} : req'[o] = req[o]
    BY <1>1 DEF Idle, IInv, TypeOK
  <1>3. \A u \in User : OpenOf(u)' = OpenOf(u) /\ Listed(u)' = Listed(u)
    BY <1>1 DEF OpenOf, Listed
  <1>4. ASSUME NEW u \in User, Busy(r, u) PROVE (OpenOf(u) \subseteq Listed(u))'
    <2>1. ListsInv(r, u)
      BY <1>4, BusyFacts
    <2>2. req[r].op = "logout" => req[r].sid \notin OpenOf(u)
      <3>1. req[r].op = "logout" => req[r].sid \in removed
        BY <1>1 DEF HInv, LogoutInv
      <3> QED BY <3>1, NullAssumption DEF OpenOf, IInv, StoreInv, SessionInv
    <2> QED BY <1>1, <1>3, <2>1, <2>2 DEF ListsInv, Unlisted
  <1>5. \A u \in User : ~Busy(r, u)'
    BY <1>2 DEF Busy
  <1>6. \A u \in User : AccountInv(u)'
    BY <1>1, <1>2, <1>3, <1>4, <1>5, AccountsKept
  <1>7. DrawnInv'
    <2>1. \A s \in Session : InFlight("hset", s) => InFlight("hset", s)'
      BY <1>1, <1>2 DEF InFlight
    <2> QED BY <1>1, <2>1 DEF SInv, DrawnInv, Live
  <1>8. ASSUME NEW o \in Request PROVE StartedInv(o)'
    BY <1>1, <1>2 DEF SInv, StartedInv, Live
  <1> QED BY <1>6, <1>7, <1>8 DEF SInv

-----------------------------------------------------------------------------
(* Redis executes a command. *)

LEMMA CommandKeeps ==
    ASSUME IInv, SInv, Serial, Serial', NEW r \in Request, CommandOnly(r), owner' = owner,
           \A u \in User : ~Busy(r, u) => OpenOf(u)' = OpenOf(u) /\ Listed(u)' = Listed(u),
           \A u \in User : Busy(r, u) /\ ListsInv(r, u) /\ ClearInv(r, u) =>
                ListsInv(r, u)' /\ ClearInv(r, u)',
           \A s \in Session : Live(s)' => Live(s) \/ <<"hset", s>> \in req[r].todo,
           \A s \in Session : Live(s) /\ ~Live(s)' => s \in removed',
           removed \subseteq removed',
           \A s \in Session : <<"hset", s>> \in req[r].todo =>
                Live(s)' \/ <<"hset", s>> \in req'[r].todo,
           \A s \in Session : <<"hset", s>> \in req'[r].todo =>
                ~Live(s)' /\ <<"hset", s>> \in req[r].todo,
           \A k \in Key : <<"hdelUser", k>> \in req'[r].todo => <<"hdelUser", k>> \in req[r].todo
    PROVE  SInv'
  <1>1. /\ req'[r].op = req[r].op /\ req'[r].sid = req[r].sid /\ req'[r].key = req[r].key
        /\ req'[r].pc = req[r].pc /\ req'[r].opened = req[r].opened
        /\ \A o \in Request \ {r} : req'[o] = req[o]
        /\ req[r].pc \notin {"idle", "getUid", "getList"}
    BY DEF CommandOnly
  <1>2. \A u \in User : Busy(r, u)' <=> Busy(r, u)
    BY <1>1 DEF Busy, AccountOf
  <1>3. ASSUME NEW u \in User, Busy(r, u)
        PROVE  ListsInv(r, u)' /\ ClearInv(r, u)' /\ CallerInv(r, u)'
    <2>1. ListsInv(r, u) /\ ClearInv(r, u) /\ CallerInv(r, u)
      BY <1>3, BusyFacts
    <2>2. CallerInv(r, u)'
      BY <1>1, <2>1 DEF CallerInv
    <2> QED BY <1>3, <2>1, <2>2
  <1>4. \A u \in User : AccountInv(u)'
    BY <1>1, <1>2, <1>3, AccountsKept
  <1>5. DrawnInv'
    <2>1. ASSUME NEW s \in Session, InFlight("hset", s) PROVE InFlight("hset", s)' \/ Live(s)'
      BY <1>1, <2>1 DEF InFlight
    <2> QED BY <2>1 DEF SInv, DrawnInv
  <1>6. StartedInv(r)'
    BY <1>1 DEF SInv, StartedInv
  <1>7. ASSUME NEW o \in Request \ {r} PROVE StartedInv(o)'
    <2>1. ASSUME NEW s \in Session, <<"hset", s>> \in req[o].todo PROVE ~Live(s)'
      <3>1. <<"hset", s>> \notin req[r].todo
        BY <2>1, OwnCommands DEF Serial
      <3> QED BY <2>1, <3>1 DEF SInv, StartedInv
    <2> QED BY <1>1, <2>1 DEF SInv, StartedInv
  <1> QED BY <1>4, <1>5, <1>6, <1>7 DEF SInv

LEMMA HSetSerial ==
    ASSUME IInv, SInv, Serial, Serial', NEW r \in Request, NEW s \in Session, HSet(r, s)
    PROVE  SInv'
  <1>1. /\ CommandOnly(r) /\ <<"hset", s>> \in req[r].todo /\ owner' = owner
        /\ req'[r].todo = (req[r].todo \ {<<"hset", s>>}) \cup {<<"sadd", s>>}
        /\ UNCHANGED <<userDb, removed>>
    BY ExecutedFacts DEF HSet
  <1>2. /\ owner[s] \in User /\ Busy(r, owner[s]) /\ req[r].key = owner[s]
        /\ req[r].op = "login" /\ req[r].sid = s /\ ~Live(s)
    BY <1>1, OwnCommands DEF SInv, StartedInv
  <1>3. sessionDb' = [sessionDb EXCEPT ![s] = owner[s]] /\ sessionDb \in [Session -> Key]
    BY <1>2 DEF HSet, IInv, TypeOK
  <1>4. \A u \in User : /\ u # owner[s] => OpenOf(u)' = OpenOf(u)
                        /\ u = owner[s] => OpenOf(u)' = OpenOf(u) \cup {s}
                        /\ Listed(u)' = Listed(u)
    BY <1>1, <1>2, <1>3, NullAssumption DEF OpenOf, Listed, Live
  <1>5. /\ \A u \in User : /\ <<"hsetUser", u>> \in req'[r].todo <=> <<"hsetUser", u>> \in req[r].todo
                           /\ <<"hdelUser", u>> \notin req'[r].todo
        /\ \A t \in Session : <<"hset", t>> \in req'[r].todo <=> t # s /\ <<"hset", t>> \in req[r].todo
        /\ \A k \in Key : <<"hdelUser", k>> \in req'[r].todo => <<"hdelUser", k>> \in req[r].todo
    BY <1>1, <1>2 DEF SInv, StartedInv, Key
  <1>6. req[r].pc \in {"store", "done"}
    BY <1>1, <1>2 DEF CommandOnly, PhaseInv, SInv, StartedInv
  <1>7. ASSUME NEW u \in User, Busy(r, u), ListsInv(r, u), ClearInv(r, u)
        PROVE  ListsInv(r, u)' /\ ClearInv(r, u)'
    <2>1. u = owner[s]
      BY <1>2, <1>7 DEF Busy, AccountOf
    <2>2. /\ req'[r].op = "login" /\ req'[r].sid = s /\ req'[r].list = req[r].list
          /\ req'[r].pc = req[r].pc
      BY <1>1, <1>2 DEF CommandOnly
    <2> QED BY <1>2, <1>4, <1>5, <1>6, <1>7, <2>1, <2>2 DEF ListsInv, Unlisted, ClearInv
  <1>8. \A t \in Session : Live(t)' <=> t = s \/ Live(t)
    BY <1>2, <1>3, NullAssumption DEF Live
  <1>9. \A t \in Session : <<"hset", t>> \in req[r].todo => ~Live(t)
    BY DEF SInv, StartedInv
  <1>10. \A u \in User : ~Busy(r, u) => OpenOf(u)' = OpenOf(u) /\ Listed(u)' = Listed(u)
    BY <1>2, <1>4
  <1> QED BY <1>1, <1>5, <1>7, <1>8, <1>9, <1>10, CommandKeeps

LEMMA HDelSerial ==
    ASSUME IInv, SInv, Serial, Serial', NEW r \in Request, NEW s \in Session, HDel(r, s)
    PROVE  SInv'
  <1>1. /\ CommandOnly(r) /\ <<"hdel", s>> \in req[r].todo /\ owner' = owner
        /\ req'[r].todo = (req[r].todo \ {<<"hdel", s>>}) \cup {<<"srem", s>>}
        /\ removed' = removed \cup {s} /\ userDb' = userDb
    BY ExecutedFacts DEF HDel
  <1>2. sessionDb' = [sessionDb EXCEPT ![s] = Null] /\ sessionDb \in [Session -> Key]
    BY DEF HDel, IInv, TypeOK
  <1>3. \A u \in User : OpenOf(u)' = OpenOf(u) \ {s} /\ Listed(u)' = Listed(u)
    BY <1>1, <1>2, NullAssumption DEF OpenOf, Listed
  <1>4. ASSUME NEW u \in User, s \in OpenOf(u) PROVE Busy(r, u)
    <2>1. owner[s] = u /\ s \notin removed
      BY <1>4, NullAssumption DEF OpenOf, IInv, StoreInv, SessionInv
    <2> QED BY <1>1, <2>1, OwnCommands
  <1>5. /\ \A c \in {"hset", "hsetUser", "hdelUser"} : \A x :
                <<c, x>> \in req'[r].todo <=> <<c, x>> \in req[r].todo
        /\ \A t : t # s /\ <<"hdel", t>> \in req[r].todo => <<"hdel", t>> \in req'[r].todo
    BY <1>1
  <1>6. ASSUME NEW u \in User, ListsInv(r, u), ClearInv(r, u)
        PROVE  ListsInv(r, u)' /\ ClearInv(r, u)'
    <2>1. /\ req'[r].op = req[r].op /\ req'[r].sid = req[r].sid /\ req'[r].key = req[r].key
          /\ req'[r].list = req[r].list /\ req'[r].pc = req[r].pc
      BY <1>1 DEF CommandOnly
    <2>2. Unlisted(r, u)' = Unlisted(r, u)
      BY <1>5, <2>1 DEF Unlisted
    <2>3. ListsInv(r, u)'
      BY <1>3, <1>5, <1>6, <2>1, <2>2 DEF ListsInv
    <2>4. ClearInv(r, u)'
      BY <1>3, <1>5, <1>6, <2>1 DEF ClearInv
    <2> QED BY <2>3, <2>4
  <1>7. \A t \in Session : Live(t)' <=> t # s /\ Live(t)
    BY <1>2 DEF Live
  <1>8. \A t \in Session : <<"hset", t>> \in req[r].todo => ~Live(t)
    BY DEF SInv, StartedInv
  <1>9. \A u \in User : ~Busy(r, u) => OpenOf(u)' = OpenOf(u) /\ Listed(u)' = Listed(u)
    BY <1>3, <1>4
  <1> QED BY <1>1, <1>5, <1>6, <1>7, <1>8, <1>9, CommandKeeps

\* A command that writes no session and sends no write of a list.
LEMMA ListCommandKeeps ==
    ASSUME IInv, SInv, Serial, Serial', NEW r \in Request, CommandOnly(r),
           UNCHANGED <<sessionDb, owner, removed>>,
           \A u \in User : ~Busy(r, u) => Listed(u)' = Listed(u),
           \A u \in User : Busy(r, u) /\ ListsInv(r, u) => ListsInv(r, u)',
           \A c \in {"hset", "hdel"} : \A x : <<c, x>> \in req'[r].todo <=> <<c, x>> \in req[r].todo,
           \A k \in Key : <<"hdelUser", k>> \in req'[r].todo => <<"hdelUser", k>> \in req[r].todo
    PROVE  SInv'
  <1>1. /\ \A u \in User : OpenOf(u)' = OpenOf(u)
        /\ \A s \in Session : Live(s)' <=> Live(s)
    BY DEF OpenOf, Live
  <1>2. \A s \in Session : <<"hset", s>> \in req[r].todo => ~Live(s)
    BY DEF SInv, StartedInv
  <1>3. \A u \in User : ClearInv(r, u) => ClearInv(r, u)'
    BY <1>1 DEF ClearInv, CommandOnly
  <1> QED BY <1>1, <1>2, <1>3, CommandKeeps

LEMMA MinorSerial ==
    ASSUME IInv, SInv, Serial, Serial', NEW r \in Request,
           \/ \E s \in Session : SAdd(r, s) \/ SRem(r, s) \/ XAdd(r, s)
           \/ \E k \in Key : SAddUser(r, k) \/ SRemUser(r, k)
    PROVE  SInv'
  <1>1. PICK c \in {"sadd", "srem", "xadd", "saddUser", "sremUser"}, x \in Session \cup Key :
            /\ <<c, x>> \in req[r].todo /\ Executed(r, <<c, x>>, {})
            /\ UNCHANGED <<sessionDb, userDb, owner, removed>>
    BY DEF SAdd, SRem, XAdd, SAddUser, SRemUser
  <1>2. CommandOnly(r) /\ req'[r].todo = (req[r].todo \ {<<c, x>>}) \cup {}
    BY <1>1, ExecutedFacts
  <1>3. \A d \in {"hset", "hdel", "hsetUser", "hdelUser"} : \A y :
            <<d, y>> \in req'[r].todo <=> <<d, y>> \in req[r].todo
    BY <1>2
  <1>4. \A u \in User : OpenOf(u)' = OpenOf(u) /\ Listed(u)' = Listed(u)
    BY <1>1 DEF OpenOf, Listed
  <1>5. \A u \in User : ListsInv(r, u) => ListsInv(r, u)'
    BY <1>2, <1>3, <1>4 DEF ListsInv, Unlisted, CommandOnly
  <1> QED BY <1>1, <1>2, <1>3, <1>4, <1>5, ListCommandKeeps

LEMMA HSetUserSerial ==
    ASSUME IInv, SInv, Serial, Serial', NEW r \in Request, NEW k \in Key, HSetUser(r, k)
    PROVE  SInv'
  <1>1. /\ CommandOnly(r) /\ <<"hsetUser", k>> \in req[r].todo
        /\ req'[r].todo = (req[r].todo \ {<<"hsetUser", k>>}) \cup {<<"saddUser", k>>}
        /\ UNCHANGED <<sessionDb, owner, removed>>
    BY ExecutedFacts DEF HSetUser
  <1>2. userDb' = [userDb EXCEPT ![k] = req[r].list] /\ userDb \in [Key -> List]
    BY DEF HSetUser, IInv, TypeOK
  <1>3. \A u \in User : OpenOf(u)' = OpenOf(u) /\ OpenOf(u) \subseteq Session
    BY <1>1 DEF OpenOf
  <1>4. \A u \in User : /\ u # k => Listed(u)' = Listed(u)
                        /\ u = k => Listed(u)' = ToSet(OrEmpty(req[r].list))
    BY <1>2 DEF Listed, Key
  <1>5. \A u \in User : ~Busy(r, u) => Listed(u)' = Listed(u)
    BY <1>1, <1>4, OwnCommands
  <1>6. /\ \A c \in {"hset", "hdel", "hdelUser"} : \A x :
                <<c, x>> \in req'[r].todo <=> <<c, x>> \in req[r].todo
        /\ \A x : <<"hsetUser", x>> \in req'[r].todo <=> x # k /\ <<"hsetUser", x>> \in req[r].todo
    BY <1>1
  <1>7. ASSUME NEW u \in User, Busy(r, u), ListsInv(r, u) PROVE ListsInv(r, u)'
    <2>1. /\ req'[r].op = req[r].op /\ req'[r].sid = req[r].sid /\ req'[r].list = req[r].list
          /\ req'[r].pc = req[r].pc /\ req[r].pc \notin {"idle", "getUid", "getList"}
      BY <1>1 DEF CommandOnly
    <2>2. CASE u # k
      BY <1>3, <1>4, <1>6, <1>7, <2>1, <2>2 DEF ListsInv, Unlisted
    <2>3. CASE u = k
      <3>1. /\ OpenOf(u) \ {req[r].sid} \subseteq Listed(u)'
            /\ req[r].op \in {"login", "clearExcept"} => req[r].sid \in Listed(u)'
        BY <1>1, <1>4, <1>7, <2>3 DEF ListsInv
      <3>2. req[r].op = "clearAll" => req[r].sid \notin OpenOf(u)
        BY <1>3, NullAssumption DEF SInv, StartedInv
      <3>3. req[r].op \in {"login", "logout", "clearExcept", "clearAll"}
        BY <1>1 DEF CommandOnly, RequestState, SInv, StartedInv
      <3>4. (OpenOf(u) \ Unlisted(r, u) \subseteq Listed(u))'
        BY <1>3, <2>1, <3>1, <3>2, <3>3 DEF Unlisted
      <3> QED BY <1>3, <1>6, <1>7, <2>1, <2>3, <3>1, <3>4 DEF ListsInv
    <2> QED BY <2>2, <2>3
  <1> QED BY <1>1, <1>5, <1>6, <1>7, ListCommandKeeps

LEMMA HDelUserSerial ==
    ASSUME IInv, SInv, Serial, Serial', NEW r \in Request, NEW k \in Key, HDelUser(r, k)
    PROVE  SInv'
  <1>1. /\ CommandOnly(r) /\ <<"hdelUser", k>> \in req[r].todo
        /\ req'[r].todo = (req[r].todo \ {<<"hdelUser", k>>}) \cup {<<"sremUser", k>>}
        /\ UNCHANGED <<sessionDb, owner, removed>>
    BY ExecutedFacts DEF HDelUser
  <1>2. userDb' = [userDb EXCEPT ![k] = Null] /\ userDb \in [Key -> List]
    BY DEF HDelUser, IInv, TypeOK
  <1>3. req[r].op = "clearAll"
    BY <1>1 DEF SInv, StartedInv
  <1>4. \A u \in User : OpenOf(u)' = OpenOf(u) /\ (u # k => Listed(u)' = Listed(u))
    BY <1>1, <1>2 DEF OpenOf, Listed, Key
  <1>5. \A u \in User : ~Busy(r, u) => Listed(u)' = Listed(u)
    BY <1>1, <1>4, OwnCommands
  <1>6. /\ \A c \in {"hset", "hdel", "hsetUser"} : \A x :
                <<c, x>> \in req'[r].todo <=> <<c, x>> \in req[r].todo
        /\ \A x : <<"hdelUser", x>> \in req'[r].todo => <<"hdelUser", x>> \in req[r].todo
    BY <1>1
  <1>7. ASSUME NEW u \in User, Busy(r, u), ListsInv(r, u) PROVE ListsInv(r, u)'
    <2>1. u = k => OpenOf(u) = {}
      BY <1>1, <1>7 DEF ListsInv
    <2> QED BY <1>1, <1>3, <1>4, <1>6, <1>7, <2>1 DEF ListsInv, Unlisted, CommandOnly
  <1> QED BY <1>1, <1>5, <1>6, <1>7, ListCommandKeeps

-----------------------------------------------------------------------------
(* The inductive invariant. *)

LEMMA SerialStep == IInv /\ HInv /\ SInv /\ Serial /\ Serial' /\ [Next]_vars => SInv'
  <1> SUFFICES ASSUME IInv, HInv, SInv, Serial, Serial', [Next]_vars PROVE SInv'
    OBVIOUS
  <1>1. ASSUME NEW r \in Request, Arrive(r) PROVE SInv'
    BY <1>1, ArriveSerial
  <1>2. ASSUME NEW r \in Request, Progress(r) PROVE SInv'
    BY <1>2, GetUserIdSerial, LoginGetsListSerial, LogoutGetsListSerial, ClearGetsListSerial,
       LogoutStoredSerial, ClearRemovedSerial, FinishSerial, LeaveSerial, HSetSerial, HDelSerial,
       HSetUserSerial, HDelUserSerial, MinorSerial DEF Progress
  <1>3. CASE UNCHANGED vars
    <2>1. /\ \A u \in User : OpenOf(u)' = OpenOf(u) /\ Listed(u)' = Listed(u)
          /\ UNCHANGED <<sessionDb, owner, removed, req>>
      BY <1>3 DEF vars, stored, OpenOf, Listed
    <2>2. \A r \in Request, u \in User : Unlisted(r, u)' = Unlisted(r, u) /\ (Busy(r, u)' <=> Busy(r, u))
      BY <2>1 DEF Unlisted, Busy, AccountOf
    <2>3. \A u \in User : AccountInv(u)'
      BY <2>1, <2>2 DEF SInv, AccountInv, ListsInv, ClearInv, CallerInv
    <2> QED BY <2>1, <2>3 DEF SInv, DrawnInv, StartedInv, InFlight, Live
  <1> QED BY <1>1, <1>2, <1>3 DEF Next

LEMMA InitSInv == Init => SInv
  <1> SUFFICES ASSUME Init PROVE SInv
    OBVIOUS
  <1>1. \A r \in Request : req[r] = Idle
    BY DEF Init
  <1>2. \A u \in User : OpenOf(u) = {}
    BY NullAssumption DEF Init, OpenOf
  <1>3. \A u \in User : AccountInv(u)
    BY <1>1, <1>2 DEF AccountInv, Busy, Idle
  <1> QED BY <1>1, <1>3 DEF Init, SInv, DrawnInv, StartedInv, Idle

\* SInv holds as long as no two requests of one user overlap.
THEOREM SerialInvariant == Spec /\ []Serial => []SInv
  <1>1. [Next]_vars => [NextF]_vars
    BY DEF NextF
  <1> QED BY <1>1, InitSInv, SerialStep, Healthy, Invariant, PTL DEF Spec, SpecF

\* A request that came from a user is busy for that user.
LEMMA EveryRequestHasItsUser ==
    ASSUME IInv, SInv, NEW r \in Request, req[r].pc # "idle"
    PROVE  \E u \in User : Busy(r, u)
  <1>1. req[r] \in RequestState /\ PhaseInv(r) /\ StartedInv(r) /\ owner \in [Session -> Key]
    BY DEF IInv, TypeOK, RequestInv, SInv
  <1>2. req[r].op \in {"login", "logout", "clearExcept", "clearAll"}
    BY <1>1 DEF RequestState, StartedInv
  <1>3. CASE req[r].op \in {"login", "clearAll"}
    BY <1>1, <1>3 DEF PhaseInv, StartedInv, Busy, AccountOf
  <1>4. CASE req[r].op \in {"logout", "clearExcept"}
    <2>1. req[r].sid \in issued /\ issued \subseteq Session
      BY <1>1, <1>4 DEF PhaseInv, IInv, TypeOK
    <2>2. owner[req[r].sid] # Null
      BY <2>1 DEF IInv, StoreInv, FreshInv
    <2> QED BY <1>1, <1>4, <2>1, <2>2 DEF Busy, AccountOf, Key
  <1> QED BY <1>2, <1>3, <1>4

\* Once the requests of a user wait for each other, a clear that is answered has closed
\* every session that was open when it came, except the requesting one.
THEOREM ClearsKill == Spec /\ []Serial => []ClearKillsOpenSessions
  <1>1. IInv /\ SInv => ClearKillsOpenSessions
    <2> SUFFICES ASSUME IInv, SInv, NEW r \in Request, req[r].pc = "done", NEW s \in req[r].opened,
                        Live(s)
                 PROVE  FALSE
      BY DEF ClearKillsOpenSessions
    <2>1. PICK u \in User : Busy(r, u)
      BY EveryRequestHasItsUser
    <2>2. CallerInv(r, u) /\ ClearInv(r, u)
      BY <2>1, BusyFacts
    <2>3. s \in Session
      BY DEF IInv, TypeOK, RequestState
    <2>4. s \in OpenOf(u)
      BY <2>2, <2>3 DEF CallerInv, Live, IInv, StoreInv, SessionInv, OpenOf
    <2> QED BY <2>2, <2>4 DEF CallerInv, ClearInv
  <1>2. [Next]_vars => [NextF]_vars
    BY DEF NextF
  <1> QED BY <1>1, <1>2, SerialInvariant, Invariant, PTL DEF Spec, SpecF

-----------------------------------------------------------------------------
(* The registry: each operation in one step. *)

Opened(s) == IF InFlight("hdel", s) THEN Null ELSE sessionDb[s]
Used(s) == Live(s) \/ s \in removed

LEMMA RegistryStutters ==
    ASSUME \A s \in Session : Opened(s)' = Opened(s), \A s \in Session : Used(s)' <=> Used(s),
           removed \subseteq Session, removed' \subseteq Session, logouts' = logouts
    PROVE  UNCHANGED Registry!vars
  <1>1. [s \in Session |-> Opened(s)]' = [s \in Session |-> Opened(s)]
    OBVIOUS
  <1>2. ({s \in Session : Live(s)} \cup removed)' = {s \in Session : Live(s)} \cup removed
    BY DEF Used
  <1> QED BY <1>1, <1>2 DEF Registry!vars, Opened

LEMMA RegistryCloses ==
    ASSUME NEW S \in SUBSET Session, UNCHANGED <<sessionDb, removed, logouts>>,
           \A s \in Session : Opened(s)' = IF s \in S THEN Null ELSE Opened(s)
    PROVE  Registry!CloseThose(S)
  <1>1. [s \in Session |-> Opened(s)]' = [s \in Session |-> IF s \in S THEN Null ELSE Opened(s)]
    OBVIOUS
  <1>2. [s \in Session |-> IF s \in S THEN Null ELSE Opened(s)]
            = [s \in Session |-> IF s \in S THEN Null ELSE [t \in Session |-> Opened(t)][s]]
    OBVIOUS
  <1>3. UNCHANGED <<{s \in Session : Live(s)} \cup removed, logouts>>
    BY DEF Live
  <1> QED BY <1>1, <1>2, <1>3 DEF Registry!CloseThose, Opened

\* A request that had no command in flight sends removals of the sessions of S.
LEMMA SendingCloses ==
    ASSUME NEW r \in Request, NEW pc, NEW key, NEW list, NEW todo, req[r].todo = {},
           Becomes(r, pc, key, list, todo), NEW s \in Session
    PROVE  Opened(s)' = IF <<"hdel", s>> \in todo THEN Null ELSE Opened(s)
  <1>1. InFlight("hdel", s)' <=> InFlight("hdel", s) \/ <<"hdel", s>> \in todo
    BY DEF Becomes, InFlight
  <1>2. sessionDb'[s] = sessionDb[s]
    BY DEF Becomes, stored
  <1> QED BY <1>1, <1>2 DEF Opened

\* Steps that close nothing.
LEMMA SilentStep ==
    ASSUME IInv, HInv, SInv, NEW r \in Request,
           \/ Arrive(r) \/ GetUserId(r) \/ LoginGetsList(r) \/ LogoutGetsList(r)
           \/ ClearExceptRemoved(r) \/ ClearAllRemoved(r) \/ Finish(r)
           \/ LoginReturns(r) \/ LoginFails(r) \/ Return(r)
    PROVE  UNCHANGED Registry!vars
  <1>1. removed \subseteq Session /\ PhaseInv(r) /\ req \in [Request -> RequestState]
    BY DEF IInv, TypeOK, RequestInv
  <1>2. ASSUME UNCHANGED <<sessionDb, removed, logouts>>,
               \A o \in Request \ {r} : req'[o] = req[o],
               \A s \in Session : <<"hdel", s>> \in req'[r].todo <=> <<"hdel", s>> \in req[r].todo
        PROVE  UNCHANGED Registry!vars
    <2>1. \A s \in Session : InFlight("hdel", s)' <=> InFlight("hdel", s)
      BY <1>2 DEF InFlight
    <2>2. \A s \in Session : Opened(s)' = Opened(s) /\ (Used(s)' <=> Used(s))
      BY <1>2, <2>1 DEF Opened, Used, Live
    <2> QED BY <1>1, <1>2, <2>2, RegistryStutters
  <1>3. ASSUME NEW pc, NEW key, NEW list, NEW todo, Becomes(r, pc, key, list, todo),
               \A s \in Session : <<"hdel", s>> \in todo <=> <<"hdel", s>> \in req[r].todo
        PROVE  UNCHANGED Registry!vars
    BY <1>2, <1>3 DEF Becomes, stored
  <1>4. CASE Arrive(r)
    <2>1. PICK op, pc, sid, key, opened : Begin(r, op, pc, sid, key, opened)
      BY <1>4 DEF Arrive, BeginLogin, BeginLogout, BeginClearExcept, BeginClearAll
    <2>2. PICK q : q = [Idle EXCEPT !.op = op, !.pc = pc, !.sid = sid, !.key = key, !.opened = opened]
      OBVIOUS
    <2>3. q.todo = {} /\ req' = [req EXCEPT ![r] = q] /\ req[r].pc = "idle"
          /\ UNCHANGED <<sessionDb, removed, logouts>>
      BY <2>1, <2>2 DEF Begin, Idle, stored
    <2> HIDE <2>2
    <2>4. req'[r].todo = {} /\ req[r].todo = {} /\ \A o \in Request \ {r} : req'[o] = req[o]
      BY <1>1, <2>3 DEF PhaseInv
    <2> QED BY <1>2, <2>3, <2>4
  <1>5. CASE GetUserId(r)
    BY <1>3, <1>5, PhaseFacts
  <1>6. CASE LoginGetsList(r)
    <2>1. req[r].todo = {}
      BY <1>1, <1>6 DEF LoginGetsList, PhaseInv
    <2>2. Becomes(r, "store", req[r].key, Append(OrEmpty(userDb[req[r].key]), req[r].sid),
                  {<<"hset", req[r].sid>>, <<"hsetUser", req[r].key>>})
      BY <1>6, PhaseFacts
    <2> QED BY <1>3, <2>1, <2>2
  <1>7. CASE LogoutGetsList(r)
    <2>1. req[r].todo = {}
      BY <1>1, <1>7 DEF LogoutGetsList, PhaseInv
    <2> QED BY <1>3, <1>7, <2>1, PhaseFacts
  <1>8. CASE ClearExceptRemoved(r)
    <2>1. req[r].todo = {}
      BY <1>8, SettledEmpty DEF ClearExceptRemoved
    <2>2. Becomes(r, "storeList", req[r].key, <<req[r].sid>>, {<<"hsetUser", req[r].key>>})
      BY <1>8, PhaseFacts
    <2> QED BY <1>3, <2>1, <2>2
  <1>9. CASE ClearAllRemoved(r)
    <2>1. req[r].todo = {}
      BY <1>9, SettledEmpty DEF ClearAllRemoved
    <2>2. Becomes(r, "drop", req[r].key, req[r].list, {<<"hdelUser", req[r].key>>})
      BY <1>9, PhaseFacts
    <2> QED BY <1>3, <2>1, <2>2
  <1>10. CASE Finish(r)
    <2>1. req[r].todo = {}
      BY <1>10, SettledEmpty DEF Finish
    <2> QED BY <1>3, <1>10, <2>1, PhaseFacts
  <1>11. CASE LoginReturns(r) \/ LoginFails(r) \/ Return(r)
    <2>1. req' = [req EXCEPT ![r] = Idle] /\ req[r].todo = {} /\ UNCHANGED <<sessionDb, removed, logouts>>
      BY <1>11 DEF LoginReturns, LoginFails, Return, Leave, stored
    <2>2. req'[r].todo = {} /\ \A o \in Request \ {r} : req'[o] = req[o]
      BY <1>1, <2>1 DEF Idle
    <2> QED BY <1>2, <2>1, <2>2
  <1> QED BY <1>4, <1>5, <1>6, <1>7, <1>8, <1>9, <1>10, <1>11

\* The HSET of a login is not followed by an HDEL before it is executed.
LEMMA NotYetRemoved ==
    ASSUME IInv, SInv, Serial, NEW s \in Session, InFlight("hset", s)
    PROVE  ~InFlight("hdel", s) /\ s \notin removed /\ ~Live(s)
  <1>1. PICK r \in Request : <<"hset", s>> \in req[r].todo
    BY DEF InFlight
  <1>2. s \notin removed /\ ~Live(s) /\ req[r].op = "login" /\ Busy(r, owner[s]) /\ owner[s] \in User
    BY <1>1, OwnCommands DEF IInv, RequestInv, CommandInv, SInv, StartedInv
  <1>3. ASSUME NEW o \in Request, <<"hdel", s>> \in req[o].todo PROVE FALSE
    <2>1. o = r
      BY <1>2, <1>3, OwnCommands DEF Serial
    <2> QED BY <1>2, <1>3, <2>1 DEF IInv, RequestInv, CommandInv, ActsFor
  <1> QED BY <1>2, <1>3 DEF InFlight

\* Each HSET opens a session of the registry.
LEMMA HSetOpens ==
    ASSUME IInv, SInv, Serial, NEW r \in Request, NEW s \in Session, HSet(r, s)
    PROVE  Registry!Next
  <1>1. /\ CommandOnly(r) /\ <<"hset", s>> \in req[r].todo
        /\ req'[r].todo = (req[r].todo \ {<<"hset", s>>}) \cup {<<"sadd", s>>}
        /\ UNCHANGED <<removed, logouts>>
    BY ExecutedFacts DEF HSet
  <1>2. /\ owner[s] \in User /\ req[r].key = owner[s] /\ ~InFlight("hdel", s)
        /\ s \notin removed /\ ~Live(s)
    BY <1>1, OwnCommands, NotYetRemoved DEF InFlight
  <1>3. sessionDb' = [sessionDb EXCEPT ![s] = owner[s]] /\ sessionDb \in [Session -> Key]
    BY <1>2 DEF HSet, IInv, TypeOK
  <1>4. \A t \in Session : InFlight("hdel", t)' <=> InFlight("hdel", t)
    BY <1>1 DEF InFlight, CommandOnly
  <1>5. [t \in Session |-> Opened(t)]' = [[t \in Session |-> Opened(t)] EXCEPT ![s] = owner[s]]
    <2>1. \A t \in Session : Opened(t)' = IF t = s THEN owner[s] ELSE Opened(t)
      BY <1>2, <1>3, <1>4 DEF Opened
    <2> QED BY <2>1
  <1>6. ({t \in Session : Live(t)} \cup removed)' = ({t \in Session : Live(t)} \cup removed) \cup {s}
    BY <1>1, <1>2, <1>3, NullAssumption DEF Live
  <1>7. s \notin {t \in Session : Live(t)} \cup removed
    BY <1>2
  <1>8. PICK u \in User : u = owner[s]
    BY <1>2
  <1>9. Registry!Open(u)
    BY <1>1, <1>5, <1>6, <1>7, <1>8 DEF Registry!Open, Opened
  <1> QED BY <1>9 DEF Registry!Next

\* A session has ended for the registry when its HDEL was sent.
LEMMA HDelStutters ==
    ASSUME IInv, SInv, NEW r \in Request, NEW s \in Session, HDel(r, s)
    PROVE  UNCHANGED Registry!vars
  <1>1. /\ CommandOnly(r) /\ <<"hdel", s>> \in req[r].todo /\ ~InFlight("hset", s)
        /\ req'[r].todo = (req[r].todo \ {<<"hdel", s>>}) \cup {<<"srem", s>>}
        /\ removed' = removed \cup {s} /\ logouts' = logouts
    BY ExecutedFacts DEF HDel
  <1>2. sessionDb' = [sessionDb EXCEPT ![s] = Null] /\ sessionDb \in [Session -> Key]
        /\ removed \subseteq Session
    BY DEF HDel, IInv, TypeOK
  <1>3. Opened(s) = Null /\ Opened(s)' = Null
    BY <1>1, <1>2 DEF Opened, InFlight
  <1>4. \A t \in Session \ {s} : Opened(t)' = Opened(t)
    <2>1. \A t \in Session \ {s} : InFlight("hdel", t)' <=> InFlight("hdel", t)
      BY <1>1 DEF InFlight, CommandOnly
    <2> QED BY <1>2, <2>1 DEF Opened
  <1>5. Used(s)
    BY <1>1 DEF IInv, RequestInv, CommandInv, SInv, DrawnInv, Used
  <1>6. \A t \in Session : Used(t)' <=> Used(t)
    BY <1>1, <1>2, <1>5 DEF Used, Live
  <1> QED BY <1>1, <1>2, <1>3, <1>4, <1>6, RegistryStutters

\* Each XADD announces a session that was opened and has ended.
LEMMA XAddAnnounces ==
    ASSUME IInv, HInv, SInv, Serial, NEW r \in Request, NEW s \in Session, XAdd(r, s)
    PROVE  Registry!Next
  <1>1. /\ CommandOnly(r) /\ <<"xadd", s>> \in req[r].todo
        /\ req'[r].todo = (req[r].todo \ {<<"xadd", s>>}) \cup {}
        /\ logouts' = logouts \cup {s} /\ UNCHANGED <<sessionDb, removed>>
    BY ExecutedFacts DEF XAdd
  <1>2. s \in removed \/ <<"hdel", s>> \in req[r].todo
    BY <1>1 DEF HInv, PairInv
  <1>3. Opened(s) = Null
    BY <1>2 DEF Opened, InFlight, IInv, StoreInv, SessionInv
  <1>4. Used(s)
    <2>1. ASSUME <<"hdel", s>> \in req[r].todo PROVE Used(s)
      BY <2>1, NotYetRemoved DEF IInv, RequestInv, CommandInv, SInv, DrawnInv, Used, InFlight
    <2> QED BY <1>2, <2>1 DEF Used
  <1>5. \A t \in Session : InFlight("hdel", t)' <=> InFlight("hdel", t)
    BY <1>1 DEF InFlight, CommandOnly
  <1>6. [t \in Session |-> Opened(t)]' = [t \in Session |-> Opened(t)]
    BY <1>1, <1>5 DEF Opened
  <1>7. ({t \in Session : Live(t)} \cup removed)' = {t \in Session : Live(t)} \cup removed
    BY <1>1 DEF Live
  <1>8. s \in {t \in Session : Live(t)} \cup removed
    BY <1>4 DEF Used
  <1>9. [t \in Session |-> Opened(t)][s] = Null
    BY <1>3
  <1>10. Registry!Announce(s)
    BY <1>1, <1>6, <1>7, <1>8, <1>9 DEF Registry!Announce, Opened
  <1> QED BY <1>10 DEF Registry!Next

\* A logout closes its session when it sends the HDEL, unless a clear was faster.
LEMMA LogoutCloses ==
    ASSUME IInv, HInv, SInv, NEW r \in Request, LogoutStored(r)
    PROVE  Registry!Next \/ UNCHANGED Registry!vars
  <1>1. PICK s, key, list, todo :
            /\ s = req[r].sid /\ todo = RemoveSessions({s})
            /\ Becomes(r, "remove", key, list, todo)
    BY PhaseFacts
  <1>2. req[r].todo = {} /\ s \in Session /\ removed \subseteq Session
    <2>1. req[r].op = "logout" /\ Settled(r)
      BY DEF LogoutStored
    <2>2. req[r].todo = {}
      BY <2>1, SettledEmpty
    <2> QED BY <1>1, <2>1, <2>2 DEF IInv, RequestInv, PhaseInv, TypeOK
  <1>3. UNCHANGED <<sessionDb, removed, logouts>>
    BY <1>1 DEF Becomes, stored
  <1>4. \A t \in Session : <<"hdel", t>> \in todo <=> t = s
    BY <1>1 DEF RemoveSessions
  <1>5. \A t \in Session : Opened(t)' = IF t \in {s} THEN Null ELSE Opened(t)
    BY <1>1, <1>2, <1>4, SendingCloses
  <1>6. CASE Opened(s) = Null
    <2>1. \A t \in Session : Opened(t)' = Opened(t) /\ (Used(t)' <=> Used(t))
      BY <1>3, <1>5, <1>6 DEF Used, Live
    <2> QED BY <1>2, <1>3, <2>1, RegistryStutters
  <1>7. CASE Opened(s) # Null
    <2>1. Registry!CloseThose({s})
      BY <1>2, <1>3, <1>5, RegistryCloses
    <2>2. [t \in Session |-> Opened(t)][s] # Null
      BY <1>2, <1>7
    <2>3. Registry!Close(s)
      BY <2>1, <2>2 DEF Registry!Close, Opened
    <2> QED BY <1>2, <2>3 DEF Registry!Next
  <1> QED BY <1>6, <1>7

\* A clear closes all it is asked to close at once, when it has read the list.
LEMMA ClearCloses ==
    ASSUME IInv, HInv, SInv, Serial, NEW r \in Request, ClearGetsList(r)
    PROVE  Registry!Next \/ UNCHANGED Registry!vars
  <1>1. PICK sid, k, list, todo, S :
            /\ sid = req[r].sid /\ k = req[r].key /\ S = ToSet(OrEmpty(userDb[k])) \ {sid}
            /\ todo = RemoveSessions(S) /\ Becomes(r, "remove", k, list, todo)
    BY PhaseFacts
  <1>2. /\ req[r].todo = {} /\ k \in Key /\ req[r].pc = "getList" /\ removed \subseteq Session
        /\ req[r].op \in {"clearExcept", "clearAll"} /\ owner \in [Session -> Key]
    BY <1>1 DEF ClearGetsList, IInv, RequestInv, PhaseInv, TypeOK, RequestState
  <1>3. UNCHANGED <<sessionDb, removed, logouts>>
    BY <1>1 DEF Becomes, stored
  <1>4. S \subseteq Session /\ \A t \in S : Belongs(t, k)
    <2>1. userDb[k] \in List /\ ListOK(userDb[k], k)
      BY <1>2 DEF IInv, TypeOK, StoreInv, StoredListsInv
    <2>2. OrEmpty(userDb[k]) \in Seq(Session)
      BY <2>1 DEF List, OrEmpty
    <2> QED BY <1>1, <2>1, <2>2 DEF ListOK, ToSet
  <1>5. \A t \in Session : Opened(t)' = IF t \in S THEN Null ELSE Opened(t)
    <2>1. \A t \in Session : <<"hdel", t>> \in todo <=> t \in S
      BY <1>1 DEF RemoveSessions
    <2> QED BY <1>1, <1>2, <2>1, SendingCloses
  <1>6. \A t \in Session : sessionDb[t] # Null => sessionDb[t] = owner[t] /\ t \notin removed
    BY DEF IInv, StoreInv, SessionInv
  <1>7. CASE k = Null
    <2>1. \A t \in S : Opened(t) = Null
      BY <1>4, <1>6, <1>7 DEF Belongs, Opened
    <2>2. \A t \in Session : Opened(t)' = Opened(t) /\ (Used(t)' <=> Used(t))
      BY <1>3, <1>5, <2>1 DEF Used, Live
    <2> QED BY <1>2, <1>3, <2>2, RegistryStutters
  <1>8. CASE k # Null
    <2>1. k \in User /\ Busy(r, k)
      BY <1>1, <1>2, <1>8 DEF Key, IInv, RequestInv, PhaseInv, Belongs, Busy, AccountOf
    <2>2. ListsInv(r, k) /\ CallerInv(r, k)
      BY <2>1, BusyFacts
    <2>3. \A t \in Session : Opened(t) = k /\ t # sid => t \in S
      <3>1. OpenOf(k) \subseteq Listed(k)
        BY <1>2, <2>2 DEF ListsInv, Unlisted
      <3> QED BY <1>1, <1>8, <3>1 DEF OpenOf, Listed, Opened
    <2>4. \A t \in S : Opened(t) \in {k, Null} /\ t # sid
      BY <1>1, <1>4, <1>6, <1>8 DEF Belongs, Opened
    <2>5. \A t \in Session : Opened(t)' = IF Opened(t) = k /\ t # sid THEN Null ELSE Opened(t)
      BY <1>5, <2>3, <2>4
    <2>6. CASE req[r].op = "clearAll"
      <3>1. PICK T \in SUBSET Session : T = {t \in Session : [x \in Session |-> Opened(x)][t] = k}
        OBVIOUS
      <3>2. \A t \in Session : t # sid
        BY <1>1, <2>6, NullAssumption DEF SInv, StartedInv
      <3>3. \A t \in Session : Opened(t)' = IF t \in T THEN Null ELSE Opened(t)
        BY <2>5, <3>1, <3>2
      <3>4. Registry!CloseThose(T)
        BY <1>3, <3>3, RegistryCloses
      <3>5. Registry!CloseAll(k)
        BY <3>1, <3>4 DEF Registry!CloseAll, Registry!CloseThose, Opened
      <3> QED BY <2>1, <3>5 DEF Registry!Next
    <2>7. CASE req[r].op = "clearExcept"
      <3>1. sid \in Session /\ sessionDb[sid] = k /\ owner[sid] = k /\ sid \notin removed
        BY <1>1, <1>2, <1>6, <1>8, <2>2, <2>7 DEF CallerInv, OpenOf
      <3>2. Opened(sid) = k
        <4>1. ASSUME NEW o \in Request, <<"hdel", sid>> \in req[o].todo PROVE FALSE
          <5>1. o = r
            BY <2>1, <3>1, <4>1, OwnCommands DEF Serial
          <5> QED BY <1>2, <4>1, <5>1
        <4> QED BY <3>1, <4>1 DEF Opened, InFlight
      <3>3. PICK T \in SUBSET Session :
                T = {t \in Session \ {sid} : [x \in Session |-> Opened(x)][t] = [x \in Session |-> Opened(x)][sid]}
        OBVIOUS
      <3>4. \A t \in Session : Opened(t)' = IF t \in T THEN Null ELSE Opened(t)
        BY <2>5, <3>1, <3>2, <3>3
      <3>5. Registry!CloseThose(T)
        BY <1>3, <3>4, RegistryCloses
      <3>6. [x \in Session |-> Opened(x)][sid] # Null
        BY <1>8, <3>1, <3>2
      <3>7. Registry!CloseOthers(sid)
        BY <3>3, <3>5, <3>6 DEF Registry!CloseOthers, Registry!CloseThose, Opened
      <3> QED BY <3>1, <3>7 DEF Registry!Next
    <2> QED BY <1>2, <2>6, <2>7
  <1> QED BY <1>7, <1>8

LEMMA MinorStutters ==
    ASSUME IInv, NEW r \in Request,
           \/ \E s \in Session : SAdd(r, s) \/ SRem(r, s)
           \/ \E k \in Key : HSetUser(r, k) \/ SAddUser(r, k) \/ HDelUser(r, k) \/ SRemUser(r, k)
    PROVE  UNCHANGED Registry!vars
  <1>1. PICK c, x, next :
            /\ c # "hdel" /\ \A s : <<"hdel", s>> \notin next
            /\ <<c, x>> \in req[r].todo /\ Executed(r, <<c, x>>, next)
    <2>1. \A d \in {"saddUser", "sremUser"} : \A x, s : <<"hdel", s>> \notin {<<d, x>>}
      OBVIOUS
    <2> QED BY <2>1 DEF SAdd, SRem, HSetUser, SAddUser, HDelUser, SRemUser
  <1>2. CommandOnly(r) /\ req'[r].todo = (req[r].todo \ {<<c, x>>}) \cup next
    BY <1>1, ExecutedFacts
  <1>3. UNCHANGED <<sessionDb, removed, logouts>> /\ removed \subseteq Session
    BY DEF SAdd, SRem, HSetUser, SAddUser, HDelUser, SRemUser, IInv, TypeOK
  <1>4. \A s : <<"hdel", s>> \in req'[r].todo <=> <<"hdel", s>> \in req[r].todo
    BY <1>1, <1>2
  <1>5. \A s \in Session : InFlight("hdel", s)' <=> InFlight("hdel", s)
    BY <1>2, <1>4 DEF InFlight, CommandOnly
  <1>6. \A s \in Session : Opened(s)' = Opened(s) /\ (Used(s)' <=> Used(s))
    BY <1>3, <1>5 DEF Opened, Used, Live
  <1> QED BY <1>3, <1>6, RegistryStutters

LEMMA RegistryStep == IInv /\ HInv /\ SInv /\ Serial /\ [Next]_vars => [Registry!Next]_(Registry!vars)
  <1> SUFFICES ASSUME IInv, HInv, SInv, Serial, [Next]_vars
               PROVE  Registry!Next \/ UNCHANGED Registry!vars
    OBVIOUS
  <1>1. ASSUME NEW r \in Request, Arrive(r) \/ Progress(r)
        PROVE  Registry!Next \/ UNCHANGED Registry!vars
    BY <1>1, SilentStep, LogoutCloses, ClearCloses, HSetOpens, HDelStutters, XAddAnnounces,
       MinorStutters DEF Progress
  <1>2. CASE UNCHANGED vars
    BY <1>2 DEF vars, stored, Registry!vars, InFlight, Live
  <1> QED BY <1>1, <1>2 DEF Next

\* When the requests of each user wait for each other, the store is the registry: the
\* commands of a request, spread over two connections, look like one step to everybody.
THEOREM Refines == Spec /\ []Serial => ImplementsRegistry
  <1>1. Init => Registry!Init
    BY DEF Init, Registry!Init, Idle, InFlight, Live
  <1>2. [Next]_vars => [NextF]_vars
    BY DEF NextF
  <1> QED BY <1>1, <1>2, RegistryStep, SerialInvariant, Healthy, Invariant, PTL
          DEF Spec, SpecF, ImplementsRegistry, Registry!Spec
=============================================================================
