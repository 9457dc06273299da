------------------------- MODULE UserAccountsProofs -------------------------
(***************************************************************************)
(* What holds of UserAccounts for every set of users, requests and         *)
(* clients, faults included.                                               *)
(***************************************************************************)
EXTENDS UserAccounts, TLAPS

Clean(state) == ~state.open /\ state.lock = Null /\ ~state.lost

\* The awaits of a request that has borrowed a client.
Holding == {"select", "begin", "update", "commit", "rollback"}

\* A lent client serves one request, which has no other client; one that was lent for
\* a SELECT is as it was in the pool.
ClientInv(c) ==
    /\ client[c].by = Null => Clean(client[c])
    /\ client[c].by # Null =>
        /\ req[client[c].by].pc \in Holding
        /\ req[client[c].by].pc = "select" => Clean(client[c])
        /\ \A d \in Client : client[d].by = client[c].by => d = c

\* Only the user of its request is locked, and a locked row stays.
LockInv(c) ==
    client[c].lock # Null =>
        /\ client[c].by # Null /\ client[c].lock = req[client[c].by].user
        /\ row[client[c].lock] # Null

\* A request waits for one client at a time.
QueueInv ==
    /\ \A i \in 1..Len(waiting) : req[waiting[i]].pc = "connect"
    /\ \A i, j \in 1..Len(waiting) : waiting[i] = waiting[j] => i = j

\* What a request has read is what the user was given, and it migrates a password
\* that it has found right.
Founded(x) ==
    /\ x.job = "get" => x.user \in User
    /\ x.pc = "password" =>
        /\ x.user \in User /\ x.read \in Row
        /\ \A p \in Password : HasPassword(x.read, p) => p \in had[x.user]
    /\ x.job = "migrate" => x.user \in User /\ x.password \in had[x.user] \ {Empty}

AccountsInv ==
    /\ TypeOK /\ PasswordsAreGiven /\ QueueInv
    /\ \A c \in Client : ClientInv(c) /\ LockInv(c)
    /\ \A r \in Request : Founded(req[r])

-----------------------------------------------------------------------------
\* A step of one request that neither borrows nor returns a client.
LEMMA RequestStep ==
  ASSUME AccountsInv, NEW r \in Request, NEW x \in RequestState,
         req' = [req EXCEPT ![r] = x], UNCHANGED <<row, client, had>>,
         Founded(x), req[r].pc \notin Holding \cup {"connect"},
         \/ x.pc # "connect" /\ UNCHANGED waiting
         \/ x.pc = "connect" /\ waiting' = Append(waiting, r)
  PROVE  AccountsInv'
  <1> USE NullAssumption
  <1>1. /\ req' \in [Request -> RequestState] /\ req'[r] = x
        /\ \A q \in Request \ {r} : req'[q] = req[q]
    BY DEF AccountsInv, TypeOK
  <1>2. waiting' \in Seq(Request)
    BY DEF AccountsInv, TypeOK
  <1>3. TypeOK' /\ PasswordsAreGiven'
    BY <1>1, <1>2 DEF AccountsInv, TypeOK, PasswordsAreGiven, HasPassword, IsEquals
  <1>4. \A i \in 1..Len(waiting) : waiting[i] \in Request \ {r}
    BY DEF AccountsInv, TypeOK, QueueInv
  <1>5. QueueInv'
    <2>1. CASE x.pc # "connect" /\ UNCHANGED waiting
      BY <1>1, <1>4, <2>1 DEF AccountsInv, TypeOK, QueueInv
    <2>2. CASE x.pc = "connect" /\ waiting' = Append(waiting, r)
      <3>1. /\ Len(waiting') = Len(waiting) + 1 /\ Len(waiting) \in Nat
            /\ waiting'[Len(waiting) + 1] = r
            /\ \A i \in 1..Len(waiting) : waiting'[i] = waiting[i]
        BY <2>2 DEF AccountsInv, TypeOK
      <3>2. \A i \in 1..Len(waiting') : i \in 1..Len(waiting) \/ i = Len(waiting) + 1
        BY <3>1
      <3>3. \A i \in 1..Len(waiting') : req'[waiting'[i]].pc = "connect"
        BY <1>1, <1>4, <2>2, <3>1, <3>2 DEF AccountsInv, QueueInv
      <3>4. \A i, j \in 1..Len(waiting') : waiting'[i] = waiting'[j] => i = j
        BY <1>4, <3>1, <3>2 DEF AccountsInv, QueueInv
      <3> QED BY <3>3, <3>4 DEF QueueInv
    <2> QED BY <2>1, <2>2
  <1>6. ASSUME NEW c \in Client PROVE ClientInv(c)' /\ LockInv(c)'
    <2>1. ClientInv(c) /\ LockInv(c) /\ client[c] \in ClientState
      BY DEF AccountsInv, TypeOK
    <2>2. client[c].by # Null => client[c].by \in Request \ {r}
      BY <2>1 DEF ClientInv, ClientState
    <2> QED BY <1>1, <2>1, <2>2 DEF ClientInv, LockInv, Clean
  <1>7. ASSUME NEW q \in Request PROVE Founded(req[q])'
    BY <1>1 DEF AccountsInv, Founded, HasPassword, IsEquals
  <1> QED BY <1>3, <1>5, <1>6, <1>7 DEF AccountsInv

\* A step of the request that has borrowed client c, and maybe returns it.
LEMMA ClientStep ==
  ASSUME AccountsInv, NEW r \in Request, NEW c \in Client, client[c].by = r,
         NEW x \in RequestState, NEW new \in ClientState,
         req' = [req EXCEPT ![r] = x], client' = [client EXCEPT ![c] = new],
         UNCHANGED <<waiting, had>>, row' \in [User -> Row \cup {Null}],
         \A u \in User : row[u] # Null => row'[u] # Null,
         PasswordsAreGiven', Founded(x), x.pc \notin {"connect", "select"},
         new.by = Null => Clean(new),
         new.by # Null => new.by = r /\ x.pc \in Holding,
         new.lock # Null => new.lock = x.user /\ row'[new.lock] # Null
  PROVE  AccountsInv'
  <1> USE NullAssumption
  <1>1. /\ req' \in [Request -> RequestState] /\ req'[r] = x
        /\ \A q \in Request \ {r} : req'[q] = req[q]
    BY DEF AccountsInv, TypeOK
  <1>2. /\ client' \in [Client -> ClientState] /\ client'[c] = new
        /\ \A d \in Client \ {c} : client'[d] = client[d]
    BY DEF AccountsInv, TypeOK
  <1>3. TypeOK'
    BY <1>1, <1>2 DEF AccountsInv, TypeOK
  <1>4. req[r].pc \in Holding /\ \A d \in Client : client[d].by = r => d = c
    BY DEF AccountsInv, ClientInv
  <1>5. \A i \in 1..Len(waiting) : waiting[i] \in Request \ {r}
    BY <1>4 DEF AccountsInv, TypeOK, QueueInv, Holding
  <1>6. QueueInv'
    BY <1>1, <1>5 DEF AccountsInv, TypeOK, QueueInv
  <1>7. ASSUME NEW d \in Client PROVE ClientInv(d)' /\ LockInv(d)'
    <2>1. CASE d = c
      <3>1. ClientInv(c)'
        BY <1>1, <1>2, <1>4 DEF ClientInv
      <3>2. LockInv(c)'
        BY <1>1, <1>2 DEF LockInv, Clean
      <3> QED BY <2>1, <3>1, <3>2
    <2>2. CASE d # c
      <3>1. ClientInv(d) /\ LockInv(d) /\ client[d] \in ClientState /\ client'[d] = client[d]
        BY <1>2, <2>2 DEF AccountsInv, TypeOK
      <3>2. client[d].by # Null => client[d].by \in Request \ {r}
        BY <1>4, <2>2, <3>1 DEF ClientState
      <3>3. ClientInv(d)'
        BY <1>1, <1>2, <3>1, <3>2 DEF ClientInv, Clean
      <3>4. LockInv(d)'
        BY <1>1, <3>1, <3>2 DEF LockInv, ClientState
      <3> QED BY <3>3, <3>4
    <2> QED BY <2>1, <2>2
  <1>8. ASSUME NEW q \in Request PROVE Founded(req[q])'
    BY <1>1 DEF AccountsInv, Founded, HasPassword, IsEquals
  <1> QED BY <1>3, <1>6, <1>7, <1>8 DEF AccountsInv

\* release() in a state with no transaction: the pool has a clean client.
LEMMA ReleasedClean ==
  ASSUME NEW c \in Client, NEW state \in ClientState, Release(c, state),
         ~state.open, state.lock = Null
  PROVE  \E new \in ClientState :
            client' = [client EXCEPT ![c] = new] /\ new.by = Null /\ Clean(new)
  <1> DEFINE new == IF state.lost THEN Pooled ELSE [state EXCEPT !.by = Null]
  <1>1. new \in ClientState /\ new.by = Null /\ Clean(new)
    BY DEF ClientState, Pooled, Clean
  <1>2. client' = [client EXCEPT ![c] = new]
    BY DEF Release
  <1> QED BY <1>1, <1>2

-----------------------------------------------------------------------------
LEMMA AccountsInit == Init => AccountsInv
  <1> SUFFICES ASSUME Init PROVE AccountsInv
    OBVIOUS
  <1> USE NullAssumption
  <1>1. /\ Pooled \in ClientState /\ Clean(Pooled) /\ Pooled.by = Null
        /\ Idle \in RequestState /\ Founded(Idle)
    BY DEF Pooled, ClientState, Clean, Idle, RequestState, Founded
  <1>2. TypeOK /\ PasswordsAreGiven /\ QueueInv
    BY <1>1 DEF Init, TypeOK, PasswordsAreGiven, QueueInv
  <1>3. ASSUME NEW c \in Client PROVE ClientInv(c) /\ LockInv(c)
    BY <1>1 DEF Init, ClientInv, LockInv, Clean
  <1>4. ASSUME NEW r \in Request PROVE Founded(req[r])
    BY <1>1 DEF Init
  <1> QED BY <1>2, <1>3, <1>4 DEF AccountsInv

\* The steps of a request that do not concern the pool's clients, one by one.
LEMMA RequestSteps ==
  ASSUME AccountsInv, NEW r \in Request,
         \/ \E n \in Name, p \in Password : Login(r, n, p)
         \/ \E u \in User : WhoAmI(r, u)
         \/ CheckPassword(r) \/ Refuse(r) \/ AddSession(r) \/ Answer(r)
  PROVE  AccountsInv'
  <1> USE NullAssumption
  <1> USE DEF Holding
  <1>1. req[r] \in RequestState /\ Founded(req[r]) /\ Idle \in RequestState
    BY DEF AccountsInv, TypeOK, Idle, RequestState
  <1>2. ASSUME NEW n \in Name, NEW p \in Password, Login(r, n, p) PROVE AccountsInv'
    <2> DEFINE x == [Idle EXCEPT !.name = n, !.password = p, !.job = "filter", !.pc = "connect"]
    <2>1. x \in RequestState /\ Founded(x) /\ x.pc = "connect"
      BY DEF Idle, RequestState, Founded
    <2>2. /\ req' = [req EXCEPT ![r] = x] /\ waiting' = Append(waiting, r)
          /\ UNCHANGED <<row, client, had>> /\ req[r].pc = "idle"
      BY <1>2 DEF Login, Connecting, Idle
    <2> HIDE DEF x
    <2> QED BY <2>1, <2>2, RequestStep
  <1>3. ASSUME NEW u \in User, WhoAmI(r, u) PROVE AccountsInv'
    <2> DEFINE x == [Idle EXCEPT !.user = u, !.job = "get", !.pc = "connect"]
    <2>1. x \in RequestState /\ Founded(x) /\ x.pc = "connect"
      BY DEF Idle, RequestState, Founded
    <2>2. /\ req' = [req EXCEPT ![r] = x] /\ waiting' = Append(waiting, r)
          /\ UNCHANGED <<row, client, had>> /\ req[r].pc = "idle"
      BY <1>3 DEF WhoAmI, Connecting, Idle
    <2> HIDE DEF x
    <2> QED BY <2>1, <2>2, RequestStep
  <1>4. CASE CheckPassword(r)
    <2>1. req[r].password \in Password /\ req[r].password \in had[req[r].user] \ {Empty} /\ req[r].user \in User
      <3>1. /\ req[r].pc = "password" /\ req[r].read \in Row /\ req[r].user \in User
            /\ HasPassword(req[r].read, req[r].password)
        BY <1>1, <1>4 DEF CheckPassword, Founded
      <3>2. req[r].read.hash \in Hash /\ req[r].read.hash.of = req[r].password
        BY <3>1 DEF HasPassword, IsEquals, Row
      <3>3. req[r].password \in Password
        BY <3>2 DEF Hash
      <3>4. req[r].password # Empty
        BY <3>1 DEF HasPassword, IsEquals
      <3> QED BY <1>1, <3>1, <3>3, <3>4 DEF Founded
    <2> DEFINE x == [req[r] EXCEPT !.job = "migrate", !.pc = "connect"]
               y == [req[r] EXCEPT !.pc = "session"]
    <2>2. x \in RequestState /\ Founded(x) /\ x.pc = "connect"
      BY <1>1, <2>1 DEF RequestState, Founded
    <2>3. y \in RequestState /\ Founded(y) /\ y.pc = "session"
      BY <1>1 DEF RequestState, Founded
    <2>4. /\ UNCHANGED <<row, client, had>> /\ req[r].pc = "password"
          /\ \/ req' = [req EXCEPT ![r] = x] /\ waiting' = Append(waiting, r)
             \/ req' = [req EXCEPT ![r] = y] /\ UNCHANGED waiting
      BY <1>4 DEF CheckPassword, Connecting
    <2> HIDE DEF x, y
    <2>5. CASE req' = [req EXCEPT ![r] = x] /\ waiting' = Append(waiting, r)
      BY <2>2, <2>4, <2>5, RequestStep
    <2>6. CASE req' = [req EXCEPT ![r] = y] /\ UNCHANGED waiting
      BY <2>3, <2>4, <2>6, RequestStep
    <2> QED BY <2>4, <2>5, <2>6
  <1>5. CASE Refuse(r)
    <2> DEFINE x == [req[r] EXCEPT !.pc = "failed"]
    <2>1. x \in RequestState /\ Founded(x) /\ x.pc = "failed"
      BY <1>1 DEF RequestState, Founded
    <2>2. /\ req' = [req EXCEPT ![r] = x] /\ req[r].pc = "password"
          /\ UNCHANGED <<row, client, waiting, had>>
      BY <1>5 DEF Refuse
    <2> HIDE DEF x
    <2> QED BY <2>1, <2>2, RequestStep
  <1>6. CASE AddSession(r)
    <2> DEFINE x == [req[r] EXCEPT !.job = "lastLogin", !.pc = "connect"]
    <2>1. x \in RequestState /\ x.pc = "connect" /\ x.job = "lastLogin"
      BY <1>1 DEF RequestState
    <2>2. Founded(x)
      BY <2>1 DEF Founded
    <2>3. /\ req' = [req EXCEPT ![r] = x] /\ waiting' = Append(waiting, r)
          /\ UNCHANGED <<row, client, had>> /\ req[r].pc = "session"
      BY <1>6 DEF AddSession, Connecting
    <2> HIDE DEF x
    <2> QED BY <2>1, <2>2, <2>3, RequestStep
  <1>7. CASE Answer(r)
    <2>1. Founded(Idle) /\ Idle.pc \notin {"connect"} \cup Holding /\ Idle \in RequestState
      BY DEF Idle, Founded, RequestState
    <2>2. /\ req' = [req EXCEPT ![r] = Idle] /\ req[r].pc \in {"ticket", "failed"}
          /\ UNCHANGED <<row, client, waiting, had>>
      BY <1>7 DEF Answer
    <2>3. req[r].pc \notin Holding \cup {"connect"}
      BY <2>2
    <2> QED BY <2>1, <2>2, <2>3, RequestStep
  <1> QED BY <1>2, <1>3, <1>4, <1>5, <1>6, <1>7

\* The SELECTs.
LEMMA ReadSteps ==
  ASSUME AccountsInv, NEW r \in Request, NEW c \in Client,
         Filter(r, c) \/ Get(r, c) \/ ReadFails(r, c)
  PROVE  AccountsInv'
  <1> USE NullAssumption
  <1>1. /\ client[c].by = r /\ req[r].pc = "select" /\ UNCHANGED <<row, waiting, had>>
        /\ \E state \in {client[c], Lost(c)} : Release(c, state)
    BY DEF Filter, Get, ReadFails
  <1>2. client[c] \in ClientState /\ Clean(client[c])
    BY <1>1 DEF AccountsInv, TypeOK, ClientInv
  <1>3. Lost(c) \in ClientState /\ ~Lost(c).open /\ Lost(c).lock = Null
    BY <1>2 DEF Lost, Pooled, ClientState
  <1>4. PICK new \in ClientState :
            client' = [client EXCEPT ![c] = new] /\ new.by = Null /\ Clean(new)
    BY <1>1, <1>2, <1>3, ReleasedClean DEF Clean
  <1>5. req[r] \in RequestState /\ Founded(req[r])
    BY DEF AccountsInv, TypeOK
  <1>6. PICK x \in RequestState :
            /\ req' = [req EXCEPT ![r] = x] /\ Founded(x)
            /\ x.pc \in {"password", "ticket", "failed"}
    <2> DEFINE failed == [req[r] EXCEPT !.pc = "failed"]
    <2>1. failed \in RequestState /\ Founded(failed) /\ failed.pc = "failed"
      BY <1>5 DEF RequestState, Founded
    <2>2. CASE req' = [req EXCEPT ![r] = failed]
      BY <2>1, <2>2
    <2>3. CASE Get(r, c)
      <3> DEFINE x == [req[r] EXCEPT !.pc = "ticket", !.read = row[req[r].user]]
      <3>1. req[r].user \in User
        BY <1>5, <2>3 DEF Get, Founded
      <3>2. row[req[r].user] \in Row \cup {Null}
        BY <3>1 DEF AccountsInv, TypeOK
      <3>3. /\ x \in RequestState /\ x.pc = "ticket"
            /\ x.user = req[r].user /\ x.job = "get"
        BY <1>5, <2>3, <3>2 DEF RequestState, Get
      <3>4. Founded(x)
        BY <3>1, <3>3 DEF Founded
      <3>5. req' = [req EXCEPT ![r] = x]
        BY <2>3 DEF Get, AccountsInv, TypeOK
      <3> HIDE DEF x
      <3> QED BY <3>3, <3>4, <3>5
    <2>4. ASSUME NEW u \in Named(req[r].name), req[r].job = "filter",
                 req' = [req EXCEPT ![r].pc = "password", ![r].user = u, ![r].read = row[u]]
          PROVE  \E x \in RequestState :
                    /\ req' = [req EXCEPT ![r] = x] /\ Founded(x)
                    /\ x.pc \in {"password", "ticket", "failed"}
      <3> DEFINE x == [req[r] EXCEPT !.pc = "password", !.user = u, !.read = row[u]]
      <3>1. u \in User /\ row[u] \in Row
        BY DEF Named, AccountsInv, TypeOK
      <3>2. \A p \in Password : HasPassword(row[u], p) => p \in had[u]
        BY <3>1 DEF AccountsInv, PasswordsAreGiven
      <3>3. /\ x \in RequestState /\ x.pc = "password" /\ x.user = u /\ x.read = row[u]
            /\ x.job = "filter"
        BY <1>5, <2>4, <3>1 DEF RequestState
      <3>4. req' = [req EXCEPT ![r] = x]
        BY <2>4 DEF AccountsInv, TypeOK
      <3> HIDE DEF x
      <3> QED BY <3>1, <3>2, <3>3, <3>4 DEF Founded
    <2>5. CASE ReadFails(r, c)
      <3>1. req' = [req EXCEPT ![r] = failed]
        BY <2>5 DEF ReadFails
      <3> QED BY <2>2, <3>1
    <2>6. CASE Filter(r, c)
      <3> HIDE DEF failed
      <3>1. \/ req' = [req EXCEPT ![r].pc = "failed"]
            \/ \E u \in Named(req[r].name) :
                    /\ req[r].job = "filter"
                    /\ req' = [req EXCEPT ![r].pc = "password", ![r].user = u, ![r].read = row[u]]
        BY <2>6 DEF Filter
      <3>2. req' = [req EXCEPT ![r].pc = "failed"] => req' = [req EXCEPT ![r] = failed]
        BY DEF failed
      <3> QED BY <2>2, <2>4, <3>1, <3>2
    <2> QED BY <2>3, <2>5, <2>6
  <1> HIDE DEF AccountsInv
  <1>7. PasswordsAreGiven' /\ row' \in [User -> Row \cup {Null}]
    BY <1>1 DEF AccountsInv, TypeOK, PasswordsAreGiven, HasPassword, IsEquals
  <1>8. \A u \in User : row[u] # Null => row'[u] # Null
    BY <1>1
  <1>9. new.lock = Null
    BY <1>4 DEF Clean
  <1> QED BY <1>1, <1>4, <1>6, <1>7, <1>8, <1>9, ClientStep

\* COMMIT: a row that a transaction has locked is there, and a password it writes was
\* given to the user.
LEMMA CommitsRows ==
  ASSUME AccountsInv, NEW r \in Request, NEW c \in Client, client[c].by = r,
         Commits(r, c), UNCHANGED had
  PROVE  /\ row' \in [User -> Row \cup {Null}] /\ PasswordsAreGiven'
         /\ \A u \in User : row[u] # Null => row'[u] # Null
  <1> USE NullAssumption
  <1>1. row' = [u \in User |-> IF client[c].lock = u THEN Written(r, u) ELSE row[u]]
    BY DEF Commits
  <1>2. req[r] \in RequestState /\ Founded(req[r]) /\ LockInv(c)
    BY DEF AccountsInv, TypeOK
  <1>3. ASSUME NEW u \in User, client[c].lock = u
        PROVE  /\ Written(r, u) \in Row
               /\ \A p \in Password : HasPassword(Written(r, u), p) => p \in had[u]
    <2>1. u = req[r].user /\ row[u] \in Row
      BY <1>2, <1>3 DEF LockInv, AccountsInv, TypeOK
    <2>2. CASE req[r].job = "migrate"
      <3> DEFINE h == ServiceHash(req[r].password)
      <3>1. req[r].password \in had[u] /\ had[u] \subseteq Password
        BY <1>2, <2>1, <2>2 DEF Founded, AccountsInv, TypeOK
      <3>2. h \in Hash \cup {Null} /\ (h # Null => h.of = req[r].password)
        BY <3>1 DEF ServiceHash, LibraryHash, Hash
      <3>3. Written(r, u) = [row[u] EXCEPT !.hash = h]
        BY <2>2 DEF Written
      <3> HIDE DEF h
      <3>4. Written(r, u) \in Row /\ Written(r, u).hash = h
        BY <2>1, <3>2, <3>3 DEF Row
      <3> QED BY <3>1, <3>2, <3>4 DEF HasPassword, IsEquals
    <2>3. CASE req[r].job # "migrate"
      BY <2>1, <2>3 DEF Written, AccountsInv, PasswordsAreGiven
    <2> QED BY <2>2, <2>3
  <1>4. row' \in [User -> Row \cup {Null}]
    BY <1>1, <1>3 DEF AccountsInv, TypeOK
  <1>5. \A u \in User : row[u] # Null => row'[u] # Null
    BY <1>1, <1>3
  <1>6. ASSUME NEW u \in User, NEW p \in Password, HasPassword(row'[u], p) PROVE p \in had'[u]
    <2>1. CASE client[c].lock = u
      BY <1>1, <1>3, <1>6, <2>1
    <2>2. CASE client[c].lock # u
      BY <1>1, <1>6, <2>2 DEF AccountsInv, PasswordsAreGiven
    <2> QED BY <2>1, <2>2
  <1>7. PasswordsAreGiven'
    BY <1>6 DEF PasswordsAreGiven, HasPassword, IsEquals
  <1> QED BY <1>4, <1>5, <1>7

\* A request in a transaction goes to another await.
LEMMA GotoFounded ==
  ASSUME AccountsInv, NEW r \in Request,
         NEW pc \in {"update", "commit", "rollback", "session", "ticket", "failed"}
  PROVE  /\ [req[r] EXCEPT !.pc = pc] \in RequestState
         /\ Founded([req[r] EXCEPT !.pc = pc])
         /\ [req[r] EXCEPT !.pc = pc].pc = pc
         /\ [req[r] EXCEPT !.pc = pc].user = req[r].user
  <1> DEFINE x == [req[r] EXCEPT !.pc = pc]
  <1>1. req[r] \in RequestState /\ Founded(req[r])
    BY DEF AccountsInv, TypeOK
  <1>2. /\ x \in RequestState /\ x.pc = pc /\ x.user = req[r].user /\ x.job = req[r].job
        /\ x.password = req[r].password
    BY <1>1 DEF RequestState
  <1> HIDE DEF x
  <1>3. Founded(x)
    BY <1>1, <1>2 DEF Founded
  <1> QED BY <1>2, <1>3 DEF x

\* The transaction.
LEMMA WriteSteps ==
  ASSUME AccountsInv, NEW r \in Request, NEW c \in Client,
         Begin(r, c) \/ Update(r, c) \/ Commit(r, c) \/ Rollback(r, c) \/ WriteFails(r, c)
  PROVE  AccountsInv'
  <1> USE NullAssumption
  <1>1. client[c].by = r /\ UNCHANGED <<waiting, had>>
    BY DEF Begin, Update, Commit, Rollback, WriteFails
  <1>2. client[c] \in ClientState /\ LockInv(c)
    BY DEF AccountsInv, TypeOK
  <1>3. UNCHANGED row =>
            /\ row' \in [User -> Row \cup {Null}] /\ PasswordsAreGiven'
            /\ \A u \in User : row[u] # Null => row'[u] # Null
    BY <1>1 DEF AccountsInv, TypeOK, PasswordsAreGiven, HasPassword, IsEquals
  <1>4. CASE Begin(r, c)
    <2> DEFINE new == [client[c] EXCEPT !.open = TRUE]
               x == [req[r] EXCEPT !.pc = "update"]
    <2>1. new \in ClientState /\ new.by = r /\ new.lock = client[c].lock
      BY <1>1, <1>2 DEF ClientState
    <2>2. x \in RequestState /\ Founded(x) /\ x.pc = "update" /\ x.user = req[r].user
      BY GotoFounded
    <2>3. /\ client' = [client EXCEPT ![c] = new] /\ req' = [req EXCEPT ![r] = x]
          /\ UNCHANGED row
      BY <1>4 DEF Begin
    <2> HIDE DEF new, x
    <2>4. new.lock # Null => new.lock = x.user /\ row'[new.lock] # Null
      BY <1>1, <1>2, <2>1, <2>2, <2>3 DEF LockInv
    <2>5. new.by # Null /\ x.pc \in Holding /\ x.pc \notin {"connect", "select"}
      BY <2>1, <2>2 DEF Holding
    <2> QED BY <1>1, <1>3, <2>1, <2>2, <2>3, <2>4, <2>5, ClientStep
  <1>5. CASE Update(r, c)
    <2> DEFINE u == req[r].user
               lock == IF row[u] = Null THEN Null ELSE u
               new == [client[c] EXCEPT !.lock = lock]
               x == [req[r] EXCEPT !.pc = "commit"]
    <2>1. lock \in User \cup {Null} /\ (lock # Null => lock = u /\ row[u] # Null)
      BY DEF AccountsInv, TypeOK, RequestState
    <2>2. /\ client' = [client EXCEPT ![c] = new] /\ req' = [req EXCEPT ![r] = x]
          /\ UNCHANGED row
      BY <1>5 DEF Update, AccountsInv, TypeOK
    <2>3. x \in RequestState /\ Founded(x) /\ x.pc = "commit" /\ x.user = u
      BY GotoFounded
    <2> HIDE DEF lock, x, u
    <2>4. new \in ClientState /\ new.by = r /\ new.lock = lock
      BY <1>1, <1>2, <2>1 DEF ClientState
    <2> HIDE DEF new
    <2>5. new.by # Null /\ x.pc \in Holding /\ x.pc \notin {"connect", "select"}
      BY <2>3, <2>4 DEF Holding
    <2>6. new.lock # Null => new.lock = x.user /\ row'[new.lock] # Null
      BY <2>1, <2>2, <2>3, <2>4
    <2> QED BY <1>1, <1>3, <2>2, <2>3, <2>4, <2>5, <2>6, ClientStep
  <1>6. CASE Commit(r, c) \/ Rollback(r, c)
    <2> DEFINE state == [client[c] EXCEPT !.open = FALSE, !.lock = Null]
    <2>1. state \in ClientState /\ ~state.open /\ state.lock = Null
      BY <1>2 DEF ClientState
    <2>2. Release(c, state) /\ (UNCHANGED row \/ Commits(r, c))
      BY <1>6 DEF Commit, Rollback
    <2>3. PICK pc \in {"session", "ticket", "failed"} : req' = [req EXCEPT ![r].pc = pc]
      BY <1>6 DEF Commit, Rollback
    <2> DEFINE x == [req[r] EXCEPT !.pc = pc]
    <2>4. x \in RequestState /\ Founded(x) /\ x.pc = pc
      BY GotoFounded
    <2>5. req' = [req EXCEPT ![r] = x]
      BY <2>3
    <2> HIDE DEF x, state
    <2>6. PICK new \in ClientState :
              client' = [client EXCEPT ![c] = new] /\ new.by = Null /\ Clean(new)
      BY <2>1, <2>2, ReleasedClean
    <2>7. new.lock = Null
      BY <2>6 DEF Clean
    <2>8. /\ row' \in [User -> Row \cup {Null}] /\ PasswordsAreGiven'
          /\ \A u \in User : row[u] # Null => row'[u] # Null
      BY <1>1, <1>3, <2>2, CommitsRows
    <2> QED BY <1>1, <2>3, <2>4, <2>5, <2>6, <2>7, <2>8, ClientStep
  <1>7. CASE WriteFails(r, c)
    <2> DEFINE x == [req[r] EXCEPT !.pc = "rollback"]
    <2>1. x \in RequestState /\ Founded(x) /\ x.pc = "rollback" /\ x.user = req[r].user
      BY GotoFounded
    <2>2. req' = [req EXCEPT ![r] = x]
      BY <1>7 DEF WriteFails
    <2>3. PICK new \in {client[c], Lost(c)} : client' = [client EXCEPT ![c] = new]
      BY <1>7 DEF WriteFails
    <2>4. UNCHANGED row \/ Commits(r, c)
      BY <1>7 DEF WriteFails
    <2>5. Lost(c) \in ClientState /\ Lost(c).by = r /\ Lost(c).lock = Null
      BY <1>1, <1>2 DEF Lost, Pooled, ClientState
    <2> HIDE DEF x
    <2>6. /\ row' \in [User -> Row \cup {Null}] /\ PasswordsAreGiven'
          /\ \A u \in User : row[u] # Null => row'[u] # Null
      BY <1>1, <1>3, <2>4, CommitsRows
    <2>7. /\ new \in ClientState /\ new.by = r
          /\ new.lock # Null => new.lock = req[r].user /\ row[new.lock] # Null
                                /\ new.lock \in User
      BY <1>1, <1>2, <2>3, <2>5 DEF LockInv, ClientState
    <2>8. new.lock # Null => new.lock = x.user /\ row'[new.lock] # Null
      BY <2>1, <2>6, <2>7
    <2>9. new.by # Null /\ x.pc \in Holding /\ x.pc \notin {"connect", "select"}
      BY <2>1, <2>7 DEF Holding
    <2> QED BY <1>1, <2>1, <2>2, <2>3, <2>6, <2>7, <2>8, <2>9, ClientStep
  <1> QED BY <1>4, <1>5, <1>6, <1>7

\* The head of the queue gets a client, or none can be had.
LEMMA QueueSteps ==
  ASSUME AccountsInv, NEW r \in Request, Connect(r) \/ ConnectFails(r)
  PROVE  AccountsInv'
  <1> USE NullAssumption
  <1>1. /\ waiting # <<>> /\ Head(waiting) = r /\ waiting' = Tail(waiting)
        /\ UNCHANGED <<row, had>> /\ waiting \in Seq(Request)
    BY DEF Connect, ConnectFails, AccountsInv, TypeOK
  <1>2. /\ waiting' \in Seq(Request) /\ Len(waiting') = Len(waiting) - 1
        /\ Len(waiting) \in Nat \ {0} /\ waiting[1] = r
        /\ \A i \in 1..Len(waiting') : waiting'[i] = waiting[i + 1] /\ i + 1 \in 1..Len(waiting)
    BY <1>1
  <1>3. req[r].pc = "connect" /\ \A i \in 1..Len(waiting') : waiting'[i] \in Request \ {r}
    <2>1. req[r].pc = "connect"
      BY <1>2 DEF AccountsInv, QueueInv
    <2>2. ASSUME NEW i \in 1..Len(waiting') PROVE waiting'[i] \in Request \ {r}
      <3>1. waiting'[i] = waiting[i + 1] /\ i + 1 \in 1..Len(waiting) /\ i + 1 # 1
        BY <1>2
      <3>2. waiting[i + 1] # waiting[1]
        BY <1>2, <3>1 DEF AccountsInv, QueueInv
      <3> QED BY <1>1, <1>2, <3>1, <3>2
    <2> QED BY <2>1, <2>2
  <1>4. PICK pc \in {"select", "begin", "failed"} :
            /\ req' = [req EXCEPT ![r].pc = pc]
            /\ pc = "failed" => ConnectFails(r)
            /\ pc # "failed" => Connect(r)
    BY DEF Connect, ConnectFails
  <1> DEFINE x == [req[r] EXCEPT !.pc = pc]
  <1>5. /\ x \in RequestState /\ x.pc = pc /\ x.user = req[r].user /\ x.job = req[r].job
        /\ x.password = req[r].password /\ Founded(req[r])
    BY DEF AccountsInv, TypeOK, RequestState
  <1>6. /\ req' \in [Request -> RequestState] /\ req'[r] = x
        /\ \A q \in Request \ {r} : req'[q] = req[q]
    BY <1>4, <1>5 DEF AccountsInv, TypeOK
  <1> HIDE DEF x
  <1>7. ASSUME NEW q \in Request PROVE Founded(req[q])'
    BY <1>1, <1>5, <1>6 DEF AccountsInv, Founded, HasPassword, IsEquals
  <1>8. QueueInv'
    <2>1. \A i \in 1..Len(waiting') : req'[waiting'[i]].pc = "connect"
      BY <1>2, <1>3, <1>6 DEF AccountsInv, QueueInv
    <2>2. \A i, j \in 1..Len(waiting') : waiting'[i] = waiting'[j] => i = j
      <3>1. ASSUME NEW i \in 1..Len(waiting'), NEW j \in 1..Len(waiting'),
                   waiting'[i] = waiting'[j]
            PROVE  i = j
        <4>1. i + 1 = j + 1
          BY <1>2, <3>1 DEF AccountsInv, QueueInv
        <4> QED BY <4>1
      <3> QED BY <3>1
    <2> QED BY <2>1, <2>2 DEF QueueInv
  <1>9. PasswordsAreGiven'
    BY <1>1 DEF AccountsInv, PasswordsAreGiven, HasPassword, IsEquals
  <1>10. \A d \in Client : client[d] \in ClientState /\ ClientInv(d) /\ LockInv(d) /\ client[d].by # r
    BY <1>3 DEF AccountsInv, TypeOK, ClientInv, Holding
  <1>11. client' \in [Client -> ClientState] /\ \A d \in Client : ClientInv(d)' /\ LockInv(d)'
    <2>1. CASE ConnectFails(r)
      <3>1. UNCHANGED client
        BY <2>1 DEF ConnectFails
      <3> QED BY <1>1, <1>6, <1>10, <3>1 DEF AccountsInv, TypeOK, ClientInv, LockInv, Clean,
                                            ClientState
    <2>2. CASE Connect(r) /\ pc # "failed"
      <3>1. PICK c \in Client : client[c].by = Null /\ client' = [client EXCEPT ![c].by = r]
        BY <2>2 DEF Connect
      <3> DEFINE new == [client[c] EXCEPT !.by = r]
      <3>2. new \in ClientState /\ new.by = r /\ Clean(new)
        BY <1>10, <3>1 DEF ClientState, ClientInv, Clean
      <3>3. /\ client' \in [Client -> ClientState] /\ client'[c] = new
            /\ \A d \in Client \ {c} : client'[d] = client[d]
        BY <3>1, <3>2 DEF AccountsInv, TypeOK
      <3> HIDE DEF new
      <3>4. ClientInv(c)' /\ LockInv(c)'
        <4>1. x.pc \in Holding
          BY <1>5, <2>2 DEF Holding
        <4>2. \A d \in Client : client'[d].by = r => d = c
          BY <1>10, <3>3
        <4> QED BY <1>6, <3>2, <3>3, <4>1, <4>2 DEF ClientInv, LockInv, Clean
      <3>5. ASSUME NEW d \in Client \ {c} PROVE ClientInv(d)' /\ LockInv(d)'
        BY <1>1, <1>6, <1>10, <3>2, <3>3 DEF ClientInv, LockInv, Clean, ClientState
      <3> QED BY <3>3, <3>4, <3>5
    <2> QED BY <1>4, <2>1, <2>2
  <1>12. TypeOK'
    BY <1>1, <1>2, <1>6, <1>11 DEF AccountsInv, TypeOK
  <1> QED BY <1>7, <1>8, <1>9, <1>11, <1>12 DEF AccountsInv

\* The backend waits for the lock of a row before it changes it.
LEMMA BackendStep ==
  ASSUME AccountsInv, NEW u \in User, BackendWrites(u)
  PROVE  AccountsInv'
  <1> USE NullAssumption
  <1>1. /\ row[u] # Null => ~Locked(u)
        /\ UNCHANGED <<client, waiting, req>>
    BY DEF BackendWrites
  <1>2. PICK new \in Row \cup {Null} :
            /\ row' = [row EXCEPT ![u] = new]
            /\ had' = [had EXCEPT ![u] = @ \cup {p \in Password : HasPassword(new, p)}]
    BY DEF BackendWrites
  <1>3. /\ row' \in [User -> Row \cup {Null}] /\ row'[u] = new
        /\ \A v \in User \ {u} : row'[v] = row[v]
    BY <1>2 DEF AccountsInv, TypeOK
  <1>4. /\ had' \in [User -> SUBSET Password]
        /\ had'[u] = had[u] \cup {p \in Password : HasPassword(new, p)}
        /\ \A v \in User : had[v] \subseteq had'[v]
    BY <1>2 DEF AccountsInv, TypeOK
  <1>5. TypeOK' /\ QueueInv'
    BY <1>1, <1>3, <1>4 DEF AccountsInv, TypeOK, QueueInv
  <1>6. PasswordsAreGiven'
    <2>1. ASSUME NEW v \in User, NEW p \in Password, HasPassword(row'[v], p) PROVE p \in had'[v]
      BY <1>3, <1>4, <2>1 DEF AccountsInv, PasswordsAreGiven
    <2> QED BY <2>1 DEF PasswordsAreGiven, HasPassword, IsEquals
  <1>7. ASSUME NEW c \in Client PROVE ClientInv(c)' /\ LockInv(c)'
    <2>1. ClientInv(c) /\ LockInv(c) /\ client[c] \in ClientState
      BY DEF AccountsInv, TypeOK
    <2>2. ClientInv(c)'
      BY <1>1, <2>1 DEF ClientInv, Clean
    <2>3. client[c].lock # Null => client[c].lock \in User \ {u}
      BY <1>1, <2>1 DEF LockInv, Locked, ClientState
    <2>4. LockInv(c)'
      BY <1>1, <1>3, <2>1, <2>3 DEF LockInv
    <2> QED BY <2>2, <2>4
  <1>8. ASSUME NEW r \in Request PROVE Founded(req[r])'
    BY <1>1, <1>4 DEF AccountsInv, Founded, HasPassword, IsEquals
  <1> QED BY <1>5, <1>6, <1>7, <1>8 DEF AccountsInv

LEMMA AccountsStep == AccountsInv /\ [NextF]_vars => AccountsInv'
  <1> SUFFICES ASSUME AccountsInv, [NextF]_vars PROVE AccountsInv'
    OBVIOUS
  <1>1. ASSUME NEW r \in Request, Arrive(r) \/ Progress(r) \/ Fault(r) PROVE AccountsInv'
    BY <1>1, RequestSteps, QueueSteps, ReadSteps, WriteSteps DEF Arrive, Progress, Fault
  <1>2. ASSUME NEW u \in User, BackendWrites(u) PROVE AccountsInv'
    BY <1>2, BackendStep
  <1>3. CASE UNCHANGED vars
    BY <1>3 DEF vars, AccountsInv, TypeOK, PasswordsAreGiven, HasPassword, IsEquals, QueueInv,
                ClientInv, LockInv, Clean, Founded
  <1> QED BY <1>1, <1>2, <1>3 DEF NextF, Next

-----------------------------------------------------------------------------
\* The inductive invariant, of the service of UserService and DatabaseAdapter with
\* connections and statements that may fail.
THEOREM AccountsInvariant == SpecF => []AccountsInv
  BY AccountsInit, AccountsStep, PTL DEF SpecF

\* Every reachable state of UserService and DatabaseAdapter is well-typed.
THEOREM AccountsTypeCorrect == SpecF => []TypeOK
  <1>1. AccountsInv => TypeOK
    BY DEF AccountsInv
  <1> QED BY <1>1, AccountsInvariant, PTL

\* However a read or a transaction of DatabaseAdapter ends, the client goes back into the
\* pool without a transaction and without a lock; a ROLLBACK fails only with the connection.
THEOREM PoolStaysClean == SpecF => []PooledClientsAreClean
  <1>1. AccountsInv => PooledClientsAreClean
    <2> SUFFICES ASSUME AccountsInv, NEW c \in Client, client[c].by = Null
                 PROVE  client[c] = Pooled
      BY DEF PooledClientsAreClean
    <2>1. client[c] \in ClientState /\ Clean(client[c])
      BY DEF AccountsInv, TypeOK, ClientInv
    <2> QED BY <2>1 DEF ClientState, Clean, Pooled
  <1> QED BY <1>1, AccountsInvariant, PTL

\* readUserFromDatabaseByCredentials never migrates a password to an account that was
\* not given it, whatever the backend changes between its SELECT and its UPDATE.
THEOREM NoForeignPasswords == SpecF => []PasswordsAreGiven
  <1>1. AccountsInv => PasswordsAreGiven
    BY DEF AccountsInv
  <1> QED BY <1>1, AccountsInvariant, PTL

\* isEquals of HashingService and is_equal of HashingHandler accept the same passwords
\* for every hash that user_t can hold.
THEOREM HashesJudgedAlike == SpecF => []ProgramsAgree
  <1>1. AccountsInv => ProgramsAgree
    <2> SUFFICES ASSUME AccountsInv, NEW u \in User, NEW p \in Password, row[u] # Null
                 PROVE  HasPassword(row[u], p) <=> LibraryIsEqual(p, row[u].hash)
      BY DEF ProgramsAgree
    <2>1. row[u].hash \in Hash \cup {Null}
      BY DEF AccountsInv, TypeOK, Row
    <2> QED BY <2>1 DEF HasPassword, IsEquals, LibraryIsEqual, Hash
  <1> QED BY <1>1, AccountsInvariant, PTL

\* A COMMIT that changes a row stores the password that the login has checked.
LEMMA CommitOpens ==
  ASSUME AccountsInv, NEW r \in Request, NEW c \in Client, client[c].by = r,
         Commits(r, c), NEW u \in User, row'[u] # row[u]
  PROVE  \E p \in had[u] : HasPassword(row'[u], p) /\ LibraryIsEqual(p, row'[u].hash)
  <1> USE NullAssumption
  <1>1. /\ client[c].lock = u /\ row'[u] = Written(r, u) /\ req[r].job = "migrate"
    BY DEF Commits, Written
  <1>2. req[r].user = u /\ row[u] \in Row /\ Founded(req[r])
    BY <1>1 DEF AccountsInv, TypeOK, LockInv
  <1> DEFINE p == req[r].password
  <1>3. p \in had[u] /\ p \in Password /\ p # Empty
    BY <1>1, <1>2 DEF Founded, AccountsInv, TypeOK
  <1>4. row'[u] \in Row /\ row'[u].hash = LibraryHash(p) /\ LibraryHash(p) \in Hash
    BY <1>1, <1>2, <1>3 DEF Written, ServiceHash, LibraryHash, Hash, Row
  <1>5. HasPassword(row'[u], p)
    BY <1>3, <1>4 DEF HasPassword, IsEquals, LibraryHash
  <1>6. LibraryIsEqual(p, row'[u].hash)
    BY <1>3, <1>4 DEF LibraryIsEqual, LibraryHash
  <1> QED BY <1>3, <1>5, <1>6

\* The migration of readUserFromDatabaseByCredentials locks nobody out: the row it
\* writes is opened, in both programs, by a password of the user.
THEOREM MigrationOpens == SpecF => MigratedPasswordsOpen
  <1>1. ASSUME AccountsInv, NextF, NEW u \in User, row'[u] # row[u], req' # req
        PROVE  \E p \in had[u] : HasPassword(row'[u], p) /\ LibraryIsEqual(p, row'[u].hash)
    <2>1. PICK r \in Request : Arrive(r) \/ Progress(r) \/ Fault(r)
      BY <1>1 DEF NextF, Next, BackendWrites
    <2>2. PICK c \in Client : client[c].by = r /\ Commits(r, c)
      BY <1>1, <2>1 DEF Arrive, Login, WhoAmI, Progress, Connect, CheckPassword, Refuse,
         AddSession, Answer, Filter, Get, Begin, Update, Commit, Rollback, Fault,
         ConnectFails, ReadFails, WriteFails
    <2> QED BY <1>1, <2>2, CommitOpens
  <1>2. AccountsInv /\ [NextF]_vars =>
          [\A u \in User : row'[u] # row[u] /\ req' # req =>
             \E p \in had[u] : HasPassword(row'[u], p) /\ LibraryIsEqual(p, row'[u].hash)]_vars
    BY <1>1
  <1> QED BY <1>2, AccountsInvariant, PTL DEF SpecF, MigratedPasswordsOpen
=============================================================================
