---------------------------- MODULE UserAccounts ----------------------------
(***************************************************************************)
(* The accounts behind a login: UserService over the connection pool of    *)
(* its DatabaseAdapter.  A login reads the user by name, checks the        *)
(* password, rewrites a password that is still hashed with SHA512, opens a *)
(* session (module SessionStore) and stores last_login; who-am-i reads the *)
(* user of a session.  The pool lends a request one client per statement   *)
(* or transaction and lets the others wait in turn.  The table user_t is   *)
(* also written by the backend, which is not part of this repository.      *)
(*                                                                         *)
(* Spec is the service with a healthy database; in SpecF connections and   *)
(* statements may fail.                                                    *)
(***************************************************************************)
EXTENDS Naturals, Sequences, Hashing

CONSTANTS
    User, Name,
    Request,        \* slots for logins and who-am-i requests under way
    Client,         \* the clients of the pool: DB_POOL_MAX_SIZE of them
    NameOf          \* the username of each user

VARIABLES
    row,        \* the committed rows of user_t; Null: the user does not exist
    client,     \* what each client of the pool is used for
    waiting,    \* the requests that wait in pool.connect()
    req,
    had         \* history: the passwords each user was given

vars == <<row, client, waiting, req, had>>

Row == [hash : Hash \cup {Null}, active : BOOLEAN]

\* A client: the request it is lent to, whether it is in a transaction, the row that
\* transaction has locked, and whether its connection is lost.
ClientState == [by : Request \cup {Null}, open : BOOLEAN, lock : User \cup {Null}, lost : BOOLEAN]
Pooled == [by |-> Null, open |-> FALSE, lock |-> Null, lost |-> FALSE]

\* "job" is the database call a request is in, "pc" the await it is at, "read" the row
\* it was answered.
RequestState ==
    [job   : {"none", "filter", "get", "migrate", "lastLogin"},
     pc    : {"idle", "connect", "select", "begin", "update", "commit", "rollback",
              "password", "session", "ticket", "failed"},
     name  : Name \cup {Null}, password : Password \cup {Null},
     user  : User \cup {Null}, read : Row \cup {Null}]
Idle == [job |-> "none", pc |-> "idle", name |-> Null, password |-> Null,
         user |-> Null, read |-> Null]

ASSUME NamesAssumption == NameOf \in [User -> Name]
ASSUME NullAssumption ==
    Null \notin User /\ Null \notin Request /\ Null \notin Hash /\ Null \notin Row

TypeOK ==
    /\ row \in [User -> Row \cup {Null}]
    /\ client \in [Client -> ClientState]
    /\ waiting \in Seq(Request)
    /\ req \in [Request -> RequestState]
    /\ had \in [User -> SUBSET Password]

HasPassword(stored, p) == stored # Null /\ IsEquals(p, stored.hash) = "yes"

Init ==
    /\ row \in [User -> Row \cup {Null}]
    /\ client = [c \in Client |-> Pooled]
    /\ waiting = <<>>
    /\ req = [r \in Request |-> Idle]
    /\ had = [u \in User |-> {p \in Password : HasPassword(row[u], p)}]

Named(n) == {u \in User : NameOf[u] = n /\ row[u] # Null}

-----------------------------------------------------------------------------
(* The pool. *)

\* pool.connect(): the request queues behind those that wait already.
Connecting(r, state, job) ==
    /\ req' = [req EXCEPT ![r] = [state EXCEPT !.job = job, !.pc = "connect"]]
    /\ waiting' = Append(waiting, r)

Connect(r) ==
    /\ waiting # <<>> /\ Head(waiting) = r
    /\ \E c \in Client :
        /\ client[c].by = Null
        /\ client' = [client EXCEPT ![c].by = r]
    /\ waiting' = Tail(waiting)
    /\ req' = [req EXCEPT ![r].pc =
                   IF req[r].job \in {"filter", "get"} THEN "select" ELSE "begin"]
    /\ UNCHANGED <<row, had>>

\* No connection can be made: connect() throws, before the "try" that releases.
ConnectFails(r) ==
    /\ waiting # <<>> /\ Head(waiting) = r
    /\ waiting' = Tail(waiting)
    /\ req' = [req EXCEPT ![r].pc = "failed"]
    /\ UNCHANGED <<row, client, had>>

\* Mutant of Release: a client whose connection is lost is kept.
ReleaseHealthy(c, state) ==
    client' = [client EXCEPT ![c] = IF state.lost THEN state ELSE [state EXCEPT !.by = Null]]

\* client.release() in the state it is in; only a client whose connection is lost is
\* thrown away, and its place in the pool is free.
Release(c, state) ==
    client' = [client EXCEPT ![c] = IF state.lost THEN Pooled ELSE [state EXCEPT !.by = Null]]

Locked(u) == \E c \in Client : client[c].lock = u

-----------------------------------------------------------------------------
(* Requests. *)

\* A request without a password is refused at once.
Login(r, n, p) ==
    /\ req[r].pc = "idle" /\ p # Empty
    /\ Connecting(r, [Idle EXCEPT !.name = n, !.password = p], "filter")
    /\ UNCHANGED <<row, client, had>>

\* who-am-i, or the refresh of a token, with the cookie of a session of u.
WhoAmI(r, u) ==
    /\ req[r].pc = "idle"
    /\ Connecting(r, [Idle EXCEPT !.user = u], "get")
    /\ UNCHANGED <<row, client, had>>

\* Mutant of Filter: the collection that was found is taken for the user.
FilterAll(r, c) ==
    /\ client[c].by = r /\ req[r].job = "filter" /\ req[r].pc = "select"
    /\ req' = [req EXCEPT ![r].pc = "password", ![r].user = Named(req[r].name)]
    /\ Release(c, client[c])
    /\ UNCHANGED <<row, waiting, had>>

\* SELECT ... WHERE username = $1; two users of one name are an error.
Filter(r, c) ==
    /\ client[c].by = r /\ req[r].job = "filter" /\ req[r].pc = "select"
    /\ \/ \E u \in Named(req[r].name) :
            /\ Named(req[r].name) = {u}
            /\ req' = [req EXCEPT ![r].pc = "password", ![r].user = u, ![r].read = row[u]]
       \/ /\ \A u \in Named(req[r].name) : Named(req[r].name) # {u}
          /\ req' = [req EXCEPT ![r].pc = "failed"]
    /\ Release(c, client[c])
    /\ UNCHANGED <<row, waiting, had>>

\* SELECT ... WHERE id = $1: a user that does not exist is answered with {}, which
\* whoAmI takes for a user.
Get(r, c) ==
    /\ client[c].by = r /\ req[r].job = "get" /\ req[r].pc = "select"
    /\ req' = [req EXCEPT ![r].pc = "ticket", ![r].read = row[req[r].user]]
    /\ Release(c, client[c])
    /\ UNCHANGED <<row, waiting, had>>

\* Mutant of CheckPassword: an old password is migrated before it is checked.
MigrateUnchecked(r) ==
    /\ req[r].pc = "password" /\ req[r].read.active
    /\ \/ IsDeprecatedHash(req[r].read.hash) /\ Connecting(r, req[r], "migrate")
       \/ /\ HasPassword(req[r].read, req[r].password) /\ ~IsDeprecatedHash(req[r].read.hash)
          /\ req' = [req EXCEPT ![r].pc = "session"] /\ UNCHANGED waiting
    /\ UNCHANGED <<row, client, had>>

\* The password is verified, and hashed anew when the stored hash is deprecated: work
\* for the thread pool, during which other requests go on.
CheckPassword(r) ==
    /\ req[r].pc = "password"
    /\ HasPassword(req[r].read, req[r].password) /\ req[r].read.active
    /\ \/ IsDeprecatedHash(req[r].read.hash) /\ Connecting(r, req[r], "migrate")
       \/ ~IsDeprecatedHash(req[r].read.hash) /\ req' = [req EXCEPT ![r].pc = "session"]
                                        /\ UNCHANGED waiting
    /\ UNCHANGED <<row, client, had>>

\* Username or password is incorrect, the account is deactivated, or isEquals throws.
Refuse(r) ==
    /\ req[r].pc = "password"
    /\ ~(HasPassword(req[r].read, req[r].password) /\ req[r].read.active)
    /\ req' = [req EXCEPT ![r].pc = "failed"]
    /\ UNCHANGED <<row, client, waiting, had>>

\* addSession of SessionService; updateLastLogin begins.
AddSession(r) ==
    /\ req[r].pc = "session"
    /\ Connecting(r, req[r], "lastLogin")
    /\ UNCHANGED <<row, client, had>>

-----------------------------------------------------------------------------
(* DatabaseAdapter.write: one transaction with one UPDATE. *)

Begin(r, c) ==
    /\ client[c].by = r /\ req[r].pc = "begin"
    /\ client' = [client EXCEPT ![c].open = TRUE]
    /\ req' = [req EXCEPT ![r].pc = "update"]
    /\ UNCHANGED <<row, waiting, had>>

\* UPDATE ... WHERE id = $n waits for the lock of the row and keeps it; a row that
\* does not exist is not updated.
Update(r, c) ==
    LET u == req[r].user
    IN  /\ client[c].by = r /\ req[r].pc = "update"
        /\ row[u] # Null => ~Locked(u)
        /\ client' = [client EXCEPT ![c].lock = IF row[u] = Null THEN Null ELSE u]
        /\ req' = [req EXCEPT ![r].pc = "commit"]
        /\ UNCHANGED <<row, waiting, had>>

\* What the transaction of r has changed in the row it has locked.
Written(r, u) ==
    IF req[r].job = "migrate"
    THEN [row[u] EXCEPT !.hash = ServiceHash(req[r].password)]
    ELSE row[u]

Commits(r, c) ==
    row' = [u \in User |-> IF client[c].lock = u THEN Written(r, u) ELSE row[u]]

\* COMMIT, and release: a migration goes on to addSession, a login has its ticket.
Commit(r, c) ==
    /\ client[c].by = r /\ req[r].pc = "commit"
    /\ Commits(r, c)
    /\ Release(c, [client[c] EXCEPT !.open = FALSE, !.lock = Null])
    /\ req' = [req EXCEPT ![r].pc = IF req[r].job = "migrate" THEN "session" ELSE "ticket"]
    /\ UNCHANGED <<waiting, had>>

\* Mutant of Rollback: the error handler logs and throws only.
NoRollback(r, c) ==
    /\ client[c].by = r /\ req[r].pc = "rollback"
    /\ Release(c, client[c])
    /\ req' = [req EXCEPT ![r].pc = "failed"]
    /\ UNCHANGED <<row, waiting, had>>

\* ROLLBACK, also on a lost connection, where it throws; release in both cases.
Rollback(r, c) ==
    /\ client[c].by = r /\ req[r].pc = "rollback"
    /\ Release(c, [client[c] EXCEPT !.open = FALSE, !.lock = Null])
    /\ req' = [req EXCEPT ![r].pc = "failed"]
    /\ UNCHANGED <<row, waiting, had>>

\* The connection is lost: the server has ended the transaction.
Lost(c) == [Pooled EXCEPT !.by = client[c].by, !.lost = TRUE]

\* A SELECT fails, with or without its connection: release, and the request ends.
ReadFails(r, c) ==
    /\ client[c].by = r /\ req[r].pc = "select"
    /\ \E state \in {client[c], Lost(c)} : Release(c, state)
    /\ req' = [req EXCEPT ![r].pc = "failed"]
    /\ UNCHANGED <<row, waiting, had>>

\* A statement of a write fails and the error handler sends ROLLBACK.  When the
\* connection is lost at COMMIT, the server may have committed.
WriteFails(r, c) ==
    /\ client[c].by = r /\ req[r].pc \in {"begin", "update", "commit"}
    /\ \E state \in {client[c], Lost(c)} :
        /\ client' = [client EXCEPT ![c] = state]
        /\ \/ UNCHANGED row
           \/ state.lost /\ req[r].pc = "commit" /\ Commits(r, c)
    /\ req' = [req EXCEPT ![r].pc = "rollback"]
    /\ UNCHANGED <<waiting, had>>

Answer(r) ==
    /\ req[r].pc \in {"ticket", "failed"}
    /\ req' = [req EXCEPT ![r] = Idle]
    /\ UNCHANGED <<row, client, waiting, had>>

\* The backend stores a user: creates, changes or deletes it.  It hashes new passwords
\* with the library.
BackendWrites(u) ==
    /\ row[u] # Null => ~Locked(u)
    /\ \E new \in Row \cup {Null} :
        /\ new # Null => \/ new.hash \in {Null} \cup {LibraryHash(p) : p \in Password}
                         \/ row[u] # Null /\ new.hash = row[u].hash
        /\ row' = [row EXCEPT ![u] = new]
        /\ had' = [had EXCEPT ![u] = @ \cup {p \in Password : HasPassword(new, p)}]
    /\ UNCHANGED <<client, waiting, req>>

-----------------------------------------------------------------------------
Arrive(r) ==
    \/ \E n \in Name, p \in Password : Login(r, n, p)
    \/ \E u \in User : WhoAmI(r, u)

Progress(r) ==
    \/ Connect(r) \/ CheckPassword(r) \/ Refuse(r) \/ AddSession(r) \/ Answer(r)
    \/ \E c \in Client :
        \/ Filter(r, c) \/ Get(r, c)
        \/ Begin(r, c) \/ Update(r, c) \/ Commit(r, c) \/ Rollback(r, c)

Fault(r) == ConnectFails(r) \/ \E c \in Client : ReadFails(r, c) \/ WriteFails(r, c)

Next ==
    \/ \E r \in Request : Arrive(r) \/ Progress(r)
    \/ \E u \in User : BackendWrites(u)
NextF == Next \/ \E r \in Request : Fault(r)

Spec == Init /\ [][Next]_vars
SpecF == Init /\ [][NextF]_vars

\* PostgreSQL answers, locks are granted, and the event loop runs every continuation.
FairSpec == SpecF /\ \A r \in Request : WF_vars(Progress(r))

-----------------------------------------------------------------------------
(* Properties. *)

\* Whatever fails, a client that is not lent has no transaction and no lock: the next
\* request that borrows it does not run in somebody else's transaction.
PooledClientsAreClean == \A c \in Client : client[c].by = Null => client[c] = Pooled

\* A password in the table is one that the backend has given this user: no migration
\* makes an account accessible to somebody else.
PasswordsAreGiven ==
    \A u \in User : \A p \in Password : HasPassword(row[u], p) => p \in had[u]

\* Both programs judge every stored password alike, so that whoever can log in can also
\* be verified by the backend; where the service throws, the library refuses.
ProgramsAgree ==
    \A u \in User, p \in Password :
        row[u] # Null => (HasPassword(row[u], p) <=> LibraryIsEqual(p, row[u].hash))

\* No login locks a user out: after a request has changed a row, one of the user's
\* passwords opens the account in both programs.
MigratedPasswordsOpen ==
    [][\A u \in User : row'[u] # row[u] /\ req' # req =>
          \E p \in had[u] : HasPassword(row'[u], p) /\ LibraryIsEqual(p, row'[u].hash)]_vars

\* Every request ends: none waits for a client or for a lock for ever, although a
\* login borrows up to three clients one after the other and requests may fail
\* anywhere.
RequestsFinish == \A r \in Request : req[r].pc # "idle" ~> req[r].pc = "idle"

\* A migration rewrites a password in the new format ("migrate old passwords"): a step
\* that gives a user another password is one of the backend, not of a request.
MigrationKeepsPassword ==
    [][\A u \in User, p \in Password :
          HasPassword(row'[u], p) /\ ~HasPassword(row[u], p) => UNCHANGED req]_vars

\* whoAmI issues a token for users that exist ("Wrong user").
RefreshedUsersExist ==
    \A r \in Request : req[r].job = "get" /\ req[r].pc = "ticket" => req[r].read # Null
=============================================================================
