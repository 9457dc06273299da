------------------------- MODULE AuthorizationToken -------------------------
(***************************************************************************)
(* Authorization tokens (for "forgot password"): signed tokens of ten      *)
(* minutes that are meant to be used once.  Two programs verify them: the  *)
(* auth service, which marks a used token in the hash auth:tokens, and     *)
(* osauthlib, which marks it in a Redis key of its own for the token.      *)
(* Each looks the mark up, checks the signature and sets the mark, one     *)
(* Redis command after the other, while other verifications run.  The mark *)
(* belongs to the Authorization header as it was sent, and the service     *)
(* takes a token with the word "bearer" in upper or lower case, so that    *)
(* one token has several headers.                                          *)
(*                                                                         *)
(* Spec is the healthy system; in SpecF a command may fail, which ends the *)
(* verification with an error answer, also when its process dies.          *)
(***************************************************************************)
EXTENDS Naturals

CONSTANTS
    Token,
    Writing,        \* what may stand before a token in the header
    Bearer,         \* the writings the service takes: "bearer ", "Bearer ", ...
    Issued,         \* the one a token is issued with, which alone the library takes
    Request,        \* slots for verifications under way
    TokenTtl,       \* seconds a token is valid
    LibraryKeyTtl,  \* PASSWORD_RESET_TOKEN_EXPIRATION_TIME of osauthlib
    ServiceKeyTtl,  \* Config.TOKEN_EXPIRATION_TIME * 1.1
    Never,          \* the expiry of a Redis key that has none
    Null

ASSUME TtlAssumption ==
    /\ TokenTtl \in Nat /\ LibraryKeyTtl \in Nat /\ ServiceKeyTtl \in Nat
    /\ TokenTtl <= LibraryKeyTtl /\ TokenTtl <= ServiceKeyTtl
ASSUME ValuesAssumption ==
    /\ Never \notin Nat /\ Never # Null
    /\ Null \notin Nat /\ Null \notin [token : Token, writing : Writing]
ASSUME WritingAssumption == Bearer \subseteq Writing /\ Issued \in Bearer

VARIABLES
    now,        \* the clock of Redis and of both programs, in seconds
    born,       \* when a token was created
    marked,     \* headers with a field in the hash auth:tokens
    key,        \* when the key auth:tokens:<header> expires; Null: there is none
    req,        \* the verifications
    uses        \* history: how often each program accepted a header

vars == <<now, born, marked, key, req, uses>>

Program == {"service", "library"}
Header == [token : Token, writing : Writing]
Expiry == Nat \cup {Never, Null}

\* "before" (history): the writings in which the program had accepted the token
\* when the verification began.
Verification ==
    [by : Program, header : Header \cup {Null}, before : SUBSET Writing,
     pc : {"idle", "get", "xread", "set", "expire", "accepted", "rejected"}]
Idle == [by |-> "service", header |-> Null, before |-> {}, pc |-> "idle"]

TypeOK ==
    /\ now \in Nat
    /\ born \in [Token -> Nat \cup {Null}]
    /\ marked \subseteq Header
    /\ key \in [Header -> Expiry]
    /\ req \in [Request -> Verification]
    /\ \A r \in Request : req[r].pc # "idle" => req[r].header \in Header
    /\ uses \in [Program -> [Header -> Nat]]

Init ==
    /\ now = 0
    /\ born = [t \in Token |-> Null]
    /\ marked = {}
    /\ key = [h \in Header |-> Null]
    /\ req = [r \in Request |-> Idle]
    /\ uses = [program \in Program |-> [h \in Header |-> 0]]

-----------------------------------------------------------------------------
CreateToken(t) ==
    /\ born[t] = Null
    /\ born' = [born EXCEPT ![t] = now]
    /\ UNCHANGED <<now, marked, key, req, uses>>

\* verifyJwt, jwt.decode: the token is older than its lifetime.
Expired(t) == now >= born[t] + TokenTtl

\* The writings in which a program has accepted a token.
Accepted(program, t) ==
    {w \in Writing : uses[program][[token |-> t, writing |-> w]] > 0}

Begins(r, program, h) ==
    /\ req[r].pc = "idle"
    /\ req' = [req EXCEPT ![r] = [by |-> program, header |-> h, pc |-> "get",
                                  before |-> Accepted(program, h.token)]]
    /\ UNCHANGED <<now, born, marked, key, uses>>

\* Mutant of Begin: the header is not looked at.
BeginUnchecked(r, program, h) ==
    \/ Begins(r, program, h)
    \/ /\ req[r].pc = "idle"
       /\ req' = [req EXCEPT ![r].pc = "get"]
       /\ UNCHANGED <<now, born, marked, key, uses>>

Begin(r, program, h) == born[h.token] # Null /\ Begins(r, program, h)

Goto(r, from, to) == req[r].pc = from /\ req' = [req EXCEPT ![r].pc = to]

\* HGET is answered: the header is marked, or is no bearer's, or its token is too
\* old; that is found in the same turn of the event loop.
ServiceGet(r) ==
    LET h == req[r].header
        refused == h \in marked \/ h.writing \notin Bearer \/ Expired(h.token)
    IN  /\ req[r].by = "service"
        /\ Goto(r, "get", IF refused THEN "rejected" ELSE "set")
        /\ UNCHANGED <<now, born, marked, key, uses>>

\* The same in the library, which knows one writing and asks the stream of logouts
\* next.
LibraryGet(r) ==
    LET h == req[r].header
        refused == key[h] # Null \/ h.writing # Issued \/ Expired(h.token)
    IN  /\ req[r].by = "library"
        /\ Goto(r, "get", IF refused THEN "rejected" ELSE "xread")
        /\ UNCHANGED <<now, born, marked, key, uses>>

\* is_session_invalid of a token that carries no session: False.
LibraryXRead(r) ==
    /\ Goto(r, "xread", "set")
    /\ UNCHANGED <<now, born, marked, key, uses>>

\* HSET auth:tokens auth:tokens:<header>: the field is the header as it was sent.
ServiceSet(r) ==
    /\ req[r].by = "service" /\ Goto(r, "set", "expire")
    /\ marked' = marked \cup {req[r].header}
    /\ UNCHANGED <<now, born, key, uses>>

Accept(r) ==
    /\ Goto(r, "expire", "accepted")
    /\ uses' = [uses EXCEPT ![req[r].by][req[r].header] = @ + 1]

\* EXPIRE auth:tokens:<header>: Redis has such a key only when the library made one;
\* the field of the hash stays.
ServiceExpire(r) ==
    LET h == req[r].header
    IN  /\ req[r].by = "service" /\ Accept(r)
        /\ key' = [key EXCEPT ![h] = IF @ = Null THEN Null ELSE now + ServiceKeyTtl]
        /\ UNCHANGED <<now, born, marked>>

\* HSET auth:tokens:<header>: a key that is there keeps its expiry.
LibrarySet(r) ==
    /\ req[r].by = "library" /\ Goto(r, "set", "expire")
    /\ key' = [key EXCEPT ![req[r].header] = IF @ = Null THEN Never ELSE @]
    /\ UNCHANGED <<now, born, marked, uses>>

\* Mutant of LibraryExpire: a shorter time than the token lives.
LibraryExpireEarly(r) ==
    /\ req[r].by = "library" /\ Accept(r)
    /\ key' = [key EXCEPT ![req[r].header] = IF @ = Null THEN Null ELSE now + TokenTtl \div 2]
    /\ UNCHANGED <<now, born, marked>>

LibraryExpire(r) ==
    /\ req[r].by = "library" /\ Accept(r)
    /\ key' = [key EXCEPT ![req[r].header] = IF @ = Null THEN Null ELSE now + LibraryKeyTtl]
    /\ UNCHANGED <<now, born, marked>>

Answer(r) ==
    /\ req[r].pc \in {"accepted", "rejected"}
    /\ req' = [req EXCEPT ![r] = Idle]
    /\ UNCHANGED <<now, born, marked, key, uses>>

\* Redis drops the keys whose time has come.
Tick ==
    /\ now' = now + 1
    /\ key' = [h \in Header |->
                  IF key[h] \in Nat /\ key[h] <= now + 1 THEN Null ELSE key[h]]
    /\ UNCHANGED <<born, marked, req, uses>>

\* A command fails and the exception answers the request.
CommandFails(r) ==
    /\ req[r].pc \in {"get", "xread", "set", "expire"}
    /\ req' = [req EXCEPT ![r].pc = "rejected"]
    /\ UNCHANGED <<now, born, marked, key, uses>>

-----------------------------------------------------------------------------
Verify(r) ==
    \/ ServiceGet(r) \/ ServiceSet(r) \/ ServiceExpire(r)
    \/ LibraryGet(r) \/ LibraryXRead(r) \/ LibrarySet(r) \/ LibraryExpire(r)
    \/ Answer(r)

Next ==
    \/ Tick
    \/ \E t \in Token : CreateToken(t)
    \/ \E r \in Request, program \in Program, h \in Header : Begin(r, program, h)
    \/ \E r \in Request : Verify(r)

NextF == Next \/ \E r \in Request : CommandFails(r)

Spec == Init /\ [][Next]_vars
SpecF == Init /\ [][NextF]_vars

-----------------------------------------------------------------------------
(* Properties. *)

\* A header that a program has accepted is refused by every verification that the
\* same program begins later, for as long as its token lives: the mark of the
\* library, which does expire, outlives the token.  The library refuses the token
\* in every writing; the service, whose mark is the header, takes the token of
\* "bearer X" again as "Bearer X".
NotAcceptedLater ==
    \A r \in Request : req[r].pc = "accepted" =>
        /\ req[r].header.writing \notin req[r].before
        /\ req[r].by = "library" => req[r].before = {}

\* A header is valid once: a comment of the tests of both programs, which verify it
\* twice, one after the other.
OnlyOnce == \A h \in Header : uses["service"][h] + uses["library"][h] <= 1
=============================================================================
