---------------------- MODULE AuthorizationTokenProofs ----------------------
(***************************************************************************)
(* What holds of AuthorizationToken, failing commands included, for every  *)
(* set of tokens and verifications and all lifetimes that keep the         *)
(* assumption.                                                             *)
(***************************************************************************)
EXTENDS AuthorizationToken, TLAPS

\* A key of the library does not expire before its token.
KeyInv ==
    /\ \A t \in Token : born[t] # Null => born[t] <= now
    /\ \A h \in Header :
           key[h] \in Nat => born[h.token] # Null /\ born[h.token] + TokenTtl <= key[h]

\* The library's mark is there, or the token is dead.
Spent(h) == key[h] # Null \/ Expired(h.token)

\* What a program has accepted carries its mark; the library has accepted headers
\* of one writing.
MarkInv ==
    \A h \in Header :
        /\ uses["service"][h] > 0 => born[h.token] # Null /\ h \in marked
        /\ uses["library"][h] > 0 => born[h.token] # Null /\ Spent(h) /\ h.writing = Issued

\* The header a verification is about had been accepted when it began.
Late(r) == req[r].header.writing \in req[r].before

VerificationInv(r) ==
    req[r].pc # "idle" =>
        LET h == req[r].header
        IN  /\ h \in Header /\ born[h.token] # Null
            /\ req[r].pc = "expire" =>
                IF req[r].by = "service" THEN h \in marked ELSE Spent(h)
            /\ req[r].pc = "get" /\ Late(r) => uses[req[r].by][h] > 0
            /\ req[r].pc \in {"xread", "set", "expire", "accepted"} => ~Late(r)
            /\ req[r].by = "library" => req[r].before \subseteq {Issued}
            /\ req[r].by = "library" /\ req[r].pc \in {"xread", "set", "expire", "accepted"} =>
                h.writing = Issued

TokenInv == TypeOK /\ KeyInv /\ MarkInv /\ \A r \in Request : VerificationInv(r)

\* A step of verification r that goes to a phase and leaves the tokens alone.
LEMMA GotoType ==
  ASSUME TypeOK, NEW r \in Request, NEW from \in {"get", "xread", "set", "expire"},
         NEW to \in {"xread", "set", "expire", "accepted", "rejected"}, Goto(r, from, to)
  PROVE  /\ req' \in [Request -> Verification]
         /\ \A q \in Request : req'[q].pc # "idle" => req'[q].header \in Header
         /\ req[r].pc = from /\ req[r].header \in Header
         /\ req'[r].pc = to /\ req'[r].by = req[r].by /\ req'[r].header = req[r].header
         /\ req'[r].before = req[r].before
         /\ \A q \in Request \ {r} : req'[q] = req[q]
  <1>1. /\ req[r].pc = from /\ req[r] \in Verification /\ req[r].header \in Header
        /\ req' = [req EXCEPT ![r].pc = to]
    BY DEF Goto, TypeOK
  <1>2. req' = [req EXCEPT ![r] = [req[r] EXCEPT !.pc = to]]
    BY <1>1
  <1>3. [req[r] EXCEPT !.pc = to] \in Verification
    BY <1>1 DEF Verification
  <1>4. req'[r] = [req[r] EXCEPT !.pc = to] /\ \A q \in Request \ {r} : req'[q] = req[q]
    BY <1>2 DEF TypeOK
  <1>5. req'[r].pc = to /\ req'[r].by = req[r].by /\ req'[r].header = req[r].header
        /\ req'[r].before = req[r].before
    BY <1>1, <1>4 DEF Verification
  <1> QED BY <1>1, <1>2, <1>3, <1>4, <1>5 DEF TypeOK

\* What an acceptance counts.
LEMMA AcceptUses ==
  ASSUME TypeOK, NEW r \in Request, Accept(r)
  PROVE  /\ Goto(r, "expire", "accepted")
         /\ uses' \in [Program -> [Header -> Nat]]
         /\ \A program \in Program, h \in Header :
                uses'[program][h] > 0 =>
                    uses[program][h] > 0 \/ (program = req[r].by /\ h = req[r].header)
         /\ \A program \in Program, h \in Header : uses'[program][h] >= uses[program][h]
  <1>1. Goto(r, "expire", "accepted") /\ uses' = [uses EXCEPT ![req[r].by][req[r].header] = @ + 1]
    BY DEF Accept
  <1>2. req[r].by \in Program /\ req[r].header \in Header
    BY <1>1 DEF Goto, TypeOK, Verification
  <1>3. uses \in [Program -> [Header -> Nat]]
    BY DEF TypeOK
  <1> QED BY <1>1, <1>2, <1>3

LEMMA TokenTypeStep == TypeOK /\ [NextF]_vars => TypeOK'
  <1> SUFFICES ASSUME TypeOK, [NextF]_vars PROVE TypeOK'
    OBVIOUS
  <1> USE TtlAssumption
  <1>1. CASE Tick
    <2>1. key' \in [Header -> Expiry]
      BY <1>1 DEF Tick, TypeOK, Expiry
    <2> QED BY <1>1, <2>1 DEF Tick, TypeOK
  <1>2. ASSUME NEW t \in Token, CreateToken(t) PROVE TypeOK'
    BY <1>2 DEF CreateToken, TypeOK
  <1>3. ASSUME NEW r \in Request, NEW program \in Program, NEW h \in Header, Begin(r, program, h)
        PROVE  TypeOK'
    <2> DEFINE v == [by |-> program, header |-> h, pc |-> "get",
                    before |-> Accepted(program, h.token)]
    <2>1. v \in Verification /\ v.header \in Header
      BY DEF Verification, TypeOK, Program, Accepted
    <2>2. req' = [req EXCEPT ![r] = v] /\ UNCHANGED <<now, born, marked, key, uses>>
      BY <1>3 DEF Begin, Begins
    <2> HIDE DEF v
    <2> QED BY <2>1, <2>2 DEF TypeOK
  <1>4. ASSUME NEW r \in Request, ServiceGet(r) \/ LibraryGet(r) \/ LibraryXRead(r) PROVE TypeOK'
    <2>1. /\ \E from \in {"get", "xread", "set", "expire"},
                to \in {"xread", "set", "expire", "accepted", "rejected"} : Goto(r, from, to)
          /\ UNCHANGED <<now, born, marked, key, uses>>
      BY <1>4 DEF ServiceGet, LibraryGet, LibraryXRead
    <2>2. /\ req' \in [Request -> Verification]
          /\ \A q \in Request : req'[q].pc # "idle" => req'[q].header \in Header
      BY <2>1, GotoType
    <2> QED BY <2>1, <2>2 DEF TypeOK
  <1>5. ASSUME NEW r \in Request, ServiceSet(r) \/ LibrarySet(r) PROVE TypeOK'
    <2>1. Goto(r, "set", "expire")
      BY <1>5 DEF ServiceSet, LibrarySet
    <2>2. /\ req' \in [Request -> Verification]
          /\ \A q \in Request : req'[q].pc # "idle" => req'[q].header \in Header
          /\ req[r].header \in Header
      BY <2>1, GotoType
    <2>3. marked' \subseteq Header /\ key' \in [Header -> Expiry]
      BY <1>5, <2>2 DEF ServiceSet, LibrarySet, TypeOK, Expiry
    <2>4. UNCHANGED <<now, born, uses>>
      BY <1>5 DEF ServiceSet, LibrarySet
    <2> QED BY <2>2, <2>3, <2>4 DEF TypeOK
  <1>6. ASSUME NEW r \in Request, ServiceExpire(r) \/ LibraryExpire(r) PROVE TypeOK'
    <2>1. Accept(r)
      BY <1>6 DEF ServiceExpire, LibraryExpire
    <2>2. /\ req' \in [Request -> Verification]
          /\ \A q \in Request : req'[q].pc # "idle" => req'[q].header \in Header
          /\ uses' \in [Program -> [Header -> Nat]]
      BY <2>1, AcceptUses, GotoType
    <2>3. key' \in [Header -> Expiry]
      BY <1>6 DEF ServiceExpire, LibraryExpire, TypeOK, Expiry
    <2>4. UNCHANGED <<now, born, marked>>
      BY <1>6 DEF ServiceExpire, LibraryExpire
    <2> QED BY <2>2, <2>3, <2>4 DEF TypeOK
  <1>7. ASSUME NEW r \in Request, Answer(r) PROVE TypeOK'
    <2>1. Idle \in Verification /\ Idle.pc = "idle"
      BY DEF Idle, Verification, Program
    <2> QED BY <1>7, <2>1 DEF Answer, TypeOK
  <1>8. ASSUME NEW r \in Request, CommandFails(r) PROVE TypeOK'
    <2>1. /\ \E from \in {"get", "xread", "set", "expire"} : Goto(r, from, "rejected")
          /\ UNCHANGED <<now, born, marked, key, uses>>
      BY <1>8 DEF CommandFails, Goto
    <2>2. /\ req' \in [Request -> Verification]
          /\ \A q \in Request : req'[q].pc # "idle" => req'[q].header \in Header
      BY <2>1, GotoType
    <2> QED BY <2>1, <2>2 DEF TypeOK
  <1>9. CASE UNCHANGED vars
    BY <1>9 DEF vars, TypeOK
  <1> QED BY <1>1, <1>2, <1>3, <1>4, <1>5, <1>6, <1>7, <1>8, <1>9 DEF NextF, Next, Verify

\* Every variable keeps its type.
THEOREM TokenTypeCorrect == SpecF => []TypeOK
  <1>1. Init => TypeOK
    BY DEF Init, TypeOK, Idle, Verification, Program, Expiry
  <1> QED BY <1>1, TokenTypeStep, PTL DEF SpecF

\* Verifications that go on to a phase where nothing is asked of them keep the invariant.
LEMMA OthersKeep ==
  ASSUME TypeOK, \A q \in Request : VerificationInv(q), NEW r \in Request,
         \A q \in Request \ {r} : req'[q] = req[q],
         marked \subseteq marked', UNCHANGED born,
         \A h \in Header : Spent(h) => Spent(h)',
         \A program \in Program, h \in Header : uses'[program][h] >= uses[program][h],
         uses' \in [Program -> [Header -> Nat]]
  PROVE  \A q \in Request \ {r} : VerificationInv(q)'
  <1> SUFFICES ASSUME NEW q \in Request \ {r}, req[q].pc # "idle" PROVE VerificationInv(q)'
    BY DEF VerificationInv
  <1>1. PICK h \in Header : h = req[q].header
    BY DEF TypeOK
  <1>2. PICK program \in Program : program = req[q].by
    BY DEF TypeOK, Verification
  <1>3. uses[program][h] \in Nat /\ uses'[program][h] \in Nat
        /\ uses'[program][h] >= uses[program][h]
    BY DEF TypeOK
  <1>4. uses[program][h] > 0 => uses'[program][h] > 0
    BY <1>3
  <1> QED BY <1>1, <1>2, <1>4 DEF VerificationInv, Late

LEMMA TokenInvStep == TokenInv /\ [NextF]_vars => TokenInv'
  <1> SUFFICES ASSUME TokenInv, [NextF]_vars PROVE TokenInv'
    OBVIOUS
  <1> USE TtlAssumption, ValuesAssumption
  <1>0. TypeOK /\ TypeOK' /\ KeyInv /\ MarkInv /\ \A r \in Request : VerificationInv(r)
    BY TokenTypeStep DEF TokenInv
  <1>t. /\ now \in Nat /\ born \in [Token -> Nat \cup {Null}] /\ key \in [Header -> Expiry]
        /\ uses \in [Program -> [Header -> Nat]]
    BY <1>0 DEF TypeOK
  <1>1. CASE Tick
    <2>1. ASSUME NEW h \in Header
          PROVE  /\ born'[h.token] # Null => born'[h.token] <= now'
                 /\ key'[h] \in Nat => born'[h.token] # Null /\ born'[h.token] + TokenTtl <= key'[h]
                 /\ born[h.token] # Null /\ Spent(h) => Spent(h)'
      <3>1. now' = now + 1 /\ born' = born
            /\ key'[h] = IF key[h] \in Nat /\ key[h] <= now + 1 THEN Null ELSE key[h]
        BY <1>1 DEF Tick
      <3>2. /\ born[h.token] # Null => born[h.token] <= now /\ born[h.token] \in Nat
            /\ key[h] \in Nat => born[h.token] # Null /\ born[h.token] + TokenTtl <= key[h]
        BY <1>0, <1>t DEF KeyInv, Header
      <3>3. born'[h.token] # Null => born'[h.token] <= now'
        BY <1>t, <3>1, <3>2
      <3>4. key'[h] \in Nat => born'[h.token] # Null /\ born'[h.token] + TokenTtl <= key'[h]
        BY <3>1, <3>2
      <3>5. ASSUME born[h.token] # Null, Spent(h) PROVE Spent(h)'
        <4>1. CASE key[h] \in Nat /\ key[h] <= now + 1
          BY <1>t, <3>1, <3>2, <4>1 DEF Spent, Expired
        <4>2. CASE ~(key[h] \in Nat /\ key[h] <= now + 1)
          BY <1>t, <3>1, <3>2, <3>5, <4>2 DEF Spent, Expired
        <4> QED BY <4>1, <4>2
      <3> QED BY <3>3, <3>4, <3>5
    <2>2. UNCHANGED <<born, marked, req, uses>>
      BY <1>1 DEF Tick
    <2>3. KeyInv'
      <3>1. \A t \in Token : born'[t] # Null => born'[t] <= now'
        BY <1>0, <1>1, <1>t DEF KeyInv, Tick
      <3> QED BY <2>1, <3>1 DEF KeyInv
    <2>4. MarkInv'
      BY <1>0, <2>1, <2>2 DEF MarkInv
    <2>5. ASSUME NEW r \in Request PROVE VerificationInv(r)'
      BY <1>0, <2>1, <2>2 DEF VerificationInv, Late
    <2> QED BY <1>0, <2>3, <2>4, <2>5 DEF TokenInv
  <1>2. ASSUME NEW t \in Token, CreateToken(t) PROVE TokenInv'
    <2>1. born[t] = Null /\ born' = [born EXCEPT ![t] = now]
          /\ UNCHANGED <<now, marked, key, req, uses>>
      BY <1>2 DEF CreateToken
    <2>2. now \in Nat /\ now # Null /\ \A u \in Token : u # t => born'[u] = born[u]
      BY <1>t, <2>1
    <2>3. KeyInv'
      BY <1>0, <1>t, <2>1, <2>2 DEF KeyInv, Header
    <2>4. MarkInv'
      BY <1>0, <1>t, <2>1, <2>2 DEF MarkInv, Spent, Expired, Header
    <2>5. ASSUME NEW r \in Request PROVE VerificationInv(r)'
      BY <1>0, <1>t, <2>1, <2>2 DEF VerificationInv, Late, Spent, Expired, Header
    <2> QED BY <1>0, <2>3, <2>4, <2>5 DEF TokenInv
  <1>3. ASSUME NEW r \in Request, NEW program \in Program, NEW h \in Header, Begin(r, program, h)
        PROVE  TokenInv'
    <2> DEFINE v == [by |-> program, header |-> h, pc |-> "get",
                    before |-> Accepted(program, h.token)]
    <2>1. born[h.token] # Null /\ req' = [req EXCEPT ![r] = v]
          /\ UNCHANGED <<now, born, marked, key, uses>>
      BY <1>3 DEF Begin, Begins
    <2>2. /\ v.pc = "get" /\ v.header = h /\ v.by = program
          /\ h.writing \in v.before => uses[program][h] > 0
          /\ program = "library" => v.before \subseteq {Issued}
      <3>1. v.pc = "get" /\ v.header = h /\ v.by = program /\ v.before = Accepted(program, h.token)
        OBVIOUS
      <3>2. h = [token |-> h.token, writing |-> h.writing] /\ h.token \in Token
        BY DEF Header
      <3>3. ASSUME NEW w \in Writing, uses["library"][[token |-> h.token, writing |-> w]] > 0
            PROVE  w = Issued
        <4>1. [token |-> h.token, writing |-> w] \in Header
          BY <3>2 DEF Header
        <4> QED BY <1>0, <3>3, <4>1 DEF MarkInv
      <3> QED BY <3>1, <3>2, <3>3 DEF Accepted
    <2> HIDE DEF v
    <2>3. req'[r] = v /\ \A q \in Request \ {r} : req'[q] = req[q]
      BY <1>0, <2>1 DEF TypeOK
    <2>4. KeyInv' /\ MarkInv'
      BY <1>0, <2>1 DEF KeyInv, MarkInv, Spent, Expired
    <2>5. VerificationInv(r)'
      BY <2>1, <2>2, <2>3 DEF VerificationInv, Late
    <2>6. \A q \in Request \ {r} : VerificationInv(q)'
      BY <1>0, <2>1, <2>3 DEF VerificationInv, Late, Spent, Expired
    <2> QED BY <1>0, <2>4, <2>5, <2>6 DEF TokenInv
  <1>4. ASSUME NEW r \in Request,
               ServiceGet(r) \/ LibraryGet(r) \/ LibraryXRead(r) \/ CommandFails(r)
        PROVE  TokenInv'
    <2>1. PICK h \in Header, from \in {"get", "xread", "set", "expire"}, to \in {"xread", "set", "rejected"} :
            /\ h = req[r].header /\ Goto(r, from, to)
            /\ UNCHANGED <<now, born, marked, key, uses>>
            /\ from = "get" /\ to # "rejected" =>
                IF req[r].by = "service" THEN h \notin marked ELSE ~Spent(h) /\ h.writing = Issued
            /\ from \in {"set", "expire"} => to = "rejected"
      <3>1. ASSUME NEW from, Goto(r, from, req'[r].pc), from # "idle" PROVE req[r].header \in Header
        BY <1>0, <3>1 DEF TypeOK, Goto
      <3>2. CASE ServiceGet(r)
        BY <1>0, <3>2 DEF ServiceGet, Goto, TypeOK
      <3>3. CASE LibraryGet(r)
        BY <1>0, <3>3 DEF LibraryGet, Goto, TypeOK, Spent
      <3>4. CASE LibraryXRead(r)
        BY <1>0, <3>4 DEF LibraryXRead, Goto, TypeOK
      <3>5. CASE CommandFails(r)
        BY <1>0, <3>5 DEF CommandFails, Goto, TypeOK
      <3> QED BY <1>4, <3>2, <3>3, <3>4, <3>5
    <2>2. /\ req[r].pc = from /\ req'[r].pc = to
          /\ req'[r].by = req[r].by /\ req'[r].header = h /\ req'[r].before = req[r].before
          /\ \A q \in Request \ {r} : req'[q] = req[q]
      BY <1>0, <2>1, GotoType
    <2>3. KeyInv' /\ MarkInv'
      BY <1>0, <2>1 DEF KeyInv, MarkInv, Spent, Expired
    <2>4. \A q \in Request \ {r} : VerificationInv(q)'
      BY <1>0, <2>1, <2>2 DEF VerificationInv, Late, Spent, Expired
    <2>5. VerificationInv(r)'
      <3>1. /\ born[h.token] # Null
            /\ req[r].pc = "get" /\ Late(r) => uses[req[r].by][h] > 0
            /\ req[r].pc \in {"xread", "set", "expire", "accepted"} => ~Late(r)
            /\ req[r].by = "library" => req[r].before \subseteq {Issued}
            /\ req[r].by = "library" /\ req[r].pc \in {"xread", "set", "expire", "accepted"} =>
                h.writing = Issued
        BY <1>0, <2>1, <2>2 DEF VerificationInv
      <3>2. req[r].by \in Program
        BY <1>0 DEF TypeOK, Verification
      <3>3. to # "rejected" => ~Late(r)
        BY <1>0, <2>1, <2>2, <3>1, <3>2 DEF MarkInv, Program
      <3> QED BY <2>1, <2>2, <3>1, <3>3 DEF VerificationInv, Late
    <2> QED BY <1>0, <2>3, <2>4, <2>5 DEF TokenInv
  <1>5. ASSUME NEW r \in Request, ServiceSet(r) \/ LibrarySet(r) PROVE TokenInv'
    <2>1. PICK h \in Header : h = req[r].header /\ Goto(r, "set", "expire")
            /\ UNCHANGED <<now, born, uses>>
      BY <1>0, <1>5 DEF ServiceSet, LibrarySet, Goto, TypeOK
    <2>2. /\ req[r].pc = "set" /\ req'[r].pc = "expire"
          /\ req'[r].by = req[r].by /\ req'[r].header = h /\ req'[r].before = req[r].before
          /\ \A q \in Request \ {r} : req'[q] = req[q]
      BY <1>0, <2>1, GotoType
    <2>3. /\ marked \subseteq marked'
          /\ \A u \in Header : key'[u] = key[u] \/ (key[u] = Null /\ key'[u] = Never)
          /\ IF req[r].by = "service" THEN h \in marked' ELSE key'[h] # Null
      <3>1. CASE ServiceSet(r)
        BY <2>1, <3>1 DEF ServiceSet
      <3>2. CASE LibrarySet(r)
        <4>1. req[r].by = "library" /\ marked' = marked
              /\ key' = [key EXCEPT ![h] = IF @ = Null THEN Never ELSE @]
          BY <2>1, <3>2 DEF LibrarySet
        <4> QED BY <1>t, <4>1
      <3> QED BY <1>5, <3>1, <3>2
    <2>4. \A u \in Header : Spent(u) => Spent(u)'
      BY <2>1, <2>3 DEF Spent, Expired
    <2>5. KeyInv'
      BY <1>0, <2>1, <2>3 DEF KeyInv
    <2>6. MarkInv'
      BY <1>0, <2>1, <2>3, <2>4 DEF MarkInv
    <2>7. \A q \in Request \ {r} : VerificationInv(q)'
      BY <1>0, <2>1, <2>2, <2>3, <2>4 DEF VerificationInv, Late
    <2>8. VerificationInv(r)'
      BY <1>0, <2>1, <2>2, <2>3 DEF VerificationInv, Late, Spent
    <2> QED BY <1>0, <2>5, <2>6, <2>7, <2>8 DEF TokenInv
  <1>6. ASSUME NEW r \in Request, ServiceExpire(r) \/ LibraryExpire(r) PROVE TokenInv'
    <2>1. PICK h \in Header : h = req[r].header /\ Accept(r) /\ UNCHANGED <<now, born, marked>>
      BY <1>0, <1>6 DEF ServiceExpire, LibraryExpire, Accept, Goto, TypeOK
    <2>2. /\ req[r].pc = "expire" /\ req'[r].pc = "accepted"
          /\ req'[r].by = req[r].by /\ req'[r].header = h /\ req'[r].before = req[r].before
          /\ \A q \in Request \ {r} : req'[q] = req[q]
      BY <1>0, <2>1, AcceptUses, GotoType
    <2>3. PICK ttl \in Nat : ttl >= TokenTtl
            /\ key' = [key EXCEPT ![h] = IF @ = Null THEN Null ELSE now + ttl]
      BY <1>6, <2>1 DEF ServiceExpire, LibraryExpire
    <2>4. /\ born[h.token] # Null /\ ~Late(r)
          /\ IF req[r].by = "service" THEN h \in marked ELSE Spent(h)
          /\ (req[r].by = "library" => req[r].before \subseteq {Issued} /\ h.writing = Issued)
      BY <1>0, <2>1, <2>2 DEF VerificationInv
    <2>5. \A u \in Header : Spent(u) => Spent(u)'
      BY <1>t, <2>1, <2>3 DEF Spent, Expired
    <2>6. KeyInv'
      BY <1>0, <1>t, <2>1, <2>3, <2>4 DEF KeyInv, Header
    <2>7. MarkInv'
      <3>1. \A program \in Program, u \in Header : uses'[program][u] > 0 =>
                uses[program][u] > 0 \/ (program = req[r].by /\ u = h)
        BY <1>0, <2>1, AcceptUses
      <3> QED BY <1>0, <2>1, <2>4, <2>5, <3>1 DEF MarkInv, Program
    <2>8. \A q \in Request \ {r} : VerificationInv(q)'
      <3>1. /\ uses' \in [Program -> [Header -> Nat]]
            /\ \A program \in Program, u \in Header : uses'[program][u] >= uses[program][u]
        BY <1>0, <2>1, AcceptUses
      <3> QED BY <1>0, <2>1, <2>2, <2>5, <3>1, OthersKeep
    <2>9. VerificationInv(r)'
      BY <2>1, <2>2, <2>4 DEF VerificationInv, Late
    <2> QED BY <1>0, <2>6, <2>7, <2>8, <2>9 DEF TokenInv
  <1>7. ASSUME NEW r \in Request, Answer(r) PROVE TokenInv'
    <2>1. req' = [req EXCEPT ![r] = Idle] /\ UNCHANGED <<now, born, marked, key, uses>>
      BY <1>7 DEF Answer
    <2>2. req'[r].pc = "idle" /\ \A q \in Request \ {r} : req'[q] = req[q]
      BY <1>0, <2>1 DEF TypeOK, Idle
    <2>3. KeyInv' /\ MarkInv'
      BY <1>0, <2>1 DEF KeyInv, MarkInv, Spent, Expired
    <2>4. \A q \in Request : VerificationInv(q)'
      BY <1>0, <2>1, <2>2 DEF VerificationInv, Late, Spent, Expired
    <2> QED BY <1>0, <2>3, <2>4 DEF TokenInv
  <1>8. CASE UNCHANGED vars
    BY <1>0, <1>8 DEF vars, TokenInv, KeyInv, MarkInv, VerificationInv, Late, Spent, Expired
  <1> QED BY <1>1, <1>2, <1>3, <1>4, <1>5, <1>6, <1>7, <1>8 DEF NextF, Next, Verify

\* No program accepts a header again in a verification that began after it had
\* accepted it, and the library no token in any writing, whatever command fails
\* and however long the commands take.
THEOREM UsedTokensStayUsed == SpecF => []NotAcceptedLater
  <1>1. Init => TokenInv
    <2> SUFFICES ASSUME Init PROVE TokenInv
      OBVIOUS
    <2>1. TypeOK
      BY DEF Init, TypeOK, Idle, Verification, Program, Expiry
    <2>2. /\ \A t \in Token : born[t] = Null
          /\ \A h \in Header : /\ key[h] = Null /\ Null \notin Nat
                               /\ uses["service"][h] = 0 /\ uses["library"][h] = 0
      BY ValuesAssumption DEF Init, Program
    <2>3. KeyInv /\ MarkInv
      BY <2>2 DEF KeyInv, MarkInv
    <2>4. \A r \in Request : VerificationInv(r)
      BY DEF Init, VerificationInv, Idle
    <2> QED BY <2>1, <2>3, <2>4 DEF TokenInv
  <1>2. TokenInv => NotAcceptedLater
    BY DEF TokenInv, VerificationInv, Late, NotAcceptedLater
  <1> QED BY <1>1, <1>2, TokenInvStep, PTL DEF SpecF
=============================================================================
