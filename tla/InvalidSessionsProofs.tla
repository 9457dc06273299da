------------------------ MODULE InvalidSessionsProofs ------------------------
(***************************************************************************)
(* What holds of InvalidSessions for every set of sessions and processes,  *)
(* every offset of their clocks and all times that keep the margin.        *)
(***************************************************************************)
EXTENDS InvalidSessions, FiniteSetTheorems, TLAPS

\* Entry n of the stream, once added, is ahead of every entry before it.
LEMMA NewEntry ==
  ASSUME TypeOK, NEW j \in jobs, XAdd(j)
  PROVE  \E e \in Entry :
            /\ e.session = j.session /\ e.ts = now
            /\ \A d \in stream : After(e, d)
            /\ stream' = stream \cup {e}
            /\ loggedOut' = [loggedOut EXCEPT ![j.session] = IF @ = Null THEN e ELSE @]
  <1>1. PICK n \in {0} \cup {d.seq + 1 : d \in stream} :
          LET e == [session |-> j.session, ts |-> now, seq |-> n]
          IN  /\ \A d \in stream : After(e, d)
              /\ stream' = stream \cup {e}
              /\ loggedOut' = [loggedOut EXCEPT ![j.session] = IF @ = Null THEN e ELSE @]
    BY DEF XAdd
  <1>2. n \in Nat
    BY DEF TypeOK, Entry
  <1>3. [session |-> j.session, ts |-> now, seq |-> n] \in Entry
    BY <1>2 DEF TypeOK, Entry, Job
  <1> QED BY <1>1, <1>3

\* A process reads from where it stopped or from PRUNE_TIME ago.
LEMMA ReadAfterType ==
  ASSUME TypeOK, NEW p \in Process
  PROVE  /\ ReadAfter(p) \in StreamId
         /\ \/ ReadAfter(p) = lastId[p] /\ Clock(p) - PruneTime <= lastId[p].ts
            \/ ReadAfter(p) = [ts |-> Clock(p) - PruneTime, seq |-> 0]
  BY TimesAssumption DEF TypeOK, ReadAfter, StreamId, Clock

\* A verification begins: what the three kinds have in common.
LEMMA AskAction ==
  ASSUME TypeOK, NEW p \in Process, Ask(p)
  PROVE  \E via \in {"token", "cookie", "authorization"}, s \in Session \cup {Null} :
            /\ AskWhetherInvalid(p, via, s)
            /\ via # "authorization" => s \in Session
            /\ via = "token" => \E t \in tokens : t.session = s /\ Clock(p) < t.iat + TokenTtl
  <1>1. ASSUME NEW t \in tokens, VerifyToken(p, t)
        PROVE  t.session \in Session /\ AskWhetherInvalid(p, "token", t.session)
               /\ Clock(p) < t.iat + TokenTtl
    BY <1>1 DEF VerifyToken, TypeOK, Token
  <1>2. ASSUME NEW s \in Session, VerifyCookie(p, s) PROVE AskWhetherInvalid(p, "cookie", s)
    BY <1>2 DEF VerifyCookie
  <1>3. VerifyAuthorization(p) => AskWhetherInvalid(p, "authorization", Null)
    BY DEF VerifyAuthorization
  <1> QED BY <1>1, <1>2, <1>3 DEF Ask

LEMMA TypeStep == TypeOK /\ [Next]_vars => TypeOK'
  <1> SUFFICES ASSUME TypeOK, [Next]_vars PROVE TypeOK'
    OBVIOUS
  <1> USE TimesAssumption
  <1>v. NoVerdict \in [by : Process \cup {Null}, via : {"token", "cookie", "authorization", "none"},
                       session : Session \cup {Null}, ok : BOOLEAN]
    BY DEF NoVerdict
  <1>j. ASSUME NEW s \in Session, NEW K \in SUBSET {"ticket", "hdel", "xadd"}, Start(K, s)
        PROVE  jobs' \subseteq Job
    BY <1>j DEF Start, TypeOK, Job
  <1>1. CASE Tick
    BY <1>1, <1>v DEF Tick, TypeOK, service, library
  <1>2. ASSUME NEW s \in Session, Login(s) PROVE TypeOK'
    <2>1. jobs' \subseteq Job
      BY <1>2, <1>j DEF Login
    <2> QED BY <1>2, <2>1, <1>v DEF Login, TypeOK, library
  <1>3. ASSUME NEW s \in Session, CheckSession(s) PROVE TypeOK'
    <2>1. jobs' \subseteq Job
      BY <1>3, <1>j DEF CheckSession
    <2> QED BY <1>3, <2>1, <1>v DEF CheckSession, TypeOK, library
  <1>4. ASSUME NEW s \in Session, RemoveSession(s) PROVE TypeOK'
    <2>1. jobs' \subseteq Job
      BY <1>4, <1>j DEF RemoveSession
    <2> QED BY <1>4, <2>1, <1>v DEF RemoveSession, TypeOK, library
  <1>5. ASSUME NEW j \in jobs, IssueToken(j) PROVE TypeOK'
    <2>1. [session |-> j.session, iat |-> now] \in Token
      BY DEF TypeOK, Token, Job
    <2> QED BY <1>5, <2>1, <1>v DEF IssueToken, TypeOK, library
  <1>6. ASSUME NEW j \in jobs, HDel(j) PROVE TypeOK'
    BY <1>6, <1>v DEF HDel, TypeOK, library
  <1>7. ASSUME NEW j \in jobs, XAdd(j) PROVE TypeOK'
    <2>1. PICK e \in Entry :
            /\ stream' = stream \cup {e}
            /\ loggedOut' = [loggedOut EXCEPT ![j.session] = IF @ = Null THEN e ELSE @]
      BY <1>7, NewEntry
    <2>2. stream' \subseteq Entry /\ invalid' \in [Process -> SUBSET stream']
      BY <1>7, <2>1 DEF XAdd, TypeOK, library
    <2>3. loggedOut' \in [Session -> stream' \cup {Null}]
      BY <2>1 DEF TypeOK
    <2> QED BY <1>7, <2>2, <2>3, <1>v DEF XAdd, TypeOK, library
  <1>8. ASSUME NEW p \in Process, Ask(p) PROVE TypeOK'
    <2>1. PICK via \in {"token", "cookie", "authorization"}, s \in Session \cup {Null} :
            AskWhetherInvalid(p, via, s)
      BY <1>8, AskAction
    <2>2. [via |-> via, session |-> s, after |-> ReadAfter(p)] \in Check
      BY ReadAfterType DEF Check
    <2>3. check' \in [Process -> Check \cup {Null}]
      BY <2>1, <2>2 DEF AskWhetherInvalid, TypeOK
    <2>4. invalid' \in [Process -> SUBSET stream]
      BY <2>1 DEF AskWhetherInvalid, TypeOK, Pruned
    <2> QED BY <2>1, <2>3, <2>4, <1>v DEF AskWhetherInvalid, TypeOK, service
  <1>9. ASSUME NEW p \in Process, XRead(p) PROVE TypeOK'
    <2>1. check[p] \in Check /\ check' \in [Process -> Check \cup {Null}]
      BY <1>9 DEF XRead, TypeOK
    <2>2. invalid' \in [Process -> SUBSET stream]
      <3>1. invalid' = [invalid EXCEPT ![p] =
                          Updated(@, {e \in stream : After(e, check[p].after)})]
        BY <1>9 DEF XRead
      <3> QED BY <3>1 DEF TypeOK, Updated
    <2>3. lastId' \in [Process -> StreamId]
      <3>1. ASSUME NEW e \in stream PROVE IdOfLast(e) \in StreamId
        BY DEF IdOfLast, TypeOK, Entry, StreamId
      <3>2. check[p].after \in StreamId
        BY <2>1 DEF Check
      <3> QED BY <1>9, <3>1, <3>2 DEF XRead, TypeOK
    <2>4. verdict' \in [by : Process \cup {Null}, via : {"token", "cookie", "authorization", "none"},
                        session : Session \cup {Null}, ok : BOOLEAN]
      <3> DEFINE ok == ~Knows(invalid'[p], check[p].session)
      <3>1. ok \in BOOLEAN
        BY DEF Knows
      <3>2. verdict' = [by |-> p, via |-> check[p].via, session |-> check[p].session, ok |-> ok]
        BY <1>9 DEF XRead
      <3> HIDE DEF ok
      <3> QED BY <2>1, <3>1, <3>2 DEF Check
    <2> QED BY <1>9, <2>1, <2>2, <2>3, <2>4 DEF XRead, TypeOK, service
  <1>10. ASSUME NEW p \in Process, XReadFails(p) PROVE TypeOK'
    BY <1>10, <1>v DEF XReadFails, TypeOK, service
  <1>11. ASSUME NEW p \in Process, Restart(p) PROVE TypeOK'
    BY <1>11, <1>v DEF Restart, TypeOK, service, StreamId
  <1>12. CASE UNCHANGED vars
    BY <1>12 DEF vars, service, library, TypeOK
  <1> QED BY <1>1, <1>2, <1>3, <1>4, <1>5, <1>6, <1>7, <1>8, <1>9, <1>10, <1>11, <1>12
          DEF Next, Serve

\* Every variable keeps its type.
THEOREM LibraryTypeCorrect == Spec => []TypeOK
  <1>1. Init => TypeOK
    BY TimesAssumption DEF Init, TypeOK, StreamId, NoVerdict
  <1> QED BY <1>1, TypeStep, PTL DEF Spec

-----------------------------------------------------------------------------
(* The inductive invariant. *)

\* Nothing is dated in the future, and no request is older than RequestTime.
TimeInv ==
    /\ now >= 1
    /\ \A j \in jobs : j.at <= now /\ now <= j.at + RequestTime /\ j.session \in used
    /\ \A t \in tokens : t.iat <= now /\ t.session \in used
    /\ \A d \in stream : 1 <= d.ts /\ d.ts <= now /\ d.session \in used
    /\ live \subseteq used

\* loggedOut is the first entry of its session.
FirstInv ==
    /\ \A d \in stream : loggedOut[d.session] # Null /\ ~After(loggedOut[d.session], d)
    /\ \A s \in Session : loggedOut[s] # Null => loggedOut[s].session = s

\* A session that is still live while its logout is on its way has an HDEL on its
\* way too, not sent later than the XADD; so a ticket that was begun for it is not
\* much younger than the logout.
JobInv ==
    /\ \A k \in jobs : k.kind = "xadd" /\ k.session \in live
            => \E h \in jobs : h.kind = "hdel" /\ h.session = k.session /\ h.at = k.at
    /\ \A s \in live : loggedOut[s] # Null
            => \E h \in jobs : h.kind = "hdel" /\ h.session = s /\ h.at <= loggedOut[s].ts
    /\ \A j \in jobs : j.kind = "ticket" /\ loggedOut[j.session] # Null
            => j.at <= loggedOut[j.session].ts + RequestTime
    /\ \A t \in tokens : loggedOut[t.session] # Null
            => t.iat <= loggedOut[t.session].ts + 2 * RequestTime

\* Every entry still to come is ahead of id.
AtMostLast(id) == \E d \in stream : ~After(id, d)
\* A process that reads on from id misses no logout of the last PRUNE_TIME.
Covers(p, id) ==
    /\ id.ts = 0 \/ id.ts <= Clock(p) - PruneTime \/ AtMostLast(id)
    /\ \A s \in Session : loggedOut[s] # Null /\ loggedOut[s].ts > Clock(p) - PruneTime
            => Knows(invalid[p], s) \/ After(loggedOut[s], id)
\* ... and no logout of session s at all.
CoversSession(p, id, s) ==
    /\ id.ts < now \/ AtMostLast(id)
    /\ loggedOut[s] # Null => Knows(invalid[p], s) \/ After(loggedOut[s], id)

ProcessInv(p) ==
    /\ Covers(p, lastId[p])
    /\ check[p] # Null =>
        /\ Covers(p, check[p].after)
        /\ check[p].via # "authorization" => check[p].session \in Session
        /\ check[p].via = "token" => CoversSession(p, check[p].after, check[p].session)

LibInv ==
    /\ TypeOK /\ TimeInv /\ FirstInv /\ JobInv
    /\ \A p \in Process : ProcessInv(p)
    /\ TokensDieWithLogout /\ CookiesRefusedForPruneTime

\* The first entry of a session is in the stream.
LEMMA LoggedOutType ==
  ASSUME TypeOK, FirstInv, NEW s \in Session, loggedOut[s] # Null
  PROVE  /\ loggedOut[s] \in stream /\ loggedOut[s] \in Entry
         /\ loggedOut[s].session = s /\ loggedOut[s].ts \in Nat /\ loggedOut[s].seq \in Nat
  BY DEF TypeOK, FirstInv, Entry

\* What an XADD does to loggedOut.
LEMMA FirstEntry ==
  ASSUME TypeOK, NEW j \in jobs, XAdd(j)
  PROVE  \E e \in Entry :
            /\ e.session = j.session /\ e.ts = now /\ e # Null
            /\ \A d \in stream : After(e, d)
            /\ stream' = stream \cup {e}
            /\ loggedOut' \in [Session -> Entry \cup {Null}]
            /\ \A s \in Session : loggedOut'[s] =
                    IF s = j.session /\ loggedOut[s] = Null THEN e ELSE loggedOut[s]
  <1>1. PICK e \in Entry :
            /\ e.session = j.session /\ e.ts = now
            /\ \A d \in stream : After(e, d)
            /\ stream' = stream \cup {e}
            /\ loggedOut' = [loggedOut EXCEPT ![j.session] = IF @ = Null THEN e ELSE @]
    BY NewEntry
  <1>2. e # Null
    BY NullAssumption
  <1>3. loggedOut \in [Session -> Entry \cup {Null}]
    BY DEF TypeOK
  <1> QED BY <1>1, <1>2, <1>3

LEMMA TimeStep == TypeOK /\ FirstInv /\ TimeInv /\ [Next]_vars => TimeInv'
  <1> SUFFICES ASSUME TypeOK, FirstInv, TimeInv, [Next]_vars PROVE TimeInv'
    OBVIOUS
  <1> USE TimesAssumption
  <1>j. ASSUME NEW s \in used', used \subseteq used', UNCHANGED now, NEW K, Start(K, s)
        PROVE  \A j \in jobs' : j.at <= now' /\ now' <= j.at + RequestTime /\ j.session \in used'
    BY <1>j DEF Start, TypeOK, TimeInv
  <1>1. CASE Tick
    BY <1>1 DEF Tick, TypeOK, TimeInv, service, Job, Token, Entry
  <1>2. ASSUME NEW s \in Session, Login(s) PROVE TimeInv'
    <2>1. \A j \in jobs' : j.at <= now' /\ now' <= j.at + RequestTime /\ j.session \in used'
      BY <1>2, <1>j DEF Login
    <2> QED BY <1>2, <2>1 DEF Login, TypeOK, TimeInv
  <1>3. ASSUME NEW s \in Session, CheckSession(s) PROVE TimeInv'
    <2>1. \A j \in jobs' : j.at <= now' /\ now' <= j.at + RequestTime /\ j.session \in used'
      BY <1>3, <1>j DEF CheckSession, TimeInv
    <2> QED BY <1>3, <2>1 DEF CheckSession, TypeOK, TimeInv
  <1>4. ASSUME NEW s \in Session, RemoveSession(s) PROVE TimeInv'
    <2>1. \A j \in jobs' : j.at <= now' /\ now' <= j.at + RequestTime /\ j.session \in used'
      BY <1>4, <1>j DEF RemoveSession
    <2> QED BY <1>4, <2>1 DEF RemoveSession, TypeOK, TimeInv
  <1>5. ASSUME NEW j \in jobs, IssueToken(j) PROVE TimeInv'
    BY <1>5 DEF IssueToken, TypeOK, TimeInv
  <1>6. ASSUME NEW j \in jobs, HDel(j) PROVE TimeInv'
    BY <1>6 DEF HDel, TypeOK, TimeInv
  <1>7. ASSUME NEW j \in jobs, XAdd(j) PROVE TimeInv'
    <2>1. PICK e \in Entry : e.session = j.session /\ e.ts = now /\ stream' = stream \cup {e}
      BY <1>7, NewEntry
    <2> QED BY <1>7, <2>1 DEF XAdd, TypeOK, TimeInv
  <1>8. ASSUME NEW p \in Process, Ask(p) PROVE UNCHANGED <<now, service, stream>>
    <2>1. PICK via \in {"token", "cookie", "authorization"}, s \in Session \cup {Null} :
            AskWhetherInvalid(p, via, s)
      BY <1>8, AskAction
    <2> QED BY <2>1 DEF AskWhetherInvalid
  <1>9. ASSUME NEW p \in Process, XRead(p) \/ XReadFails(p) \/ Restart(p)
        PROVE  UNCHANGED <<now, service, stream>>
    BY <1>9 DEF XRead, XReadFails, Restart
  <1>10. CASE UNCHANGED vars
    BY <1>10 DEF vars, service, TimeInv
  <1> QED BY <1>1, <1>2, <1>3, <1>4, <1>5, <1>6, <1>7, <1>8, <1>9, <1>10
          DEF Next, Serve, service, TimeInv

\* Only XADD touches the stream.
LEMMA StreamSteps ==
  ASSUME TypeOK, [Next]_vars
  PROVE  (\E j \in jobs : XAdd(j)) \/ UNCHANGED <<stream, loggedOut>>
  <1>1. ASSUME NEW p \in Process, Ask(p) PROVE UNCHANGED <<stream, loggedOut>>
    <2>1. PICK via \in {"token", "cookie", "authorization"}, s \in Session \cup {Null} :
            AskWhetherInvalid(p, via, s)
      BY <1>1, AskAction
    <2> QED BY <2>1 DEF AskWhetherInvalid
  <1>2. ASSUME NEW p \in Process, XRead(p) \/ XReadFails(p) \/ Restart(p)
        PROVE  UNCHANGED <<stream, loggedOut>>
    BY <1>2 DEF XRead, XReadFails, Restart
  <1>3. ASSUME NEW s \in Session, Login(s) \/ CheckSession(s) \/ RemoveSession(s)
        PROVE  UNCHANGED <<stream, loggedOut>>
    BY <1>3 DEF Login, CheckSession, RemoveSession
  <1>4. ASSUME NEW j \in jobs, IssueToken(j) \/ HDel(j) PROVE UNCHANGED <<stream, loggedOut>>
    BY <1>4 DEF IssueToken, HDel
  <1> QED BY <1>1, <1>2, <1>3, <1>4 DEF Next, Serve, Tick, vars

LEMMA FirstStep == TypeOK /\ FirstInv /\ [Next]_vars => FirstInv'
  <1> SUFFICES ASSUME TypeOK, FirstInv, [Next]_vars PROVE FirstInv'
    OBVIOUS
  <1>1. ASSUME NEW j \in jobs, XAdd(j) PROVE FirstInv'
    <2>1. PICK e \in Entry :
            /\ e.session = j.session /\ e.ts = now /\ e # Null
            /\ \A d \in stream : After(e, d)
            /\ stream' = stream \cup {e}
            /\ loggedOut' \in [Session -> Entry \cup {Null}]
            /\ \A s \in Session : loggedOut'[s] =
                    IF s = j.session /\ loggedOut[s] = Null THEN e ELSE loggedOut[s]
      BY <1>1, FirstEntry
    <2>2. ASSUME NEW s \in Session, loggedOut'[s] # Null PROVE loggedOut'[s].session = s
      BY <2>1, <2>2 DEF FirstInv
    <2>3. ASSUME NEW d \in stream' PROVE loggedOut'[d.session] # Null /\ ~After(loggedOut'[d.session], d)
      <3>1. d.session \in Session /\ j.session \in Session
        BY <2>1 DEF TypeOK, Entry
      <3>2. CASE d \in stream
        <4>1. loggedOut[d.session] # Null /\ ~After(loggedOut[d.session], d)
          BY <3>2 DEF FirstInv
        <4> QED BY <2>1, <3>1, <4>1
      <3>3. CASE d = e
        <4>1. CASE loggedOut[j.session] = Null
          BY <2>1, <3>1, <3>3, <4>1 DEF After, Entry
        <4>2. CASE loggedOut[j.session] # Null
          <5>1. loggedOut[j.session] \in stream
            BY <3>1, <4>2 DEF TypeOK
          <5>2. loggedOut[j.session] \in Entry /\ After(e, loggedOut[j.session])
            BY <2>1, <5>1 DEF TypeOK
          <5>3. ~After(loggedOut[j.session], e)
            BY <5>2 DEF After, Entry
          <5> QED BY <2>1, <3>1, <3>3, <4>2, <5>3
        <4> QED BY <4>1, <4>2
      <3> QED BY <2>1, <3>2, <3>3
    <2> QED BY <2>2, <2>3 DEF FirstInv
  <1>2. CASE UNCHANGED <<stream, loggedOut>>
    BY <1>2 DEF FirstInv
  <1> QED BY <1>1, <1>2, StreamSteps

LEMMA JobStep == TypeOK /\ TimeInv /\ FirstInv /\ JobInv /\ [Next]_vars => JobInv'
  <1> SUFFICES ASSUME TypeOK, TimeInv, FirstInv, JobInv, [Next]_vars PROVE JobInv'
    OBVIOUS
  <1> USE TimesAssumption
  <1>t. /\ \A s \in Session : loggedOut[s] # Null
              => loggedOut[s].ts \in Nat /\ loggedOut[s].ts <= now /\ s \in used
        /\ \A j \in jobs : j.at \in Nat /\ j.session \in Session /\ j.at <= now
        /\ \A t \in tokens : t.iat \in Nat /\ t.session \in Session
        /\ live \subseteq Session
    <2>1. ASSUME NEW s \in Session, loggedOut[s] # Null
          PROVE  loggedOut[s].ts \in Nat /\ loggedOut[s].ts <= now /\ s \in used
      BY <2>1, LoggedOutType DEF TimeInv
    <2> QED BY <2>1 DEF TypeOK, Job, Token, TimeInv
  <1>1. CASE Tick
    BY <1>1 DEF Tick, JobInv, service
  <1>2. ASSUME NEW s \in Session, Login(s) PROVE JobInv'
    <2>1. jobs' = jobs \cup {[kind |-> "ticket", session |-> s, at |-> now]}
      BY <1>2 DEF Login, Start
    <2>2. loggedOut[s] = Null /\ \A k \in jobs : k.session # s
      BY <1>2, <1>t DEF Login, TimeInv
    <2> QED BY <1>2, <1>t, <2>1, <2>2 DEF Login, JobInv
  <1>3. ASSUME NEW s \in Session, CheckSession(s) PROVE JobInv'
    <2>1. jobs' = jobs \cup {[kind |-> "ticket", session |-> s, at |-> now]}
      BY <1>3 DEF CheckSession, Start
    <2>2. ASSUME loggedOut[s] # Null PROVE now <= loggedOut[s].ts + RequestTime
      <3>1. PICK h \in jobs : h.at <= loggedOut[s].ts
        BY <1>3, <2>2 DEF CheckSession, JobInv
      <3>2. now <= h.at + RequestTime
        BY DEF TimeInv
      <3> QED BY <1>t, <2>2, <3>1, <3>2 DEF TypeOK
    <2> QED BY <1>3, <1>t, <2>1, <2>2 DEF CheckSession, JobInv
  <1>4. ASSUME NEW s \in Session, RemoveSession(s) PROVE JobInv'
    <2>1. jobs' = jobs \cup {[kind |-> "hdel", session |-> s, at |-> now],
                             [kind |-> "xadd", session |-> s, at |-> now]}
      BY <1>4 DEF RemoveSession, Start
    <2>2. UNCHANGED <<now, live, tokens, loggedOut>> /\ jobs \subseteq jobs'
      BY <1>4, <2>1 DEF RemoveSession
    <2>3. ASSUME NEW k \in jobs', k.kind = "xadd", k.session \in live
          PROVE  \E h \in jobs' : h.kind = "hdel" /\ h.session = k.session /\ h.at = k.at
      <3>1. CASE k \in jobs
        BY <2>2, <2>3, <3>1 DEF JobInv
      <3>2. CASE k = [kind |-> "xadd", session |-> s, at |-> now]
        <4> DEFINE h == [kind |-> "hdel", session |-> s, at |-> now]
        <4>1. h \in jobs' /\ h.kind = "hdel" /\ h.session = k.session /\ h.at = k.at
          BY <2>1, <3>2
        <4> QED BY <4>1
      <3>3. k = [kind |-> "hdel", session |-> s, at |-> now] => FALSE
        BY <2>3
      <3> QED BY <2>1, <2>3, <3>1, <3>2, <3>3
    <2>4. ASSUME NEW k \in jobs', k.kind = "ticket" PROVE k \in jobs
      BY <2>1, <2>4
    <2> QED BY <2>2, <2>3, <2>4 DEF JobInv
  <1>5. ASSUME NEW j \in jobs, IssueToken(j) PROVE JobInv'
    <2>1. jobs' = jobs \ {j} /\ j.kind = "ticket"
          /\ tokens' = tokens \cup {[session |-> j.session, iat |-> now]}
      BY <1>5 DEF IssueToken
    <2>2. ASSUME loggedOut[j.session] # Null
          PROVE  now <= loggedOut[j.session].ts + 2 * RequestTime
      <3>1. j.at <= loggedOut[j.session].ts + RequestTime /\ now <= j.at + RequestTime
        BY <2>1, <2>2 DEF JobInv, TimeInv
      <3> QED BY <1>t, <2>2, <3>1 DEF TypeOK
    <2> QED BY <1>5, <1>t, <2>1, <2>2 DEF IssueToken, JobInv
  <1>6. ASSUME NEW j \in jobs, HDel(j) PROVE JobInv'
    BY <1>6 DEF HDel, JobInv
  <1>7. ASSUME NEW j \in jobs, XAdd(j) PROVE JobInv'
    <2>1. PICK e \in Entry :
            /\ e.session = j.session /\ e.ts = now /\ e # Null
            /\ \A s \in Session : loggedOut'[s] =
                    IF s = j.session /\ loggedOut[s] = Null THEN e ELSE loggedOut[s]
      BY <1>7, FirstEntry
    <2>2. j.kind = "xadd" /\ jobs' = jobs \ {j} /\ UNCHANGED <<now, live, tokens>>
      BY <1>7 DEF XAdd
    <2>3. \A k \in jobs' : k.kind = "xadd" /\ k.session \in live
            => \E h \in jobs' : h.kind = "hdel" /\ h.session = k.session /\ h.at = k.at
      BY <2>2 DEF JobInv
    <2>4. ASSUME NEW s \in live, loggedOut'[s] # Null
          PROVE  \E h \in jobs' : h.kind = "hdel" /\ h.session = s /\ h.at <= loggedOut'[s].ts
      <3>1. CASE loggedOut[s] # Null
        BY <1>t, <2>1, <2>2, <3>1 DEF JobInv
      <3>2. CASE loggedOut[s] = Null
        <4>1. s = j.session /\ loggedOut'[s].ts = now
          BY <1>t, <2>1, <2>4, <3>2
        <4>2. PICK h \in jobs : h.kind = "hdel" /\ h.session = s /\ h.at = j.at
          BY <2>2, <4>1 DEF JobInv
        <4> QED BY <1>t, <2>2, <4>1, <4>2
      <3> QED BY <3>1, <3>2
    <2>5. ASSUME NEW k \in jobs', k.kind = "ticket", loggedOut'[k.session] # Null
          PROVE  k.at <= loggedOut'[k.session].ts + RequestTime
      <3>1. CASE loggedOut[k.session] # Null
        BY <1>t, <2>1, <2>2, <2>5, <3>1 DEF JobInv
      <3>2. CASE loggedOut[k.session] = Null
        <4>1. loggedOut'[k.session].ts = now /\ k.at <= now /\ k.at \in Nat
          BY <1>t, <2>1, <2>2, <2>5, <3>2
        <4> QED BY <4>1 DEF TypeOK
      <3> QED BY <3>1, <3>2
    <2>6. ASSUME NEW t \in tokens, loggedOut'[t.session] # Null
          PROVE  t.iat <= loggedOut'[t.session].ts + 2 * RequestTime
      <3>1. CASE loggedOut[t.session] # Null
        BY <1>t, <2>1, <3>1 DEF JobInv
      <3>2. CASE loggedOut[t.session] = Null
        <4>1. loggedOut'[t.session].ts = now /\ t.iat <= now /\ t.iat \in Nat
          BY <1>t, <2>1, <2>6, <3>2 DEF TimeInv
        <4> QED BY <4>1 DEF TypeOK
      <3> QED BY <3>1, <3>2
    <2> QED BY <2>2, <2>3, <2>4, <2>5, <2>6 DEF JobInv
  <1>8. ASSUME NEW p \in Process, Ask(p) PROVE UNCHANGED <<live, jobs, tokens, loggedOut>>
    <2>1. PICK via \in {"token", "cookie", "authorization"}, s \in Session \cup {Null} :
            AskWhetherInvalid(p, via, s)
      BY <1>8, AskAction
    <2> QED BY <2>1 DEF AskWhetherInvalid, service
  <1>9. ASSUME NEW p \in Process, XRead(p) \/ XReadFails(p) \/ Restart(p)
        PROVE  UNCHANGED <<live, jobs, tokens, loggedOut>>
    BY <1>9 DEF XRead, XReadFails, Restart, service
  <1>10. CASE UNCHANGED vars
    BY <1>10 DEF vars, service, JobInv
  <1> QED BY <1>1, <1>2, <1>3, <1>4, <1>5, <1>6, <1>7, <1>8, <1>9, <1>10
          DEF Next, Serve, JobInv

\* Pruning drops logouts of more than PRUNE_TIME ago only.
LEMMA PrunedKeeps ==
  ASSUME TypeOK, FirstInv, NEW entries \in SUBSET stream, NEW limit \in Int,
         NEW s \in Session, loggedOut[s] # Null, loggedOut[s].ts >= limit, Knows(entries, s)
  PROVE  Knows(Pruned(entries, limit), s)
  <1>1. PICK d \in entries : d.session = s
    BY DEF Knows
  <1>2. d \in Entry /\ loggedOut[s] \in Entry /\ ~After(loggedOut[s], d)
    BY <1>1, LoggedOutType DEF TypeOK, FirstInv
  <1>3. d.ts >= limit
    BY <1>2 DEF After, Entry
  <1>4. ASSUME NEW m \in entries, m.ts < limit PROVE After(d, m)
    <2>1. m \in Entry
      BY DEF TypeOK
    <2> QED BY <1>2, <1>3, <1>4, <2>1 DEF After, Entry
  <1> QED BY <1>1, <1>4 DEF Knows, Pruned

\* Covers does not depend on what else a step changes, as long as the clock does not
\* go back and the stream does not grow.
LEMMA CoversStays ==
  ASSUME TypeOK, TimeInv, NEW p \in Process, NEW id \in StreamId, Covers(p, id),
         now' \in Nat, now' >= now, UNCHANGED <<stream, loggedOut>>,
         invalid'[p] = invalid[p]
  PROVE  Covers(p, id)'
  <1> USE TimesAssumption
  <1>1. Clock(p) \in Int /\ Clock(p)' \in Int /\ Clock(p)' >= Clock(p)
    BY DEF Clock, TypeOK
  <1>2. id.ts \in Int
    BY DEF StreamId
  <1>3. \A s \in Session : loggedOut[s] # Null => loggedOut[s].ts \in Nat
    BY DEF TypeOK, Entry
  <1>4. ASSUME NEW s \in Session, loggedOut[s] # Null, loggedOut[s].ts > Clock(p)' - PruneTime
        PROVE  Knows(invalid[p], s) \/ After(loggedOut[s], id)
    <2>1. loggedOut[s].ts > Clock(p) - PruneTime
      BY <1>1, <1>3, <1>4
    <2> QED BY <1>4, <2>1 DEF Covers
  <1>5. id.ts = 0 \/ id.ts <= Clock(p)' - PruneTime \/ AtMostLast(id)
    BY <1>1, <1>2 DEF Covers
  <1> QED BY <1>4, <1>5 DEF Covers, AtMostLast, Knows, Clock

LEMMA CoversAfterXAdd ==
  ASSUME TypeOK, TimeInv, NEW j \in jobs, XAdd(j), NEW p \in Process, NEW id \in StreamId,
         Covers(p, id)
  PROVE  Covers(p, id)'
  <1> USE TimesAssumption
  <1>1. PICK e \in Entry :
            /\ e.session = j.session /\ e.ts = now /\ e # Null
            /\ \A d \in stream : After(e, d)
            /\ stream' = stream \cup {e}
            /\ \A s \in Session : loggedOut'[s] =
                    IF s = j.session /\ loggedOut[s] = Null THEN e ELSE loggedOut[s]
    BY FirstEntry
  <1>2. UNCHANGED <<now, invalid>> /\ Clock(p) \in Int /\ now \in Nat /\ now >= 1
    BY DEF XAdd, library, Clock, TypeOK, TimeInv
  <1>3. ASSUME now > Clock(p) - PruneTime PROVE After(e, id)
    <2>1. CASE AtMostLast(id)
      <3>1. PICK d \in stream : ~After(id, d)
        BY <2>1 DEF AtMostLast
      <3>2. d \in Entry /\ After(e, d)
        BY <1>1 DEF TypeOK
      <3> QED BY <3>1, <3>2 DEF After, Entry, StreamId
    <2>2. CASE id.ts = 0 \/ id.ts <= Clock(p) - PruneTime
      BY <1>1, <1>2, <1>3, <2>2 DEF After, Entry, StreamId
    <2> QED BY <2>1, <2>2 DEF Covers
  <1>4. ASSUME NEW s \in Session, loggedOut'[s] # Null, loggedOut'[s].ts > Clock(p) - PruneTime
        PROVE  Knows(invalid[p], s) \/ After(loggedOut'[s], id)
    <2>1. CASE loggedOut[s] # Null
      BY <1>1, <1>4, <2>1 DEF Covers
    <2>2. CASE loggedOut[s] = Null
      BY <1>1, <1>3, <1>4, <2>2
    <2> QED BY <2>1, <2>2
  <1>5. AtMostLast(id) => AtMostLast(id)'
    BY <1>1 DEF AtMostLast
  <1> QED BY <1>2, <1>4, <1>5 DEF Covers, Knows, Clock

\* The same for the session of a token that is being verified.
LEMMA CoversSessionStays ==
  ASSUME TypeOK, NEW p \in Process, NEW id \in StreamId, NEW s \in Session,
         CoversSession(p, id, s),
         now' \in Nat, now' >= now, UNCHANGED <<stream, loggedOut>>,
         invalid'[p] = invalid[p]
  PROVE  CoversSession(p, id, s)'
  <1>1. id.ts \in Int /\ now \in Nat
    BY DEF StreamId, TypeOK
  <1>2. id.ts < now' \/ AtMostLast(id)
    BY <1>1 DEF CoversSession
  <1> QED BY <1>2 DEF CoversSession, AtMostLast, Knows

LEMMA CoversSessionAfterXAdd ==
  ASSUME TypeOK, NEW j \in jobs, XAdd(j), NEW p \in Process, NEW id \in StreamId,
         NEW s \in Session, CoversSession(p, id, s)
  PROVE  CoversSession(p, id, s)'
  <1>1. PICK e \in Entry :
            /\ e.session = j.session /\ e.ts = now /\ e # Null
            /\ \A d \in stream : After(e, d)
            /\ stream' = stream \cup {e}
            /\ \A t \in Session : loggedOut'[t] =
                    IF t = j.session /\ loggedOut[t] = Null THEN e ELSE loggedOut[t]
    BY FirstEntry
  <1>2. UNCHANGED <<now, invalid>> /\ now \in Nat
    BY DEF XAdd, library, TypeOK
  <1>3. After(e, id)
    <2>1. CASE AtMostLast(id)
      <3>1. PICK d \in stream : ~After(id, d)
        BY <2>1 DEF AtMostLast
      <3>2. d \in Entry /\ After(e, d)
        BY <1>1 DEF TypeOK
      <3> QED BY <3>1, <3>2 DEF After, Entry, StreamId
    <2>2. CASE id.ts < now
      BY <1>1, <1>2, <2>2 DEF After, Entry, StreamId
    <2> QED BY <2>1, <2>2 DEF CoversSession
  <1>4. loggedOut'[s] # Null => Knows(invalid[p], s) \/ After(loggedOut'[s], id)
    BY <1>1, <1>3 DEF CoversSession
  <1>5. AtMostLast(id) => AtMostLast(id)'
    BY <1>1 DEF AtMostLast
  <1> QED BY <1>2, <1>4, <1>5 DEF CoversSession, Knows

LEMMA CheckType ==
  ASSUME TypeOK, NEW p \in Process
  PROVE  /\ lastId[p] \in StreamId /\ invalid[p] \in SUBSET stream
         /\ check[p] # Null => check[p] \in Check /\ check[p].after \in StreamId
  BY DEF TypeOK, Check

\* A process that is left alone keeps its invariant.
LEMMA ProcessStays ==
  ASSUME TypeOK, TimeInv, NEW p \in Process, ProcessInv(p),
         now' \in Nat, now' >= now, UNCHANGED <<stream, loggedOut>>,
         UNCHANGED <<invalid[p], lastId[p], check[p]>>
  PROVE  ProcessInv(p)'
  <1>1. Covers(p, lastId[p])'
    <2>1. PICK id \in StreamId : id = lastId[p]
      BY CheckType
    <2>2. Covers(p, id)'
      BY <2>1, CoversStays DEF ProcessInv
    <2> QED BY <2>1, <2>2 DEF Covers, AtMostLast, After
  <1>2. ASSUME check[p] # Null PROVE Covers(p, check[p].after)'
    <2>1. PICK id \in StreamId : id = check[p].after
      BY <1>2, CheckType
    <2>2. Covers(p, id)'
      BY <1>2, <2>1, CoversStays DEF ProcessInv
    <2> QED BY <2>1, <2>2 DEF Covers, AtMostLast, After
  <1>3. ASSUME check[p] # Null, check[p].via = "token"
        PROVE  CoversSession(p, check[p].after, check[p].session)'
    <2>1. PICK id \in StreamId : id = check[p].after
      BY <1>3, CheckType
    <2>2. PICK s \in Session : s = check[p].session
      BY <1>3 DEF ProcessInv
    <2>3. CoversSession(p, id, s)'
      BY <1>3, <2>1, <2>2, CoversSessionStays DEF ProcessInv
    <2> QED BY <2>1, <2>2, <2>3 DEF CoversSession, AtMostLast, After
  <1> QED BY <1>1, <1>2, <1>3 DEF ProcessInv

LEMMA ProcessAfterXAdd ==
  ASSUME TypeOK, TimeInv, NEW j \in jobs, XAdd(j), NEW p \in Process, ProcessInv(p)
  PROVE  ProcessInv(p)'
  <1>0. UNCHANGED <<lastId, check>>
    BY DEF XAdd, library
  <1>1. Covers(p, lastId[p])'
    <2>1. PICK id \in StreamId : id = lastId[p]
      BY CheckType
    <2>2. Covers(p, id)'
      BY <2>1, CoversAfterXAdd DEF ProcessInv
    <2> QED BY <1>0, <2>1, <2>2 DEF Covers, AtMostLast, After
  <1>2. ASSUME check[p] # Null PROVE Covers(p, check[p].after)'
    <2>1. PICK id \in StreamId : id = check[p].after
      BY <1>2, CheckType
    <2>2. Covers(p, id)'
      BY <1>2, <2>1, CoversAfterXAdd DEF ProcessInv
    <2> QED BY <1>0, <2>1, <2>2 DEF Covers, AtMostLast, After
  <1>3. ASSUME check[p] # Null, check[p].via = "token"
        PROVE  CoversSession(p, check[p].after, check[p].session)'
    <2>1. PICK id \in StreamId : id = check[p].after
      BY <1>3, CheckType
    <2>2. PICK s \in Session : s = check[p].session
      BY <1>3 DEF ProcessInv
    <2>3. CoversSession(p, id, s)'
      BY <1>3, <2>1, <2>2, CoversSessionAfterXAdd DEF ProcessInv
    <2> QED BY <1>0, <2>1, <2>2, <2>3 DEF CoversSession, AtMostLast, After
  <1> QED BY <1>0, <1>1, <1>2, <1>3 DEF ProcessInv

\* Pruning and reading on from ReadAfter lose no logout of the last PRUNE_TIME.
LEMMA AskCovers ==
  ASSUME TypeOK, TimeInv, FirstInv, NEW p \in Process, ProcessInv(p),
         NEW via, NEW u, AskWhetherInvalid(p, via, u)
  PROVE  /\ Covers(p, lastId[p])'
         /\ Covers(p, ReadAfter(p))'
  <1> USE TimesAssumption
  <1> DEFINE limit == Clock(p) - PruneTime
  <1>1. limit \in Int /\ now \in Nat
    BY DEF Clock, TypeOK
  <1>2. /\ invalid'[p] = Pruned(invalid[p], limit)
        /\ UNCHANGED <<now, stream, lastId, loggedOut>>
    BY DEF AskWhetherInvalid, TypeOK
  <1>3. Clock(p)' = Clock(p) /\ ReadAfter(p)' = ReadAfter(p)
    BY <1>2 DEF Clock, ReadAfter
  <1> HIDE DEF limit
  <1>4. ASSUME NEW s \in Session, loggedOut[s] # Null, loggedOut[s].ts > limit
        PROVE  /\ Knows(invalid'[p], s) \/ After(loggedOut[s], lastId[p])
               /\ Knows(invalid'[p], s) \/ After(loggedOut[s], ReadAfter(p))
    <2>1. loggedOut[s] \in Entry
      BY <1>4, LoggedOutType
    <2>2. CASE Knows(invalid[p], s)
      <3>1. loggedOut[s].ts >= limit
        BY <1>1, <1>4, <2>1 DEF Entry
      <3>2. Knows(Pruned(invalid[p], limit), s)
        BY <1>1, <1>4, <2>2, <3>1, PrunedKeeps, CheckType
      <3> QED BY <1>2, <3>2
    <2>3. CASE After(loggedOut[s], lastId[p])
      <3>1. CASE ReadAfter(p) = lastId[p]
        BY <2>3, <3>1
      <3>2. CASE ReadAfter(p) = [ts |-> limit, seq |-> 0]
        BY <1>4, <2>3, <3>2 DEF After
      <3> QED BY <2>3, <3>1, <3>2, ReadAfterType DEF limit
    <2> QED BY <1>4, <2>2, <2>3 DEF ProcessInv, Covers, limit
  <1>5. lastId[p].ts = 0 \/ lastId[p].ts <= limit \/ AtMostLast(lastId[p])
    BY DEF ProcessInv, Covers, limit
  <1>6. ReadAfter(p).ts = 0 \/ ReadAfter(p).ts <= limit \/ AtMostLast(ReadAfter(p))
    <2>1. CASE ReadAfter(p) = lastId[p]
      BY <1>5, <2>1
    <2>2. CASE ReadAfter(p) = [ts |-> limit, seq |-> 0]
      BY <1>1, <2>2
    <2> QED BY <2>1, <2>2, ReadAfterType DEF limit
  <1> QED BY <1>2, <1>3, <1>4, <1>5, <1>6 DEF Covers, AtMostLast, limit

\* The margin: a token that has not expired is so young that its session's logout,
\* if there is one, is of the last PRUNE_TIME.
LEMMA TokenIsYoung ==
  ASSUME TypeOK, TimeInv, FirstInv, JobInv, NEW p \in Process, NEW t \in tokens,
         Clock(p) < t.iat + TokenTtl
  PROVE  /\ Clock(p) - PruneTime < now
         /\ loggedOut[t.session] # Null => loggedOut[t.session].ts > Clock(p) - PruneTime
  <1> USE TimesAssumption, MarginAssumption
  <1>1. t.iat \in Nat /\ t.iat <= now /\ t.session \in Session /\ now \in Nat /\ Clock(p) \in Int
    BY DEF TypeOK, Token, TimeInv, Clock
  <1>2. Clock(p) - PruneTime < now
    BY <1>1
  <1>3. ASSUME loggedOut[t.session] # Null PROVE loggedOut[t.session].ts > Clock(p) - PruneTime
    <2>1. loggedOut[t.session].ts \in Nat
      BY <1>1, <1>3, LoggedOutType
    <2>2. t.iat <= loggedOut[t.session].ts + 2 * RequestTime
      BY <1>3 DEF JobInv
    <2> QED BY <1>1, <2>1, <2>2
  <1> QED BY <1>2, <1>3

LEMMA AskStep ==
  ASSUME TypeOK, TimeInv, FirstInv, JobInv, NEW p \in Process, ProcessInv(p), Ask(p)
  PROVE  ProcessInv(p)'
  <1> USE TimesAssumption
  <1>1. PICK via \in {"token", "cookie", "authorization"}, s \in Session \cup {Null} :
            /\ AskWhetherInvalid(p, via, s)
            /\ via # "authorization" => s \in Session
            /\ via = "token" => \E t \in tokens : t.session = s /\ Clock(p) < t.iat + TokenTtl
    BY AskAction
  <1>2. Covers(p, lastId[p])' /\ Covers(p, ReadAfter(p))'
    BY <1>1, AskCovers
  <1>3. /\ check'[p] = [via |-> via, session |-> s, after |-> ReadAfter(p)]
        /\ UNCHANGED <<now, stream, lastId, loggedOut>>
        /\ ReadAfter(p)' = ReadAfter(p)
    BY <1>1 DEF AskWhetherInvalid, TypeOK, ReadAfter, Clock
  <1>4. Covers(p, check[p].after)'
    BY <1>2, <1>3 DEF Covers, AtMostLast, After
  <1>5. ASSUME via = "token" PROVE CoversSession(p, ReadAfter(p), s)'
    <2>1. /\ Clock(p) - PruneTime < now
          /\ loggedOut[s] # Null => loggedOut[s].ts > Clock(p) - PruneTime
      BY <1>1, <1>5, TokenIsYoung
    <2>2. s \in Session /\ now \in Nat /\ now >= 1 /\ Clock(p) \in Int /\ ReadAfter(p).ts \in Int
      BY <1>1, <1>5, ReadAfterType DEF TypeOK, TimeInv, Clock, StreamId
    <2>3. Clock(p)' = Clock(p)
      BY <1>3 DEF Clock
    <2>4. ReadAfter(p).ts < now \/ AtMostLast(ReadAfter(p))'
      BY <1>2, <1>3, <2>1, <2>2, <2>3 DEF Covers
    <2>5. loggedOut[s] # Null => Knows(invalid'[p], s) \/ After(loggedOut[s], ReadAfter(p))
      BY <1>2, <1>3, <2>1, <2>2, <2>3 DEF Covers
    <2> QED BY <1>3, <2>4, <2>5 DEF CoversSession
  <1>6. via = "token" => CoversSession(p, check[p].after, check[p].session)'
    BY <1>3, <1>5 DEF CoversSession, AtMostLast, After
  <1> QED BY <1>1, <1>2, <1>3, <1>4, <1>6 DEF ProcessInv

\* Once XREAD is answered, a session whose first logout is ahead of the id that was
\* read from is known, and none is forgotten.
LEMMA UpdatedKnows ==
  ASSUME TypeOK, FirstInv, NEW p \in Process, check[p] # Null, XRead(p), NEW s \in Session,
         loggedOut[s] # Null,
         Knows(invalid[p], s) \/ After(loggedOut[s], check[p].after)
  PROVE  Knows(invalid'[p], s)
  <1> DEFINE new == {e \in stream : After(e, check[p].after)}
  <1>1. invalid'[p] = Updated(invalid[p], new)
    BY DEF XRead, TypeOK
  <1>2. loggedOut[s] \in stream /\ loggedOut[s].session = s
    BY LoggedOutType
  <1>3. \A d \in stream : d.session = s => ~After(loggedOut[s], d)
    BY DEF FirstInv
  <1>4. CASE Knows(invalid[p], s)
    BY <1>1, <1>4 DEF Updated, Knows
  <1>5. CASE ~Knows(invalid[p], s)
    <2>1. loggedOut[s] \in new
      BY <1>2, <1>5
    <2>2. loggedOut[s] \in Updated(invalid[p], new)
      BY <1>2, <1>3, <1>5, <2>1 DEF Updated
    <2> QED BY <1>1, <1>2, <2>2 DEF Knows
  <1> QED BY <1>4, <1>5

LEMMA XReadStep ==
  ASSUME TypeOK, TimeInv, FirstInv, NEW p \in Process, ProcessInv(p), XRead(p)
  PROVE  ProcessInv(p)'
  <1>1. /\ check[p] # Null /\ check'[p] = Null
        /\ UNCHANGED <<now, stream, loggedOut>>
    BY DEF XRead, TypeOK
  <1>2. Covers(p, check[p].after) /\ Clock(p)' = Clock(p)
    BY <1>1 DEF ProcessInv, Clock
  <1>3. \/ lastId'[p] = check[p].after
        \/ AtMostLast(lastId'[p])
    <2>1. CASE lastId' = [lastId EXCEPT ![p] = check[p].after]
      BY <2>1 DEF TypeOK
    <2>2. ASSUME NEW d \in stream, lastId' = [lastId EXCEPT ![p] = IdOfLast(d)]
          PROVE  AtMostLast(lastId'[p])
      <3>1. lastId'[p] = [ts |-> d.ts, seq |-> d.seq] /\ d \in Entry
        BY <2>2 DEF TypeOK, IdOfLast
      <3>2. ~After(lastId'[p], d)
        BY <3>1 DEF After, Entry
      <3> QED BY <3>2 DEF AtMostLast
    <2> QED BY <2>1, <2>2 DEF XRead
  <1>4. ASSUME NEW s \in Session, loggedOut[s] # Null, loggedOut[s].ts > Clock(p) - PruneTime
        PROVE  Knows(invalid'[p], s)
    <2>1. Knows(invalid[p], s) \/ After(loggedOut[s], check[p].after)
      BY <1>2, <1>4 DEF Covers
    <2> QED BY <1>1, <1>4, <2>1, UpdatedKnows
  <1>5. lastId'[p].ts = 0 \/ lastId'[p].ts <= Clock(p) - PruneTime \/ AtMostLast(lastId'[p])
    BY <1>2, <1>3 DEF Covers
  <1>6. Covers(p, lastId[p])'
    BY <1>1, <1>2, <1>4, <1>5 DEF Covers, AtMostLast, Knows
  <1> QED BY <1>1, <1>6 DEF ProcessInv

LEMMA RestartStep ==
  ASSUME TypeOK, TimeInv, FirstInv, NEW p \in Process, Restart(p)
  PROVE  ProcessInv(p)'
  <1>1. /\ lastId'[p] = [ts |-> 0, seq |-> 0] /\ check'[p] = Null
        /\ UNCHANGED <<now, stream, loggedOut>>
    BY DEF Restart, TypeOK
  <1>2. ASSUME NEW s \in Session, loggedOut[s] # Null PROVE After(loggedOut[s], lastId'[p])
    <2>1. loggedOut[s].session = s /\ loggedOut[s] \in Entry /\ loggedOut[s] \in stream
      BY <1>2, LoggedOutType
    <2>2. loggedOut[s].ts \in Nat /\ 1 <= loggedOut[s].ts
      BY <2>1 DEF Entry, TimeInv
    <2> QED BY <1>1, <2>2 DEF After
  <1>3. Covers(p, lastId[p])'
    BY <1>1, <1>2 DEF Covers, After
  <1> QED BY <1>1, <1>3 DEF ProcessInv

LEMMA ProcessStep ==
  ASSUME TypeOK, TimeInv, FirstInv, JobInv, \A p \in Process : ProcessInv(p), [Next]_vars
  PROVE  \A p \in Process : ProcessInv(p)'
  <1> SUFFICES ASSUME NEW p \in Process PROVE ProcessInv(p)'
    OBVIOUS
  <1>1. CASE Tick
    <2>1. now' \in Nat /\ now' >= now /\ UNCHANGED <<stream, library, loggedOut>>
      BY <1>1 DEF Tick, TypeOK
    <2> QED BY <2>1, ProcessStays DEF library
  <1>2. ASSUME NEW s \in Session, Login(s) \/ CheckSession(s) \/ RemoveSession(s)
        PROVE  ProcessInv(p)'
    <2>1. UNCHANGED <<now, stream, library, loggedOut>>
      BY <1>2 DEF Login, CheckSession, RemoveSession
    <2>2. now' \in Nat /\ now' >= now
      BY <2>1 DEF TypeOK
    <2> QED BY <2>1, <2>2, ProcessStays DEF library
  <1>3. ASSUME NEW j \in jobs, IssueToken(j) \/ HDel(j) PROVE ProcessInv(p)'
    <2>1. UNCHANGED <<now, stream, library, loggedOut>>
      BY <1>3 DEF IssueToken, HDel
    <2>2. now' \in Nat /\ now' >= now
      BY <2>1 DEF TypeOK
    <2> QED BY <2>1, <2>2, ProcessStays DEF library
  <1>4. ASSUME NEW j \in jobs, XAdd(j) PROVE ProcessInv(p)'
    BY <1>4, ProcessAfterXAdd
  <1>5. ASSUME NEW q \in Process, q # p, Ask(q) \/ XRead(q) \/ XReadFails(q) \/ Restart(q)
        PROVE  ProcessInv(p)'
    <2>1. ASSUME Ask(q)
          PROVE  UNCHANGED <<now, stream, loggedOut, invalid[p], lastId[p], check[p]>>
      <3>1. PICK via \in {"token", "cookie", "authorization"}, s \in Session \cup {Null} :
              AskWhetherInvalid(q, via, s)
        BY <2>1, AskAction
      <3> QED BY <1>5, <3>1 DEF AskWhetherInvalid, TypeOK
    <2>2. ASSUME XRead(q)
          PROVE  UNCHANGED <<now, stream, loggedOut, invalid[p], lastId[p], check[p]>>
      BY <1>5, <2>2 DEF XRead, TypeOK
    <2>3. ASSUME XReadFails(q) \/ Restart(q)
          PROVE  UNCHANGED <<now, stream, loggedOut, invalid[p], lastId[p], check[p]>>
      BY <1>5, <2>3 DEF XReadFails, Restart, TypeOK
    <2>4. UNCHANGED <<now, stream, loggedOut, invalid[p], lastId[p], check[p]>>
      BY <1>5, <2>1, <2>2, <2>3
    <2>5. now' \in Nat /\ now' >= now
      BY <2>4 DEF TypeOK
    <2> QED BY <2>4, <2>5, ProcessStays
  <1>6. CASE Ask(p)
    BY <1>6, AskStep
  <1>7. CASE XRead(p)
    BY <1>7, XReadStep
  <1>8. CASE XReadFails(p)
    <2>1. /\ UNCHANGED <<now, stream, loggedOut, lastId, invalid>>
          /\ check'[p] = Null
      BY <1>8 DEF XReadFails, TypeOK
    <2> QED BY <2>1 DEF ProcessInv, Covers, AtMostLast, Knows, Clock
  <1>9. CASE Restart(p)
    BY <1>9, RestartStep
  <1>10. CASE UNCHANGED vars
    <2>1. UNCHANGED <<now, stream, library, loggedOut>> /\ now' \in Nat /\ now' >= now
      BY <1>10 DEF vars, TypeOK
    <2> QED BY <2>1, ProcessStays DEF library
  <1> QED BY <1>1, <1>2, <1>3, <1>4, <1>5, <1>6, <1>7, <1>8, <1>9, <1>10 DEF Next, Serve

\* The answer of a process, at the moment it is given.
LEMMA VerdictStep ==
  ASSUME TypeOK, FirstInv, TokensDieWithLogout, CookiesRefusedForPruneTime,
         \A p \in Process : ProcessInv(p), [Next]_vars
  PROVE  TokensDieWithLogout' /\ CookiesRefusedForPruneTime'
  <1>1. ASSUME NEW p \in Process, XRead(p)
        PROVE  TokensDieWithLogout' /\ CookiesRefusedForPruneTime'
    <2>1. /\ check[p] # Null /\ check[p] \in Check
          /\ verdict' = [by |-> p, via |-> check[p].via, session |-> check[p].session,
                         ok |-> ~Knows(invalid'[p], check[p].session)]
          /\ UNCHANGED <<now, loggedOut>>
      BY <1>1 DEF XRead, TypeOK
    <2>2. PICK s \in Session \cup {Null} : s = check[p].session
      BY <2>1 DEF Check
    <2>3. ASSUME check[p].via = "token", loggedOut[s] # Null PROVE Knows(invalid'[p], s)
      <3>1. s \in Session /\ CoversSession(p, check[p].after, s)
        BY <2>1, <2>2, <2>3 DEF ProcessInv
      <3> QED BY <1>1, <2>1, <2>3, <3>1, UpdatedKnows DEF CoversSession
    <2>4. ASSUME check[p].via = "cookie", loggedOut[s] # Null,
                 loggedOut[s].ts > Clock(p) - PruneTime
          PROVE  Knows(invalid'[p], s)
      <3>1. s \in Session /\ Covers(p, check[p].after)
        BY <2>1, <2>2, <2>4 DEF ProcessInv
      <3> QED BY <1>1, <2>1, <2>4, <3>1, UpdatedKnows DEF Covers
    <2>5. TokensDieWithLogout'
      BY <2>1, <2>2, <2>3 DEF TokensDieWithLogout
    <2>6. ASSUME check[p].via = "cookie", loggedOut[s] # Null, ~Knows(invalid'[p], s)
          PROVE  loggedOut[s].ts <= Clock(p) - PruneTime
      <3>1. s \in Session
        BY <2>1, <2>2, <2>6 DEF ProcessInv
      <3>2. loggedOut[s].ts \in Nat /\ Clock(p) - PruneTime \in Int
        BY <2>6, <3>1, LoggedOutType, TimesAssumption DEF Clock, TypeOK
      <3> QED BY <2>4, <2>6, <3>2
    <2>7. Clock(p)' = Clock(p)
      BY <2>1 DEF Clock
    <2>8. verdict'.by = p /\ verdict'.via = check[p].via /\ verdict'.session = s
          /\ (verdict'.ok <=> ~Knows(invalid'[p], s))
      BY <2>1, <2>2
    <2>9. CookiesRefusedForPruneTime'
      BY <2>1, <2>6, <2>7, <2>8 DEF CookiesRefusedForPruneTime, Clock
    <2> QED BY <2>5, <2>9
  <1>2. CASE verdict' = NoVerdict
    BY <1>2 DEF NoVerdict, TokensDieWithLogout, CookiesRefusedForPruneTime
  <1>3. CASE UNCHANGED vars
    BY <1>3 DEF vars, TokensDieWithLogout, CookiesRefusedForPruneTime, Clock
  <1>4. ASSUME NEW p \in Process, Ask(p) PROVE verdict' = NoVerdict
    <2>1. PICK via \in {"token", "cookie", "authorization"}, s \in Session \cup {Null} :
            AskWhetherInvalid(p, via, s)
      BY <1>4, AskAction
    <2> QED BY <2>1 DEF AskWhetherInvalid
  <1>5. ASSUME NEW p \in Process, XReadFails(p) \/ Restart(p) PROVE verdict' = NoVerdict
    BY <1>5 DEF XReadFails, Restart
  <1>6. Tick \/ Serve => verdict' = NoVerdict
    BY DEF Tick, Serve, Login, CheckSession, RemoveSession, IssueToken, HDel, XAdd
  <1> QED BY <1>1, <1>2, <1>3, <1>4, <1>5, <1>6 DEF Next

\* The invariant is inductive.
THEOREM LibraryInvariant == Spec => []LibInv
  <1>1. Init => LibInv
    <2> SUFFICES ASSUME Init PROVE LibInv
      OBVIOUS
    <2>1. TypeOK
      BY TimesAssumption DEF Init, TypeOK, StreamId, NoVerdict
    <2>2. TimeInv /\ FirstInv /\ JobInv
      BY DEF Init, TimeInv, FirstInv, JobInv
    <2>3. \A p \in Process : ProcessInv(p)
      BY DEF Init, ProcessInv, Covers
    <2>4. TokensDieWithLogout /\ CookiesRefusedForPruneTime
      BY DEF Init, NoVerdict, TokensDieWithLogout, CookiesRefusedForPruneTime
    <2> QED BY <2>1, <2>2, <2>3, <2>4 DEF LibInv
  <1>2. LibInv /\ [Next]_vars => LibInv'
    <2> SUFFICES ASSUME LibInv, [Next]_vars PROVE LibInv'
      OBVIOUS
    <2>1. TypeOK' /\ TimeInv' /\ FirstInv' /\ JobInv'
      BY TypeStep, TimeStep, FirstStep, JobStep DEF LibInv
    <2>2. \A p \in Process : ProcessInv(p)'
      BY ProcessStep DEF LibInv
    <2>3. TokensDieWithLogout' /\ CookiesRefusedForPruneTime'
      BY VerdictStep DEF LibInv
    <2> QED BY <2>1, <2>2, <2>3 DEF LibInv
  <1> QED BY <1>1, <1>2, PTL DEF Spec

\* No library process, however wrong its clock, accepts a token of a session whose
\* logout is on the stream, provided requests keep the margin of PRUNE_TIME.
THEOREM NoTokenSurvivesLogout == Spec => []TokensDieWithLogout
  <1>1. LibInv => TokensDieWithLogout
    BY DEF LibInv
  <1> QED BY <1>1, LibraryInvariant, PTL

\* A cookie alone is refused for PRUNE_TIME after the logout of its session.
THEOREM CookiesRefused == Spec => []CookiesRefusedForPruneTime
  <1>1. LibInv => CookiesRefusedForPruneTime
    BY DEF LibInv
  <1> QED BY <1>1, LibraryInvariant, PTL

-----------------------------------------------------------------------------
(* Memory is given back.                                                   *)

Older(m, E) == {e \in E : After(m, e)}

\* Whatever entries of the stream one picks, for every k below their number one of them
\* has exactly k older ones.
RankInv ==
    /\ IsFiniteSet(stream)
    /\ \A E \in SUBSET stream : \A k \in 0..(Cardinality(E) - 1) :
            \E m \in E : Cardinality(Older(m, E)) = k

\* The newest entry has all others below it and leaves their ranks alone.
LEMMA RankAfterXAdd == ASSUME TypeOK, RankInv, NEW j \in jobs, XAdd(j) PROVE RankInv'
  <1>1. PICK e \in Entry : stream' = stream \cup {e} /\ \A d \in stream : After(e, d)
    BY NewEntry
  <1>2. IsFiniteSet(stream')
    BY <1>1, FS_AddElement DEF RankInv
  <1>3. \A d \in stream' : ~After(d, e)
    BY <1>1 DEF TypeOK, Entry, After
  <1>4. ASSUME NEW E \in SUBSET stream', NEW k \in 0..(Cardinality(E) - 1)
        PROVE  \E m \in E : Cardinality(Older(m, E)) = k
    <2>1. CASE e \notin E
      BY <1>1, <1>4, <2>1 DEF RankInv
    <2>2. CASE e \in E
      <3>1. PICK F : F = E \ {e}
        OBVIOUS
      <3>2. F \subseteq stream /\ E = F \cup {e} /\ e \notin F
        BY <1>1, <2>2, <3>1
      <3>3. IsFiniteSet(F) /\ Cardinality(F) \in Nat
        BY <3>2, FS_Subset, FS_CardinalityType DEF RankInv
      <3>4. Cardinality(E) = Cardinality(F) + 1
        BY <3>2, <3>3, FS_AddElement
      <3>5. CASE k = Cardinality(F)
        <4>1. Older(e, E) = F
          BY <1>1, <1>3, <3>2 DEF Older
        <4> QED BY <2>2, <3>5, <4>1
      <3>6. CASE k # Cardinality(F)
        <4>1. k \in 0..(Cardinality(F) - 1)
          BY <3>3, <3>4, <3>6
        <4>2. PICK m \in F : Cardinality(Older(m, F)) = k
          BY <3>2, <4>1 DEF RankInv
        <4>3. Older(m, E) = Older(m, F)
          BY <1>1, <1>3, <3>2 DEF Older
        <4> QED BY <3>2, <4>2, <4>3
      <3> QED BY <3>5, <3>6
    <2> QED BY <2>1, <2>2
  <1> QED BY <1>2, <1>4 DEF RankInv, Older

LEMMA RankStep == TypeOK /\ RankInv /\ [Next]_vars => RankInv'
  <1>1. ASSUME stream' = stream, RankInv PROVE RankInv'
    BY <1>1 DEF RankInv, Older
  <1> QED BY <1>1, RankAfterXAdd, StreamSteps

\* Fewer than half of the entries are newer than the median.
LEMMA NewerThanMedian ==
    ASSUME TypeOK, NEW E \in SUBSET stream, IsFiniteSet(E), NEW m \in E, IsMedian(m, E),
           NEW P \in SUBSET {e \in E : After(e, m)}
    PROVE  2 * Cardinality(P) < Cardinality(E)
  <1>1. PICK Up, Down : Up = {e \in E : After(e, m)} /\ Down = Older(m, E)
    OBVIOUS
  <1>2. Up \subseteq E /\ Down \subseteq E /\ Up \cap Down = {} /\ m \notin Up \cup Down
    BY <1>1 DEF Older, After, TypeOK, Entry
  <1>3. /\ IsFiniteSet(Up) /\ IsFiniteSet(Down) /\ IsFiniteSet(Up \cup Down) /\ IsFiniteSet(P)
        /\ Cardinality(P) <= Cardinality(Up)
    <2>1. Up \cup Down \subseteq E /\ P \subseteq Up
      BY <1>1, <1>2
    <2> QED BY <1>2, <2>1, FS_Subset
  <1>4. /\ Cardinality(Up) \in Nat /\ Cardinality(Down) \in Nat /\ Cardinality(E) \in Nat
        /\ Cardinality(P) \in Nat
    BY <1>3, FS_CardinalityType
  <1>5. Cardinality(Up \cup Down) = Cardinality(Up) + Cardinality(Down)
    <2>1. Cardinality(Up \cap Down) = 0
      BY <1>2, FS_EmptySet
    <2>2. Cardinality(Up \cup Down) = Cardinality(Up) + Cardinality(Down) - Cardinality(Up \cap Down)
      BY <1>3, FS_Union
    <2> QED BY <1>4, <2>1, <2>2
  <1>6. Cardinality((Up \cup Down) \cup {m}) = Cardinality(Up) + Cardinality(Down) + 1
    BY <1>2, <1>3, <1>5, FS_AddElement
  <1>7. Cardinality((Up \cup Down) \cup {m}) <= Cardinality(E)
    <2>1. (Up \cup Down) \cup {m} \subseteq E
      BY <1>2
    <2> QED BY <2>1, FS_Subset
  <1>8. Cardinality(Down) = Cardinality(E) \div 2
    BY <1>1 DEF IsMedian, Older
  <1> QED BY <1>3, <1>4, <1>6, <1>7, <1>8

\* A verification begins with a list that is stale to its last entry.
LEMMA StaleListIsHalved ==
    ASSUME TypeOK, RankInv, NEW p \in Process, Stale(p), Ask(p)
    PROVE  2 * Cardinality(invalid'[p]) < Cardinality(invalid[p])
  <1>1. PICK E, limit : E = invalid[p] /\ limit = Clock(p) - PruneTime
    OBVIOUS
  <1>2. invalid'[p] = Pruned(E, limit)
    <2>1. invalid' = [invalid EXCEPT ![p] = Pruned(invalid[p], Clock(p) - PruneTime)]
      BY AskAction DEF AskWhetherInvalid
    <2> QED BY <1>1, <2>1 DEF TypeOK
  <1>3. E \subseteq stream /\ E # {} /\ IsFiniteSet(E) /\ \A e \in E : e.ts < limit
    BY <1>1, FS_Subset DEF TypeOK, RankInv, Stale
  <1>4. Cardinality(E) \in Nat /\ Cardinality(E) # 0
    BY <1>3, FS_CardinalityType, FS_EmptySet
  <1>5. PICK m \in E : Cardinality(Older(m, E)) = Cardinality(E) \div 2
    <2>1. Cardinality(E) \div 2 \in 0..(Cardinality(E) - 1)
      BY <1>4
    <2> QED BY <1>3, <2>1 DEF RankInv
  <1>6. IsMedian(m, E)
    BY <1>5 DEF IsMedian, Older
  <1>7. Pruned(E, limit) \subseteq {e \in E : After(e, m)}
    BY <1>3, <1>6 DEF Pruned
  <1> QED BY <1>1, <1>2, <1>3, <1>6, <1>7, NewerThanMedian

\* A list of logouts that are all long expired loses more than half of them with every
\* verification, however long it has become: the median is one of the expired ones.
THEOREM StaleListsAreHalved == Spec => StaleListsShrink
  <1> DEFINE Shrink == \A p \in Process :
                          Stale(p) /\ check[p] = Null /\ check'[p] # Null
                            => 2 * Cardinality(invalid'[p]) < Cardinality(invalid[p])
  <1>1. TypeOK /\ RankInv /\ [Next]_vars => [Shrink]_vars
    <2> SUFFICES ASSUME TypeOK, RankInv, Next, NEW p \in Process, Stale(p),
                        check[p] = Null, check'[p] # Null
                 PROVE  Ask(p)
      BY StaleListIsHalved
    <2>1. ASSUME NEW q \in Process, Ask(q), q # p PROVE check'[p] = check[p]
      BY <2>1, AskAction DEF AskWhetherInvalid, TypeOK
    <2>2. ASSUME NEW q \in Process, XRead(q) \/ XReadFails(q) \/ Restart(q) PROVE check'[p] = Null
      BY <2>2 DEF XRead, XReadFails, Restart, TypeOK
    <2>3. ASSUME Tick \/ Serve PROVE check' = check
      BY <2>3 DEF Tick, Serve, Login, CheckSession, RemoveSession, IssueToken, HDel, XAdd, library
    <2> QED BY <2>1, <2>2, <2>3 DEF Next
  <1>2. Init => RankInv
    <2> SUFFICES ASSUME Init PROVE RankInv
      OBVIOUS
    <2>1. stream = {} /\ IsFiniteSet({}) /\ Cardinality({}) = 0
      BY FS_EmptySet DEF Init
    <2>2. \A E \in SUBSET stream : 0..(Cardinality(E) - 1) = {}
      BY <2>1
    <2> QED BY <2>1, <2>2 DEF RankInv
  <1> QED BY <1>1, <1>2, RankStep, LibraryTypeCorrect, PTL DEF Spec, StaleListsShrink
=============================================================================
