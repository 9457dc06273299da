---------------------------- MODULE MCTicketCheck ----------------------------
(***************************************************************************)
(* TicketCheck for TLC: the clock stops at MaxTime, MaxRequests requests   *)
(* are sent, the first of them perhaps with one damaged part, and          *)
(* removeSession is called MaxRemovals times.                              *)
(***************************************************************************)
EXTENDS TicketCheck, TLC

CONSTANTS MaxTime, MaxRequests, MaxRemovals

VARIABLES requests, removals      \* what has happened so far, for the bounds

mcVars == <<vars, requests, removals>>

OffByOne == {-1, 0, 1}

Parts(jwts) == [form : Form, jwt : jwts]

MCInit == Init /\ requests = 0 /\ removals = 0

Bounded(action, count, bound) == count < bound /\ action /\ count' = count + 1

MCNext ==
    \/ /\ \/ Tick /\ now < MaxTime
          \/ \E s \in Session : Login(s)
          \/ \E j \in jobs : CreateTicket(j) \/ HDel(j) \/ XAdd(j)
          \/ Advance
          \/ CallFails
       /\ UNCHANGED <<requests, removals>>
    \/ /\ \E s \in Session : Bounded(RemoveSession(s), removals, MaxRemovals)
       /\ UNCHANGED requests
    \/ /\ \E route \in Route, token \in Parts(tokens), cookie \in Parts(cookies) :
             /\ Intact(token) \/ Intact(cookie)
             /\ requests > 0 => Intact(token) /\ Intact(cookie)
             /\ Bounded(Send(route, token, cookie), requests, MaxRequests)
       /\ UNCHANGED removals

MCSpec == MCInit /\ [][MCNext]_mcVars

Interchangeable == Permutations(Session)
=============================================================================
