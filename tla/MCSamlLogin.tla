----------------------------- MODULE MCSamlLogin -----------------------------
(***************************************************************************)
(* SamlLogin for TLC: MaxRequests requests come, of which only the first   *)
(* may be for a page; and MaxEvents times an account or the settings are   *)
(* written, a call fails or the process restarts.                          *)
(***************************************************************************)
EXTENDS SamlLogin, FiniteSets, TLC

CONSTANTS MaxRequests, MaxEvents

VARIABLES requests, events      \* what has happened so far, for the bounds

bounds == <<requests, events>>
mcVars == <<vars, bounds>>

MCInit == Init /\ requests = 0 /\ events = 0

Bounded(action, count, bound) == count < bound /\ action /\ count' = count + 1

MCAdvance(r) == Advance(r) /\ UNCHANGED bounds

\* No more logins come than there are ids for their sessions.
IdsLeft ==
    Cardinality({r \in Request : req[r].route = "acs" /\ UnderWay(r) /\ req[r].session = Null})
        < Cardinality(Session \ used)

MayCome(route) ==
    /\ route \in Page => requests = 0
    /\ route = "acs" => IdsLeft

MCNext ==
    \/ \E r \in Request : MCAdvance(r)
    \/ /\ \E r \in Request :
             \/ \E route \in Route :
                   MayCome(route) /\ Bounded(Come(r, route), requests, MaxRequests)
             \/ \E s \in Session : Bounded(ComeToLogOut(r, s), requests, MaxRequests)
       /\ UNCHANGED events
    \/ /\ \/ \E u \in User, a \in Account : Bounded(WriteAccount(u, a), events, MaxEvents)
          \/ \E s \in Settings : Bounded(WriteSettings(s), events, MaxEvents)
          \/ \E r \in Request :
                \/ Bounded(CallFails(r), events, MaxEvents)
                \/ \E s \in Session : Bounded(RemovalFails(r, s), events, MaxEvents)
          \/ Bounded(Restart, events, MaxEvents)
       /\ UNCHANGED requests

MCSpec == MCInit /\ [][MCNext]_mcVars

\* The event loop runs what the answers to calls have made ready, and calls are answered.
MCFairSpec == MCSpec /\ \A r \in Request : WF_mcVars(MCAdvance(r))
=============================================================================
