-------------------------- MODULE MCInvalidSessions --------------------------
(***************************************************************************)
(* InvalidSessions for TLC: the clock stops at MaxTime, which leaves room  *)
(* for a logout, the time it is remembered and the last token of the       *)
(* session; a session is removed, its tokens are refreshed and processes   *)
(* restart a bounded number of times.                                      *)
(***************************************************************************)
EXTENDS InvalidSessions, TLC

CONSTANTS MaxTime, MaxTokens, MaxJobs, MaxRemovals, MaxRestarts

VARIABLES removals, restarts      \* what has happened so far, for the bounds

mcVars == <<vars, removals, restarts>>

\* The clocks of the processes are behind that of Redis, which lengthens the life of tokens.
Slow == [p \in Process |-> -1]

MCInit == Init /\ removals = 0 /\ restarts = 0

Bounded(step, count, bound) == count < bound /\ step /\ count' = count + 1

MCNext ==
    /\ \/ /\ \/ Tick /\ now < MaxTime
             \/ \E s \in Session : Login(s) \/ CheckSession(s)
             \/ \E j \in jobs : IssueToken(j) \/ HDel(j) \/ XAdd(j)
             \/ \E p \in Process : Ask(p) \/ XRead(p) \/ XReadFails(p)
          /\ UNCHANGED <<removals, restarts>>
       \/ /\ \E s \in Session : Bounded(RemoveSession(s), removals, MaxRemovals)
          /\ UNCHANGED restarts
       \/ /\ \E p \in Process : Bounded(Restart(p), restarts, MaxRestarts)
          /\ UNCHANGED removals
    /\ Cardinality(tokens') <= MaxTokens /\ Cardinality(jobs') <= MaxJobs

MCSpec == MCInit /\ [][MCNext]_mcVars

Interchangeable == Permutations(Session)
=============================================================================
