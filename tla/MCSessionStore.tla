--------------------------- MODULE MCSessionStore ---------------------------
(***************************************************************************)
(* SessionStore for TLC, with a bound on the requests that arrive and on   *)
(* the faults that happen.  A run stops only when every request has left   *)
(* and the bound on arrivals is spent, so a request that is stuck is       *)
(* reported as a deadlock.                                                 *)
(***************************************************************************)
EXTENDS SessionStore, TLC

CONSTANTS MaxRequests, MaxFaults

VARIABLES arrivals, faults      \* what has happened so far, for the bounds

mcVars == <<vars, arrivals, faults>>

MCInit == Init /\ arrivals = 0 /\ faults = 0

Bounded(step, count, bound) == count < bound /\ step /\ count' = count + 1

Spent ==
    /\ arrivals = MaxRequests /\ \A r \in Request : req[r].pc = "idle"
    /\ UNCHANGED mcVars

MCNext ==
    \/ \E r \in Request : Bounded(Arrive(r), arrivals, MaxRequests) /\ UNCHANGED faults
    \/ \E r \in Request : Progress(r) /\ UNCHANGED <<arrivals, faults>>
    \/ \E r \in Request : Bounded(Fault(r), faults, MaxFaults) /\ UNCHANGED arrivals
    \/ Bounded(Crash, faults, MaxFaults) /\ UNCHANGED arrivals
    \/ Spent

MCSpec == MCInit /\ [][MCNext]_mcVars

\* The schedules in which requests of one user wait for each other.
MCSerialSpec == MCInit /\ [][MCNext /\ Serial']_mcVars

\* For liveness: FairSpec under the same bounds.
MCFairSpec ==
    MCSpec /\ \A r \in Request : WF_mcVars(Progress(r) /\ UNCHANGED <<arrivals, faults>>)

\* What the service keeps as long as Redis does: the agreement of the stream with the
\* hash, on which the libraries rely, that of the index with the hash, and the word
\* given to a client that logs out.
HealthyStoreKeepsWord ==
    faults = 0 => BusAgreesWithStore /\ ActiveSessionsAgree /\ LogoutsTakeEffect

Interchangeable == Permutations(Session) \cup Permutations(User) \cup Permutations(Request)
=============================================================================
