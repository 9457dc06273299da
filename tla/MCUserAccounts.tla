--------------------------- MODULE MCUserAccounts ---------------------------
(***************************************************************************)
(* UserAccounts for TLC, with a bound on the requests that arrive, on the  *)
(* writes of the backend and on the faults.  A run stops only when every   *)
(* request has been answered, so one that is stuck is a deadlock.          *)
(***************************************************************************)
EXTENDS UserAccounts, TLC

CONSTANTS MaxRequests, MaxWrites, MaxFaults

VARIABLES arrivals, writes, faults      \* what has happened so far, for the bounds

counters == <<arrivals, writes, faults>>
mcVars == <<vars, counters>>

\* All users of a run have the same name: the code expects that they may.
Namesakes == [u \in User |-> CHOOSE n \in Name : TRUE]

\* A bound on the initial rows: one user starts with an active row of any form, every
\* other user is absent.  The backend's writes may change that: create the other user,
\* deactivate the account, whatever form its hash has, or delete it.
Subject == CHOOSE u \in User : TRUE
First == CHOOSE p \in Password : p # Empty
Starting == {Null} \cup {x \in Row : x.active /\ (x.hash # Null =>
    \/ x.hash.of = First
    \/ x.hash.of = Empty /\ x.hash.alg \in {"argon2", "sha512"})}

MCInit ==
    /\ Init /\ row[Subject] \in Starting /\ \A u \in User \ {Subject} : row[u] = Null
    /\ arrivals = 0 /\ writes = 0 /\ faults = 0

Bounded(step, count, bound) == count < bound /\ step /\ count' = count + 1

Spent ==
    /\ arrivals = MaxRequests /\ \A r \in Request : req[r].pc = "idle"
    /\ UNCHANGED mcVars

MCNext ==
    \/ \E r \in Request : Bounded(Arrive(r), arrivals, MaxRequests) /\ UNCHANGED <<writes, faults>>
    \/ \E r \in Request : Progress(r) /\ UNCHANGED counters
    \/ \E u \in User : Bounded(BackendWrites(u), writes, MaxWrites) /\ UNCHANGED <<arrivals, faults>>
    \/ \E r \in Request : Bounded(Fault(r), faults, MaxFaults) /\ UNCHANGED <<arrivals, writes>>
    \/ Spent

MCSpec == MCInit /\ [][MCNext]_mcVars

\* For liveness: FairSpec under the same bounds.
MCFairSpec == MCSpec /\ \A r \in Request : WF_mcVars(Progress(r) /\ UNCHANGED counters)
=============================================================================
