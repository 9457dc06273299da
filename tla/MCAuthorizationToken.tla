------------------------ MODULE MCAuthorizationToken ------------------------
(***************************************************************************)
(* AuthorizationToken for TLC: the clock stops at MaxTime, after the marks *)
(* of the first tokens have expired; the programs that verify and the      *)
(* commands that fail are bounded.                                         *)
(***************************************************************************)
EXTENDS AuthorizationToken, TLC

CONSTANTS MaxTime, MaxFaults, Programs

VARIABLE faults

mcVars == <<vars, faults>>

MCInit == Init /\ faults = 0

MCNext ==
    \/ /\ \/ Tick /\ now < MaxTime
          \/ \E t \in Token : CreateToken(t)
          \/ \E r \in Request, program \in Programs, h \in Header : Begin(r, program, h)
          \/ \E r \in Request : Verify(r)
       /\ UNCHANGED faults
    \/ /\ faults < MaxFaults /\ faults' = faults + 1
       /\ \E r \in Request : CommandFails(r)

MCSpec == MCInit /\ [][MCNext]_mcVars

Interchangeable == Permutations(Request) \cup Permutations(Token)
=============================================================================
