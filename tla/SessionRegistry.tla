--------------------------- MODULE SessionRegistry --------------------------
(***************************************************************************)
(* What the session store promises: each operation of SessionService in    *)
(* one step.  A session is opened once, for one user; closing everything   *)
(* closes everything; a closed session is never opened again and is the    *)
(* only kind that is announced to the libraries.                           *)
(***************************************************************************)
CONSTANTS Session, User, Null

VARIABLES
    open,   \* the user of each open session, else Null
    used,   \* the sessions that were ever opened
    told    \* the sessions whose end was announced

vars == <<open, used, told>>

Init == open = [s \in Session |-> Null] /\ used = {} /\ told = {}

Open(u) ==
    \E s \in Session \ used :
        /\ open' = [open EXCEPT ![s] = u]
        /\ used' = used \cup {s}
        /\ UNCHANGED told

CloseThose(S) ==
    /\ open' = [s \in Session |-> IF s \in S THEN Null ELSE open[s]]
    /\ UNCHANGED <<used, told>>

Close(s) == open[s] # Null /\ CloseThose({s})
CloseOthers(s) == open[s] # Null /\ CloseThose({t \in Session \ {s} : open[t] = open[s]})
CloseAll(u) == CloseThose({t \in Session : open[t] = u})

Announce(s) ==
    /\ s \in used /\ open[s] = Null
    /\ told' = told \cup {s}
    /\ UNCHANGED <<open, used>>

Next ==
    \/ \E u \in User : Open(u) \/ CloseAll(u)
    \/ \E s \in Session : Close(s) \/ CloseOthers(s) \/ Announce(s)

Spec == Init /\ [][Next]_vars
=============================================================================
