-------------------------- MODULE SessionLifecycle --------------------------
(***************************************************************************)
(* What the refresh-token store promises, with no request, no clock and no *)
(* database statement in sight.  A session is named by the first token it  *)
(* was given.  It is opened once, holds exactly one valid token while it   *)
(* is open, replaces that token by one never seen before when it is        *)
(* renewed, and once closed stays closed.                                  *)
(***************************************************************************)
CONSTANT Tokens

VARIABLES valid,    \* valid[s]: the tokens that would be accepted for session s
          used      \* every token handed out so far

vars == <<valid, used>>

Init == /\ valid = [s \in Tokens |-> {}]
        /\ used = {}

\* A login or a registration: the first token of the session names it.
Open(s) ==
    /\ s \notin used
    /\ valid' = [valid EXCEPT ![s] = {s}]
    /\ used' = used \union {s}

\* A refresh: the only valid token is exchanged for a fresh one.
Renew(s, old, new) ==
    /\ valid[s] = {old}
    /\ new \notin used
    /\ valid' = [valid EXCEPT ![s] = {new}]
    /\ used' = used \union {new}

\* A logout, or the removal of an expired row.
Close(s) ==
    /\ valid[s] # {}
    /\ valid' = [valid EXCEPT ![s] = {}]
    /\ UNCHANGED used

Next == \E s \in Tokens :
            \/ Open(s)
            \/ \E old, new \in Tokens : Renew(s, old, new)
            \/ Close(s)

Spec == Init /\ [][Next]_vars
=============================================================================
