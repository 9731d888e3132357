--------------------------- MODULE AlertLifecycle ---------------------------
(***************************************************************************)
(* What the alerts of a project promise, with no expense, no request and   *)
(* no database statement in sight.  An alert is raised once, for the       *)
(* budget there is; it belongs to that budget for good, and goes with it.  *)
(* A budget that comes later starts without alerts.                        *)
(***************************************************************************)
EXTENDS Naturals

CONSTANT Alerts

VARIABLES current,  \* the id of the budget, 0 when there is none
          status,   \* of the alerts, "free" before they are raised
          owner     \* the id of the budget an alert was raised for

vars == <<current, status, owner>>

Shown   == {"unread", "read", "resolved"}
Present == {a \in Alerts : status[a] \in Shown}

Init == /\ current \in Nat
        /\ status = [a \in Alerts |-> "free"]
        /\ owner = [a \in Alerts |-> 0]

\* A budget nobody has raised an alert for.
Open == /\ current = 0
        /\ current' \in Nat \ {0}
        /\ \A a \in Alerts : owner[a] # current'
        /\ UNCHANGED <<status, owner>>

\* The budget is deleted and all its alerts with it, at once.
Close == /\ current # 0
         /\ current' = 0
         /\ status' = [a \in Alerts |-> IF a \in Present THEN "gone" ELSE status[a]]
         /\ UNCHANGED owner

Resolved(S) == [a \in Alerts |-> IF a \in S THEN "resolved" ELSE status[a]]

\* The total is back below the threshold.
Resolve(S) == /\ S \subseteq Present
              /\ status' = Resolved(S)
              /\ UNCHANGED <<current, owner>>

\* The threshold is reached; whoever raises an alert may have resolved others.
Raise(a, S) == /\ current # 0
               /\ status[a] = "free" /\ S \subseteq Present
               /\ status' = [Resolved(S) EXCEPT ![a] = "unread"]
               /\ owner' = [owner EXCEPT ![a] = current]
               /\ UNCHANGED current

\* The owner of the project marks an alert.
Mark(a, s) == /\ a \in Present
              /\ status' = [status EXCEPT ![a] = s]
              /\ UNCHANGED <<current, owner>>

Next == \/ Open
        \/ Close
        \/ \E S \in SUBSET Alerts : Resolve(S)
        \/ \E a \in Alerts, S \in SUBSET Alerts : Raise(a, S)
        \/ \E a \in Alerts, s \in Shown : Mark(a, s)

Spec == Init /\ [][Next]_vars
=============================================================================
