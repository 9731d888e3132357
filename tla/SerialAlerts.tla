---------------------------- MODULE SerialAlerts ----------------------------
(***************************************************************************)
(* What the handlers of operations.service.ts, projects.service.ts and     *)
(* alert.service.ts do to the expenses, the budget and the alerts of a     *)
(* project when nothing runs beside them: one step per request, with no    *)
(* transaction, no statement and nothing read that could be stale.  A step *)
(* applies what the request changes and then the checks its handler calls. *)
(***************************************************************************)
EXTENDS Integers, FiniteSetsExt

CONSTANTS Ops, Alerts

VARIABLES ops,     \* the amount of each expense, 0 when there is no row
          budget,  \* the budget, its id is 0 when there is none
          alert    \* the alerts, "free" before they are raised

vars == <<ops, budget, alert>>

Free    == {a \in Alerts : alert[a].status = "free"}
Present == {a \in Alerts : alert[a].status \in {"unread", "read", "resolved"}}
Active  == {a \in Present : alert[a].status # "resolved"}

Init == /\ ops = [o \in Ops |-> 0]
        /\ Present = {}

-----------------------------------------------------------------------------
(* The checks, which see what the request has changed. *)

Reached == SumFunctionOnSet(ops', Ops) * 100 >= budget'.amount * budget'.limitCriteria
Due     == budget'.id # 0 /\ Reached /\ Active = {}
Undue   == budget'.id # 0 /\ ~Reached

NewAlert == [status    |-> "unread",
             budgetId  |-> budget'.id,
             threshold |-> budget'.limitCriteria]

\* checkAndCreateAlert
CheckAndCreate ==
    \/ /\ Due
       /\ \E a \in Free : alert' = [alert EXCEPT ![a] = NewAlert]
    \/ ~Due /\ UNCHANGED alert

With(S, status) ==
    [a \in Alerts |-> IF a \in S THEN [alert[a] EXCEPT !.status = status] ELSE alert[a]]

\* resolveAlertIfNeeded
ResolveIfNeeded ==
    alert' = IF Undue THEN With(Active, "resolved") ELSE alert

-----------------------------------------------------------------------------
(* The requests. *)

\* Of the expenses, only o changes.
Writes(o) == ops' = [ops EXCEPT ![o] = ops'[o]] /\ UNCHANGED budget

Create == \E o \in Ops : /\ ops[o] = 0 /\ ops'[o] # 0
                         /\ Writes(o)
                         /\ CheckAndCreate

\* Both checks; the second has nothing to do when the first had.
Update == \E o \in Ops : /\ ops[o] # 0 /\ ops'[o] # 0
                         /\ Writes(o)
                         /\ IF Undue THEN ResolveIfNeeded ELSE CheckAndCreate

Delete == \E o \in Ops : /\ ops[o] # 0 /\ ops'[o] = 0
                         /\ Writes(o)
                         /\ ResolveIfNeeded

\* The budget is created or changed: raising an alert is left to the next expense.
SetBudget == /\ budget'.id # 0
             /\ budget.id # 0 => budget'.id = budget.id
             /\ ResolveIfNeeded
             /\ UNCHANGED ops

DropBudget == /\ budget.id # 0 /\ budget'.id = 0
              /\ alert' = With(Present, "gone")
              /\ UNCHANGED ops

Mark == \E a \in Present, s \in {"unread", "read", "resolved"} :
           /\ alert' = With({a}, s)
           /\ UNCHANGED <<ops, budget>>

Next == Create \/ Update \/ Delete \/ SetBudget \/ DropBudget \/ Mark

Spec == Init /\ [][Next]_vars
=============================================================================
