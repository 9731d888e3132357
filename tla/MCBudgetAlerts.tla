--------------------------- MODULE MCBudgetAlerts ---------------------------
(* Model checking of BudgetAlerts. *)
EXTENDS BudgetAlerts, TLC

CONSTANTS o1, o2,       \* operations
          a1, a2, a3,   \* alerts
          r1, r2        \* requests

\* A threshold reached at a total of 1, and alerts "disabled" at 2.
Half     == [amount |-> 2, limitCriteria |-> 50]
Disabled == [amount |-> 2, limitCriteria |-> 100]

SmallBudgets == {Half, Disabled}

\* One expense of 1 stays below the threshold, two are over it.
TightBudgets == {[amount |-> 3, limitCriteria |-> 50]}

Perms == Permutations(Ops) \union Permutations(Alerts) \union Permutations(Requests)
=============================================================================
