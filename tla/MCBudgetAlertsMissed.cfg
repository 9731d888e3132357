SPECIFICATION Spec
CONSTANTS
  o1 = o1
  o2 = o2
  a1 = a1
  a2 = a2
  a3 = a3
  r1 = r1
  r2 = r2
  None = None
  Ops = {o1, o2}
  Amounts = {1}
  BudgetInputs <- TightBudgets
  Alerts = {a1, a2, a3}
  MaxBudgetId = 1
  StatusInputs = {"read"}
  Requests = {r1, r2}
SYMMETRY Perms
INVARIANTS
  OverIsAnnounced
