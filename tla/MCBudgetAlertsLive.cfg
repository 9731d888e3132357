SPECIFICATION FairSpec
CONSTANTS
  o1 = o1
  o2 = o2
  a1 = a1
  a2 = a2
  a3 = a3
  r1 = r1
  r2 = r2
  None = None
  Ops = {o1}
  Amounts = {1}
  BudgetInputs <- SmallBudgets
  Alerts = {a1, a2}
  MaxBudgetId = 2
  StatusInputs = {"unread", "resolved"}
  Requests = {r1, r2}
PROPERTIES
  RequestsFinish
