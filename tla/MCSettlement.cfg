SPECIFICATION Spec
CONSTANTS
  p1 = p1
  p2 = p2
  p3 = p3
  p4 = p4
  o1 = o1
  o2 = o2
  j1 = j1
  j2 = j2
  People = {p1, p2, p3, p4}
  Mine = {p1, p2}
  Strangers = {p4}
  Projects = {j1, j2}
  Ops = {o1, o2}
  Expenses <- FewExpenses
  MaxCommits = 3
  MaxPayments = 4
INVARIANTS
  TypeOK
  ShownPaymentsSettle
  TotalsAreTheLedger
  DashboardAgrees
PROPERTIES
  ReadsAreAnswered
  ReadsRunOut
\* Changes are bounded.
CHECK_DEADLOCK FALSE
