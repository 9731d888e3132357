SPECIFICATION Spec
CONSTANTS
  p1 = p1
  p2 = p2
  p3 = p3
  p4 = p4
  o1 = o1
  o2 = o2
  j1 = j1
  j2 = j2
  People = {p1, p2}
  Mine = {p1, p2}
  Strangers = {}
  Projects = {j1}
  Ops = {o1, o2}
  Expenses <- CrossedExpenses
  MaxCommits = 3
  MaxPayments = 4
INVARIANTS
  FewPayments
\* Changes are bounded.
CHECK_DEADLOCK FALSE
