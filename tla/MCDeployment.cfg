SPECIFICATION Spec
CONSTANTS
  r1 = r1
  r2 = r2
  Requests = {r1, r2}
  Emails = {"eve"}
  MaxAttempts = 2
  MaxRuns = 2
  NumPeople = 3
  NumProjects = 1
  NumExpenses = 2
  People <- FirstPeople
  Projects <- FirstProjects
INVARIANTS
  TypeOK
  AccountIsWhole
  WinnerOwnsAccount
  PeopleStayApart
  IdsAreFresh
  
SYMMETRY RequestSymmetry
\* Attempts and runs are bounded.
CHECK_DEADLOCK FALSE
