SPECIFICATION Spec
CONSTANTS
  w1 = w1
  w2 = w2
  Writers = {w1, w2}
  Take = 2
  Initial = 4
  MaxWrites = 3
INVARIANTS
  TypeOK
  UntouchedAreShown
  RepeatsHaveACause
  QuietScrollIsTheList
PROPERTIES
  ScrollEnds
\* The scroll ends and writes are bounded.
CHECK_DEADLOCK FALSE
