SPECIFICATION FairSpec
CONSTANTS
  Size = 5
  MaxAmount = 5
  People <- Participants
  Inputs <- AllInputs
  MaxPayments = 6
INVARIANTS
  NeverOverpaid
  AtMostNMinusOne
  MinimalUpToFour
  SeedCountsHold
PROPERTIES
  SettlesEverything
\* The loop stops when it is done.
CHECK_DEADLOCK FALSE
