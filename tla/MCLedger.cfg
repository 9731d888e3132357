SPECIFICATION Spec
CONSTANTS
  ann = ann
  bob = bob
  cat = cat
  dan = dan
  o1 = o1
  o2 = o2
  r1 = r1
  r2 = r2
  None = None
  People = {ann, bob, cat, dan}
  Founders = {ann, bob}
  Strangers = {dan}
  Ops = {o1, o2}
  Expenses <- BalancedExpenses
  Requests = {r1, r2}
SYMMETRY Perms
INVARIANTS
  TypeOK
  ReferencesStand
  SharesWithinAmount
  SerialBalancesComplete
