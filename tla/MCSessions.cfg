SPECIFICATION Spec
CONSTANTS
  c1 = c1
  a = a
  b = b
  c = c
  t1 = t1
  t2 = t2
  t3 = t3
  NoToken = NoToken
  Tokens = {t1, t2, t3}
  Clients = {c1}
  Tabs = {a, b, c}
  TTL = 1
  MaxClock = 2
SYMMETRY Perms
INVARIANTS
  TypeOK
  SingleUse
  OneLivePerSession
  SlidingExpiry
  LogoutSurvivedOnlyByRefresh
PROPERTIES
  NoSilentLoss
  CookieMovesForward
  ImplementsLifecycle
