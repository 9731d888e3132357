SPECIFICATION Spec
CONSTANTS
  c1 = c1
  a = a
  b = b
  c = c
  t1 = t1
  t2 = t2
  t3 = t3
  NoToken = NoToken
  Tokens = {t1, t2}
  Clients = {c1}
  Tabs = {a, b}
  TTL = 1
  MaxClock = 1
SYMMETRY Perms
INVARIANTS
  LogoutKillsSession
