SPECIFICATION Spec
CONSTANTS
  Callers = {c1}
  Clients = {k1}
  Codes = {a1}
  Families = {f1}
  Tokens = {t1, t2, t3}
  NoToken = NoToken
  NoClient = NoClient
  NoCode = NoCode
  ApprovalTTL = 1
  CodeTTL = 1
  AccessTTL = 1
  TTL = 2
  MaxPages = 1
  LastTime = 2
  Times <- Clock
INVARIANT ReplayRevokes
