SPECIFICATION Spec
CONSTANTS
  Callers = {c1, c2}
  Clients = {k1, k2}
  Codes = {a1}
  Families = {f1, f2}
  Tokens = {t1, t2, t3}
  NoToken = NoToken
  NoClient = NoClient
  NoCode = NoCode
  ApprovalTTL = 1
  CodeTTL = 1
  AccessTTL = 1
  TTL = 2
  MaxPages = 1
  LastTime = 2
  Times <- Clock
SYMMETRY Symmetry
INVARIANTS TypeOK WithinApproval OneFamilyPerCode OneSuccessor BoundToClient DeadFamilyAdmitsNobody
