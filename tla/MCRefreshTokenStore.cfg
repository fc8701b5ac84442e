SPECIFICATION Spec
CONSTANTS
  Callers = {c1, c2}
  Families = {f1, f2}
  Tokens = {t1, t2, t3, t4}
  NoToken = NoToken
  NoCaller = NoCaller
  TTL = 2
  LastTime = 2
  Times <- Clock
SYMMETRY Symmetry
INVARIANTS TypeOK MemoryMatchesFile SingleUse RefusedForGood TokensExpireFirst
PROPERTIES EntryLifecycle Linearizable
