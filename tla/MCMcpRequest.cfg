SPECIFICATION FairSpec
CONSTANTS
  Requests = {r1, r2}
  ApiKeys = {"KeyA"}
  Tokens = {t}
  PrivateTokens = {t}
  MaxPermits = 1
  Burst = 1
  WritesPerHour = 1
INVARIANTS TypeOK NoteToolHidden PermitsConserved NotesAudited OneRequestPerId DeadTokensServeNoLater
PROPERTIES LineMovesOn ShutdownEnds
