SPECIFICATION Spec
CONSTANTS
  d1 = d1
  d2 = d2
  n1 = n1
  Public = {10}
  Private = {90}
  InboxDir = 99
  IndexDir = 100
  Files <- Places
  Docs = {d1, d2}
  Notes = {n1}
  NoDoc = NoDoc
  ScoreOf <- Scores
  ResponseSize <- SumOfSizes
  MaxResponse = 2
  Limits = {1, 2}
  MaxEdits = 2
INVARIANT OthersNeverListed
