SPECIFICATION Spec
CONSTANTS
  d1 = d1
  d2 = d2
  n1 = n1
  Public = {10}
  Private = {90}
  InboxDir = 10
  IndexDir = 100
  Files <- PlacesInScope
  Docs = {d1, d2}
  Notes = {n1}
  NoDoc = NoDoc
  ScoreOf <- Scores
  ResponseSize <- SumOfSizes
  MaxResponse = 2
  Limits = {1, 2}
  MaxEdits = 0
INVARIANT NotesUnread
