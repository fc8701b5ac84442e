SPECIFICATION FairSpec
CONSTANTS
  Writers = {w1, w2}
  Slugs <- NoteSlugs
  Sizes = {1}
  MaxTotal = 1
  WritesPerHour = 1
  MaxNameAttempts = 2
  MaxNotes = 3
  LastSecond = 1
INVARIANTS TypeOK AckedNotesKept QuotaOvershoot
PROPERTIES NeverOverwritten CallsReturn
