SPECIFICATION Spec
CONSTANTS
  Writers = {w1, w2, w3}
  Slugs <- NoteSlugs
  Sizes = {1}
  MaxTotal = 1
  WritesPerHour = 3
  MaxNameAttempts = 2
  MaxNotes = 3
  LastSecond = 0
INVARIANT OvershootOfOneNote
