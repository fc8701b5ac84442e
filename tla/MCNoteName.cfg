SPECIFICATION Spec
CONSTANTS
  Letters = {a, b}
  Other = o
  Hyphen = h
  MaxSlug = 4
  MaxTitle = 8
  Starts <- WalkStarts
  ClockTimes <- TimesOfDay
  LastDay = 24854
INVARIANTS TypeOK CalendarRight StampRight SlugRight
CHECK_DEADLOCK FALSE
