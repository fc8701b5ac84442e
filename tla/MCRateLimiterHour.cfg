SPECIFICATION Spec
CONSTANTS
  Callers = {c1}
  Keys = {write}
  Shared = write
  Capacity = 2
  Rate = 2
  Period = 2
  LastInstant = 4
INVARIANT HourlyBudget
