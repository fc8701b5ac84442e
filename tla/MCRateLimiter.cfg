SPECIFICATION Spec
CONSTANTS
  Callers = {c1, c2}
  Keys = {write, oauth}
  Shared = write
  Capacity = 2
  Rate = 2
  Period = 3
  LastInstant = 3
SYMMETRY Symmetry
INVARIANTS TypeOK PaidFor
PROPERTIES KeepsBudget
