CONSTANTS
  Root <- MCRoot
  Target <- Climbing
  Names = {"x", ".."}
  Sizes = {0, 1, 9, 11}
  Times = {0}
  Clients = {"free"}
  MaxSends = 4
  MaxInt64 = 10
  MaxInt = 3
SPECIFICATION Spec
INVARIANTS AckedComplete NothingHalfWritten Confined
CHECK_DEADLOCK FALSE
