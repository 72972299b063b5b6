CONSTANTS
  Root <- MCRoot
  Target <- InSub
  Names = {"x", "y", ".."}
  Sizes = {1, 9}
  Times = {0, 1}
  Clients = {"lockstep"}
  MaxSends = 6
  MaxInt64 = 10
  MaxInt = 3
SPECIFICATION Spec
INVARIANTS TypeOK BelowTarget InSync OneAnswer TimesOfItsOwn
PROPERTIES Answered SessionEnds
CHECK_DEADLOCK FALSE
