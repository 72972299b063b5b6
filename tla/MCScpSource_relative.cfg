CONSTANTS
  Commands <- CopyCommands
  Handlers = {"dir"}
  Roots <- RelativeRoots
  Trees <- OneTree
  NameOrder <- Order
  StartsWith <- Starts
  MaxNames = 2
SPECIFICATION Spec
INVARIANT SamePlace
CHECK_DEADLOCK FALSE
