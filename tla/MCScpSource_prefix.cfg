CONSTANTS
  Commands <- CopyCommands
  Handlers = {"dir"}
  Roots <- AbsoluteRoots
  Trees <- TwoDirs
  NameOrder <- Order
  StartsWith <- Starts
  MaxNames = 2
SPECIFICATION Spec
INVARIANT TreeSent
CHECK_DEADLOCK FALSE
