CONSTANTS
  Commands <- AllCommands
  Handlers = {"dir", "fs", "none"}
  Roots <- AllRoots
  Trees <- AllTrees
  NameOrder <- Order
  StartsWith <- Starts
  MaxNames = 4
SPECIFICATION Spec
INVARIANTS TypeOK Confined Resolution TreeSentApart FilesClosed
CHECK_DEADLOCK FALSE
