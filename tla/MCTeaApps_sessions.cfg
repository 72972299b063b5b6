CONSTANTS
  Sessions = {1, 2}
  Apps = {"tea", "ticker", "multichat", "script"}
  Users <- MCUsers
  Resizing = {"tea", "ticker"}
  MaxKeys = 2
  MaxResizes = 1
SPECIFICATION Spec
INVARIANT TypeOK
PROPERTIES SessionEnds ChatDelivered
CHECK_DEADLOCK FALSE
