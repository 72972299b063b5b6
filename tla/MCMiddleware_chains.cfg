CONSTANTS
  Sessions = {s1}
  Middlewares <- AnyMiddleware
  Chains <- UpToThree
  Commands = {"allowed", "forbidden"}
SPECIFICATION Spec
INVARIANTS TypeOK LastFirst GatesHold LeftUnlessCrossed StatusTells NextAfterRecover Contained
PROPERTY HandlerEnds
CHECK_DEADLOCK FALSE
