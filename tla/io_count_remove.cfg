\* One call of Bus_Create is enough to keep REMOVE waiting.
CONSTANTS
  Ioctls = {i1}
  Opens = {o1}
  Powers = {}
  PnP = PnP
SPECIFICATION FairSpec
CHECK_DEADLOCK FALSE
PROPERTY RemoveReturns
