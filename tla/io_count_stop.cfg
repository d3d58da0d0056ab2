\* Two requests, so that one can be in the way of another.
CONSTANTS
  Ioctls = {i1, i2}
  Opens = {}
  Powers = {}
  PnP = PnP
SPECIFICATION Spec
SYMMETRY Symmetry
CHECK_DEADLOCK FALSE
INVARIANT StopWaitsForEarlier
