\* Two requests that count themselves in and out, one of which may leave
\* uncounted, a power request, and any sequence of PnP IRPs.
CONSTANTS
  Ioctls = {i1}
  Opens = {o1}
  Powers = {p1}
  PnP = PnP
SPECIFICATION FairSpec
CHECK_DEADLOCK FALSE
INVARIANTS
  TypeOK
  ServedBeforeRemoved
  NoLostStop
  ZeroOnlyDeleted
PROPERTIES
  StopReturns
  RemoveReturnsUnlessLeaked
