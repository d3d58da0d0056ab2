\* Two URBs, one of which gets number 0 and one 1; liveness, hence no
\* symmetry.
CONSTANTS
  Urbs = {u1, u2}
  Readers = {r1}
  MaxSeq = 2
  FirstSeq = 2
  None = None
SPECIFICATION FairSpec
CHECK_DEADLOCK FALSE
PROPERTIES
  ImplementsService
  PacketsInOrder
  EveryUrbCompleted
  WaitingReadReleased
