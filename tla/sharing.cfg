CONSTANTS
  p1 = p1
  p2 = p2
  p3 = p3
  b1 = b1
  b2 = b2
  Procs = {p1, p2, p3}
  Binders = {b1, b2}
  Devs = {1, 2}
  Hubs = {2}
  Ports = {0, 1}
  SockBuf = 2
  NumIfs <- MCNumIfs
  Settings <- MCSettings
SPECIFICATION Spec
INVARIANTS TypeOK GrantedOnce RecordNamesDevice CompleteMeansBound
PROPERTIES EveryRunEnds NothingStaysTaken
CHECK_DEADLOCK FALSE
