CONSTANTS
  t1 = t1
  t2 = t2
  h1 = h1
  h2 = h2
  d1 = d1
  d2 = d2
  pr = pr
  cam = cam
  sys = sys
  Threads = {t1, t2}
  Hosts = {h1, h2}
  Devs = {d1, d2, pr, cam, sys}
  Owner <- MCOwner
  Kind <- MCKind
  Alike <- MCAlike
  Vols = {1, 2, 3, 4}
  DevOf <- MCDevOf
  LastLetter = 3
  Cells = {1, 2, 3, 4}
  Public = Public
  Everyone = Everyone
  Admins = Admins
  Settings <- MCSettings
SPECIFICATION Spec
INVARIANTS TypeOK FaultsTakeTwo
 
CHECK_DEADLOCK FALSE
