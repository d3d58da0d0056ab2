\* Two devices with one serial number, one after the other or at once, and two
\* file objects; the bus may be removed.
CONSTANTS
  Pdos = {p1, p2}
  Handles = {h1, h2}
  Ports = {1}
  Irps = {"BUS"}
  None = None
SPECIFICATION Spec
SYMMETRY Symmetry
CHECK_DEADLOCK FALSE
INVARIANTS
  TypeOK
  ListSound
  CountMatches
  
PROPERTIES
  SurprisedSpared
