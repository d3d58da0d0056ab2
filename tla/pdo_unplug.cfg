\* As pdo_list, and the bus stays.
CONSTANTS
  Pdos = {p1, p2}
  Handles = {h1, h2}
  Ports = {1}
  Irps = {}
  None = None
SPECIFICATION Spec
SYMMETRY Symmetry
CHECK_DEADLOCK FALSE
PROPERTIES
  UnplugClearsPresent
