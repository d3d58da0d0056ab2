\* One device and everything the PnP manager may ask of it, while two file
\* objects use it; no symmetry because of the liveness property.
CONSTANTS
  Pdos = {p1}
  Handles = {h1, h2}
  Ports = {1}
  Irps = {"STOP", "REMOVE", "EJECT", "BUS", "READ"}
  None = None
SPECIFICATION FairSpec
CHECK_DEADLOCK FALSE
INVARIANTS
  StatesAgree
PROPERTIES
  ReadLostOnly
  UnpluggedGoes
