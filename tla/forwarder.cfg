CONSTANTS
  u1 = u1
  u2 = u2
  Header = 2
  IsoDesc = 1
  Urbs = {u1, u2}
  Settings <- MCSettings
  Selections <- MCSelections
  DeviceConfig <- MCDeviceConfig
  Speed = 3
  Statuses = {"0", "EPIPE"}
  OutQLen = 1
  BigSize = 7
  MaxSeq = 2
  None = None
  Failed = Failed
SPECIFICATION Spec
INVARIANTS TypeOK InStepUnlessZero RightResult EndsForAReason PipesAreTheDevices
CHECK_DEADLOCK FALSE
PROPERTIES EveryUrbEnds
