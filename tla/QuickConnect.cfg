SPECIFICATION Spec
CONSTANTS
  Profiles = {p1}
  Folder = folder
  Quick = quick
  None = none
  MaxPages = 5
  MaxMade = 5
  MaxQueue = 1
INVARIANT QuickConnectConnects
CHECK_DEADLOCK FALSE
