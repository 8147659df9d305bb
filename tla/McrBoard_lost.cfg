SPECIFICATION Spec
CONSTANTS
  Longest = 1
  Prescale16 = 2
  Prescale256 = 3
  TcRange = 2
  MaxBoardConstant = 1
  CyclesPerScanline = 12
  PairsPerField = 2
  Program = {"plain", "ei", "di", "retn", "im2", "out"}
  PortWrites <- BeamWrites
  UserActions = {"Reset", "Reload"}
INVARIANTS RequestsNotLost
CHECK_DEADLOCK FALSE
