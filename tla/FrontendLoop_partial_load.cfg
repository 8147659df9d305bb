SPECIFICATION Spec
CONSTANTS
  w1 = w1
  ControlTable <- OneControl
  Watchpoints = {}
  UserCommands = {"LoadState"}
  Movies = {}
  StartRecording = {FALSE}
  StartPaused = {FALSE}
  WindowEvents = {}
  PartialLoads = TRUE
  MaxPolled = 2
  MaxSubmits = 2
  MaxTakeFrames = 2
  MaxTakeCalls = 3
INVARIANTS HeldMatchesDevices
CHECK_DEADLOCK FALSE
