SPECIFICATION Spec
CONSTANTS
  w1 = w1
  ControlTable <- OneControl
  Watchpoints = {w1}
  UserCommands = {"SetWatchpoint"}
  Movies = {}
  StartRecording = {FALSE}
  StartPaused = {FALSE}
  WindowEvents = {"panel"}
  PartialLoads = FALSE
  MaxPolled = 2
  MaxSubmits = 2
  MaxTakeFrames = 2
  MaxTakeCalls = 3
INVARIANTS HitsDrainedWhenDrawn
CHECK_DEADLOCK FALSE
