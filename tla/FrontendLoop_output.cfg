SPECIFICATION Spec
CONSTANTS
  w1 = w1
  ControlTable <- OneControl
  Watchpoints = {}
  UserCommands = {"MovieRecordToggle"}
  Movies = {}
  StartRecording = {TRUE}
  StartPaused = {FALSE}
  WindowEvents = {}
  PartialLoads = FALSE
  MaxPolled = 2
  MaxSubmits = 2
  MaxTakeFrames = 2
  MaxTakeCalls = 3
INVARIANTS OutputIsCommandLineTake
CHECK_DEADLOCK FALSE
