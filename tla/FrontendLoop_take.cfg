SPECIFICATION Spec
CONSTANTS
  w1 = w1
  ControlTable <- OneControl
  Watchpoints = {w1}
  UserCommands = {"MovieRecordToggle", "LoadState", "SetDipOption", "PokeMemory", "AdvanceFrame", "SetWatchpoint", "ClearWatchpoint", "TogglePause", "StepInstruction", "StepCycle", "ResetHard", "ResetSoft", "SaveState"}
  Movies = {}
  StartRecording = {TRUE, FALSE}
  StartPaused = {FALSE}
  WindowEvents = {"focus", "panel", "ungrab", "pad"}
  PartialLoads = TRUE
  MaxPolled = 2
  MaxSubmits = 2
  MaxTakeFrames = 2
  MaxTakeCalls = 2
INVARIANTS TypeOK TakeFaithful WatchpointsClearDuringTake WatchpointsInSync AutoPauseHeld
CHECK_DEADLOCK FALSE
