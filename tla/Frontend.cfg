SPECIFICATION FrontendSpec
CONSTANTS
  ControlTable <- MCControls
  Watchpoints = {}
  UserCommands = {"AdvanceFrame", "ResetSoft", "ResetHard", "SetDipOption", "LoadState", "SaveState"}
  Movies <- ShortMovies
  StartRecording = {FALSE}
  StartPaused = {FALSE}
  WindowEvents = {"focus", "pad"}
  PartialLoads = FALSE
  MaxPolled = 2
  MaxSubmits = 2
  MaxTakeFrames = 1
  MaxTakeCalls = 3
  RecordTable <- MCRecordTable
  ReplayTable <- MCReplayTable
  MovieCalls <- MCMovieCalls
  MaxMovieCalls = 3
  MaxMovieFrames = 2
  Addresses = {10}
  Kinds = {"read", "write"}
  Values = {0, 1}
  Conditions <- MCConditions
  MaxPendingHits = 2
  SaturateAt = 2
  MaxWatched = 2
  MaxFired = 6
  Window = 2
  Threshold = 3
  ProgramCounters = {0, 1, 2, 3, 4}
  MaxFrames = 7
  Capacity = 16
  FadeSamples = 3
  Buffer = 4
  FrameSamples = {0, 3, 5}
  Period = 2
  Sleep = 1
  Pages = {0, 1, 2, 3}
  Watchable <- MCWatchable
  AccessKinds = {"read", "write"}
  MemoryValues = {0, 1}
  Boards <- MCBoards
  BankSwitches <- MCBanks
  CpuWrites = {1, 3, 5}
  MaxWatches = 2
INVARIANTS
  PartsTypeOK
  ReplayIsolated
  HeldMatchesDevices
  LossesAccounted
  ReportsAreHangs
  ReplayFaithful
  FilterExact
  LoadRestores
  PagesInRange
PROPERTIES
  ArmedStepsResolve
  CommandsDrain
  FiresOnItsCondition
  NoPop
CHECK_DEADLOCK FALSE
