SPECIFICATION ComponentsSpec
CONSTANTS
  Crystals <- MCCrystals
  Declared <- MCDeclared
  StepDomains = {1, 2}
  Ticked = {2}
  Speech = 2
  Rates = {1, 3}
  MaxU32 = 100
  MaxTicks = 5
  Prescale16 = 2
  Prescale256 = 3
  TcRange = 3
  MaxTimeConstant = 2
  Bytes <- MCBytes
  Width = 8
  KeyStep = 1
  MaxStep = 2
  Deltas <- MCDeltas
  UpdatesPerRead = 1
  MaxMotion = 5
  Longest = 1
  CyclesPerScanline = 2
  PairsPerField = 2
  Program = {"plain", "ei", "di", "halt", "prefix", "retn", "im2", "out"}
  PortWrites <- MCPortWrites
  MaxBoardConstant = 1
  UserActions = {"Reset", "Reload"}
  LinesProgram = {"plain", "ei", "di", "halt", "prefix", "retn"}
  MaxNested = 3
  Intermediate = 4
  Decimation = 2
  InputRates = {3, 10}
  Inputs = {0, 1}
  MaxRun = 4
  MaxInputs = 4
  InitialCapacity = 1
  MaxCapacity = 4
  SampleNames = 5
  MaxOverruns = 3
INVARIANTS
  ComponentsTypeOK
  FiresExact
  RatesExact
  ChipInStep
  CountersLoaded
  NoPhantomService
  HandlersDoNotNest
  BatchEqualsTicks
  OutputCountExact
  GameFollowsBall
PROPERTIES
  DividesExactly
  OneNmiPerEdge
  NmiRestoresMask
  InterruptsWakeHalt
  ImplementsQueue
CHECK_DEADLOCK FALSE
