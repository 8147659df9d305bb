SPECIFICATION SpaceSpec
CONSTANTS
  Pages = {0, 1, 2}
  Watchable = {}
  AccessKinds = {"read", "write"}
  MemoryValues = {0, 1}
  Boards <- IrobotBoards
  BankSwitches <- RamBanks
  CpuWrites = {1, 2, 3}
  MaxWatches = 0
INVARIANTS LoadRestores
