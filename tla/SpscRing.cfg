SPECIFICATION CallbackSpec
CONSTANTS
  Capacity = 4
  Wraps = 2
  Batches <- MCStereoLengths
  Requests <- MCStereoLengths
  MaxOffered = 12
  MaxStarved = 4
  Unsynced = Unsynced
INVARIANTS
  TypeOK
  NothingOverrun
  PlayedInOrder
  DropsAccounted
  StereoAligned
PROPERTIES
  FifoSpec
  CallbackNeverBlocks
CHECK_DEADLOCK FALSE
