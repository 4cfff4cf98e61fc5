SPECIFICATION MemorySpec
CONSTANTS
  Pushers = {server, job}
  Popper = job
  Sizes = {1, 2}
  Area = 4
  Block = 6
  ShiftLen = 2
  MaxPushes = 5
INVARIANTS
  MemoryTypeOK
PROPERTIES
  MemoryOverrunsByRace
  MemoryRuinCaused
  MemoryIsFifo
CHECK_DEADLOCK FALSE
