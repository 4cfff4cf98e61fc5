SPECIFICATION RelaySpec
CONSTANTS
  Clients = {c1, c2}
  Nobody = nobody
  MaxClientSize = 2
  SocketTimer = 1
  QueueRoom = 2
  SeqLimit = 1
  SeqDigits = 2
  FirstCounts = {0, 1}
  NetMayFail = TRUE
  MaxMessages = 3
INVARIANTS
  RelayTypeOK
  RelaySlotsCounted
  RelayOlderCopyDies
  RelayStuckCause
PROPERTIES
  RelayImplementsLine
