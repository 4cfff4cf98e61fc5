SPECIFICATION RelayFairSpec
CONSTANTS
  Clients = {c1, c2}
  Nobody = nobody
  MaxClientSize = 2
  SocketTimer = 1
  QueueRoom = 2
  SeqLimit = 1
  SeqDigits = 2
  FirstCounts = {0, 1}
  NetMayFail = TRUE
  MaxMessages = 2
PROPERTIES
  RelayDrains
  RelayFullEmpties
