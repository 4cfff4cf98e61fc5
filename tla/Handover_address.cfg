\* A wait that times out on the wrong entry, a refresh, and a late reply.
CONSTANTS
  HAs = {h1}
  FAs = {f1}
  Obus = {o1}
  Vehicle = o1
  FixedHost = x28
  SwappedHosts = {x1}
  MaxIdent = 3
  Tunneling = TRUE
  SendMayFail = FALSE
  MaxBindings = 2
  MaxRestarts = 0
  MaxVisitorNum = 1
  MaxFARestarts = 0
  MaxList = 3
  LinkMayDiffer = FALSE
  Prompt = TRUE
  AutoMode = FALSE
  RxMax = 1
  MaxTimeouts = 2
  MaxObuRestarts = 0
SPECIFICATION HandoverSpec
INVARIANT AddressWasBound
CHECK_DEADLOCK FALSE
