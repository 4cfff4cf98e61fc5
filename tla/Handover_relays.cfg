\* Two handovers commanded by the driver; no packet and no send is lost.
CONSTANTS
  HAs = {h1}
  FAs = {f1}
  Obus = {o1}
  Vehicle = o1
  FixedHost = x28
  SwappedHosts = {x1}
  MaxIdent = 3
  Tunneling = FALSE
  SendMayFail = FALSE
  MaxBindings = 2
  MaxRestarts = 0
  MaxVisitorNum = 1
  MaxFARestarts = 0
  MaxList = 2
  LinkMayDiffer = FALSE
  Prompt = TRUE
  AutoMode = FALSE
  RxMax = 1
  MaxTimeouts = 0
  MaxObuRestarts = 0
SPECIFICATION HandoverFairSpec
PROPERTIES HandoverRelayed FindsHome
CHECK_DEADLOCK FALSE
