\* Every process may be restarted once, two home agents.
CONSTANTS
  HAs = {h1, h2}
  FAs = {f1}
  Obus = {o1}
  Vehicle = o1
  FixedHost = x28
  SwappedHosts = {x1}
  MaxIdent = 2
  Tunneling = FALSE
  SendMayFail = FALSE
  MaxBindings = 2
  MaxRestarts = 1
  MaxVisitorNum = 1
  MaxFARestarts = 1
  MaxList = 2
  LinkMayDiffer = FALSE
  Prompt = TRUE
  AutoMode = FALSE
  RxMax = 1
  MaxTimeouts = 1
  MaxObuRestarts = 1
SPECIFICATION HandoverSpec
INVARIANTS HomeAgentIsHA AttachedWasBound
PROPERTIES ImplementsAttachment
CHECK_DEADLOCK FALSE
