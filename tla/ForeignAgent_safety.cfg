\* Two vehicles that share one foreign agent, sends that fail, one restart.
CONSTANTS
  HAs = {h1}
  FAs = {f1}
  Obus = {o1, o2}
  FixedHost = x28
  SwappedHosts = {x1}
  MaxIdent = 2
  Tunneling = TRUE
  SendMayFail = TRUE
  MaxVisitorNum = 1
  MaxFARestarts = 1
SPECIFICATION FAFairSpec
INVARIANTS FATypeOK FAForwardsVisitors FARelayBacked FARuleComplete FAConnectedWasAccepted
PROPERTY FAForwards
CHECK_DEADLOCK FALSE
