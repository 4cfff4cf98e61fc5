\* Two agents, commands and the automatic mode, late replies, one restart.
CONSTANTS
  HAs = {h1}
  FAs = {f1}
  Obus = {o1}
  Vehicle = o1
  FixedHost = x28
  SwappedHosts = {x1}
  MaxIdent = 2
  MaxList = 2
  Tunneling = FALSE
  SendMayFail = TRUE
  LinkMayDiffer = TRUE
  Prompt = TRUE
  AutoMode = TRUE
  RxMax = 1
  MaxTimeouts = 2
  MaxObuRestarts = 1
SPECIFICATION ObuFairSpec
INVARIANTS ObuTypeOK ObuAwaitsSomeone ObuHomeConsistent ObuOneEntryPerAgent ObuConnectedWasAccepted
PROPERTY ObuListens
CHECK_DEADLOCK FALSE
