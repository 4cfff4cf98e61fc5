\* Two vehicles' home addresses, one home agent, one foreign agent, tunnels on,
\* sends that fail, one restart.
CONSTANTS
  HAs = {h1}
  FAs = {f1}
  Obus = {o1}
  FixedHost = x28
  SwappedHosts = {x1, x2}
  MaxIdent = 3
  MaxBindings = 2
  Tunneling = TRUE
  SendMayFail = TRUE
  MaxRestarts = 1
SPECIFICATION HAFairSpec
INVARIANTS HATypeOK HATableSound HARouteAgrees HARepliesBacked
PROPERTIES HABindingStable HAImplementsRegistry HAAnswers
CHECK_DEADLOCK FALSE
