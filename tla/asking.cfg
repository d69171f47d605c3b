SPECIFICATION Spec
CONSTANTS
  g = g
  s = s
  s2 = s2
  n1 = n1
  n2 = n2
  mob = mob
  none = none
  Gateways = {g}
  SubGateways = {s}
  Nodes = {n1}
  Mobiles = {mob}
  NullAddr = none
  StackAddrs = {n1}
  Link <- Visit
  RSSI <- Alike
  GroupOf <- LightSensors
  MaxChildren = 4
  QueueSize = 1
  Budget <- Asking
INVARIANTS TableFits ParentRole NextHopHeard QueriesStayInBarn HeadersRead
CHECK_DEADLOCK FALSE
