SPECIFICATION Spec
CONSTANTS
  g = g
  s = s
  s2 = s2
  n1 = n1
  n2 = n2
  mob = mob
  none = none
  Gateways = {g}
  SubGateways = {s, s2}
  Nodes = {n1}
  Mobiles = {}
  NullAddr = none
  StackAddrs = {s, n1}
  Link <- TwoBarns
  RSSI <- Alike
  GroupOf <- PlainNodes
  MaxChildren = 4
  QueueSize = 8
  Budget <- Stray
PROPERTIES NoAckWithoutRoute
CHECK_DEADLOCK FALSE
