SPECIFICATION Spec
CONSTANTS
  g = g
  s = s
  s2 = s2
  n1 = n1
  n2 = n2
  mob = mob
  none = none
  Gateways = {g}
  SubGateways = {s}
  Nodes = {n1, n2}
  Mobiles = {}
  NullAddr = none
  StackAddrs = {none}
  Link <- Star
  RSSI <- Alike
  GroupOf <- PlainNodes
  MaxChildren = 4
  QueueSize = 8
  Budget <- Hasty
PROPERTIES ForwardsNewChild
CHECK_DEADLOCK FALSE
