SPECIFICATION Spec
CONSTANTS
  g = g
  s = s
  s2 = s2
  n1 = n1
  n2 = n2
  mob = mob
  none = none
  Gateways = {g}
  SubGateways = {s}
  Nodes = {n1, n2}
  Mobiles = {}
  NullAddr = none
  StackAddrs = {none}
  Link <- Line
  RSSI <- Alike
  GroupOf <- Valves
  MaxChildren = 4
  QueueSize = 8
  Budget <- Watering
INVARIANTS AcksFindTheirWay
CHECK_DEADLOCK FALSE
