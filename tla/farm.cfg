SPECIFICATION FarmFairSpec
CONSTANTS
  g = g
  s = s
  s2 = s2
  n1 = n1
  n2 = n2
  mob = mob
  none = none
  Gateways = {g}
  SubGateways = {s, s2}
  Nodes = {n1}
  Mobiles = {}
  NullAddr = none
  StackAddrs = {none}
  Link <- TwoBarns
  RSSI <- Graded
  GroupOf <- LightSensors
  MaxChildren = 4
  QueueSize = 8
  Budget <- Farming
  Served = g
  Reporters = {n1}
  Every = 1
  MaxLines = 1
INVARIANTS LightsWhereMeasured BarnsComplete AcksFindTheirWay RoutesAtRest BarnRouted
PROPERTIES IrrigationRecurs
CHECK_DEADLOCK FALSE
