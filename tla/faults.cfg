SPECIFICATION Spec
CONSTANTS
  g = g
  s = s
  s2 = s2
  n1 = n1
  n2 = n2
  mob = mob
  none = none
  Gateways = {g}
  SubGateways = {s, s2}
  Nodes = {n1}
  Mobiles = {}
  NullAddr = none
  StackAddrs = {n1}
  Link <- TwoBarns
  RSSI <- Graded
  GroupOf <- PlainNodes
  MaxChildren = 4
  QueueSize = 1
  Budget <- Faults
INVARIANTS TypeOK ControlGenuine NoDuplicateChild ParentRole NextHopHeard BarnsDistinct
PROPERTIES BarnNumberStable AttachmentSpec
CHECK_DEADLOCK FALSE
