SPECIFICATION Spec
CONSTANTS
  SendInterval = 2
  KeepAliveInterval = 5
  Durations = {0, 1, 3}
  Horizon = 20
INVARIANTS TypeOK NeverSilent WateringEnds
PROPERTIES SetupsSpaced OnInFull
CHECK_DEADLOCK FALSE
