\* Stop Bot while a reconnect is under way.
SPECIFICATION FairSpec
CONSTANTS
  Conns = {1, 2}
  Sites <- SerialOnly
  Threshold = 2
  MaxRetries = 0
  MaxIncidents = 2
PROPERTY StopEndsTheBot
CHECK_DEADLOCK FALSE
