\* A container: one machine, the bot always process 1.
SPECIFICATION Spec
CONSTANTS
  Ops = {1, 2}
  Groups = {"channel", "radio", "config"}
  GroupOf <- OneGroup
  Boots = {1, 2}
  Hosts = {h1}
  Pids = {p1}
  ReusePids = TRUE
  MaxFaults = 0
PROPERTY StartInterruptsDeadClaims
CHECK_DEADLOCK FALSE
