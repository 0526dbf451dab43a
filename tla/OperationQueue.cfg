\* Two operations, three starts of a bot on two machines, on every host and
\* with every process id; restarts and a failing transaction.
SPECIFICATION FairSpec
CONSTANTS
  Ops = {1, 2}
  Groups = {"channel", "radio", "config"}
  GroupOf <- OneGroup
  Boots = {1, 2, 3}
  Hosts = {h1, h2}
  Pids = {p1, p2, p3}
  ReusePids = TRUE
  MaxFaults = 1
PROPERTY ImplementsSerialOperations
PROPERTY OperationsEnd
CHECK_DEADLOCK FALSE
