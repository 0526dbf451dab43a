SPECIFICATION BotSpec
CONSTANTS
  m1 = m1
  m2 = m2
  joke = joke
  l1 = l1
  r1 = r1
  r2 = r2
  t1 = t1
  t2 = t2
  north = north
  Configurations <- MCProgressConfigurations
  Messages = {m1}
  Users = {"user"}
  Commands = {joke}
  Sender <- MCSender
  Invokes <- MCInvokes
  Permitted = {m1}
  Cooldown <- MCCooldown
  QueueThreshold <- MCQueueThreshold
  Recent = 1
  MaxReloads = 0
  Links = {l1}
  BatchMax = 2
  MaxObservations = 1
  MaxGraphFaults = 1
  Replies = {r1}
  Text <- MCText
  Keyword = {r1}
  WriteMax = 1
  MaxRepeats = 1
  MaxPackets = 1
  MaxRecordFaults = 2
  Services = {1}
  MaxServiceFaults = 2
  Starts = {1, 2}
  MaxRestarts = 1
  MaxViewerFaults = 1
  Texts = {t2}
  Noise = {}
  Author <- MCAuthor
  Identity <- MCIdentity
  Region <- MCRegion
  Unscoped = "none"
  ScopeKeys = {north}
  AllowGlobal = TRUE
  Signatures = {1, 2}
  FirstSignature <- MCFirstSignature
  MaxRows = 1
  Senders = {"user"}
  MinUnscoped = 1
  Cap = 1
  MaxAttempts = 1
  MaxWarningFaults = 1
PROPERTY QueuedIsServed
PROPERTY UpdatesAreWritten
PROPERTY CapturedIsStored
PROPERTY UnhealthyIsRetried
PROPERTY ViewerComesBack
PROPERTY StopEnds
PROPERTY MessagesAreHandled
CHECK_DEADLOCK FALSE
