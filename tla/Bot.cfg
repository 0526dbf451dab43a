SPECIFICATION BotSpec
CONSTANTS
  m1 = m1
  m2 = m2
  joke = joke
  l1 = l1
  r1 = r1
  r2 = r2
  t1 = t1
  t2 = t2
  north = north
  Configurations <- MCConfigurations
  Messages = {m1, m2}
  Users = {"user"}
  Commands = {joke}
  Sender <- MCSender
  Invokes <- MCInvokes
  Permitted = {m1, m2}
  Cooldown <- MCCooldown
  QueueThreshold <- MCQueueThreshold
  Recent = 1
  MaxReloads = 1
  Links = {l1}
  BatchMax = 2
  MaxObservations = 3
  MaxGraphFaults = 1
  Replies = {r1, r2}
  Text <- MCText
  Keyword = {r1}
  WriteMax = 1
  MaxRepeats = 2
  MaxPackets = 0
  MaxRecordFaults = 1
  Services = {1, 2}
  MaxServiceFaults = 3
  Starts = {1, 2, 3}
  MaxRestarts = 1
  MaxViewerFaults = 2
  Texts = {t1, t2}
  Noise = {}
  Author <- MCAuthor
  Identity <- MCIdentity
  Region <- MCRegion
  Unscoped = "none"
  ScopeKeys = {north}
  AllowGlobal = TRUE
  Signatures = {1, 2}
  FirstSignature <- MCFirstSignature
  MaxRows = 2
  Senders = {"user", "friend"}
  MinUnscoped = 1
  Cap = 1
  MaxAttempts = 3
  MaxWarningFaults = 1
SYMMETRY MCSymmetry
INVARIANT ExecutionsAreExcused
PROPERTY RunsAreSpaced
INVARIANT DirtyIsTracked
INVARIANT GhostRowsAreExcused
INVARIANT ExitStoresGraph
INVARIANT RepeatsAreStored
INVARIANT WithinLimits
INVARIANT OwnPacketSpeaks
INVARIANT AnswersAreAllowed
PROPERTY GapsAreExcused
PROPERTY RunsAgainForRestart
PROPERTY StartsWhileStoppingAreLate
CHECK_DEADLOCK FALSE
