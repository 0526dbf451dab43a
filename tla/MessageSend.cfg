\* A regional reply, a DM to the same user and a regional scheduled message,
\* with two failures and one caller that gives up.
SPECIFICATION FairSpec
CONSTANTS
  Sends = {"reply", "dm", "scheduled"}
  Dms = {"dm"}
  Cancellable = {"scheduled"}
  Scope <- ScopeOf
  Global = "global"
  NoSend = "none"
  Limits = {"replies", "tx"}
  Tx = "tx"
  Seconds <- Intervals
  Checked <- RepliesAreLimited
  Charged <- AllAreCharged
  MaxRetries = 1
  MaxFaults = 2
  MaxCancels = 1
INVARIANT OwnScope
PROPERTY SlotsSpaced
PROPERTY EverySendEnds
