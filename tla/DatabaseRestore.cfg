\* The bot's and the viewer's database, two failures or crashes.
SPECIFICATION FairSpec
CONSTANTS
  Dbs = {1, 2}
  MaxVersions = 4
  MaxFaults = 2
INVARIANT NothingLost
INVARIANT OneFailureChangesNothing
PROPERTY StagedIsApplied
