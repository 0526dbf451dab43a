\* Two DMs and two removals of one node, a DM to another one, one failure.
SPECIFICATION FairSpec
CONSTANTS
  Keys = {"a", "b"}
  Dms = {"first", "second", "other"}
  Removals = {"purge", "cleanup"}
  KeyOf <- TwoNodes
  Kinds <- AllKinds
  Restorable = {"a"}
  Limit = 2
  MaxFaults = 1
INVARIANT LeaseHoldsContact
INVARIANT ClaimHasRemoval
CHECK_DEADLOCK FALSE
PROPERTY EverybodyEnds
