\* A serial or TCP radio with every operation and anything failing, and one
\* whose reconnects nothing interferes with; two attempts.
SPECIFICATION FairSpec
CONSTANTS
  Conns = {1, 2, 3}
  Sites <- ThreeSites
  Threshold = 2
  MaxRetries = 2
  MaxIncidents = 4
INVARIANT BannerIsHonest
INVARIANT OneLiveLink
CHECK_DEADLOCK FALSE
PROPERTY LostLinkIsRepaired
