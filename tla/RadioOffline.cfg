\* A reply, the scheduler and the start-up advert race over the trials of two
\* outages, with a failing database access and a viewer clear; the breaker
\* implements CircuitBreaker, trials settle, the outage reaches the viewer.
SPECIFICATION FairSpec
CONSTANTS
  Measured = {m1}
  Interactive = {i1}
  Setup = setup
  Health = health
  Nobody = nobody
  Threshold = 2
  MaxGeneration = 4
  MaxTrials = 2
  MaxFaults = 1
  MaxClears = 1
INVARIANT BannerMatchesBreaker
PROPERTY ImplementsCircuitBreaker
PROPERTY TrialSettles
PROPERTY OutageReachesViewer
