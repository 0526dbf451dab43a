\* Two feeds share the queue, one failure: no post is repeated, and what is
\* queued gets out. Items 1, 4 and 6 are filtered; 2 and 3 are queued although 1
\* stays in the window of two, while 5 may wait behind 1 and 4 for ever.
SPECIFICATION FairSpec
CONSTANTS
  Feeds = {"alerts", "news"}
  Items = {1, 2, 3, 4, 5, 6, 7}
  Backlog = {1, 2, 3, 4, 5}
  FeedOf <- TwoFeeds
  Passing = {2, 3, 5, 7}
  Cycles = {1}
  MaxItems = 2
  MaxPosts = 1
  MaxBatch = 1
  MaxFaults = 1
PROPERTY QueuedIsSent
PROPERTY OlderItemIsQueued
INVARIANT RepeatsAreExcused
