SPECIFICATION FairSpec
CONSTANTS
  Sessions = {"s1"}
  Admins = {"a1"}
  Feeds = {"f1"}
  ChanCap = 2
  MaxNews = 2
  MaxRequests = 2
INVARIANTS TypeOK FeedKnowsOpen FeedForgetsEnded InOrder NoSendOnClosed
PROPERTIES NeverBlocksEngine
CHECK_DEADLOCK FALSE
