\* Two subscribers with channels of 2 against a feed of 3: one may keep up
\* while the other is dropped.
SPECIFICATION FairSpec
CONSTANTS
  Subscribers = {s1, s2}
  SubscriptionBuffer = 2
  CommittedEvents <- SomeDurable
  PublishedEvents <- SomeLive
  ResumePoints = {0}
  MaxFeed = 3
INVARIANTS
  TypeOK
  ChainDetectsTampering
PROPERTIES
  ImplementsFeed
  NoReaderHangs
