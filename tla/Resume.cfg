\* A subscriber that asks for the events from stream_seq 0 on.
SPECIFICATION Spec
CONSTANTS
  Subscribers = {s1}
  SubscriptionBuffer = 2
  CommittedEvents <- SomeDurable
  PublishedEvents <- SomeLive
  ResumePoints = {0, 1}
  MaxFeed = 3
INVARIANT
  ResumesFromSeq
