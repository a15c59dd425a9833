\* Every movement of the last four intervals counts, says the comment.
SPECIFICATION MCSpec
CONSTANTS
  Granularity = 3
  Gaps = {1, 2}
  Threshold = 1
  ConfidenceModulus = 4
  FadeAfter <- MCFadeAfter
  Horizon = 14
  FirstTick = 1
  MaxCount = 2
  MaxTs = 15
  Movements = {"m1", "m2"}
  Monitored = {"s1"}
  PubSubCap = 1
  SeenEnough = 2
  LostFactor = 1
  MaxMessages = 2
  MaxNow = 4
  MaxRequests = 3
  Stamps <- MCStamps
  MovementTimeout = 1
  ShutGrace = 1
  QuietUptime = 1
  NoCommand = NoCommand
  NoMessage = NoMessage
CONSTRAINT Bounds
PROPERTIES
  WholeWindowIsJudged
