\* Small instances of each; three connections, three seconds, two requests.
SPECIFICATION DevicesSpec
CONSTANTS
  Topics = {"t1", "t2", "t3"}
  Granted = {"t1", "t2"}
  MaxConnections = 3
  LinesCap = 2
  TriggerCap = 2
  InboundCap = 2
  MaxBackoff = 2
  Now = {1, 2, 3}
  MaxVersion = 3
  Lines <- MCLines
  MaxLines = 4
  NUM_KEYSLOTS = 2
  ChanCap = 1
  OldSlot <- MCOldSlot
  MaxRequests = 2
INVARIANTS
  TypesOK
  SubscriptionsSurvive
  LookupIsCurrent
  DoneIsProgrammed
  TidyUntilTimeout
PROPERTIES
  DeviceTriedAgain
  RequestsAreAnswered
