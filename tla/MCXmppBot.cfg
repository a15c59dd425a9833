\* Channels of the real size, short series of errors and pings.
SPECIFICATION FairSpec
CONSTANTS
  PresenceCap = 1
  JabberCap = 1
  MaxErrors = 1
  PingTries = 2
INVARIANTS
  TypeOK
  ClearedMeansClosed
  StopPanicsOnlyAfterBailing
PROPERTIES
  BotComesBack
