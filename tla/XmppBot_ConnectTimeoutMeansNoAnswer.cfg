SPECIFICATION Spec
CONSTANTS
  PresenceCap = 1
  JabberCap = 1
  MaxErrors = 1
  PingTries = 2
PROPERTIES
  ConnectTimeoutMeansNoAnswer
