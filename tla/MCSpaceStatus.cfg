\* One name, so that sensors meet their like; a channel full after one event.
SPECIFICATION StatusSpec
CONSTANTS
  Names = {"d1"}
  Scenarios <- MCScenarios
  EventsCap = 1
  MaxInstalls = 2
  MaxSpaceEvents = 2
INVARIANTS
  StatusTypeOK
  PresenceNeverLost
PROPERTIES
  CleaningKeepsTheRest
  StatusSettles
