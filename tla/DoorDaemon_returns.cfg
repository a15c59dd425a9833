\* Two callers, or one and the workaround; fairness of the goroutines.
SPECIFICATION MCFairSpec
CONSTANTS
  c1 = c1
  c2 = c2
  Scenarios = {"calls", "jam"}
  Callers <- TwoCallers
  Commands = {"status", "log"}
  Idle = Idle
  Nobody = Nobody
  NoMessage = NoMessage
  Spoken <- CallsAndJamLines
  DoorAtStart <- LockedAndShut
  SerialRdCap = 1
  WorkaroundCap = 1
  PublishCap = 1
  TriggerCap = 1
INVARIANTS
  TypeOK
  EachCallHeldOnce
  WaitingHasDeadline
PROPERTIES
  ImplementsCalls
  CallReturns
  MainComesBack
