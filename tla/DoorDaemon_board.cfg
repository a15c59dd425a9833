\* Every line about lock and door, no callers.
SPECIFICATION MCSpec
CONSTANTS
  c1 = c1
  c2 = c2
  Scenarios = {"board"}
  Callers = {}
  Commands = {}
  Idle = Idle
  Nobody = Nobody
  NoMessage = NoMessage
  Spoken <- BoardLines
  DoorAtStart <- Status
  SerialRdCap = 1
  WorkaroundCap = 1
  PublishCap = 1
  TriggerCap = 1
INVARIANTS
  BoardShowsDoor
