\* The statement of main that the code does not keep.
SPECIFICATION StatusSpec
CONSTANTS
  Names = {"d1"}
  Scenarios <- MCScenarios
  EventsCap = 1
  MaxInstalls = 2
  MaxSpaceEvents = 2
INVARIANT
  FallbackStatusIsUnknown
