\* One request suffices: both its attempts share err.
SPECIFICATION SessionsSpec
CONSTANTS
  MaxRequests = 1
INVARIANTS
  FailedAttemptIsSurvived
