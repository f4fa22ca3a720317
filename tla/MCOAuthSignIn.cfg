SPECIFICATION Spec
CONSTANTS
  None = None
  Attempts = {"a1", "a2"}
  Browsers = {"b1", "b2"}
  MaxOpenings = 2
  MaxRenewals = 1
  Deployments <- MCDeployments
INVARIANTS TypeOK SessionsAreOwn LoneAttemptSucceeds SpentVerifiersGo
PROPERTY EveryCallbackAnswered
CHECK_DEADLOCK FALSE
