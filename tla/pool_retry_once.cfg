\* One request, refreshed while the new password is not published yet.
SPECIFICATION Spec
CONSTANTS
  Callers = {c1}
  PoolError = PoolError
  HasSecretArn = TRUE
  PoolMax = 1
  MaxPools = 3
  MaxRotations = 1
  MaxDepth = 3
  None = None
INVARIANT RetryOnce
CHECK_DEADLOCK FALSE
