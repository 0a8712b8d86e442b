\* Two first requests that create a pool each, and a shutdown.
SPECIFICATION Spec
CONSTANTS
  Callers = {c1, c2}
  PoolError = PoolError
  HasSecretArn = TRUE
  PoolMax = 1
  MaxPools = 2
  MaxRotations = 0
  MaxDepth = 1
  None = None
SYMMETRY Symmetry
INVARIANT ShutdownWaits
CHECK_DEADLOCK FALSE
