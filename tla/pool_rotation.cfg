\* Two requests on a pool of one client, the pool's error event, hang-ups and a
\* shutdown around one rotation, under the fairness of timers, Secrets Manager,
\* rotation and shutdown.
SPECIFICATION FairSpec
CONSTANTS
  Callers = {c1, c2}
  PoolError = PoolError
  HasSecretArn = TRUE
  PoolMax = 1
  MaxPools = 4
  MaxRotations = 1
  MaxDepth = 2
  None = None
INVARIANTS
  PoolInv
  CredentialsMatchPool
  OneRefreshAtATime
  CleanExit
PROPERTIES
  RotationAddsNoPool
  TurnoverSpec
  EveryCallSettles
  RefreshEnds
  ShutdownCompletes
CHECK_DEADLOCK FALSE
