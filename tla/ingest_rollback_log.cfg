\* A COMMIT that times out in the client.
SPECIFICATION Spec
CONSTANTS
  Deliveries = {d1}
  GovPayIds = {g1}
  BacsIds = {b1}
  Instances = {i1}
  Clients = {c1}
  PoolMax = 1
  None = None

INVARIANT RolledBackMeansNotStored
CHECK_DEADLOCK FALSE
