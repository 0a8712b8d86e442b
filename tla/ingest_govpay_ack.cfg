\* A GOV.UK Pay delivery whose transaction fails.
SPECIFICATION Spec
CONSTANTS
  Deliveries = {d1}
  GovPayIds = {g1}
  BacsIds = {b1}
  Instances = {i1}
  Clients = {c1}
  PoolMax = 1
  None = None

INVARIANT GovPayAckMeansStored
CHECK_DEADLOCK FALSE
