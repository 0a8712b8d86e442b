\* Two instances with a pool of one client each, under the fairness of timers
\* and of the server, without symmetry: crashes of one beside the other.
SPECIFICATION FairSpec
CONSTANTS
  Deliveries = {d1, d2}
  GovPayIds = {}
  BacsIds = {b1}
  Instances = {i1, i2}
  Clients = {c1, c2}
  PoolMax = 1
  None = None
PROPERTIES
  IntakeSpec
  EveryDeliverySettles
  LocksAreReleased
CHECK_DEADLOCK FALSE
