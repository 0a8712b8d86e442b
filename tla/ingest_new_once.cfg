\* Two concurrent deliveries of a webhook: both answered as new.
SPECIFICATION Spec
CONSTANTS
  Deliveries = {d1, d2}
  GovPayIds = {g1}
  BacsIds = {b1}
  Instances = {i1}
  Clients = {c1, c2}
  PoolMax = 2
  None = None
SYMMETRY Symmetry
INVARIANT NewAnsweredOnce
CHECK_DEADLOCK FALSE
