\* One instance whose pool of two clients serves three deliveries of a BACS
\* and a GOV.UK Pay webhook.
SPECIFICATION Spec
CONSTANTS
  Deliveries = {d1, d2, d3}
  GovPayIds = {g1}
  BacsIds = {b1}
  Instances = {i1}
  Clients = {c1, c2}
  PoolMax = 2
  None = None
SYMMETRY Symmetry
INVARIANTS
  TypeOK
  PositiveMeansStored
  BacsAckMeansStored
  DuplicateMeansAnother
  NoClientLeak
  RollbackIsFinal
  IngestInv
  HistoryInv
PROPERTIES
  RowsAreFinal
CHECK_DEADLOCK FALSE
