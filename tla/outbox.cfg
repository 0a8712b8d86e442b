\* Three deliveries of two webhooks, two relays that read one row at a time,
\* or both, and a fault; liveness, so no symmetry.
SPECIFICATION FairSpec
CONSTANTS
  Deliveries = {d1, d2, d3}
  WebhookIds = {w1, w2}
  Relays = {p1, p2}
  Limit = 2
  MaxFaults = 1
  None = None
INVARIANTS
  OutboxInv
  ResendsHaveACause
PROPERTIES
  NobodyCutsIn
  OutboxSpec
  EveryRowIsSent
CHECK_DEADLOCK FALSE
