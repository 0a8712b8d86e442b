\* Two messages, sent again and again between health checks as time passes.
SPECIFICATION Spec
CONSTANTS
  Requests = {r1, r2}
  Sender = ip
  Senders = {ip}
  Contents <- Timely
  FreshnessWindow = 1
  RateLimitMax = 2
  RateWindow = 2
  MaxTime = 3
  MaxSends = 4
SYMMETRY Symmetry
INVARIANTS
  ReplayHorizon
  AdmissionBound
  NeverLockedOut
CHECK_DEADLOCK FALSE
