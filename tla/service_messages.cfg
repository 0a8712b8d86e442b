\* One message, of all that deviate in two values from the documented ones,
\* sent twice.
SPECIFICATION ServiceSpec
CONSTANTS
  Requests = {r1}
  Sender = ip
  Senders = {ip}
  Contents <- Deviating
  FreshnessWindow = 0
  RateLimitMax = 4
  RateWindow = 2
  MaxTime = 1
  MaxSends = 2
  None = None
INVARIANTS
  ServiceInv
  AcceptedIffWellFormed
  EventIsTheBody
  NoSilentRefusal
  BacsAcceptedIsStored
  ResendsAreOneWebhook
CHECK_DEADLOCK FALSE
