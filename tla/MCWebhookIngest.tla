------------------------ MODULE MCWebhookIngest ------------------------
(* Small instances of WebhookIngest.  The bounds are the sizes of the sets:  *)
(* a delivery is used once, so a behaviour has as many as Deliveries.        *)
EXTENDS WebhookIngest, TLC

\* Deliveries, clients and instances are interchangeable in Init and Next and
\* in every invariant; liveness is checked without symmetry.
Symmetry ==
  Permutations(Deliveries) \cup Permutations(Clients) \cup Permutations(Instances)
========================================================================
