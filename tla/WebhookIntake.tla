------------------------- MODULE WebhookIntake -------------------------
(* What the service promises about the webhooks it answers, with nothing of  *)
(* how: no HTTP, no connection pool, no transactions.  A delivery is one     *)
(* HTTP request that carries a webhook; the same webhook arrives in several  *)
(* deliveries.  WebhookIngest implements this specification.                 *)
EXTENDS Naturals

CONSTANTS
  Deliveries,   \* deliveries, each an HTTP request of its own
  WebhookIds,   \* values of the column webhook_id
  None

VARIABLES
  about,        \* the webhook a delivery carries, None before it arrives
  stored,       \* the delivery that stored a webhook, None while it is not stored
  result        \* what the delivery's processing came to

intakeVars == <<about, stored, result>>

Results == {"none", "success", "duplicate", "failed"}

Init ==
  /\ about = [d \in Deliveries |-> None]
  /\ stored = [w \in WebhookIds |-> None]
  /\ result = [d \in Deliveries |-> "none"]

\* Deliveries start to carry webhooks and never change what they carry.
Arrive ==
  \/ UNCHANGED about
  \/ \E d \in Deliveries, w \in WebhookIds :
       about[d] = None /\ about' = [about EXCEPT ![d] = w]

\* Some webhooks that were not stored become stored, each by a delivery of it.
Store ==
  \E S \in SUBSET Deliveries :
    /\ \A d \in S : about[d] \in WebhookIds /\ stored[about[d]] = None
    /\ \A d, e \in S : about[d] = about[e] => d = e
    /\ stored' = [w \in WebhookIds |->
                    IF \E d \in S : about[d] = w
                    THEN CHOOSE d \in S : about[d] = w
                    ELSE stored[w]]

\* At most one delivery is settled.  It may always fail; it is answered
\* positively only about a stored webhook, and as a duplicate only when
\* another delivery stored it.
Settle ==
  \/ UNCHANGED result
  \/ \E d \in Deliveries, r \in Results \ {"none"} :
       /\ result[d] = "none" /\ about'[d] \in WebhookIds
       /\ r \in {"success", "duplicate"} => stored'[about'[d]] # None
       /\ r = "duplicate" => stored'[about'[d]] # d
       /\ result' = [result EXCEPT ![d] = r]

Next == Arrive /\ Store /\ Settle

Spec == Init /\ [][Next]_intakeVars
========================================================================
