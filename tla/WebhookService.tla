------------------------- MODULE WebhookService -------------------------
(* The service end to end: RequestPipeline in front of WebhookIntake, which  *)
(* WebhookIngest implements.  The controllers join the two: they name the    *)
(* webhook a message is about and turn what came of it into an answer.  The  *)
(* sender may lose patience, and the process may die, at any point; either   *)
(* way the same message comes again.                                         *)
EXTENDS RequestPipeline

CONSTANT None

VARIABLES
  delivery,              \* by slot, the delivery its last request became
  about, stored, result  \* of WebhookIntake

\* Bound: as many deliveries as requests arrive.
Deliveries == 1..MaxSends

\* Bound: a sender has one webhook, and as many made-up ids as there are deliveries.
WebhookIds == {GovPay, Bacs} \X (0..MaxSends)

ASSUME NoneIsNothing == None \notin Deliveries \cup WebhookIds

Intake == INSTANCE WebhookIntake

pipelineVars == <<now, content, pc, answer, stores, logs>>
intakeVars == <<about, stored, result>>
serviceVars == <<vars, delivery, intakeVars>>

ServiceInit ==
  /\ Init /\ Intake!Init
  /\ delivery = [r \in Requests |-> 0]

ServiceTypeOK ==
  /\ TypeOK
  /\ delivery \in [Requests -> Deliveries \cup {0}]
  /\ about \in [Deliveries -> WebhookIds \cup {None}]
  /\ stored \in [WebhookIds -> Deliveries \cup {None}]
  /\ result \in [Deliveries -> Intake!Results]

(* --------------------------- the controllers -------------------------- *)

\* Mutant: the BACS webhook is named by its delivery.
IdFieldOfDelivery(path) == IF path = GovPay THEN "webhook_message_id" ELSE "deliveryId"

IdField(path) == IF path = GovPay THEN "webhook_message_id" ELSE "eventId"

\* The id in the message, or uuidv4() when there is none.
WebhookId(request, d) ==
  <<request.path, IF Truthy(Parsed(request)[IdField(request.path)]) THEN 0 ELSE d>>

\* handleWebhook and handleBACSWebhook: a message that passed the checks
\* becomes the next delivery.
HandOver(r) ==
  LET d == 1 + Cardinality({e \in Deliveries : about[e] # None}) IN
  /\ Validate(r)
  /\ \/ /\ pc'[r] = "serving"
        /\ delivery' = [delivery EXCEPT ![r] = d]
        /\ about' = [about EXCEPT ![d] = WebhookId(content[r], d)]
     \/ pc'[r] = "answered" /\ UNCHANGED <<delivery, about>>
  /\ UNCHANGED <<stored, result>>

\* Webhooks are stored, and processBACSWebhook and processWebhook return.  What
\* comes of a delivery that nobody waits for any more is not recorded.
Process ==
  /\ UNCHANGED about /\ Intake!Store /\ Intake!Settle
  /\ \A d \in Deliveries :
       result'[d] # result[d] => \E r \in Requests : Serving(r) /\ delivery[r] = d
  /\ UNCHANGED <<pipelineVars, delivery>>

\* Mutant: 503 for an error that a retry may mend.
ControllerStatusUnavailable(path, outcome) ==
  IF path = GovPay \/ outcome = "success" THEN 202
  ELSE IF outcome = "duplicate" THEN 200 ELSE 503

\* What the controllers answer to the results of their services.
ControllerStatus(path, outcome) ==
  IF path = GovPay \/ outcome = "success" THEN 202
  ELSE IF outcome = "duplicate" THEN 200 ELSE 500

\* Mutant: the BACS controller answers without awaiting its service.
RespondAtOnce(r) ==
  /\ Serving(r)
  /\ Reject(r, 202, "none")
  /\ UNCHANGED <<now, content, stores, logs, delivery, intakeVars>>

Respond(r) ==
  LET outcome == result[delivery[r]] IN
  /\ Serving(r) /\ outcome # "none"
  /\ Reject(r, ControllerStatus(content[r].path, outcome), "none")
  /\ UNCHANGED <<now, content, stores, logs, delivery, intakeVars>>

(* ---------------------- lost answers and lost requests ----------------- *)

\* The sender closes the connection; the handler goes on without it.
GiveUp(r) ==
  /\ Serving(r)
  /\ pc' = [pc EXCEPT ![r] = "unsent"]
  /\ UNCHANGED <<now, content, answer, stores, logs, delivery, intakeVars>>

InFlight(r) == pc[r] \notin {"unsent", "answered"}

\* The process dies and starts again with empty limiters.  The database may
\* still commit what it was sent.  Bound: only in the midst of a request.
Restart ==
  /\ \E r \in Requests : InFlight(r)
  /\ pc' = [r \in Requests |-> IF InFlight(r) THEN "unsent" ELSE pc[r]]
  /\ globalStore' = [s \in Senders |-> [hits |-> 0, resetTime |-> 0]]
  /\ webhookStore' = [s \in Senders |-> [hits |-> 0, resetTime |-> 0]]
  /\ UNCHANGED <<now, content, answer, logs, delivery, intakeVars>>

\* Health checks, which only count for the global limiter, are left out here.
\* Bound: the clock moves between requests, and not within one.
Receive ==
  \/ Tick /\ \A r \in Requests : ~InFlight(r)
  \/ \E r \in Requests : Arrive(r) \/ ParseBody(r) \/ LimitWebhook(r)

ServiceNext ==
  \/ Receive /\ UNCHANGED <<delivery, intakeVars>>
  \/ \E r \in Requests : HandOver(r) \/ Respond(r) \/ GiveUp(r)
  \/ Process \/ Restart

ServiceSpec == ServiceInit /\ [][ServiceNext]_serviceVars

(* ----------------------------- properties ---------------------------- *)

\* End to end, the BACS sender stops sending only what is committed: a message
\* that any of the middlewares, the controller or the service answered with 2xx
\* is in the table, after whatever resends, abandoned requests and restarts.
BacsAcceptedIsStored ==
  \A r \in Requests :
    content[r].path = Bacs /\ pc[r] = "answered" /\ answer[r].status \in 200..299 =>
      stored[<<Bacs, 0>>] # None

\* However often a message comes, byte for byte, before or after an answer or a
\* restart, it is one webhook in the table: its id never is a made-up one, which
\* the unique index could not match with the next.
ResendsAreOneWebhook ==
  \A sender \in {GovPay, Bacs} :
    Cardinality({w \in WebhookIds : w[1] = sender /\ stored[w] # None}) <= 1

(* ------------- what the properties rest on, inductively -------------- *)

\* Requests that may still become deliveries.
Pending == {r \in Requests : pc[r] \in {"parsing", "limiting", "validating"}}

\* The deliveries so far are the first few, and no more than there are requests.
DeliveriesInOrder ==
  /\ IsFiniteSet(Pending)
  /\ \E n \in 0..MaxSends :
       /\ \A d \in Deliveries : about[d] # None <=> d <= n
       /\ n + Cardinality(Pending) <= sends

\* The ids that come from messages, one for each sender.
SenderIds == {<<GovPay, 0>>, <<Bacs, 0>>}

\* No id is made up, for want of one in the message, before or after it is stored.
NoMadeUpIds ==
  /\ \A d \in Deliveries : about[d] \in SenderIds \cup {None}
  /\ \A w \in WebhookIds : stored[w] # None => w \in SenderIds

\* The service's positive results, in whichever request they will be answered.
ResultsAreStored ==
  \A d \in Deliveries :
    result[d] \in {"success", "duplicate"} => about[d] # None /\ stored[about[d]] # None

\* A request that is served waits for a delivery of its own message's webhook.
ServedIsDelivered ==
  \A r \in Requests : Serving(r) =>
    delivery[r] \in Deliveries /\ about[delivery[r]] = <<content[r].path, 0>>

\* What the proofs show to be inductive, together with that the checks passed:
\* how an answer leads back to the webhook of the message that it answers.
ServiceInv ==
  /\ ServiceTypeOK /\ DeliveriesInOrder /\ NoMadeUpIds
  /\ ResultsAreStored /\ ServedIsDelivered /\ BacsAcceptedIsStored
=========================================================================
