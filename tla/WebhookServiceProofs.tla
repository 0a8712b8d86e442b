--------------------- MODULE WebhookServiceProofs ---------------------
(* Proofs about the service end to end: its checks, controllers and intake,  *)
(* with lost answers and restarts at any point, for every set of messages    *)
(* and of requests.                                                          *)
EXTENDS WebhookService, RequestPipelineProofs, FiniteSetTheorems

(* ------------------------- the checks, once more ----------------------- *)

LEMMA StatusGiven ==
  ASSUME TypeOK, NEW r \in Requests, NEW status, NEW error, Reject(r, status, error)
  PROVE  pc'[r] = "answered" /\ answer'[r].status = status
BY DEF Reject, TypeOK

LEMMA HandOverIsValidate ==
  ASSUME NEW r \in Requests, HandOver(r)
  PROVE  Validate(r) /\ pc'[r] \in {"serving", "answered"}
BY DEF HandOver

LEMMA RespondReasons ==
  ASSUME ChecksInv, NEW r \in Requests, Respond(r)
  PROVE  Reasoned(r)
<1> DEFINE status == ControllerStatus(content[r].path, result[delivery[r]])
<1>1. /\ UNCHANGED <<now, content, stores, logs>> /\ pc[r] = "serving"
      /\ Reject(r, status, "none") /\ status \in {200, 202, 500}
  BY DEF Respond, Serving, ControllerStatus
<1> HIDE DEF status
<1>2. [status |-> status, error |-> "none"] \in Answers
  BY <1>1 DEF Answers, Errors
<1>3. OnlyOf(r) /\ pc'[r] = "answered" /\ answer'[r].status = status
  BY <1>1, <1>2, Types, RejectTypes
<1>4. handed[r] # {}
  BY <1>1 DEF ChecksInv
<1> QED BY <1>1, <1>3, <1>4, Types DEF Reasoned, Explained, ChecksInv, TypeOK, stores, logs

LEMMA GiveUpReasons ==
  ASSUME ChecksInv, NEW r \in Requests, GiveUp(r)
  PROVE  Reasoned(r)
<1>1. /\ UNCHANGED <<now, content, answer, stores, logs>>
      /\ pc' = [pc EXCEPT ![r] = "unsent"]
  BY DEF GiveUp
<1>2. OnlyOf(r) /\ pc'[r] = "unsent"
  BY <1>1, Types DEF OnlyOf, TypeOK, Places
<1> QED BY <1>1, <1>2, Types DEF Reasoned, ChecksInv, TypeOK, stores, logs

LEMMA RestartChecks == ChecksInv /\ Restart => ChecksInv'
<1> SUFFICES ASSUME ChecksInv, Restart PROVE ChecksInv'
  OBVIOUS
<1>1. /\ UNCHANGED <<now, content, answer, logs>>
      /\ pc' = [r \in Requests |-> IF InFlight(r) THEN "unsent" ELSE pc[r]]
  BY DEF Restart
<1>2. globalStore' \in Stores /\ webhookStore' \in Stores
  <2>1. 0 \in 0..(MaxTime + RateWindow)
    BY Positive
  <2> QED BY <2>1 DEF Restart, Stores
<1>3. pc' \in [Requests -> Places]
  BY <1>1 DEF ChecksInv, TypeOK, Places
<1>4. TypeOK'
  BY <1>1, <1>2, <1>3 DEF ChecksInv, TypeOK, logs
<1>5. \A r \in Requests : pc'[r] \in {"serving", "answered"} => pc'[r] = pc[r]
  BY <1>1
<1> QED BY <1>1, <1>4, <1>5 DEF ChecksInv, Explained, logs

\* Restarts and lost answers leave the checks' invariant as it is.
LEMMA ServiceChecksNext == ChecksInv /\ [ServiceNext]_serviceVars => ChecksInv'
<1> SUFFICES ASSUME ChecksInv, [ServiceNext]_serviceVars PROVE ChecksInv'
  OBVIOUS
<1>1. CASE Receive
  BY <1>1, ChecksNext DEF Receive, Next
<1>2. ASSUME NEW r \in Requests, HandOver(r) PROVE ChecksInv'
  BY <1>2, HandOverIsValidate, ChecksNext DEF Next
<1>3. ASSUME NEW r \in Requests, Respond(r) \/ GiveUp(r) PROVE ChecksInv'
  BY <1>3, RespondReasons, GiveUpReasons, ReasonedSteps
<1>4. CASE Process
  <2>1. UNCHANGED vars
    BY <1>4 DEF Process, pipelineVars, vars
  <2> QED BY <2>1, ChecksNext
<1>5. CASE Restart
  BY <1>5, RestartChecks
<1>6. CASE UNCHANGED serviceVars
  BY <1>6, ChecksNext DEF serviceVars
<1> QED BY <1>1, <1>2, <1>3, <1>4, <1>5, <1>6 DEF ServiceNext

(* -------------------------- the service invariant ---------------------- *)

LEMMA Names ==
  /\ GovPay # Bacs /\ None \notin Deliveries /\ None \notin WebhookIds
  /\ SenderIds \subseteq WebhookIds
  /\ \A path \in {GovPay, Bacs} : <<path, 0>> \in SenderIds
<1>1. 0 \in 0..MaxSends
  BY Positive
<1>2. \A path \in {GovPay, Bacs} : <<path, 0>> \in WebhookIds
  BY <1>1 DEF WebhookIds
<1> QED BY <1>2, NoneIsNothing DEF GovPay, Bacs, SenderIds

\* A message that passed the checks has the id its webhook is named by.
LEMMA IdFound ==
  ASSUME NEW m \in Contents, NEW t, Answer(m, t) = Passed, NEW d
  PROVE  WebhookId(m, d) = <<m.path, 0>> /\ m.path \in {GovPay, Bacs}
<1> DEFINE p == Parsed(m)  f == IdField(m.path)
<1>1. WellFormed(m) /\ m.path \in {GovPay, Bacs}
  BY AnswersAgree, ContentsAreMessages
<1>2. p[f] = "good"
  <2>1. f \in Fields(m.path)
    BY <1>1 DEF IdField, Fields, GovPay, Bacs, GovPayBody, GovPayStrings, BacsBody, BacsStrings
  <2>2. Ignored(p, f) \/ p[f] \in IF m.path = GovPay THEN GovPayAllowed(f) ELSE BacsAllowed(f)
    BY <1>1, <2>1 DEF WellFormed
  <2> HIDE DEF p
  <2>3. CASE m.path = GovPay
    BY <2>2, <2>3 DEF IdField, Ignored, GovPayAllowed, Dates
  <2>4. CASE m.path # GovPay
    BY <2>2, <2>4 DEF IdField, Ignored, BacsAllowed
  <2> QED BY <2>3, <2>4
<1> QED BY <1>1, <1>2 DEF WebhookId, Truthy

\* A step that leaves deliveries and webhooks alone: it brings no request
\* closer to its delivery, and gives no positive answer without a stored webhook.
LEMMA QuietSteps ==
  ASSUME ServiceInv, TypeOK', UNCHANGED <<content, delivery, intakeVars>>,
         IsFiniteSet(Pending'),
         Cardinality(Pending') + sends <= Cardinality(Pending) + sends',
         \A r \in Requests : pc'[r] = "serving" => pc[r] = "serving",
         \A r \in Requests :
           content[r].path = Bacs /\ pc'[r] = "answered" /\ answer'[r].status \in 200..299 =>
             \/ pc[r] = "answered" /\ answer'[r] = answer[r]
             \/ stored[<<Bacs, 0>>] # None
  PROVE  ServiceInv'
<1> USE DEF intakeVars
<1>1. ServiceTypeOK' /\ NoMadeUpIds' /\ ResultsAreStored'
  BY DEF ServiceInv, ServiceTypeOK, NoMadeUpIds, ResultsAreStored
<1>2. DeliveriesInOrder'
  <2>1. PICK n \in 0..MaxSends :
          /\ \A d \in Deliveries : about[d] # None <=> d <= n
          /\ n + Cardinality(Pending) <= sends
    BY DEF ServiceInv, DeliveriesInOrder
  <2>2. /\ IsFiniteSet(Pending) /\ Cardinality(Pending) \in Nat
        /\ Cardinality(Pending') \in Nat
        /\ sends \in Nat /\ sends' \in Nat /\ n \in Nat
    BY FS_CardinalityType DEF ServiceInv, ServiceTypeOK, TypeOK, DeliveriesInOrder
  <2>3. n + Cardinality(Pending') <= sends'
    BY <2>1, <2>2
  <2> QED BY <2>1, <2>3 DEF DeliveriesInOrder
<1>3. ServedIsDelivered'
  BY DEF ServiceInv, ServedIsDelivered, Serving
<1>4. BacsAcceptedIsStored'
  BY DEF ServiceInv, BacsAcceptedIsStored
<1> QED BY <1>1, <1>2, <1>3, <1>4 DEF ServiceInv

\* Fewer requests under way is a smaller number.
LEMMA FewerPending ==
  ASSUME ServiceInv, TypeOK', sends' = sends, Pending' \subseteq Pending
  PROVE  /\ IsFiniteSet(Pending')
         /\ Cardinality(Pending') + sends <= Cardinality(Pending) + sends'
<1>1. IsFiniteSet(Pending) /\ sends \in Int
  BY DEF ServiceInv, DeliveriesInOrder, ServiceTypeOK, TypeOK
<1>2. IsFiniteSet(Pending') /\ Cardinality(Pending') <= Cardinality(Pending)
  BY <1>1, FS_Subset
<1> QED BY <1>1, <1>2, FS_CardinalityType

LEMMA ServiceInitially == ServiceInit => ServiceInv
<1> SUFFICES ASSUME ServiceInit PROVE ServiceInv
  OBVIOUS
<1>1. /\ TypeOK /\ delivery = [r \in Requests |-> 0]
      /\ about = [d \in Deliveries |-> None]
      /\ stored = [w \in WebhookIds |-> None]
      /\ result = [d \in Deliveries |-> "none"]
  BY ChecksInit DEF ServiceInit, Intake!Init, ChecksInv
<1>2. ServiceTypeOK
  BY <1>1 DEF ServiceTypeOK, Intake!Results
<1>3. \A r \in Requests : pc[r] = "unsent"
  BY DEF ServiceInit, Init
<1>4. DeliveriesInOrder
  <2>1. Pending = {} /\ sends = 0
    BY <1>3 DEF Pending, ServiceInit, Init
  <2>2. IsFiniteSet(Pending) /\ Cardinality(Pending) = 0 /\ 0 \in 0..MaxSends
    BY <2>1, FS_EmptySet, Positive
  <2>3. \A d \in Deliveries : about[d] = None /\ ~(d <= 0)
    BY <1>1, Positive DEF Deliveries
  <2> QED BY <2>1, <2>2, <2>3 DEF DeliveriesInOrder
<1> QED BY <1>1, <1>2, <1>3, <1>4 DEF ServiceInv, NoMadeUpIds, ResultsAreStored,
           ServedIsDelivered, Serving, BacsAcceptedIsStored

(* ------------------------------- the steps ----------------------------- *)

LEMMA ServiceFacts ==
  ASSUME ServiceInv
  PROVE  /\ TypeOK /\ IsFiniteSet(Pending) /\ Cardinality(Pending) \in Nat
         /\ sends \in 0..MaxSends /\ pc \in [Requests -> Places]
         /\ delivery \in [Requests -> Deliveries \cup {0}]
         /\ about \in [Deliveries -> WebhookIds \cup {None}]
         /\ stored \in [WebhookIds -> Deliveries \cup {None}]
         /\ result \in [Deliveries -> Intake!Results]
BY FS_CardinalityType DEF ServiceInv, ServiceTypeOK, TypeOK, DeliveriesInOrder

LEMMA ArriveService ==
  ASSUME ChecksInv, ServiceInv, NEW r \in Requests, Arrive(r), UNCHANGED <<delivery, intakeVars>>
  PROVE  ServiceInv'
<1> DEFINE error == "Too many requests"
<1>1. /\ sends' = sends + 1 /\ UNCHANGED content
      /\ Continue(r, "parsing") \/ Reject(r, 429, error)
  BY DEF Arrive
<1> HIDE DEF error
<1>2. Reasoned(r) /\ TypeOK'
  BY ArriveChecks, ReasonedSteps DEF ChecksInv
<1>3. pc'[r] = "parsing" \/ (pc'[r] = "answered" /\ answer'[r].status = 429)
  BY <1>1, ServiceFacts, StatusGiven DEF Continue
<1>4. Pending' \subseteq Pending \cup {r}
  BY <1>2 DEF Pending, Reasoned, OnlyOf
<1>5. /\ IsFiniteSet(Pending')
      /\ Cardinality(Pending') + sends <= Cardinality(Pending) + sends'
  <2> DEFINE size == Cardinality(Pending)
  <2>a. IsFiniteSet(Pending) /\ size \in Nat
    BY ServiceFacts
  <2>b. /\ IsFiniteSet(Pending \cup {r})
        /\ Cardinality(Pending \cup {r}) = IF r \in Pending THEN size ELSE size + 1
    BY <2>a, FS_AddElement
  <2> HIDE DEF size
  <2>1. /\ IsFiniteSet(Pending \cup {r})
        /\ Cardinality(Pending \cup {r}) <= size + 1
    BY <2>a, <2>b
  <2> USE DEF size
  <2>2. IsFiniteSet(Pending') /\ Cardinality(Pending') <= Cardinality(Pending \cup {r})
    BY <1>4, <2>1, FS_Subset
  <2> QED BY <1>1, <2>1, <2>2, ServiceFacts, FS_CardinalityType
<1> QED BY <1>1, <1>2, <1>3, <1>5, QuietSteps DEF Reasoned, OnlyOf

\* A step for one request that answers it with an error, if at all.
LEMMA RefusingSteps ==
  ASSUME ChecksInv, ServiceInv, NEW r \in Requests, Reasoned(r),
         UNCHANGED <<sends, delivery, intakeVars>>,
         pc[r] # "serving" => pc'[r] # "serving",
         pc'[r] \in {"parsing", "limiting", "validating"} => r \in Pending,
         pc'[r] = "answered" =>
           \/ answer'[r].status \notin 200..299
           \/ content[r].path = Bacs => stored[<<Bacs, 0>>] # None
  PROVE  ServiceInv'
<1>1. TypeOK' /\ content' = content
  BY ReasonedSteps DEF ChecksInv, Reasoned
<1>2. Pending' \subseteq Pending
  BY DEF Pending, Reasoned, OnlyOf
<1>3. /\ IsFiniteSet(Pending')
      /\ Cardinality(Pending') + sends <= Cardinality(Pending) + sends'
  BY <1>1, <1>2, FewerPending
<1> QED BY <1>1, <1>3, QuietSteps DEF Reasoned, OnlyOf

LEMMA ParseBodyService ==
  ASSUME ChecksInv, ServiceInv, NEW r \in Requests, ParseBody(r),
         UNCHANGED <<delivery, intakeVars>>
  PROVE  ServiceInv'
<1> DEFINE syntax == "Invalid JSON in request body"
           size == "Internal server error"
<1>1. /\ pc[r] = "parsing" /\ UNCHANGED sends
      /\ Reject(r, 400, syntax) \/ Reject(r, 500, size) \/ Continue(r, "limiting")
  BY DEF ParseBody, logs
<1> HIDE DEF syntax, size
<1>2. \/ pc'[r] = "limiting"
      \/ pc'[r] = "answered" /\ answer'[r].status \in {400, 500}
  BY <1>1, ServiceFacts, StatusGiven DEF Continue
<1> QED BY <1>1, <1>2, ParseBodyChecks, RefusingSteps DEF Pending

LEMMA LimitWebhookService ==
  ASSUME ChecksInv, ServiceInv, NEW r \in Requests, LimitWebhook(r),
         UNCHANGED <<delivery, intakeVars>>
  PROVE  ServiceInv'
<1> DEFINE error == "Too many webhook requests from this IP"
<1>1. /\ pc[r] = "limiting" /\ UNCHANGED sends
      /\ Continue(r, "validating") \/ Reject(r, 429, error)
  BY DEF LimitWebhook
<1> HIDE DEF error
<1>2. \/ pc'[r] = "validating"
      \/ pc'[r] = "answered" /\ answer'[r].status = 429
  BY <1>1, ServiceFacts, StatusGiven DEF Continue
<1> QED BY <1>1, <1>2, LimitWebhookChecks, RefusingSteps DEF Pending

LEMMA TickService ==
  ASSUME ChecksInv, ServiceInv, Tick, UNCHANGED <<delivery, intakeVars>>
  PROVE  ServiceInv'
<1>1. TypeOK' /\ UNCHANGED <<content, pc, answer, sends>>
  BY ChecksNext DEF Next, ChecksInv, Tick, logs
<1>2. Pending' \subseteq Pending
  BY <1>1 DEF Pending
<1> QED BY <1>1, <1>2, FewerPending, QuietSteps

LEMMA RestartService ==
  ASSUME ChecksInv, ServiceInv, Restart
  PROVE  ServiceInv'
<1>1. /\ TypeOK' /\ UNCHANGED <<content, answer, sends, delivery, intakeVars>>
      /\ pc' = [r \in Requests |-> IF InFlight(r) THEN "unsent" ELSE pc[r]]
  BY RestartChecks DEF Restart, ChecksInv, logs
<1>2. \A r \in Requests : pc'[r] \in {"unsent", pc[r]}
  BY <1>1
<1>3. Pending' \subseteq Pending
  BY <1>2 DEF Pending
<1> QED BY <1>1, <1>2, <1>3, FewerPending, QuietSteps

\* A positive answer of the BACS controller is about a stored webhook.
LEMMA RespondService ==
  ASSUME ChecksInv, ServiceInv, NEW r \in Requests, Respond(r)
  PROVE  ServiceInv'
<1> DEFINE outcome == result[delivery[r]]
           status == ControllerStatus(content[r].path, outcome)
<1>1. /\ Serving(r) /\ outcome # "none" /\ Reject(r, status, "none")
      /\ UNCHANGED <<sends, delivery, intakeVars>>
  BY DEF Respond, logs
<1>2. ASSUME content[r].path = Bacs, status \in 200..299
      PROVE  stored[<<Bacs, 0>>] # None
  <2>1. outcome \in {"success", "duplicate"}
    BY <1>2, Names DEF ControllerStatus
  <2>2. delivery[r] \in Deliveries /\ about[delivery[r]] = <<Bacs, 0>>
    BY <1>1, <1>2 DEF ServiceInv, ServedIsDelivered
  <2> QED BY <2>1, <2>2 DEF ServiceInv, ResultsAreStored
<1> HIDE DEF outcome, status
<1>3. pc'[r] = "answered" /\ answer'[r].status = status
  BY <1>1, ServiceFacts, StatusGiven
<1> QED BY <1>1, <1>2, <1>3, RespondReasons, RefusingSteps DEF Serving

LEMMA GiveUpService ==
  ASSUME ChecksInv, ServiceInv, NEW r \in Requests, GiveUp(r)
  PROVE  ServiceInv'
<1>1. pc'[r] = "unsent" /\ UNCHANGED <<sends, delivery, intakeVars>>
  BY ServiceFacts DEF GiveUp, logs
<1> QED BY <1>1, GiveUpReasons, RefusingSteps

\* Handing over takes the next delivery, for which there is room because the
\* request itself was still under way, and names its message's webhook.
LEMMA NextDelivery ==
  ASSUME ChecksInv, ServiceInv, NEW r \in Requests, HandOver(r), pc'[r] = "serving"
  PROVE  \E n \in 0..MaxSends :
           /\ \A e \in Deliveries : about[e] # None <=> e <= n
           /\ n + Cardinality(Pending) <= sends
           /\ n + 1 \in Deliveries /\ about[n + 1] = None
           /\ delivery' = [delivery EXCEPT ![r] = n + 1]
           /\ about' = [about EXCEPT ![n + 1] = <<content[r].path, 0>>]
           /\ content[r].path \in {GovPay, Bacs}
<1> DEFINE used == {e \in Deliveries : about[e] # None}
           d == 1 + Cardinality(used)
<1>1. /\ Validate(r) /\ r \in Pending
      /\ delivery' = [delivery EXCEPT ![r] = d]
      /\ about' = [about EXCEPT ![d] = WebhookId(content[r], d)]
  BY DEF HandOver, Validate, Pending
<1>2. Answer(content[r], now) = Passed
  BY <1>1, ServiceFacts DEF Validate, Reject
<1>3. WebhookId(content[r], d) = <<content[r].path, 0>> /\ content[r].path \in {GovPay, Bacs}
  BY <1>2, IdFound, Types
<1>4. PICK n \in 0..MaxSends :
        /\ \A e \in Deliveries : about[e] # None <=> e <= n
        /\ n + Cardinality(Pending) <= sends
  BY DEF ServiceInv, DeliveriesInOrder
<1>5. used = 1..n
  BY <1>4, Positive DEF Deliveries
<1>6. d = n + 1
  <2>1. Cardinality(1..n) = n
    BY FS_Interval
  <2> HIDE DEF used
  <2> QED BY <1>5, <2>1
<1> HIDE DEF used
<1> HIDE DEF d
<1>7. Cardinality(Pending) \in Nat /\ Cardinality(Pending) # 0
  BY <1>1, ServiceFacts, FS_EmptySet
<1>8. n + 1 \in 1..MaxSends
  BY <1>4, <1>7, ServiceFacts, Positive
<1>9. n + 1 \in Deliveries /\ about[n + 1] = None
  BY <1>4, <1>8 DEF Deliveries
<1> QED BY <1>1, <1>3, <1>4, <1>6, <1>9

LEMMA HandOverService ==
  ASSUME ChecksInv, ServiceInv, NEW r \in Requests, HandOver(r)
  PROVE  ServiceInv'
<1>1. /\ Validate(r) /\ UNCHANGED <<stored, result>>
      /\ \/ pc'[r] = "serving"
         \/ pc'[r] = "answered" /\ UNCHANGED <<delivery, about>>
  BY DEF HandOver
<1>2. Reasoned(r) /\ TypeOK' /\ content' = content /\ sends' = sends /\ r \in Pending
  BY <1>1, ValidateChecks, ReasonedSteps DEF ChecksInv, Reasoned, Validate, Pending
<1>3. ASSUME pc'[r] = "answered" PROVE ServiceInv'
  <2>1. /\ Answer(content[r], now) # Passed
        /\ Reject(r, Answer(content[r], now).status, Answer(content[r], now).error)
    BY <1>1, <1>3, ServiceFacts DEF Validate, Continue
  <2>2. answer'[r].status \in {400, 401, 422}
    BY <2>1, ServiceFacts, StatusGiven, Types, AnswersAgree DEF AnswersOf
  <2> QED BY <1>1, <1>2, <1>3, <2>2, RefusingSteps DEF intakeVars
<1>4. ASSUME pc'[r] = "serving" PROVE ServiceInv'
  <2>1. PICK n \in 0..MaxSends :
          /\ \A e \in Deliveries : about[e] # None <=> e <= n
          /\ n + Cardinality(Pending) <= sends
          /\ n + 1 \in Deliveries /\ about[n + 1] = None
          /\ delivery' = [delivery EXCEPT ![r] = n + 1]
          /\ about' = [about EXCEPT ![n + 1] = <<content[r].path, 0>>]
          /\ content[r].path \in {GovPay, Bacs}
    BY <1>4, NextDelivery
  <2> DEFINE d == n + 1
  <2>2. /\ about'[d] = <<content[r].path, 0>> /\ about'[d] \in SenderIds
        /\ about'[d] \in WebhookIds /\ about'[d] # None
        /\ \A e \in Deliveries : e # d => about'[e] = about[e]
    BY <2>1, Names, ServiceFacts
  <2>3. Pending' = Pending \ {r}
    BY <1>2, <1>4 DEF Pending, Reasoned, OnlyOf
  <2>4. /\ IsFiniteSet(Pending') /\ Cardinality(Pending') = Cardinality(Pending) - 1
        /\ Cardinality(Pending') \in Nat
    BY <1>2, <2>3, ServiceFacts, FS_RemoveElement, FS_CardinalityType
  <2>5. ServiceTypeOK'
    BY <1>1, <1>2, <2>1, <2>2, ServiceFacts DEF ServiceTypeOK
  <2>6. DeliveriesInOrder'
    <3>1. n + 1 \in 0..MaxSends /\ n + 1 + Cardinality(Pending') <= sends'
      BY <1>2, <2>1, <2>4, ServiceFacts, Positive DEF Deliveries
    <3>2. \A e \in Deliveries : about'[e] # None <=> e <= n + 1
      BY <2>1, <2>2, Positive DEF Deliveries
    <3> QED BY <2>4, <3>1, <3>2 DEF DeliveriesInOrder
  <2>7. NoMadeUpIds'
    BY <1>1, <2>2 DEF ServiceInv, NoMadeUpIds
  <2>8. ResultsAreStored'
    BY <1>1, <2>1, <2>2 DEF ServiceInv, ResultsAreStored
  <2>9. ServedIsDelivered'
    <3> SUFFICES ASSUME NEW q \in Requests, pc'[q] = "serving"
                 PROVE  /\ delivery'[q] \in Deliveries
                        /\ about'[delivery'[q]] = <<content'[q].path, 0>>
      BY DEF ServedIsDelivered, Serving
    <3>1. CASE q = r
      BY <1>2, <2>1, <2>2, <3>1, ServiceFacts
    <3>2. CASE q # r
      <4>1. pc[q] = "serving" /\ delivery'[q] = delivery[q]
        BY <1>2, <2>1, <3>2 DEF Reasoned, OnlyOf
      <4>2. delivery[q] \in Deliveries /\ about[delivery[q]] = <<content[q].path, 0>>
        BY <4>1 DEF ServiceInv, ServedIsDelivered, Serving
      <4>3. <<content[q].path, 0>> # None
        BY Types, Names, ContentsAreMessages
      <4> QED BY <1>2, <2>1, <2>2, <4>1, <4>2, <4>3
    <3> QED BY <3>1, <3>2
  <2>10. BacsAcceptedIsStored'
    BY <1>1, <1>2, <1>4 DEF ServiceInv, BacsAcceptedIsStored, Reasoned, OnlyOf
  <2> QED BY <2>5, <2>6, <2>7, <2>8, <2>9, <2>10 DEF ServiceInv
<1> QED BY <1>1, <1>3, <1>4

\* What is stored stays stored, and what becomes stored has a message's id.
LEMMA ProcessService ==
  ASSUME ChecksInv, ServiceInv, Process
  PROVE  ServiceInv'
<1>1. /\ UNCHANGED <<about, delivery, now, content, pc, answer, stores, logs>>
      /\ Intake!Store /\ Intake!Settle
  BY DEF Process, pipelineVars
<1>2. TypeOK'
  BY <1>1 DEF ServiceInv, ServiceTypeOK, TypeOK, stores, logs
<1>3. PICK S \in SUBSET Deliveries :
        /\ \A d \in S : about[d] \in WebhookIds /\ stored[about[d]] = None
        /\ stored' = [w \in WebhookIds |->
                        IF \E d \in S : about[d] = w
                        THEN CHOOSE d \in S : about[d] = w
                        ELSE stored[w]]
  BY <1>1 DEF Intake!Store
<1>4. ASSUME NEW w \in WebhookIds
      PROVE  \/ stored'[w] = stored[w]
             \/ stored'[w] \in Deliveries /\ \E d \in S : about[d] = w
  <2>1. CASE \E d \in S : about[d] = w
    <3>1. (CHOOSE d \in S : about[d] = w) \in S
      BY <2>1
    <3> QED BY <1>3, <2>1, <3>1
  <2>2. CASE ~\E d \in S : about[d] = w
    BY <1>3, <2>2
  <2> QED BY <2>1, <2>2
<1>5. \A w \in WebhookIds :
        /\ stored'[w] \in Deliveries \cup {None}
        /\ stored[w] # None => stored'[w] # None
  BY <1>4, Names, ServiceFacts
<1>6. stored' \in [WebhookIds -> Deliveries \cup {None}]
  BY <1>3, <1>5
<1>7. /\ result' \in [Deliveries -> Intake!Results]
      /\ \A d \in Deliveries : result'[d] \in {"success", "duplicate"} =>
           \/ result'[d] = result[d]
           \/ about[d] \in WebhookIds /\ stored'[about[d]] # None
  BY <1>1, ServiceFacts DEF Intake!Settle, Intake!Results
<1>8. ServiceTypeOK'
  BY <1>1, <1>2, <1>6, <1>7, ServiceFacts DEF ServiceTypeOK
<1>9. DeliveriesInOrder' /\ ServedIsDelivered'
  BY <1>1 DEF ServiceInv, DeliveriesInOrder, Pending, ServedIsDelivered, Serving, logs
<1>10. NoMadeUpIds'
  BY <1>1, <1>4, Names DEF ServiceInv, NoMadeUpIds
<1>11. ResultsAreStored'
  <2> SUFFICES ASSUME NEW d \in Deliveries, result'[d] \in {"success", "duplicate"}
               PROVE  about[d] # None /\ stored'[about[d]] # None
    BY <1>1 DEF ResultsAreStored
  <2>1. CASE result'[d] = result[d]
    BY <1>5, <2>1, ServiceFacts DEF ServiceInv, ResultsAreStored
  <2>2. CASE result'[d] # result[d]
    BY <1>7, <2>2, Names
  <2> QED BY <2>1, <2>2
<1>12. BacsAcceptedIsStored'
  BY <1>1, <1>5, Names DEF ServiceInv, BacsAcceptedIsStored
<1> QED BY <1>8, <1>9, <1>10, <1>11, <1>12 DEF ServiceInv

LEMMA ServiceSteps == ChecksInv /\ ServiceInv /\ [ServiceNext]_serviceVars => ServiceInv'
<1> SUFFICES ASSUME ChecksInv, ServiceInv, [ServiceNext]_serviceVars PROVE ServiceInv'
  OBVIOUS
<1>1. CASE Receive /\ UNCHANGED <<delivery, intakeVars>>
  BY <1>1, TickService, ArriveService, ParseBodyService, LimitWebhookService DEF Receive
<1>2. ASSUME NEW r \in Requests, HandOver(r) \/ Respond(r) \/ GiveUp(r)
      PROVE  ServiceInv'
  BY <1>2, HandOverService, RespondService, GiveUpService
<1>3. CASE Process \/ Restart
  BY <1>3, ProcessService, RestartService
<1>4. CASE UNCHANGED serviceVars
  <2>1. TypeOK' /\ UNCHANGED <<content, delivery, intakeVars, pc, answer, sends>>
    BY <1>4, ServiceFacts DEF serviceVars, vars, TypeOK, stores, logs
  <2>2. Pending' \subseteq Pending
    BY <2>1 DEF Pending
  <2> QED BY <2>1, <2>2, FewerPending, QuietSteps
<1> QED BY <1>1, <1>2, <1>3, <1>4 DEF ServiceNext

(* ------------------------------ theorems ------------------------------- *)

LEMMA ServiceIsInductive == ServiceSpec => [](ChecksInv /\ ServiceInv)
<1>1. ServiceInit => ChecksInv /\ ServiceInv
  BY ServiceInitially, ChecksInit DEF ServiceInit
<1>2. ChecksInv /\ ServiceInv /\ [ServiceNext]_serviceVars => (ChecksInv /\ ServiceInv)'
  BY ServiceChecksNext, ServiceSteps
<1> QED BY <1>1, <1>2, PTL DEF ServiceSpec

\* The service with its invariant: deliveries are used once and in order, carry
\* their messages' own ids, and an answer is about its message's webhook.
THEOREM ServiceInductive == ServiceSpec => []ServiceInv
BY ServiceIsInductive, PTL

\* The BACS sender never gets a 2xx for a message that is not committed, over
\* resends, lost answers and restarts.
THEOREM AcceptedIsStored == ServiceSpec => []BacsAcceptedIsStored
<1>1. ServiceInv => BacsAcceptedIsStored
  BY DEF ServiceInv
<1> QED BY <1>1, ServiceIsInductive, PTL

\* However often a message comes, its webhook is stored under one id.
THEOREM OneWebhook == ServiceSpec => []ResendsAreOneWebhook
<1>1. ServiceInv => ResendsAreOneWebhook
  <2> SUFFICES ASSUME ServiceInv, NEW sender \in {GovPay, Bacs}
               PROVE  Cardinality({w \in WebhookIds : w[1] = sender /\ stored[w] # None}) <= 1
    BY DEF ResendsAreOneWebhook
  <2> DEFINE found == {w \in WebhookIds : w[1] = sender /\ stored[w] # None}
  <2>1. found \subseteq {<<sender, 0>>}
    BY Names DEF ServiceInv, NoMadeUpIds, SenderIds
  <2> HIDE DEF found
  <2>2. IsFiniteSet({<<sender, 0>>}) /\ Cardinality({<<sender, 0>>}) = 1
    BY FS_Singleton
  <2>3. Cardinality(found) <= 1
    BY <2>1, <2>2, FS_Subset
  <2> QED BY <2>3 DEF found
<1> QED BY <1>1, ServiceIsInductive, PTL

\* Restarts and lost answers take nothing from what the checks guarantee: not
\* from the middlewares' agreement, and not from the end of all replays.
THEOREM ChecksSurvive ==
  ServiceSpec => [](AcceptedIffWellFormed /\ EventIsTheBody /\ NoSilentRefusal /\ ReplayHorizon)
BY FieldsAgree, BodiesMakeEvents, HandedIfPositive, HandedWhileFresh, ServiceIsInductive, PTL

LEMMA RespondIsServe ==
  ASSUME TypeOK, NEW r \in Requests, Respond(r)
  PROVE  Serve(r)
<1>1. content[r].path \in {GovPay, Bacs}
  BY DEF TypeOK
<1> DEFINE status == ControllerStatus(content[r].path, result[delivery[r]])
<1>2. status \in ServiceStatuses(content[r].path)
  BY <1>1 DEF ControllerStatus, ServiceStatuses
<1> QED BY <1>2 DEF Respond, Serve, Serving

\* The service is the pipeline, but for requests whose sender gives up and those
\* that a restart cuts off: the controllers and the intake add no step of their
\* own to what happens to a request, a limiter or an answer.
THEOREM UsesPipeline ==
  ServiceSpec => Init /\ [][Next \/ Restart \/ \E r \in Requests : GiveUp(r)]_vars
<1>1. ChecksInv /\ ServiceInv /\ [ServiceNext]_serviceVars
        => [Next \/ Restart \/ \E r \in Requests : GiveUp(r)]_vars
  <2> SUFFICES ASSUME ChecksInv, ServiceInv, [ServiceNext]_serviceVars
               PROVE  \/ Next \/ Restart \/ \E r \in Requests : GiveUp(r)
                      \/ UNCHANGED vars
    OBVIOUS
  <2>1. CASE Receive
    BY <2>1 DEF Receive, Next
  <2>2. ASSUME NEW r \in Requests, HandOver(r) PROVE Next
    BY <2>2, HandOverIsValidate DEF Next
  <2>3. ASSUME NEW r \in Requests, Respond(r) PROVE Next
    BY <2>3, RespondIsServe DEF Next, ServiceInv, ServiceTypeOK
  <2>4. CASE Process \/ UNCHANGED serviceVars
    BY <2>4 DEF Process, pipelineVars, serviceVars, vars
  <2> QED BY <2>1, <2>2, <2>3, <2>4 DEF ServiceNext
<1> QED BY <1>1, ServiceIsInductive, PTL DEF ServiceSpec, ServiceInit

\* The controllers use the intake as it is specified, which WebhookIngest
\* implements: each delivery is made for one request and keeps its webhook.
THEOREM UsesIntake == ServiceSpec => Intake!Spec
<1>1. ServiceInit => Intake!Init
  BY DEF ServiceInit
<1>2. ChecksInv /\ ServiceInv /\ [ServiceNext]_serviceVars
        => [Intake!Next]_(Intake!intakeVars)
  <2> SUFFICES ASSUME ChecksInv, ServiceInv, [ServiceNext]_serviceVars
               PROVE  Intake!Next \/ UNCHANGED <<about, stored, result>>
    BY DEF Intake!intakeVars
  <2>1. ASSUME NEW r \in Requests, HandOver(r)
        PROVE  Intake!Next
    <3>1. Intake!Arrive
      <4>1. CASE pc'[r] = "serving"
        BY <2>1, <4>1, NextDelivery, Names DEF Intake!Arrive
      <4>2. CASE pc'[r] # "serving"
        BY <2>1, <4>2 DEF HandOver, Intake!Arrive
      <4> QED BY <4>1, <4>2
    <3>2. UNCHANGED <<stored, result>>
      BY <2>1 DEF HandOver
    <3>3. Intake!Store
      <4>1. stored = [w \in WebhookIds |-> IF \E d \in {} : about[d] = w
                                           THEN CHOOSE d \in {} : about[d] = w
                                           ELSE stored[w]]
        BY ServiceFacts
      <4> SUFFICES \E S \in SUBSET Deliveries :
                     /\ \A d \in S : about[d] \in WebhookIds /\ stored[about[d]] = None
                     /\ \A d, e \in S : about[d] = about[e] => d = e
                     /\ stored' = [w \in WebhookIds |->
                                     IF \E d \in S : about[d] = w
                                     THEN CHOOSE d \in S : about[d] = w
                                     ELSE stored[w]]
        BY DEF Intake!Store
      <4> WITNESS {} \in SUBSET Deliveries
      <4> QED BY <3>2, <4>1
    <3> QED BY <3>1, <3>2, <3>3 DEF Intake!Next, Intake!Settle
  <2>2. CASE Process
    BY <2>2 DEF Process, Intake!Next, Intake!Arrive
  <2>3. CASE \/ UNCHANGED intakeVars \/ UNCHANGED serviceVars \/ Restart
             \/ \E r \in Requests : Respond(r) \/ GiveUp(r)
    BY <2>3 DEF intakeVars, serviceVars, Restart, Respond, GiveUp
  <2> QED BY <2>1, <2>2, <2>3 DEF ServiceNext
<1> QED BY <1>1, <1>2, ServiceIsInductive, PTL DEF ServiceSpec, Intake!Spec
======================================================================
