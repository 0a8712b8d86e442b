--------------------- MODULE RequestPipelineProofs ---------------------
(* Proofs about what RequestPipeline hands to the services and what it       *)
(* answers, for every set of messages, whatever the kinds of all its values, *)
(* and of requests, every clock, limit, window and freshness.                *)
EXTENDS RequestPipeline, TLAPS

(* --------------------------- the first failure ------------------------- *)

LEMMA MinIsLeast ==
  ASSUME NEW S \in SUBSET (1..7), S # {}
  PROVE  Min(S) \in S /\ \A y \in S : Min(S) <= y
<1>1. \E x \in S : \A y \in S : x <= y
  <2>1. CASE 1 \in S
    BY <2>1
  <2>2. CASE 1 \notin S /\ 2 \in S
    BY <2>2
  <2>3. CASE 1 \notin S /\ 2 \notin S /\ 3 \in S
    BY <2>3
  <2>4. CASE 1 \notin S /\ 2 \notin S /\ 3 \notin S /\ 4 \in S
    BY <2>4
  <2>5. CASE 1 \notin S /\ 2 \notin S /\ 3 \notin S /\ 4 \notin S /\ 5 \in S
    BY <2>5
  <2>6. CASE 1 \notin S /\ 2 \notin S /\ 3 \notin S /\ 4 \notin S /\ 5 \notin S /\ 6 \in S
    BY <2>6
  <2>7. CASE 1 \notin S /\ 2 \notin S /\ 3 \notin S /\ 4 \notin S /\ 5 \notin S /\ 6 \notin S
    <3>1. \A x \in S : x = 7
      BY <2>7
    <3>2. 7 \in S
      BY <3>1
    <3> QED BY <3>1, <3>2
  <2> QED BY <2>1, <2>2, <2>3, <2>4, <2>5, <2>6, <2>7
<1> QED BY <1>1 DEF Min

\* A chain of checks passes exactly if each of them does; otherwise it gives
\* the answer of the first one that fails.
LEMMA FirstFailureIsFirst ==
  ASSUME NEW checks, DOMAIN checks \subseteq 1..7,
         \A i \in DOMAIN checks : ~checks[i].ok => checks[i].answer # Passed
  PROVE  /\ FirstFailure(checks) = Passed <=> (\A i \in DOMAIN checks : checks[i].ok)
         /\ FirstFailure(checks) # Passed =>
              \E i \in DOMAIN checks :
                /\ ~checks[i].ok /\ FirstFailure(checks) = checks[i].answer
                /\ \A j \in DOMAIN checks : j < i => checks[j].ok
<1> DEFINE failing == {i \in DOMAIN checks : ~checks[i].ok}
<1>1. CASE failing = {}
  BY <1>1 DEF FirstFailure
<1>2. CASE failing # {}
  <2>1. failing \in SUBSET (1..7) /\ \A i \in failing : i \in Int
    OBVIOUS
  <2>2. Min(failing) \in failing /\ \A i \in failing : Min(failing) <= i
    <3> HIDE DEF failing
    <3> QED BY <1>2, <2>1, MinIsLeast
  <2>3. FirstFailure(checks) = checks[Min(failing)].answer
    BY <1>2 DEF FirstFailure
  <2>4. \A j \in DOMAIN checks : j < Min(failing) => checks[j].ok
    <3>1. \A j \in DOMAIN checks : j \in Int /\ (j \in failing \/ checks[j].ok)
      OBVIOUS
    <3> HIDE DEF failing
    <3>2. Min(failing) \in Int
      BY <2>1, <2>2
    <3> QED BY <2>2, <3>1, <3>2
  <2> QED BY <2>2, <2>3, <2>4
<1> QED BY <1>1, <1>2

(* ------------------------------ the answers ---------------------------- *)

AnswersOf(statuses) == [status : statuses, error : Errors]

LEMMA GovPaySignaturePasses ==
  ASSUME NEW p
  PROVE  /\ GovPaySignatureAnswer(p) = Passed <=>
              p["signature"] = "good" /\ WebhookIdOk(p) /\ Parses(p)
         /\ GovPaySignatureAnswer(p) # Passed => GovPaySignatureAnswer(p) \in AnswersOf({401})
<1> DEFINE checks == <<
    Check(p["signature"] # "absent", 401, "INVALID_SIGNATURE"),
    Check(WebhookIdOk(p), 401, WebhookIdError(p)),
    Check(p["signature"] = "good", 401, "INVALID_SIGNATURE"),
    Check(Parses(p), 401, "INVALID_WEBHOOK_STRUCTURE"),
    Check(PaymentIdFound(p), 401, "INVALID_PAYMENT_ID") >>
<1>1. GovPaySignatureAnswer(p) = FirstFailure(checks)
  BY DEF GovPaySignatureAnswer
<1>2. DOMAIN checks = 1..5
  OBVIOUS
<1>3. \A i \in DOMAIN checks : checks[i].answer \in AnswersOf({401})
  <2>1. \A error \in Errors : [status |-> 401, error |-> error] \in AnswersOf({401})
    BY DEF AnswersOf
  <2>2. WebhookIdError(p) \in Errors
    BY DEF WebhookIdError, Errors
  <2>3. /\ checks[1].answer = [status |-> 401, error |-> "INVALID_SIGNATURE"]
        /\ checks[2].answer = [status |-> 401, error |-> WebhookIdError(p)]
        /\ checks[3].answer = [status |-> 401, error |-> "INVALID_SIGNATURE"]
        /\ checks[4].answer = [status |-> 401, error |-> "INVALID_WEBHOOK_STRUCTURE"]
        /\ checks[5].answer = [status |-> 401, error |-> "INVALID_PAYMENT_ID"]
    BY DEF Check
  <2> HIDE DEF checks
  <2>4. \A i \in 1..5 : i = 1 \/ i = 2 \/ i = 3 \/ i = 4 \/ i = 5
    OBVIOUS
  <2>5. {"INVALID_SIGNATURE", "INVALID_WEBHOOK_STRUCTURE", "INVALID_PAYMENT_ID"} \subseteq Errors
    BY DEF Errors
  <2>6. /\ checks[1].answer \in AnswersOf({401})
        /\ checks[2].answer \in AnswersOf({401})
        /\ checks[3].answer \in AnswersOf({401})
        /\ checks[4].answer \in AnswersOf({401})
        /\ checks[5].answer \in AnswersOf({401})
    BY <2>1, <2>2, <2>3, <2>5
  <2> QED BY <1>2, <2>4, <2>6
<1>4. /\ checks[1].ok <=> p["signature"] # "absent"
      /\ checks[2].ok <=> WebhookIdOk(p)
      /\ checks[3].ok <=> p["signature"] = "good"
      /\ checks[4].ok <=> Parses(p)
      /\ checks[5].ok <=> Parses(p)
  <2>1. checks[1].ok <=> p["signature"] # "absent"
    BY DEF Check
  <2>2. checks[2].ok <=> WebhookIdOk(p)
    BY DEF Check
  <2>3. checks[3].ok <=> p["signature"] = "good"
    BY DEF Check
  <2>4. checks[4].ok <=> Parses(p)
    BY DEF Check
  <2>5. checks[5].ok <=> Parses(p)
    BY DEF Check, PaymentIdFound
  <2> QED BY <2>1, <2>2, <2>3, <2>4, <2>5
<1> HIDE DEF checks
<1>5. (\A i \in DOMAIN checks : checks[i].ok) <=>
        (p["signature"] = "good" /\ WebhookIdOk(p) /\ Parses(p))
  BY <1>2, <1>4
<1>6. \A i \in DOMAIN checks : checks[i].answer # Passed
  BY <1>3 DEF Passed, AnswersOf
<1> QED BY <1>1, <1>2, <1>3, <1>5, <1>6, FirstFailureIsFirst

LEMMA BacsSignaturePasses ==
  ASSUME NEW p, NEW signedAt, NEW t
  PROVE  LET expired == [status |-> 401, error |-> "TIMESTAMP_EXPIRED"]
             signed == /\ p["signature"] = "good" /\ p["version"] = "good"
                       /\ p["timestamp"] \notin {"absent", "text"}
             answer1 == BacsSignatureAnswer(p, signedAt, t)
         IN
         /\ answer1 = Passed <=>
              signed /\ p["timestamp"] # "impossible" /\ Fresh(signedAt, t)
         /\ answer1 # Passed => answer1 \in AnswersOf({400, 401})
         /\ signed => answer1 \in {Passed, expired}
<1> DEFINE checks == <<
    Check(p["signature"] # "absent", 401, "MISSING_SIGNATURE"),
    Check(p["signature"] # "text", 401, "INVALID_SIGNATURE_FORMAT"),
    Check(p["timestamp"] # "absent", 401, "INVALID_TIMESTAMP"),
    Check(p["version"] = "good", 400, "UNSUPPORTED_VERSION"),
    Check(p["signature"] = "good", 401, "INVALID_SIGNATURE"),
    Check(p["timestamp"] # "text", 401, "INVALID_TIMESTAMP_FORMAT"),
    Check(p["timestamp"] # "impossible" /\ Fresh(signedAt, t), 401, "TIMESTAMP_EXPIRED") >>
           expired == [status |-> 401, error |-> "TIMESTAMP_EXPIRED"]
           signed == /\ p["signature"] = "good" /\ p["version"] = "good"
                     /\ p["timestamp"] \notin {"absent", "text"}
<1>1. BacsSignatureAnswer(p, signedAt, t) = FirstFailure(checks)
  BY DEF BacsSignatureAnswer
<1>2. DOMAIN checks = 1..7
  OBVIOUS
<1>3. /\ \A i \in DOMAIN checks : checks[i].answer \in AnswersOf({400, 401})
      /\ checks[7].answer = expired
  <2>1. \A status \in {400, 401}, error \in Errors :
          [status |-> status, error |-> error] \in AnswersOf({400, 401})
    BY DEF AnswersOf
  <2>2. /\ checks[1].answer = [status |-> 401, error |-> "MISSING_SIGNATURE"]
        /\ checks[2].answer = [status |-> 401, error |-> "INVALID_SIGNATURE_FORMAT"]
        /\ checks[3].answer = [status |-> 401, error |-> "INVALID_TIMESTAMP"]
        /\ checks[4].answer = [status |-> 400, error |-> "UNSUPPORTED_VERSION"]
        /\ checks[5].answer = [status |-> 401, error |-> "INVALID_SIGNATURE"]
        /\ checks[6].answer = [status |-> 401, error |-> "INVALID_TIMESTAMP_FORMAT"]
        /\ checks[7].answer = [status |-> 401, error |-> "TIMESTAMP_EXPIRED"]
    BY DEF Check
  <2> HIDE DEF checks
  <2>3. \A i \in 1..7 : i = 1 \/ i = 2 \/ i = 3 \/ i = 4 \/ i = 5 \/ i = 6 \/ i = 7
    OBVIOUS
  <2>4. {"MISSING_SIGNATURE", "INVALID_SIGNATURE_FORMAT", "INVALID_TIMESTAMP",
         "UNSUPPORTED_VERSION", "INVALID_SIGNATURE", "INVALID_TIMESTAMP_FORMAT",
         "TIMESTAMP_EXPIRED"} \subseteq Errors
    BY DEF Errors
  <2>5. /\ checks[1].answer \in AnswersOf({400, 401})
        /\ checks[2].answer \in AnswersOf({400, 401})
        /\ checks[3].answer \in AnswersOf({400, 401})
        /\ checks[4].answer \in AnswersOf({400, 401})
        /\ checks[5].answer \in AnswersOf({400, 401})
        /\ checks[6].answer \in AnswersOf({400, 401})
        /\ checks[7].answer \in AnswersOf({400, 401})
    BY <2>1, <2>2, <2>4
  <2> QED BY <1>2, <2>2, <2>3, <2>5
<1>4. /\ checks[1].ok <=> p["signature"] # "absent"
      /\ checks[2].ok <=> p["signature"] # "text"
      /\ checks[3].ok <=> p["timestamp"] # "absent"
      /\ checks[4].ok <=> p["version"] = "good"
      /\ checks[5].ok <=> p["signature"] = "good"
      /\ checks[6].ok <=> p["timestamp"] # "text"
      /\ checks[7].ok <=> p["timestamp"] # "impossible" /\ Fresh(signedAt, t)
  <2>1. checks[1].ok <=> p["signature"] # "absent"
    BY DEF Check
  <2>2. checks[2].ok <=> p["signature"] # "text"
    BY DEF Check
  <2>3. checks[3].ok <=> p["timestamp"] # "absent"
    BY DEF Check
  <2>4. checks[4].ok <=> p["version"] = "good"
    BY DEF Check
  <2>5. checks[5].ok <=> p["signature"] = "good"
    BY DEF Check
  <2>6. checks[6].ok <=> p["timestamp"] # "text"
    BY DEF Check
  <2>7. checks[7].ok <=> p["timestamp"] # "impossible" /\ Fresh(signedAt, t)
    BY DEF Check
  <2> QED BY <2>1, <2>2, <2>3, <2>4, <2>5, <2>6, <2>7
<1> HIDE DEF checks, expired
<1>5. (\A i \in DOMAIN checks : checks[i].ok) <=>
        (signed /\ p["timestamp"] # "impossible" /\ Fresh(signedAt, t))
  BY <1>2, <1>4
<1>6. signed => \A i \in DOMAIN checks : i = 7 \/ checks[i].ok
  BY <1>2, <1>4
<1> HIDE DEF signed
<1>7. \A i \in DOMAIN checks : checks[i].answer # Passed
  BY <1>3 DEF Passed, AnswersOf
<1>8. /\ FirstFailure(checks) = Passed <=>
           (signed /\ p["timestamp"] # "impossible" /\ Fresh(signedAt, t))
      /\ FirstFailure(checks) # Passed => FirstFailure(checks) \in AnswersOf({400, 401})
      /\ signed => FirstFailure(checks) \in {Passed, expired}
  BY <1>2, <1>3, <1>5, <1>6, <1>7, FirstFailureIsFirst
<1> QED BY <1>1, <1>8 DEF signed, expired

\* A chain of one check.
LEMMA OneCheck ==
  ASSUME NEW checks, DOMAIN checks = 1..1, checks[1].answer \in AnswersOf({202, 400, 422})
  PROVE  /\ FirstFailure(checks) = Passed <=> checks[1].ok
         /\ FirstFailure(checks) # Passed => FirstFailure(checks) = checks[1].answer
<1>1. \A i \in DOMAIN checks : i = 1
  OBVIOUS
<1>2. \A i \in DOMAIN checks : checks[i].answer # Passed
  BY <1>1 DEF Passed, AnswersOf
<1>3. DOMAIN checks \subseteq 1..7 /\ 1 \in DOMAIN checks
  OBVIOUS
<1> QED BY <1>1, <1>2, <1>3, FirstFailureIsFirst

\* The checks of validateWebhookPayload, in one.
GovPayBodyOk(p) ==
  /\ \A f \in RequiredRootStrings : RequiredString(p, f)
  /\ RequiredNumber(p, "api_version")
  /\ Recognised(p, "resource_type")
  /\ Recognised(p, "event_type")
  /\ IsDate(p, "created_date")
  /\ p["resource"] = "good" /\ PaymentResourceOk(p)

LEMMA GovPayPayloadPasses ==
  ASSUME NEW p
  PROVE  /\ GovPayPayloadAnswer(p) = Passed <=> GovPayBodyOk(p)
         /\ GovPayPayloadAnswer(p) # Passed => GovPayPayloadAnswer(p) \in AnswersOf({400})
<1> DEFINE checks == <<Check(GovPayBodyOk(p), 400, "Invalid webhook payload")>>
<1>1. GovPayPayloadAnswer(p) = FirstFailure(checks)
  BY DEF GovPayPayloadAnswer, GovPayBodyOk
<1>2. DOMAIN checks = 1..1 /\ checks[1].answer \in AnswersOf({400})
  <2>1. DOMAIN checks = 1..1
    OBVIOUS
  <2>2. checks[1].answer = [status |-> 400, error |-> "Invalid webhook payload"]
    BY DEF Check
  <2>3. [status |-> 400, error |-> "Invalid webhook payload"] \in AnswersOf({400})
    BY DEF AnswersOf, Errors
  <2> HIDE DEF checks
  <2> QED BY <2>1, <2>2, <2>3
<1>3. checks[1].ok <=> GovPayBodyOk(p)
  BY DEF Check
<1> HIDE DEF checks
<1> QED BY <1>1, <1>2, <1>3, OneCheck DEF AnswersOf

\* bacsWebhookSchema, in one.
BacsBodyOk(p) ==
  /\ EventSectionOk(p)
  /\ JoiOptional(p, "callback", CallbackSectionOk(p))
  /\ PaymentSectionOk(p)
  /\ DetailSectionOk(p)
  /\ p["unknownKey"] = "absent"

LEMMA BacsPayloadPasses ==
  ASSUME NEW p
  PROVE  /\ BacsPayloadAnswer(p) = Passed <=> BacsBodyOk(p)
         /\ BacsPayloadAnswer(p) # Passed => BacsPayloadAnswer(p) \in AnswersOf({422})
<1> DEFINE checks == <<Check(BacsBodyOk(p), 422, "VALIDATION_ERROR")>>
<1>1. BacsPayloadAnswer(p) = FirstFailure(checks)
  BY DEF BacsPayloadAnswer, BacsBodyOk
<1>2. DOMAIN checks = 1..1 /\ checks[1].answer \in AnswersOf({422})
  <2>1. DOMAIN checks = 1..1
    OBVIOUS
  <2>2. checks[1].answer = [status |-> 422, error |-> "VALIDATION_ERROR"]
    BY DEF Check
  <2>3. [status |-> 422, error |-> "VALIDATION_ERROR"] \in AnswersOf({422})
    BY DEF AnswersOf, Errors
  <2> HIDE DEF checks
  <2> QED BY <2>1, <2>2, <2>3
<1>3. checks[1].ok <=> BacsBodyOk(p)
  BY DEF Check
<1> HIDE DEF checks
<1> QED BY <1>1, <1>2, <1>3, OneCheck DEF AnswersOf

\* The controllers look again at what the middlewares have checked.
LEMMA GovPayControllerPasses ==
  ASSUME NEW p, Parses(p)
  PROVE  GovPayControllerAnswer(p) = Passed
<1> DEFINE checks == <<
    Check(Parses(p), 202, "Invalid webhook event structure"),
    Check(PaymentIdFound(p), 202, "Missing or invalid payment ID") >>
<1>1. GovPayControllerAnswer(p) = FirstFailure(checks)
  BY DEF GovPayControllerAnswer
<1>2. DOMAIN checks = 1..2
  OBVIOUS
<1>3. checks[1].ok
  BY DEF Check
<1>4. checks[2].ok
  BY DEF Check, PaymentIdFound
<1> HIDE DEF checks
<1>5. DOMAIN checks \subseteq 1..7 /\ \A i \in DOMAIN checks : checks[i].ok
  BY <1>2, <1>3, <1>4
<1> QED BY <1>1, <1>5, FirstFailureIsFirst

LEMMA BacsControllerPasses ==
  ASSUME NEW p, BacsBodyOk(p)
  PROVE  BacsControllerAnswer(p) = Passed
<1> DEFINE checks == <<
    Check(JoiString(p, "paymentReference"), 202, "Missing or invalid payment reference") >>
<1>1. BacsControllerAnswer(p) = FirstFailure(checks)
  BY DEF BacsControllerAnswer
<1>2. DOMAIN checks = 1..1 /\ checks[1].answer \in AnswersOf({202})
  <2>1. DOMAIN checks = 1..1
    OBVIOUS
  <2>2. checks[1].answer = [status |-> 202, error |-> "Missing or invalid payment reference"]
    BY DEF Check
  <2>3. [status |-> 202, error |-> "Missing or invalid payment reference"] \in AnswersOf({202})
    BY DEF AnswersOf, Errors
  <2> HIDE DEF checks
  <2> QED BY <2>1, <2>2, <2>3
<1>3. JoiString(p, "paymentReference")
  BY DEF BacsBodyOk, PaymentSectionOk
<1>4. checks[1].ok
  BY <1>3 DEF Check
<1> HIDE DEF checks
<1> QED BY <1>1, <1>2, <1>4, OneCheck DEF AnswersOf

(* ------------------------------ the chain ------------------------------ *)

Verdicts(m, t) ==
  LET p == Parsed(m) IN
  IF m.path = GovPay
  THEN <<GovPaySignatureAnswer(p), GovPayPayloadAnswer(p), GovPayControllerAnswer(p)>>
  ELSE <<BacsSignatureAnswer(p, m.signedAt, t), BacsPayloadAnswer(p), BacsControllerAnswer(p)>>

\* The answer is that of the first middleware, or of the controller, that gives one.
LEMMA AnswerIsFirst ==
  ASSUME NEW m, NEW t
  PROVE  LET v == Verdicts(m, t) IN
         \/ Answer(m, t) = Passed /\ v[1] = Passed /\ v[2] = Passed /\ v[3] = Passed
         \/ Answer(m, t) = v[1] /\ v[1] # Passed
         \/ Answer(m, t) = v[2] /\ v[1] = Passed /\ v[2] # Passed
         \/ Answer(m, t) = v[3] /\ v[1] = Passed /\ v[2] = Passed /\ v[3] # Passed
<1> DEFINE v == Verdicts(m, t)
           checks == [i \in 1..3 |-> [ok |-> v[i] = Passed, answer |-> v[i]]]
<1>1. Answer(m, t) = FirstFailure(checks)
  BY DEF Answer, Verdicts
<1> HIDE DEF v
<1>2. DOMAIN checks = 1..3 /\ \A i \in 1..3 : checks[i].answer = v[i]
  OBVIOUS
<1>3. ASSUME NEW i \in 1..3 PROVE checks[i].ok <=> v[i] = Passed
  OBVIOUS
<1> HIDE DEF checks
<1>4. /\ DOMAIN checks \subseteq 1..7
      /\ \A i \in DOMAIN checks : ~checks[i].ok => checks[i].answer # Passed
  BY <1>2, <1>3
<1>5. CASE FirstFailure(checks) = Passed
  <2>1. \A i \in DOMAIN checks : checks[i].ok
    BY <1>4, <1>5, FirstFailureIsFirst
  <2> QED BY <1>1, <1>2, <1>3, <1>5, <2>1 DEF v
<1>6. CASE FirstFailure(checks) # Passed
  <2>1. PICK i \in 1..3 : /\ ~checks[i].ok /\ FirstFailure(checks) = checks[i].answer
                          /\ \A j \in 1..3 : j < i => checks[j].ok
    BY <1>2, <1>4, <1>6, FirstFailureIsFirst
  <2>2. i = 1 \/ i = 2 \/ i = 3
    OBVIOUS
  <2>3. v[i] # Passed /\ Answer(m, t) = v[i] /\ \A j \in 1..3 : j < i => v[j] = Passed
    BY <1>1, <1>2, <1>3, <2>1
  <2> QED BY <2>2, <2>3 DEF v
<1> QED BY <1>5, <1>6

LEMMA GovPayAnswers ==
  ASSUME NEW m, NEW t, m.path = GovPay
  PROVE  LET p == Parsed(m) IN
         /\ Answer(m, t) = Passed <=>
              p["signature"] = "good" /\ WebhookIdOk(p) /\ Parses(p) /\ GovPayBodyOk(p)
         /\ Answer(m, t) # Passed => Answer(m, t) \in AnswersOf({400, 401})
<1> DEFINE p == Parsed(m)
           v == Verdicts(m, t)
<1>1. /\ v[1] = GovPaySignatureAnswer(p)
      /\ v[2] = GovPayPayloadAnswer(p)
      /\ v[3] = GovPayControllerAnswer(p)
  BY DEF Verdicts
<1> HIDE DEF p
<1>2. v[1] = Passed => v[3] = Passed
  BY <1>1, GovPaySignaturePasses, GovPayControllerPasses
<1> HIDE DEF v
<1>3. \/ Answer(m, t) = Passed /\ v[1] = Passed /\ v[2] = Passed
      \/ Answer(m, t) = v[1] /\ v[1] # Passed
      \/ Answer(m, t) = v[2] /\ v[1] = Passed /\ v[2] # Passed
  BY <1>2, AnswerIsFirst DEF v
<1> QED BY <1>1, <1>3, GovPaySignaturePasses, GovPayPayloadPasses DEF p, AnswersOf

LEMMA BacsAnswers ==
  ASSUME NEW m, NEW t, m.path = Bacs
  PROVE  LET p == Parsed(m)
             signed == /\ p["signature"] = "good" /\ p["version"] = "good"
                       /\ p["timestamp"] \notin {"absent", "text"}
         IN
         /\ Answer(m, t) = Passed <=>
              /\ signed /\ p["timestamp"] # "impossible" /\ Fresh(m.signedAt, t)
              /\ BacsBodyOk(p)
         /\ Answer(m, t) # Passed => Answer(m, t) \in AnswersOf({400, 401, 422})
         /\ Answer(m, t) # Passed /\ signed /\ BacsBodyOk(p) =>
              Answer(m, t).error = "TIMESTAMP_EXPIRED"
<1> DEFINE p == Parsed(m)
           v == Verdicts(m, t)
           signed == /\ p["signature"] = "good" /\ p["version"] = "good"
                     /\ p["timestamp"] \notin {"absent", "text"}
<1>1. /\ v[1] = BacsSignatureAnswer(p, m.signedAt, t)
      /\ v[2] = BacsPayloadAnswer(p)
      /\ v[3] = BacsControllerAnswer(p)
  BY DEF Verdicts, GovPay, Bacs
<1> HIDE DEF p
<1>2. v[2] = Passed => v[3] = Passed
  BY <1>1, BacsPayloadPasses, BacsControllerPasses
<1>3. /\ v[1] = Passed <=> signed /\ p["timestamp"] # "impossible" /\ Fresh(m.signedAt, t)
      /\ v[1] # Passed => v[1] \in AnswersOf({400, 401})
      /\ signed /\ v[1] # Passed => v[1].error = "TIMESTAMP_EXPIRED"
  BY <1>1, BacsSignaturePasses
<1>4. /\ v[2] = Passed <=> BacsBodyOk(p)
      /\ v[2] # Passed => v[2] \in AnswersOf({422})
  BY <1>1, BacsPayloadPasses
<1> HIDE DEF v, signed
<1>5. \/ Answer(m, t) = Passed /\ v[1] = Passed /\ v[2] = Passed
      \/ Answer(m, t) = v[1] /\ v[1] # Passed
      \/ Answer(m, t) = v[2] /\ v[1] = Passed /\ v[2] # Passed
  BY <1>2, AnswerIsFirst DEF v
<1> QED BY <1>3, <1>4, <1>5 DEF p, signed, AnswersOf

(* ------------------------------- the kinds ----------------------------- *)

\* What a parsed value of a field may be: a form makes other kinds of it.
ParsedKinds(f) ==
  KindsOf(f) \cup
    (IF f \in Headers THEN {}
     ELSE IF f \in Numbers THEN {"numeric", "text", "empty"} ELSE {"text", "empty"})

LEMMA ParsedIsOfItsKind ==
  ASSUME NEW m \in Contents
  PROVE  /\ m.path \in {GovPay, Bacs}
         /\ \A f \in Fields(m.path) : Parsed(m)[f] \in ParsedKinds(f)
<1>1. m.path \in {GovPay, Bacs}
  BY ContentsAreMessages
<1>2. ASSUME NEW f \in Fields(m.path)
      PROVE  Parsed(m)[f] \in ParsedKinds(f)
  <2> DEFINE k == IF f \in DOMAIN m.values THEN m.values[f] ELSE Documented(f)
  <2>1. k \in KindsOf(f)
    <3>1. CASE f \in DOMAIN m.values
      BY <3>1, ContentsAreMessages
    <3>2. CASE f \notin DOMAIN m.values
      BY <3>2 DEF Documented, KindsOf
    <3> QED BY <3>1, <3>2
  <2>2. Parsed(m)[f] = IF f \in Headers \/ m.body = "json" THEN k
                       ELSE IF m.body = "form" THEN AsFormValue(f, k) ELSE "absent"
    BY DEF Parsed
  <2> HIDE DEF k
  <2>3. "absent" \in ParsedKinds(f) /\ k \in ParsedKinds(f)
    BY <2>1 DEF ParsedKinds, KindsOf
  <2>4. f \notin Headers => AsFormValue(f, k) \in ParsedKinds(f)
    BY <2>3 DEF AsFormValue, ParsedKinds
  <2> QED BY <2>2, <2>3, <2>4
<1> QED BY <1>1, <1>2

GovPayTexts ==
  {"resource.description", "resource.reference", "resource.payment_id",
   "resource.payment_provider", "resource_id"}

GovPayOptional == {"resource.email", "card_details.expiry_date", "card_details.card_type"}

GovPayKnown == {"webhook_message_id", "resource_type", "event_type", "state.status"}

TextKinds == {"absent", "good", "text", "null", "empty", "blank", "long", "number"}

LEMMA GovPayKinds ==
  ASSUME NEW m \in Contents, m.path = GovPay
  PROVE  LET p == Parsed(m) IN
         /\ \A f \in GovPayTexts \cup GovPayOptional : p[f] \in TextKinds
         /\ \A f \in Dates : p[f] \in TextKinds \cup {"looseDate"}
         /\ \A f \in GovPayNumbers :
              p[f] \in {"absent", "good", "text", "null", "numeric", "zero", "empty"}
         /\ \A f \in {"state.finished", "resource.card_details"} :
              p[f] \in {"absent", "good", "text", "null", "empty"}
         /\ p["api_version"] \in {"good", "zero"} => p["resource.card_details"] # "empty"
<1>0. Parsed(m)["api_version"] \in {"good", "zero"} => Parsed(m)["resource.card_details"] # "empty"
  <2>1. "api_version" \in Fields(m.path) /\ "resource.card_details" \in Fields(m.path)
    BY DEF Fields, GovPayBody, GovPayNumbers, GovPayObjects
  <2>2. CASE m.body = "json"
    <3> DEFINE f == "resource.card_details"
               k == IF f \in DOMAIN m.values THEN m.values[f] ELSE Documented(f)
    <3>1. k # "empty"
      <4>1. f \in DOMAIN m.values => m.values[f] \in KindsOf(f)
        BY <2>1, ContentsAreMessages
      <4> QED BY <4>1 DEF Documented, KindsOf, Strings, GovPayStrings, BacsStrings, Numbers,
                 GovPayNumbers, BacsNumbers, Dates
    <3> QED BY <2>1, <2>2, <3>1 DEF Parsed
  <2>3. CASE m.body # "json"
    BY <2>1, <2>3 DEF Parsed, AsFormValue, Headers, Numbers, GovPayNumbers
  <2> QED BY <2>2, <2>3
<1> DEFINE p == Parsed(m)
<1>1. \A f \in Fields(m.path) : p[f] \in ParsedKinds(f)
  BY ParsedIsOfItsKind
<1> HIDE DEF p
<1> USE DEF Fields, GovPayBody, GovPayStrings, GovPayNumbers, GovPayObjects, Booleans,
        ParsedKinds, KindsOf, Headers, Numbers, BacsNumbers, Strings, BacsStrings, Dates,
        TextKinds
<1>2. \A f \in GovPayTexts \cup GovPayOptional : p[f] \in TextKinds
  BY <1>1 DEF GovPayTexts, GovPayOptional
<1>3. \A f \in Dates : p[f] \in TextKinds \cup {"looseDate"}
  BY <1>1
<1>4. \A f \in GovPayNumbers :
        p[f] \in {"absent", "good", "text", "null", "numeric", "zero", "empty"}
  BY <1>1
<1>5. \A f \in {"state.finished", "resource.card_details"} :
        p[f] \in {"absent", "good", "text", "null", "empty"}
  BY <1>1
<1> QED BY <1>0, <1>2, <1>3, <1>4, <1>5 DEF p

BacsTexts == {"source", "paymentReference", "bacsReference"}

BacsGood ==
  {"eventId", "eventType", "eventVersion", "occurredAt", "status", "currency", "paymentDate",
   "event", "payment", "detail", "signature", "version"}

LEMMA BacsKinds ==
  ASSUME NEW m \in Contents, m.path = Bacs
  PROVE  LET p == Parsed(m) IN
         /\ \A f \in BacsTexts : p[f] \in TextKinds
         /\ p["timestamp"] \in {"absent", "good", "text", "impossible"}
<1> DEFINE p == Parsed(m)
<1>1. \A f \in Fields(m.path) : p[f] \in ParsedKinds(f)
  BY ParsedIsOfItsKind
<1> HIDE DEF p
<1>2. \A f \in BacsTexts : p[f] \in TextKinds
  BY <1>1 DEF BacsTexts, TextKinds, Fields, GovPay, Bacs, BacsBody, BacsStrings, ParsedKinds,
     KindsOf, Headers, Numbers, GovPayNumbers, BacsNumbers, Strings, Dates
<1>3. p["timestamp"] \in {"absent", "good", "text", "impossible"}
  BY <1>1 DEF Fields, GovPay, Bacs, ParsedKinds, KindsOf, Headers
<1> QED BY <1>2, <1>3 DEF p

(* ---------------------------- well-formedness -------------------------- *)

\* Field by field, what GOV.UK Pay's middlewares let pass.
LEMMA GovPayFields ==
  ASSUME NEW m \in Contents, m.path = GovPay
  PROVE  LET p == Parsed(m) IN
         (p["signature"] = "good" /\ WebhookIdOk(p) /\ Parses(p) /\ GovPayBodyOk(p))
           <=> \A f \in Fields(m.path) : Ignored(p, f) \/ p[f] \in GovPayAllowed(f)
<1> DEFINE p == Parsed(m)
           passes == p["signature"] = "good" /\ WebhookIdOk(p) /\ Parses(p) /\ GovPayBodyOk(p)
<1>1. /\ \A f \in GovPayTexts \cup GovPayOptional : p[f] \in TextKinds
      /\ \A f \in Dates : p[f] \in TextKinds \cup {"looseDate"}
      /\ \A f \in GovPayNumbers :
           p[f] \in {"absent", "good", "text", "null", "numeric", "zero", "empty"}
      /\ \A f \in {"state.finished", "resource.card_details"} :
           p[f] \in {"absent", "good", "text", "null", "empty"}
      /\ p["api_version"] \in {"good", "zero"} => p["resource.card_details"] # "empty"
  BY GovPayKinds
<1> HIDE DEF p
<1> USE DEF Truthy, TypeOf
<1>2. ASSUME NEW f \in GovPayTexts
      PROVE  RequiredString(p, f) <=> p[f] \in {"good", "text", "long"}
  BY <1>1, <1>2 DEF RequiredString, TextKinds, GovPayTexts, Strings, GovPayStrings
<1>3. ASSUME NEW f \in Dates
      PROVE  RequiredString(p, f) /\ IsDate(p, f) <=> p[f] \in {"good", "looseDate"}
  BY <1>1, <1>3 DEF RequiredString, IsDate, TextKinds, Dates, Strings, GovPayStrings
<1>4. ASSUME NEW f \in GovPayKnown
      PROVE  RequiredString(p, f) /\ Recognised(p, f) <=> p[f] = "good"
  BY <1>4 DEF RequiredString, Recognised, GovPayKnown, Strings, GovPayStrings
<1>5. ASSUME NEW f \in GovPayOptional
      PROVE  Recognised(p, f) <=> p[f] \in {"good", "absent", "null", "empty"}
  BY <1>1, <1>5 DEF Recognised, TextKinds
<1>6. ASSUME NEW f \in GovPayNumbers
      PROVE  RequiredNumber(p, f) <=> p[f] \in {"good", "zero"}
  BY <1>1, <1>6 DEF RequiredNumber, GovPayNumbers, Numbers, Strings, GovPayStrings, BacsStrings
<1>7. RequiredBoolean(p, "state.finished") <=> p["state.finished"] = "good"
  BY <1>1 DEF RequiredBoolean, Booleans, Numbers, GovPayNumbers, BacsNumbers, Strings,
     GovPayStrings, BacsStrings
<1> DEFINE fields ==
      /\ \A f \in {"signature"} \cup GovPayKnown : p[f] = "good"
      /\ \A f \in GovPayTexts : p[f] \in {"good", "text", "long"}
      /\ \A f \in Dates : p[f] \in {"good", "looseDate"}
      /\ p["api_version"] \in {"good", "zero"} /\ p["resource.amount"] = "good"
      /\ p["state.finished"] = "good" /\ p["resource"] = "good" /\ p["resource.state"] = "good"
      /\ p["resource.email"] \in {"good", "absent", "null", "empty"}
      /\ p["resource.card_details"] # "good"
           \/ \A f \in {"card_details.expiry_date", "card_details.card_type"} :
                p[f] \in {"good", "absent", "null", "empty"}
<1>8. passes <=> fields
  <2>1. ASSUME passes PROVE fields
    <3>1. \A f \in {"signature"} \cup GovPayKnown : p[f] = "good"
      BY <1>4, <2>1 DEF GovPayKnown, WebhookIdOk, GovPayBodyOk, RequiredRootStrings,
         PaymentResourceOk, PaymentStateOk
    <3>2. \A f \in GovPayTexts : p[f] \in {"good", "text", "long"}
      BY <1>2, <2>1 DEF GovPayTexts, GovPayBodyOk, RequiredRootStrings, PaymentResourceOk
    <3>3. \A f \in Dates : p[f] \in {"good", "looseDate"}
      BY <1>3, <2>1 DEF Dates, GovPayBodyOk, RequiredRootStrings, PaymentResourceOk
    <3>4. p["api_version"] \in {"good", "zero"} /\ p["resource.amount"] = "good"
      BY <1>6, <2>1 DEF GovPayNumbers, GovPayBodyOk, PaymentResourceOk
    <3>5. p["state.finished"] = "good" /\ p["resource"] = "good" /\ p["resource.state"] = "good"
      BY <1>7, <2>1 DEF GovPayBodyOk, PaymentResourceOk, PaymentStateOk
    <3>6. p["resource.email"] \in {"good", "absent", "null", "empty"}
      BY <1>5, <2>1 DEF GovPayOptional, GovPayBodyOk, PaymentResourceOk
    <3>7. p["resource.card_details"] # "good"
           \/ \A f \in {"card_details.expiry_date", "card_details.card_type"} :
                p[f] \in {"good", "absent", "null", "empty"}
      BY <1>5, <2>1 DEF GovPayOptional, GovPayBodyOk, PaymentResourceOk, CardDetailsOk
    <3> QED BY <3>1, <3>2, <3>3, <3>4, <3>5, <3>6, <3>7
  <2>2. ASSUME fields PROVE passes
    <3>1. p["signature"] = "good" /\ WebhookIdOk(p)
      BY <2>2 DEF GovPayKnown, WebhookIdOk
    <3>2. Parses(p)
      BY <2>2 DEF GovPayKnown, Parses, Strings, GovPayStrings
    <3>3. /\ \A f \in GovPayTexts : RequiredString(p, f)
          /\ \A f \in Dates : RequiredString(p, f) /\ IsDate(p, f)
          /\ \A f \in GovPayKnown : RequiredString(p, f) /\ Recognised(p, f)
      BY <1>2, <1>3, <1>4, <2>2
    <3>4. /\ RequiredNumber(p, "api_version") /\ RequiredNumber(p, "resource.amount")
          /\ RequiredBoolean(p, "state.finished")
      BY <1>6, <1>7, <2>2 DEF GovPayNumbers
    <3>5. Recognised(p, "resource.email") /\ (p["resource.card_details"] = "good" => CardDetailsOk(p))
      BY <1>5, <2>2 DEF GovPayOptional, CardDetailsOk
    <3>6. PaymentResourceOk(p)
      BY <2>2, <3>3, <3>4, <3>5
         DEF PaymentResourceOk, PaymentStateOk, GovPayTexts, Dates, GovPayKnown
    <3>7. GovPayBodyOk(p)
      BY <2>2, <3>3, <3>4, <3>6 DEF GovPayBodyOk, RequiredRootStrings, GovPayTexts, Dates,
         GovPayKnown
    <3> QED BY <3>1, <3>2, <3>7
  <2> QED BY <2>1, <2>2
<1> DEFINE allowed(f) == Ignored(p, f) \/ p[f] \in GovPayAllowed(f)
<1>9. (\A f \in Fields(m.path) : allowed(f)) <=> fields
  <2>1. Fields(m.path) = {"signature"} \cup GovPayKnown \cup GovPayTexts \cup Dates
          \cup GovPayNumbers \cup {"state.finished"} \cup GovPayObjects \cup GovPayOptional
    BY DEF Fields, GovPayBody, GovPayStrings, GovPayKnown, GovPayTexts, Dates, Booleans,
       GovPayOptional
  <2>2. \A f \in {"signature"} \cup GovPayKnown : allowed(f) <=> p[f] = "good"
    BY DEF GovPayKnown, GovPayAllowed, Ignored, Dates
  <2>3. \A f \in GovPayTexts : allowed(f) <=> p[f] \in {"good", "text", "long"}
    BY DEF GovPayTexts, GovPayAllowed, Ignored
  <2>4. \A f \in Dates : allowed(f) <=> p[f] \in {"good", "looseDate"}
    BY DEF Dates, GovPayAllowed, Ignored
  <2>5. /\ allowed("api_version") <=> p["api_version"] \in {"good", "zero"}
        /\ allowed("resource.amount") <=> p["resource.amount"] = "good"
        /\ allowed("state.finished") <=> p["state.finished"] = "good"
        /\ allowed("resource") <=> p["resource"] = "good"
        /\ allowed("resource.state") <=> p["resource.state"] = "good"
    BY DEF GovPayAllowed, Ignored, Dates
  <2>6. /\ allowed("resource.email") <=> p["resource.email"] \in {"good", "absent", "null", "empty"}
        /\ allowed("resource.card_details") <=>
             p["resource.card_details"] \in {"good", "absent", "null", "text"}
    BY DEF GovPayAllowed, Ignored, Dates
  <2>7. \A f \in {"card_details.expiry_date", "card_details.card_type"} :
          allowed(f) <=> (\/ p["resource.card_details"] # "good"
                          \/ p[f] \in {"good", "absent", "null", "empty"})
    BY DEF GovPayAllowed, Ignored, Dates
  <2> HIDE DEF allowed
  <2>8. (\A f \in Fields(m.path) : allowed(f)) <=>
          /\ \A f \in {"signature"} \cup GovPayKnown : allowed(f)
          /\ \A f \in GovPayTexts : allowed(f)
          /\ \A f \in Dates : allowed(f)
          /\ allowed("api_version") /\ allowed("resource.amount") /\ allowed("state.finished")
          /\ allowed("resource") /\ allowed("resource.state")
          /\ allowed("resource.email") /\ allowed("resource.card_details")
          /\ \A f \in {"card_details.expiry_date", "card_details.card_type"} : allowed(f)
    BY <2>1 DEF GovPayNumbers, GovPayObjects, GovPayOptional
  <2> QED BY <1>1, <2>2, <2>3, <2>4, <2>5, <2>6, <2>7, <2>8
<1> QED BY <1>8, <1>9 DEF p

\* Field by field, what the BACS middlewares let pass, the age of it apart.
LEMMA BacsFields ==
  ASSUME NEW m \in Contents, m.path = Bacs
  PROVE  LET p == Parsed(m) IN
         (/\ p["signature"] = "good" /\ p["version"] = "good"
          /\ p["timestamp"] \notin {"absent", "text", "impossible"} /\ BacsBodyOk(p))
           <=> \A f \in Fields(m.path) : Ignored(p, f) \/ p[f] \in BacsAllowed(f)
<1> DEFINE p == Parsed(m)
           passes == /\ p["signature"] = "good" /\ p["version"] = "good"
                     /\ p["timestamp"] \notin {"absent", "text", "impossible"} /\ BacsBodyOk(p)
<1>1. /\ \A f \in BacsTexts : p[f] \in TextKinds
      /\ p["timestamp"] \in {"absent", "good", "text", "impossible"}
  BY BacsKinds
<1> HIDE DEF p
<1>2. ASSUME NEW f \in BacsTexts
      PROVE  JoiString(p, f) <=> p[f] \in {"good", "text", "blank", "long"}
  BY <1>1, <1>2 DEF JoiString, TypeOf, TextKinds, BacsTexts, Strings, BacsStrings
<1> DEFINE fields ==
      /\ \A f \in BacsGood : p[f] = "good"
      /\ p["timestamp"] = "good" /\ p["unknownKey"] = "absent"
      /\ p["source"] \in {"good", "text", "blank", "long"}
      /\ p["paymentReference"] \in {"good", "text", "blank"}
      /\ p["bacsReference"] \in {"good", "text", "blank", "long", "absent"}
      /\ p["amount"] \in {"good", "numeric"}
      /\ \/ p["callback"] = "absent"
         \/ /\ p["callback"] = "good" /\ p["deliveryId"] \in {"good", "absent"}
            /\ p["attemptNumber"] \in {"good", "numeric", "absent"}
<1>3. passes <=> fields
  <2>1. EventSectionOk(p) <=>
          /\ \A f \in {"event", "eventId", "eventType", "eventVersion", "occurredAt"} :
               p[f] = "good"
          /\ p["source"] \in {"good", "text", "blank", "long"}
    BY <1>2 DEF EventSectionOk, BacsTexts
  <2>2. JoiOptional(p, "callback", CallbackSectionOk(p)) <=>
          \/ p["callback"] = "absent"
          \/ /\ p["callback"] = "good" /\ p["deliveryId"] \in {"good", "absent"}
             /\ p["attemptNumber"] \in {"good", "numeric", "absent"}
    BY DEF JoiOptional, CallbackSectionOk, JoiNumber
  <2>3. PaymentSectionOk(p) <=>
          p["payment"] = "good" /\ p["paymentReference"] \in {"good", "text", "blank"}
    BY <1>1, <1>2 DEF PaymentSectionOk, BacsTexts, TextKinds
  <2>4. DetailSectionOk(p) <=>
          /\ \A f \in {"detail", "status", "currency", "paymentDate"} : p[f] = "good"
          /\ p["amount"] \in {"good", "numeric"}
          /\ p["bacsReference"] \in {"good", "text", "blank", "long", "absent"}
    BY <1>2 DEF DetailSectionOk, BacsTexts, JoiNumber, JoiOptional
  <2>5. p["timestamp"] \notin {"absent", "text", "impossible"} <=> p["timestamp"] = "good"
    BY <1>1
  <2> QED BY <2>1, <2>2, <2>3, <2>4, <2>5 DEF BacsBodyOk, BacsGood
<1> DEFINE allowed(f) == Ignored(p, f) \/ p[f] \in BacsAllowed(f)
<1>4. (\A f \in Fields(m.path) : allowed(f)) <=> fields
  <2>1. Fields(m.path) = BacsGood \cup BacsTexts
          \cup {"timestamp", "unknownKey", "amount", "callback", "deliveryId", "attemptNumber"}
    BY DEF Fields, GovPay, Bacs, Headers, BacsBody, BacsStrings, BacsNumbers, BacsObjects,
       BacsGood, BacsTexts
  <2>2. \A f \in BacsGood \cup {"timestamp"} : allowed(f) <=> p[f] = "good"
    BY DEF BacsGood, BacsAllowed, Ignored
  <2>3. /\ allowed("source") <=> p["source"] \in {"good", "text", "blank", "long"}
        /\ allowed("paymentReference") <=> p["paymentReference"] \in {"good", "text", "blank"}
        /\ allowed("bacsReference") <=>
             p["bacsReference"] \in {"good", "text", "blank", "long", "absent"}
    BY DEF BacsAllowed, Ignored
  <2>4. /\ allowed("unknownKey") <=> p["unknownKey"] = "absent"
        /\ allowed("amount") <=> p["amount"] \in {"good", "numeric"}
        /\ allowed("callback") <=> p["callback"] \in {"good", "absent"}
    BY DEF BacsAllowed, Ignored
  <2>5. /\ allowed("deliveryId") <=>
             p["callback"] # "good" \/ p["deliveryId"] \in {"good", "absent"}
        /\ allowed("attemptNumber") <=>
             p["callback"] # "good" \/ p["attemptNumber"] \in {"good", "numeric", "absent"}
    BY DEF BacsAllowed, Ignored
  <2> HIDE DEF allowed
  <2>6. (\A f \in Fields(m.path) : allowed(f)) <=>
          /\ \A f \in BacsGood \cup {"timestamp"} : allowed(f)
          /\ allowed("source") /\ allowed("paymentReference") /\ allowed("bacsReference")
          /\ allowed("unknownKey") /\ allowed("amount") /\ allowed("callback")
          /\ allowed("deliveryId") /\ allowed("attemptNumber")
    BY <2>1 DEF BacsTexts
  <2> QED BY <2>2, <2>3, <2>4, <2>5, <2>6
<1> QED BY <1>3, <1>4 DEF p

\* The middlewares and the controller let a message pass exactly if it is well
\* formed and, for BACS, fresh; what they refuse is not well formed, or stale.
LEMMA AnswersAgree ==
  ASSUME NEW m \in Contents, NEW t
  PROVE  /\ Answer(m, t) = Passed =>
              WellFormed(m) /\ (m.path = Bacs => Fresh(m.signedAt, t))
         /\ Answer(m, t) # Passed =>
              /\ Answer(m, t) \in AnswersOf({400, 401, 422})
              /\ ~WellFormed(m) \/ Answer(m, t).error = "TIMESTAMP_EXPIRED"
<1>1. CASE m.path = GovPay
  <2>1. WellFormed(m) <=>
          \A f \in Fields(m.path) : Ignored(Parsed(m), f) \/ Parsed(m)[f] \in GovPayAllowed(f)
    BY <1>1 DEF WellFormed
  <2> QED BY <1>1, <2>1, GovPayFields, GovPayAnswers DEF GovPay, Bacs, AnswersOf
<1>2. CASE m.path = Bacs
  <2>1. WellFormed(m) <=>
          \A f \in Fields(m.path) : Ignored(Parsed(m), f) \/ Parsed(m)[f] \in BacsAllowed(f)
    BY <1>2 DEF WellFormed, GovPay, Bacs
  <2> QED BY <1>2, <2>1, BacsFields, BacsAnswers
<1> QED BY <1>1, <1>2, ParsedIsOfItsKind

\* Every field of the event is the body's own.
LEMMA EventIsBody ==
  ASSUME NEW m \in Contents, m.path = GovPay, WellFormed(m)
  PROVE  \A f \in DOMAIN EventSource(Parsed(m)) : EventSource(Parsed(m))[f] = "body"
<1> DEFINE p == Parsed(m)
<1>1. /\ p["resource_type"] = "good"
      /\ p["api_version"] \in {"good", "zero"}
      /\ p["created_date"] \in {"good", "looseDate"}
      /\ p["resource_id"] \in {"good", "text", "long"}
  <2>1. \A f \in {"resource_type", "api_version", "created_date", "resource_id"} :
          f \in Fields(m.path) /\ p[f] \in GovPayAllowed(f)
    BY DEF WellFormed, Fields, GovPayBody, GovPayStrings, GovPayNumbers, Ignored
  <2> HIDE DEF p
  <2> QED BY <2>1 DEF GovPayAllowed, Dates
<1> HIDE DEF p
<1>2. /\ Truthy(p["resource_type"]) /\ TypeOf("resource_type", p["resource_type"]) = "string"
      /\ TypeOf("api_version", p["api_version"]) = "number"
      /\ Truthy(p["created_date"]) /\ TypeOf("created_date", p["created_date"]) = "string"
      /\ Truthy(p["resource_id"]) /\ TypeOf("resource_id", p["resource_id"]) = "string"
  BY <1>1 DEF Truthy, TypeOf, Strings, GovPayStrings, Numbers, GovPayNumbers, BacsStrings
<1>3. /\ DOMAIN EventSource(p) = {"webhook_message_id", "event_type", "resource", "api_version",
                                  "created_date", "resource_type", "resource_id"}
      /\ EventSource(p)["webhook_message_id"] = "body"
      /\ EventSource(p)["event_type"] = "body" /\ EventSource(p)["resource"] = "body"
      /\ EventSource(p)["api_version"] = "body" /\ EventSource(p)["created_date"] = "body"
      /\ EventSource(p)["resource_type"] = "body" /\ EventSource(p)["resource_id"] = "body"
  BY <1>2 DEF EventSource
<1> QED BY <1>3 DEF p

(* ----------------------------- the invariant --------------------------- *)

\* Where an answer comes from.
Explained(r) ==
  \/ answer[r].status \in {429, 500}
  \/ answer[r].status = 400 /\ content[r].body = "invalid"
  \/ \E t \in Times : answer[r] = Answer(content[r], t) /\ answer[r] # Passed
  \/ handed[r] # {} /\ answer[r].status \in {200, 202}

ChecksInv ==
  /\ TypeOK
  /\ content \in [Requests -> Contents]
  /\ \A r \in Requests :
       /\ \A t \in handed[r] : Answer(content[r], t) = Passed
       /\ pc[r] = "serving" => handed[r] # {}
       /\ pc[r] = "answered" => Explained(r)

LEMMA MessageTypes ==
  ASSUME content \in [Requests -> Contents], NEW r \in Requests
  PROVE  /\ content[r] \in Contents /\ content[r].sender \in Senders
         /\ content[r].path \in {GovPay, Bacs} /\ content[r].body \in Bodies
BY ContentsAreMessages

LEMMA Positive ==
  /\ RateLimitMax \in Nat \ {0} /\ RateWindow \in Nat \ {0}
  /\ FreshnessWindow \in Nat /\ MaxTime \in Nat /\ MaxSends \in Nat
BY PositiveLimits

\* Answers and places keep their types, and change for one request only.
OnlyOf(r) ==
  /\ answer' \in [Requests -> Answers]
  /\ pc' \in [Requests -> Places]
  /\ \A q \in Requests : q # r => answer'[q] = answer[q] /\ pc'[q] = pc[q]

LEMMA RejectTypes ==
  ASSUME TypeOK, NEW r \in Requests, NEW status, NEW error,
         [status |-> status, error |-> error] \in Answers, Reject(r, status, error)
  PROVE  /\ OnlyOf(r) /\ pc'[r] = "answered"
         /\ answer'[r] \in Answers
         /\ answer'[r].status = status /\ answer'[r].error = error
BY DEF Reject, TypeOK, Places, OnlyOf

LEMMA ContinueTypes ==
  ASSUME TypeOK, NEW r \in Requests, NEW place \in Places, Continue(r, place)
  PROVE  OnlyOf(r) /\ answer'[r] = answer[r] /\ pc'[r] = place
BY DEF Continue, TypeOK, OnlyOf

LEMMA IncrementTypes ==
  ASSUME NEW store \in Stores, NEW s \in Senders, now \in Times
  PROVE  /\ Increment(store, s) \in [hits : Nat, resetTime : 0..(MaxTime + RateWindow)]
         /\ [store EXCEPT ![s] = Increment(store, s)] \in Stores
<1>1. store[s] \in [hits : Nat, resetTime : 0..(MaxTime + RateWindow)]
  BY DEF Stores
<1>2. now + RateWindow \in 0..(MaxTime + RateWindow)
  BY Positive DEF Times
<1>3. Increment(store, s) \in [hits : Nat, resetTime : 0..(MaxTime + RateWindow)]
  BY <1>1, <1>2 DEF Increment
<1> QED BY <1>3 DEF Stores

LEMMA Types ==
  ASSUME ChecksInv, NEW r \in Requests
  PROVE  /\ TypeOK /\ content[r] \in Contents /\ content[r].sender \in Senders
         /\ globalStore \in Stores /\ webhookStore \in Stores
         /\ now \in Times /\ sends \in 0..MaxSends
<1>1. TypeOK /\ content \in [Requests -> Contents]
  BY DEF ChecksInv
<1>2. /\ globalStore \in Stores /\ webhookStore \in Stores
      /\ now \in Times /\ sends \in 0..MaxSends
  BY <1>1 DEF TypeOK
<1> QED BY <1>1, <1>2, MessageTypes

\* What a step does not touch stays explained.
LEMMA StaysExplained ==
  ASSUME ChecksInv, NEW q \in Requests, content' = content, handed'[q] = handed[q],
         answer'[q] = answer[q], pc'[q] = pc[q]
  PROVE  /\ \A t \in handed'[q] : Answer(content'[q], t) = Passed
         /\ pc'[q] = "serving" => handed'[q] # {}
         /\ pc'[q] = "answered" => Explained(q)'
BY DEF ChecksInv, Explained

LEMMA ChecksInit == Init => ChecksInv
<1> SUFFICES ASSUME Init PROVE ChecksInv
  OBVIOUS
<1>1. content \in [Requests -> Contents]
  BY DEF Init
<1>2. Passed \in Answers /\ "unsent" \in Places
  BY DEF Passed, Answers, Errors, Places
<1>3. \A s \in Senders : limiterLog[s] \in Seq([at : Times, passed : BOOLEAN])
  BY DEF Init
<1>4. 0 \in Times /\ 0 \in 0..MaxSends /\ 0 \in 0..(MaxTime + RateWindow)
  BY Positive DEF Times
<1>5. TypeOK
  BY <1>1, <1>2, <1>3, <1>4, MessageTypes DEF Init, TypeOK, Stores, Decisions
<1>6. \A r \in Requests : handed[r] = {} /\ pc[r] = "unsent"
  BY DEF Init
<1> QED BY <1>1, <1>5, <1>6 DEF ChecksInv

\* The log of a limiter stays one.
LEMMA LogTypes ==
  ASSUME limiterLog \in [Senders -> Decisions], now \in Times,
         NEW s \in Senders, NEW passed \in BOOLEAN
  PROVE  [limiterLog EXCEPT ![s] = Append(@, [at |-> now, passed |-> passed])]
           \in [Senders -> Decisions]
<1> DEFINE D == [at : Times, passed : BOOLEAN]
           d == [at |-> now, passed |-> passed]
<1>1. d \in D /\ limiterLog[s] \in Seq(D) /\ Decisions = Seq(D)
  BY DEF Decisions
<1> HIDE DEF D, d
<1>2. Append(limiterLog[s], d) \in Seq(D)
  BY <1>1
<1> QED BY <1>1, <1>2 DEF d

\* A step for one request, which keeps the types and has a reason for its answer.
Reasoned(r) ==
  /\ UNCHANGED <<now, content>> /\ OnlyOf(r)
  /\ globalStore' \in Stores /\ webhookStore' \in Stores /\ sends' \in 0..MaxSends
  /\ limiterLog' \in [Senders -> Decisions]
  /\ handed' \in [Requests -> SUBSET Times]
  /\ \A q \in Requests : q # r => handed'[q] = handed[q]
  /\ \A t \in handed'[r] : Answer(content[r], t) = Passed
  /\ pc'[r] = "serving" => handed'[r] # {}
  /\ pc'[r] = "answered" => Explained(r)'

LEMMA ReasonedSteps ==
  ASSUME ChecksInv, NEW r \in Requests, Reasoned(r)
  PROVE  ChecksInv'
<1>1. TypeOK'
  BY DEF ChecksInv, TypeOK, Reasoned, OnlyOf
<1>2. ASSUME NEW q \in Requests
      PROVE  /\ \A t \in handed'[q] : Answer(content'[q], t) = Passed
             /\ pc'[q] = "serving" => handed'[q] # {}
             /\ pc'[q] = "answered" => Explained(q)'
  <2>1. CASE q = r
    BY <2>1 DEF Reasoned
  <2>2. CASE q # r
    BY <2>2, StaysExplained DEF Reasoned, OnlyOf
  <2> QED BY <2>1, <2>2
<1> QED BY <1>1, <1>2 DEF ChecksInv, Reasoned

LEMMA ArriveChecks ==
  ASSUME ChecksInv, NEW r \in Requests, Arrive(r)
  PROVE  Reasoned(r)
<1> DEFINE s == content[r].sender
           error == "Too many requests"
<1>1. /\ globalStore' = [globalStore EXCEPT ![s] = Increment(globalStore, s)]
      /\ sends < MaxSends /\ sends' = sends + 1
      /\ UNCHANGED <<now, content, webhookStore, limiterLog, handed>>
      /\ Continue(r, "parsing") \/ Reject(r, 429, error)
  BY DEF Arrive
<1>2. "parsing" \in Places /\ [status |-> 429, error |-> error] \in Answers
  BY DEF Places, Answers, Errors
<1>3. s \in Senders
  BY Types
<1> HIDE DEF s, error
<1>4. globalStore' \in Stores /\ sends' \in 0..MaxSends
  <2>1. globalStore' \in Stores
    BY <1>1, <1>3, Types, IncrementTypes
  <2>2. sends' \in 0..MaxSends
    BY <1>1, Types, Positive
  <2> QED BY <2>1, <2>2
<1>5. OnlyOf(r) /\ (pc'[r] = "parsing" \/ (pc'[r] = "answered" /\ answer'[r].status = 429))
  BY <1>1, <1>2, Types, ContinueTypes, RejectTypes
<1> QED BY <1>1, <1>4, <1>5, Types DEF Reasoned, Explained, ChecksInv, TypeOK

LEMMA ParseBodyChecks ==
  ASSUME ChecksInv, NEW r \in Requests, ParseBody(r)
  PROVE  Reasoned(r)
<1> DEFINE syntax == "Invalid JSON in request body"
           size == "Internal server error"
<1>1. /\ UNCHANGED <<now, content, stores, logs>>
      /\ \/ content[r].body = "invalid" /\ Reject(r, 400, syntax)
         \/ Reject(r, 500, size)
         \/ Continue(r, "limiting")
  BY DEF ParseBody
<1>2. /\ "limiting" \in Places
      /\ [status |-> 400, error |-> syntax] \in Answers
      /\ [status |-> 500, error |-> size] \in Answers
  BY DEF Places, Answers, Errors
<1> HIDE DEF syntax, size
<1>3. /\ OnlyOf(r)
      /\ \/ content[r].body = "invalid" /\ pc'[r] = "answered" /\ answer'[r].status = 400
         \/ pc'[r] = "answered" /\ answer'[r].status = 500
         \/ pc'[r] = "limiting"
  BY <1>1, <1>2, Types, ContinueTypes, RejectTypes
<1> QED BY <1>1, <1>3, Types DEF Reasoned, Explained, ChecksInv, TypeOK, stores, logs

LEMMA LimitWebhookChecks ==
  ASSUME ChecksInv, NEW r \in Requests, LimitWebhook(r)
  PROVE  Reasoned(r)
<1> DEFINE s == content[r].sender
           passed == Increment(webhookStore, s).hits <= WebhookMax
           error == "Too many webhook requests from this IP"
<1>1. /\ webhookStore' = [webhookStore EXCEPT ![s] = Increment(webhookStore, s)]
      /\ limiterLog' = [limiterLog EXCEPT ![s] = Append(@, [at |-> now, passed |-> passed])]
      /\ UNCHANGED <<now, content, globalStore, sends, handed>>
      /\ Continue(r, "validating") \/ Reject(r, 429, error)
  BY DEF LimitWebhook
<1>2. "validating" \in Places /\ [status |-> 429, error |-> error] \in Answers
  BY DEF Places, Answers, Errors
<1>3. s \in Senders /\ passed \in BOOLEAN
  BY Types
<1>4. limiterLog \in [Senders -> Decisions]
  BY DEF ChecksInv, TypeOK
<1> HIDE DEF s, error, passed
<1>5. webhookStore' \in Stores /\ limiterLog' \in [Senders -> Decisions]
  BY <1>1, <1>3, <1>4, Types, IncrementTypes, LogTypes
<1>6. OnlyOf(r) /\ (pc'[r] = "validating" \/ (pc'[r] = "answered" /\ answer'[r].status = 429))
  BY <1>1, <1>2, Types, ContinueTypes, RejectTypes
<1> QED BY <1>1, <1>5, <1>6, Types DEF Reasoned, Explained, ChecksInv, TypeOK

LEMMA ValidateChecks ==
  ASSUME ChecksInv, NEW r \in Requests, Validate(r)
  PROVE  Reasoned(r)
<1> DEFINE verdict == Answer(content[r], now)
<1>1. /\ UNCHANGED <<now, content, stores, sends, limiterLog>>
      /\ \/ /\ verdict = Passed /\ Continue(r, "serving")
            /\ handed' = [handed EXCEPT ![r] = @ \cup {now}]
         \/ /\ verdict # Passed /\ Reject(r, verdict.status, verdict.error)
            /\ handed' = handed
  BY DEF Validate
<1>2. "serving" \in Places /\ (verdict # Passed => verdict \in Answers)
  BY Types, AnswersAgree DEF Places, Answers, AnswersOf
<1>3. handed \in [Requests -> SUBSET Times] /\ \A t \in handed[r] : Answer(content[r], t) = Passed
  BY DEF ChecksInv, TypeOK
<1>4. CASE verdict = Passed
  <2>1. OnlyOf(r) /\ pc'[r] = "serving"
    BY <1>1, <1>2, <1>4, Types, ContinueTypes
  <2>2. /\ handed' \in [Requests -> SUBSET Times] /\ handed'[r] # {}
        /\ \A q \in Requests : q # r => handed'[q] = handed[q]
        /\ \A t \in handed'[r] : Answer(content[r], t) = Passed
    BY <1>1, <1>3, <1>4, Types
  <2> QED BY <1>1, <2>1, <2>2, Types DEF Reasoned, ChecksInv, TypeOK, stores
<1>5. CASE verdict # Passed
  <2>1. verdict \in Answers /\ [status |-> verdict.status, error |-> verdict.error] = verdict
    BY <1>2, <1>5 DEF Answers
  <2>2. OnlyOf(r) /\ pc'[r] = "answered" /\ answer'[r] \in Answers
        /\ answer'[r].status = verdict.status /\ answer'[r].error = verdict.error
    BY <1>1, <1>5, <2>1, Types, RejectTypes
  <2>3. answer'[r] = verdict
    BY <2>1, <2>2 DEF Answers
  <2>4. Explained(r)'
    BY <1>1, <1>5, <2>3, Types DEF Explained
  <2> QED BY <1>1, <1>3, <1>5, <2>2, <2>4, Types DEF Reasoned, ChecksInv, TypeOK, stores
<1> QED BY <1>4, <1>5

LEMMA ServeChecks ==
  ASSUME ChecksInv, NEW r \in Requests, Serve(r)
  PROVE  Reasoned(r)
<1>1. /\ UNCHANGED <<now, content, stores, logs>> /\ pc[r] = "serving"
      /\ \E status \in {200, 202, 500} : Reject(r, status, "none")
  BY DEF Serve, ServiceStatuses
<1>2. PICK status \in {200, 202, 500} : Reject(r, status, "none")
  BY <1>1
<1>3. [status |-> status, error |-> "none"] \in Answers
  BY DEF Answers, Errors
<1>4. OnlyOf(r) /\ pc'[r] = "answered" /\ answer'[r].status = status
  BY <1>2, <1>3, Types, RejectTypes
<1>5. handed[r] # {}
  BY <1>1 DEF ChecksInv
<1> QED BY <1>1, <1>4, <1>5, Types DEF Reasoned, Explained, ChecksInv, TypeOK, stores, logs

LEMMA ChecksNext == ChecksInv /\ [Next]_vars => ChecksInv'
<1> SUFFICES ASSUME ChecksInv, [Next]_vars PROVE ChecksInv'
  OBVIOUS
<1>1. ASSUME now' \in Times, UNCHANGED <<content, pc, answer, handed, webhookStore, limiterLog>>,
             globalStore' \in Stores, sends' \in 0..MaxSends
      PROVE  ChecksInv'
  BY <1>1 DEF ChecksInv, TypeOK, Explained
<1>2. CASE Tick
  <2>1. now' \in Times
    BY <1>2, Positive DEF Tick, Times, ChecksInv, TypeOK
  <2> QED BY <1>1, <1>2, <2>1 DEF Tick, ChecksInv, TypeOK, stores, logs
<1>3. ASSUME NEW s \in Senders, HealthCheck(s)
      PROVE  ChecksInv'
  <2>1. globalStore \in Stores /\ now \in Times /\ sends \in 0..MaxSends
    BY DEF ChecksInv, TypeOK
  <2>2. globalStore' \in Stores /\ sends' \in 0..MaxSends
    <3>1. globalStore' \in Stores
      BY <1>3, <2>1, IncrementTypes DEF HealthCheck
    <3>2. sends' \in 0..MaxSends
      BY <1>3, <2>1, Positive DEF HealthCheck
    <3> QED BY <3>1, <3>2
  <2> QED BY <1>1, <1>3, <2>1, <2>2 DEF HealthCheck
<1>4. ASSUME NEW r \in Requests,
             Arrive(r) \/ ParseBody(r) \/ LimitWebhook(r) \/ Validate(r) \/ Serve(r)
      PROVE  ChecksInv'
  <2>1. Reasoned(r)
    BY <1>4, ArriveChecks, ParseBodyChecks, LimitWebhookChecks, ValidateChecks, ServeChecks
  <2> QED BY <2>1, ReasonedSteps
<1>5. CASE UNCHANGED vars
  BY <1>1, <1>5 DEF vars, stores, logs, ChecksInv, TypeOK
<1> QED BY <1>2, <1>3, <1>4, <1>5 DEF Next

(* ---------------------- what the invariant means ----------------------- *)

LEMMA FieldsAgree == ChecksInv => AcceptedIffWellFormed
<1> SUFFICES ASSUME ChecksInv, NEW r \in Requests
             PROVE  /\ Serving(r) => WellFormed(content[r])
                    /\ pc[r] = "answered" /\ answer[r].status \in {400, 401, 422} =>
                         \/ content[r].body = "invalid" \/ ~WellFormed(content[r])
                         \/ answer[r].error = "TIMESTAMP_EXPIRED"
  BY DEF AcceptedIffWellFormed
<1>1. content[r] \in Contents
  BY Types
<1>2. ASSUME Serving(r) PROVE WellFormed(content[r])
  <2>1. PICK t \in handed[r] : Answer(content[r], t) = Passed
    BY <1>2 DEF ChecksInv, Serving
  <2> QED BY <1>1, <2>1, AnswersAgree
<1>3. ASSUME pc[r] = "answered", answer[r].status \in {400, 401, 422},
             content[r].body # "invalid"
      PROVE  ~WellFormed(content[r]) \/ answer[r].error = "TIMESTAMP_EXPIRED"
  <2>1. PICK t \in Times : answer[r] = Answer(content[r], t) /\ answer[r] # Passed
    BY <1>3 DEF ChecksInv, Explained
  <2> QED BY <1>1, <2>1, AnswersAgree
<1> QED BY <1>2, <1>3

LEMMA BodiesMakeEvents == ChecksInv => EventIsTheBody
<1> SUFFICES ASSUME ChecksInv, NEW r \in Requests, Serving(r), content[r].path = GovPay
             PROVE  \A f \in DOMAIN EventSource(Parsed(content[r])) :
                      EventSource(Parsed(content[r]))[f] = "body"
  BY DEF EventIsTheBody
<1>1. content[r] \in Contents
  BY Types
<1>2. PICK t \in handed[r] : Answer(content[r], t) = Passed
  BY DEF ChecksInv, Serving
<1> QED BY <1>1, <1>2, AnswersAgree, EventIsBody

LEMMA HandedIfPositive == ChecksInv => NoSilentRefusal
<1> SUFFICES ASSUME ChecksInv, NEW r \in Requests,
                    pc[r] = "answered", answer[r].status \in 200..299, handed[r] = {}
             PROVE  FALSE
  BY DEF NoSilentRefusal
<1>1. content[r] \in Contents
  BY Types
<1>2. PICK t \in Times : answer[r] = Answer(content[r], t) /\ answer[r] # Passed
  BY DEF ChecksInv, Explained
<1>3. answer[r].status \in {400, 401, 422}
  BY <1>1, <1>2, AnswersAgree DEF AnswersOf
<1> QED BY <1>3

LEMMA HandedWhileFresh == ChecksInv => ReplayHorizon
<1> SUFFICES ASSUME ChecksInv, NEW q \in Requests, NEW r \in Requests,
                    content[q] = content[r], content[r].path = Bacs,
                    NEW t \in handed[q], NEW u \in handed[r]
             PROVE  t - u <= 2 * FreshnessWindow
  BY DEF ReplayHorizon
<1>1. content[r] \in Contents /\ content[r].signedAt \in Nat
  BY Types, ContentsAreMessages
<1>2. Answer(content[r], t) = Passed /\ Answer(content[r], u) = Passed
  BY DEF ChecksInv
<1>3. t \in Times /\ u \in Times
  BY DEF ChecksInv, TypeOK
<1>4. Fresh(content[r].signedAt, t) /\ Fresh(content[r].signedAt, u)
  BY <1>1, <1>2, AnswersAgree
<1> QED BY <1>1, <1>3, <1>4, Positive DEF Fresh, Times

(* ------------------------------ theorems ------------------------------- *)

\* The middlewares' chain with its invariant: what was handed to a service
\* passed every check when it was, and each answer has its reason.
THEOREM ChecksInductive == Spec => []ChecksInv
BY ChecksInit, ChecksNext, PTL DEF Spec

\* TypeOK of RequestPipeline.
THEOREM PipelineTypes == Spec => []TypeOK
<1>1. ChecksInv => TypeOK
  BY DEF ChecksInv
<1> QED BY <1>1, ChecksInductive, PTL

\* However the values of a message are combined: the middlewares and the
\* controller agree with the table of well-formed fields.
THEOREM ChecksAgree == Spec => []AcceptedIffWellFormed
BY FieldsAgree, ChecksInductive, PTL

\* parseWebhookEvent's defaults and substitutes never reach the service.
THEOREM EventsAreBodies == Spec => []EventIsTheBody
BY BodiesMakeEvents, ChecksInductive, PTL

\* No 2xx without the service: the controllers' own 202s are never reached.
THEOREM RefusalsAreSeen == Spec => []NoSilentRefusal
BY HandedIfPositive, ChecksInductive, PTL

\* A signed message is handed over within the freshness window around its
\* timestamp only, so two such moments are at most two windows apart.
THEOREM ReplaysEnd == Spec => []ReplayHorizon
BY HandedWhileFresh, ChecksInductive, PTL
========================================================================
