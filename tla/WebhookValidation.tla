----------------------- MODULE WebhookValidation -----------------------
(* What the middlewares and controllers of the two webhook endpoints make of *)
(* one request.  A request has a kind of value for each header and each body *)
(* field of its endpoint, given as a function on the fields that are not as  *)
(* documented; every check of the code is about the kind.                    *)
EXTENDS Integers, FiniteSetsExt

CONSTANT FreshnessWindow    \* TIMESTAMP_WINDOW_MS, in ticks of the clock

GovPay == "/callback/payment"
Bacs == "/webhooks/bacs/payments"

(* ------------------------------- requests ----------------------------- *)

GovPayStrings ==
  {"webhook_message_id", "created_date", "resource_id", "resource_type", "event_type",
   "resource.description", "resource.reference", "resource.payment_id",
   "resource.payment_provider", "resource.created_date", "resource.email",
   "state.status", "card_details.expiry_date", "card_details.card_type"}

GovPayNumbers == {"api_version", "resource.amount"}

GovPayObjects == {"resource", "resource.state", "resource.card_details"}

BacsStrings ==
  {"eventId", "eventType", "eventVersion", "occurredAt", "source", "deliveryId",
   "paymentReference", "status", "currency", "paymentDate", "bacsReference", "unknownKey"}

BacsNumbers == {"attemptNumber", "amount"}

BacsObjects == {"event", "callback", "payment", "detail"}

Strings == GovPayStrings \cup BacsStrings
Numbers == GovPayNumbers \cup BacsNumbers
Booleans == {"state.finished"}
Objects == GovPayObjects \cup BacsObjects
Headers == {"signature", "timestamp", "version"}
Dates == {"created_date", "resource.created_date"}

GovPayBody == GovPayStrings \cup GovPayNumbers \cup GovPayObjects \cup Booleans
BacsBody == BacsStrings \cup BacsNumbers \cup BacsObjects

Fields(path) ==
  IF path = GovPay THEN {"signature"} \cup GovPayBody ELSE Headers \cup BacsBody

\* "good" is what the endpoint's documentation asks for in the field.  "long" is
\* a string above the limit of its own field, 100 characters in paymentReference
\* and 254 in the email, and any string of more than 254 in a field that has no
\* limit.  "text" and "number" are any other non-blank string or number,
\* "numeric" is a number in a string, "looseDate" a date that Date parses though
\* it is not ISO 8601, "impossible" a timestamp of the right shape that is no
\* date, and "wrong" a signature by another key.
KindsOf(f) ==
  {"absent", "good", "text"} \cup
    (IF f = "signature" THEN {"wrong"}
     ELSE IF f = "timestamp" THEN {"impossible"}
     ELSE IF f = "version" THEN {}
     ELSE {"null"} \cup
       (IF f \in Strings THEN {"empty", "blank", "long", "number"}
        ELSE IF f \in Numbers THEN {"numeric", "zero"} ELSE {}) \cup
       (IF f \in Dates THEN {"looseDate"} ELSE {}))

Truthy(k) == k \notin {"absent", "null", "empty", "zero"}

\* typeof
TypeOf(f, k) ==
  IF k \in {"empty", "blank", "text", "long", "numeric", "looseDate"} THEN "string"
  ELSE IF k \in {"number", "zero"} THEN "number"
  ELSE IF k = "absent" THEN "undefined"
  ELSE IF k = "null" THEN "object"
  ELSE IF f \in Strings THEN "string"
  ELSE IF f \in Numbers THEN "number"
  ELSE IF f \in Booleans THEN "boolean" ELSE "object"

\* What express.urlencoded makes of a leaf: a string, whatever was meant.
AsFormValue(f, k) ==
  IF f \in Numbers /\ k = "good" THEN "numeric"
  ELSE IF k \in {"number", "zero"} \/ (f \in Booleans /\ k = "good") THEN "text"
  ELSE IF k = "null" THEN "empty" ELSE k

\* What the endpoint's documentation asks for; it knows no further keys.
Documented(f) == IF f = "unknownKey" THEN "absent" ELSE "good"

\* req.headers and req.body: the JSON object, the form, or {} without a body.
Parsed(request) ==
  [f \in Fields(request.path) |->
     LET k == IF f \in DOMAIN request.values THEN request.values[f] ELSE Documented(f) IN
     IF f \in Headers \/ request.body = "json" THEN k
     ELSE IF request.body = "form" THEN AsFormValue(f, k)
     ELSE "absent"]

\* The answer of the first check that fails, if any does.
Passed == [status |-> 0, error |-> "none"]

Check(ok, status, error) == [ok |-> ok, answer |-> [status |-> status, error |-> error]]

FirstFailure(checks) ==
  LET failing == {i \in DOMAIN checks : ~checks[i].ok} IN
  IF failing = {} THEN Passed ELSE checks[Min(failing)].answer

(* ------------------------------ GOV.UK Pay ---------------------------- *)

\* webhook_message_id is taken only in the format of GOV.UK Pay.
WebhookIdOk(p) == p["webhook_message_id"] = "good"

\* The error names the id only when there is a string that could be one.
WebhookIdError(p) ==
  IF Truthy(p["webhook_message_id"])
       /\ TypeOf("webhook_message_id", p["webhook_message_id"]) = "string"
  THEN "INVALID_WEBHOOK_ID" ELSE "INVALID_SIGNATURE"

\* parseWebhookEvent returns an event rather than null.
Parses(p) ==
  /\ \A f \in {"webhook_message_id", "event_type", "resource"} : Truthy(p[f])
  /\ \A f \in {"webhook_message_id", "event_type"} : TypeOf(f, p[f]) = "string"

\* Where parseWebhookEvent takes a field of the event from: the body as it is,
\* the body converted, another field, or a default.
EventSource(p) ==
  LET text(f) == IF ~Truthy(p[f]) THEN "default"
                 ELSE IF TypeOf(f, p[f]) = "string" THEN "body" ELSE "converted"
  IN
  [webhook_message_id |-> "body",
   event_type |-> "body",
   resource |-> "body",
   api_version |-> IF TypeOf("api_version", p["api_version"]) = "number"
                   THEN "body" ELSE "default",
   created_date |-> text("created_date"),
   resource_type |-> text("resource_type"),
   resource_id |-> IF Truthy(p["resource_id"]) THEN text("resource_id")
                   ELSE IF p["resource"] = "good" /\ Truthy(p["resource.payment_id"])
                   THEN "resource.payment_id" ELSE "default"]

\* extractPaymentIdFromEvent: String() never leaves resource_id empty here.
PaymentIdFound(p) == Parses(p)

GovPaySignatureAnswer(p) ==
  FirstFailure(<<
    Check(p["signature"] # "absent", 401, "INVALID_SIGNATURE"),
    Check(WebhookIdOk(p), 401, WebhookIdError(p)),
    Check(p["signature"] = "good", 401, "INVALID_SIGNATURE"),
    Check(Parses(p), 401, "INVALID_WEBHOOK_STRUCTURE"),
    Check(PaymentIdFound(p), 401, "INVALID_PAYMENT_ID") >>)

RequiredString(p, f) ==
  Truthy(p[f]) /\ TypeOf(f, p[f]) = "string" /\ p[f] # "blank"

RequiredNumber(p, f) == p[f] \notin {"absent", "null"} /\ TypeOf(f, p[f]) = "number"

RequiredBoolean(p, f) == p[f] \notin {"absent", "null"} /\ TypeOf(f, p[f]) = "boolean"

\* A value of a known set, or of a format, unless it is falsy.
Recognised(p, f) == Truthy(p[f]) => p[f] = "good"

\* isValidISODate: anything Date can make a time of.
IsDate(p, f) == Truthy(p[f]) => p[f] \in {"good", "looseDate", "number"}

CardDetailsOk(p) ==
  \A f \in {"card_details.expiry_date", "card_details.card_type"} : Recognised(p, f)

\* Mutant: the state object is not looked into.
PaymentStateAnything(p) == TRUE

PaymentStateOk(p) ==
  /\ RequiredString(p, "state.status")
  /\ RequiredBoolean(p, "state.finished")
  /\ Recognised(p, "state.status")

PaymentResourceOk(p) ==
  /\ RequiredNumber(p, "resource.amount")
  /\ \A f \in {"resource.description", "resource.reference", "resource.payment_id",
               "resource.payment_provider", "resource.created_date"} : RequiredString(p, f)
  /\ p["resource.amount"] # "zero"
  /\ Recognised(p, "resource.email")
  /\ p["resource.state"] = "good" /\ PaymentStateOk(p)
  /\ IsDate(p, "resource.created_date")
  /\ p["resource.card_details"] = "good" => CardDetailsOk(p)

\* Mutant: resource_id forgotten, as parseWebhookEvent finds a substitute.
RequiredRootStringsButId ==
  {"webhook_message_id", "created_date", "resource_type", "event_type"}

RequiredRootStrings ==
  {"webhook_message_id", "created_date", "resource_id", "resource_type", "event_type"}

\* validateWebhookPayload collects every error; one is enough.
GovPayPayloadAnswer(p) ==
  FirstFailure(<<
    Check(/\ \A f \in RequiredRootStrings : RequiredString(p, f)
          /\ RequiredNumber(p, "api_version")
          /\ Recognised(p, "resource_type")
          /\ Recognised(p, "event_type")
          /\ IsDate(p, "created_date")
          /\ p["resource"] = "good" /\ PaymentResourceOk(p),
          400, "Invalid webhook payload") >>)

\* handleWebhookInternal looks at req.webhookEvent and req.paymentId again.
GovPayControllerAnswer(p) ==
  FirstFailure(<<
    Check(Parses(p), 202, "Invalid webhook event structure"),
    Check(PaymentIdFound(p), 202, "Missing or invalid payment ID") >>)

(* --------------------------------- BACS ------------------------------- *)

\* Mutant: the difference is not taken absolutely.
FreshUnlessOld(signedAt, now) == now - signedAt <= FreshnessWindow

Fresh(signedAt, now) ==
  now - signedAt <= FreshnessWindow /\ signedAt - now <= FreshnessWindow

\* The signature covers timestamp and body.  A body is never empty here: the
\* absence of one is {}.
BacsSignatureAnswer(p, signedAt, now) ==
  FirstFailure(<<
    Check(p["signature"] # "absent", 401, "MISSING_SIGNATURE"),
    Check(p["signature"] # "text", 401, "INVALID_SIGNATURE_FORMAT"),
    Check(p["timestamp"] # "absent", 401, "INVALID_TIMESTAMP"),
    Check(p["version"] = "good", 400, "UNSUPPORTED_VERSION"),
    Check(p["signature"] = "good", 401, "INVALID_SIGNATURE"),
    Check(p["timestamp"] # "text", 401, "INVALID_TIMESTAMP_FORMAT"),
    Check(p["timestamp"] # "impossible" /\ Fresh(signedAt, now), 401, "TIMESTAMP_EXPIRED") >>)

\* Joi.string(): '' is none, whitespace is one.  Joi.string().valid(...) and
\* .regex(...) then ask for "good".
JoiString(p, f) == TypeOf(f, p[f]) = "string" /\ p[f] # "empty"

\* Joi.number() converts what it validates, so a number in a string is one.
JoiNumber(p, f) == p[f] \in {"good", "numeric"}

JoiOptional(p, f, ok) == p[f] = "absent" \/ ok

EventSectionOk(p) ==
  /\ p["event"] = "good"
  /\ \A f \in {"eventId", "eventType", "eventVersion", "occurredAt"} : p[f] = "good"
  /\ JoiString(p, "source")

CallbackSectionOk(p) ==
  /\ p["callback"] = "good"
  /\ JoiOptional(p, "deliveryId", p["deliveryId"] = "good")
  /\ JoiOptional(p, "attemptNumber", JoiNumber(p, "attemptNumber"))

\* Mutant: paymentReference is optional.
PaymentSectionOptional(p) ==
  /\ p["payment"] = "good"
  /\ JoiOptional(p, "paymentReference",
                 JoiString(p, "paymentReference") /\ p["paymentReference"] # "long")

PaymentSectionOk(p) ==
  /\ p["payment"] = "good"
  /\ JoiString(p, "paymentReference") /\ p["paymentReference"] # "long"

DetailSectionOk(p) ==
  /\ p["detail"] = "good"
  /\ \A f \in {"status", "currency", "paymentDate"} : p[f] = "good"
  /\ JoiNumber(p, "amount")
  /\ JoiOptional(p, "bacsReference", JoiString(p, "bacsReference"))

\* bacsWebhookSchema, with no unknown keys.
BacsPayloadAnswer(p) ==
  FirstFailure(<<
    Check(/\ EventSectionOk(p)
          /\ JoiOptional(p, "callback", CallbackSectionOk(p))
          /\ PaymentSectionOk(p)
          /\ DetailSectionOk(p)
          /\ p["unknownKey"] = "absent",
          422, "VALIDATION_ERROR") >>)

\* handleBACSWebhookInternal looks at req.paymentId again.
BacsControllerAnswer(p) ==
  FirstFailure(<<
    Check(JoiString(p, "paymentReference"), 202, "Missing or invalid payment reference") >>)

(* ------------------------------ the chain ----------------------------- *)

\* The route's middlewares up to the service call of its controller, which run
\* without an await: the first answer that is given, or Passed.
Answer(request, now) ==
  LET p == Parsed(request)
      answers == IF request.path = GovPay
                 THEN <<GovPaySignatureAnswer(p), GovPayPayloadAnswer(p),
                        GovPayControllerAnswer(p)>>
                 ELSE <<BacsSignatureAnswer(p, request.signedAt, now), BacsPayloadAnswer(p),
                        BacsControllerAnswer(p)>>
  IN FirstFailure([i \in 1..3 |->
       [ok |-> answers[i] = Passed, answer |-> answers[i]]])
========================================================================
