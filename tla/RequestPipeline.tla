------------------------ MODULE RequestPipeline ------------------------
(* Requests on their way to the controllers: the global rate limiter, the    *)
(* body parser, the router, the webhook rate limiter, and the validation of  *)
(* the endpoint, up to the call of its service (see WebhookIngest).          *)
(*                                                                           *)
(* A request is a slot for one message, which its sender may send again,     *)
(* byte for byte, once it was answered.  A step is what the process does     *)
(* between two awaits; the clock may move between any two steps.             *)
EXTENDS WebhookValidation, Sequences

CONSTANTS
  Requests,       \* slots
  Senders,        \* req.ip values, the keys of the rate limiters
  Contents,       \* messages: path, body, values, signedAt and sender
  RateLimitMax,   \* config.server.rateLimitMax
  RateWindow,     \* config.server.rateLimitWindowMs, in ticks
  MaxTime,        \* bound: ticks of the clock
  MaxSends        \* bound: requests that arrive, health checks included

ASSUME PositiveLimits ==
  /\ RateLimitMax \in Nat \ {0} /\ RateWindow \in Nat \ {0}
  /\ FreshnessWindow \in Nat /\ MaxTime \in Nat /\ MaxSends \in Nat

Places == {"unsent", "parsing", "limiting", "validating", "serving", "answered"}

\* Content-Type and what the parser makes of the bytes.
Bodies == {"json", "form", "none", "invalid", "tooLarge"}

\* A message may give its values any of their kinds.
ASSUME ContentsAreMessages ==
  \A m \in Contents :
    /\ m.path \in {GovPay, Bacs} /\ m.body \in Bodies
    /\ m.sender \in Senders /\ m.signedAt \in Nat
    /\ \A f \in Fields(m.path) \cap DOMAIN m.values : m.values[f] \in KindsOf(f)

VARIABLES
  now,
  content,      \* the message of each slot
  pc,           \* what happens to it next
  answer,       \* the last answer it got
  globalStore,  \* globalRateLimiter: hits and reset time by sender
  webhookStore, \* webhookRateLimiter, likewise
  sends,        \* requests that arrived so far
  limiterLog,   \* by sender, what webhookRateLimiter decided, and when
  handed        \* by slot, when it was handed to its service

stores == <<globalStore, webhookStore>>
logs == <<sends, limiterLog, handed>>
vars == <<now, content, pc, answer, stores, logs>>

Times == 0..MaxTime

\* What the answers say.
Errors ==
  {"none", "Too many requests", "Too many webhook requests from this IP",
   "Invalid JSON in request body", "Internal server error",
   "MISSING_SIGNATURE", "INVALID_SIGNATURE", "INVALID_SIGNATURE_FORMAT",
   "INVALID_TIMESTAMP", "INVALID_TIMESTAMP_FORMAT", "TIMESTAMP_EXPIRED",
   "UNSUPPORTED_VERSION", "INVALID_WEBHOOK_ID", "INVALID_WEBHOOK_STRUCTURE",
   "INVALID_PAYMENT_ID", "VALIDATION_ERROR", "Invalid webhook payload",
   "Invalid webhook event structure", "Missing or invalid payment ID",
   "Missing or invalid payment reference"}

\* Status 0 stands for no answer yet.
Answers == [status : {0, 200, 202, 400, 401, 422, 429, 500}, error : Errors]

\* Decisions of a limiter, in order.
Decisions == Seq([at : Times, passed : BOOLEAN])

Stores == [Senders -> [hits : Nat, resetTime : 0..(MaxTime + RateWindow)]]

TypeOK ==
  /\ now \in Times
  /\ \A r \in Requests :
       content[r].path \in {GovPay, Bacs} /\ content[r].sender \in Senders
  /\ pc \in [Requests -> Places]
  /\ answer \in [Requests -> Answers]
  /\ globalStore \in Stores /\ webhookStore \in Stores
  /\ sends \in 0..MaxSends
  /\ limiterLog \in [Senders -> Decisions]
  /\ handed \in [Requests -> SUBSET Times]

Init ==
  /\ now = 0
  /\ content \in [Requests -> Contents]
  /\ pc = [r \in Requests |-> "unsent"]
  /\ answer = [r \in Requests |-> Passed]
  /\ globalStore = [s \in Senders |-> [hits |-> 0, resetTime |-> 0]]
  /\ webhookStore = [s \in Senders |-> [hits |-> 0, resetTime |-> 0]]
  /\ sends = 0
  /\ limiterLog = [s \in Senders |-> <<>>]
  /\ handed = [r \in Requests |-> {}]

Tick ==
  /\ now < MaxTime
  /\ now' = now + 1
  /\ UNCHANGED <<content, pc, answer, stores, logs>>

Reject(r, status, error) ==
  /\ answer' = [answer EXCEPT ![r] = [status |-> status, error |-> error]]
  /\ pc' = [pc EXCEPT ![r] = "answered"]

Continue(r, place) ==
  /\ pc' = [pc EXCEPT ![r] = place]
  /\ UNCHANGED answer

(* ---------------------------- rate limiting --------------------------- *)

\* MemoryStore.increment: a window begins with the first hit after the last.
Increment(store, s) ==
  IF store[s].resetTime <= now
  THEN [hits |-> 1, resetTime |-> now + RateWindow]
  ELSE [store[s] EXCEPT !.hits = @ + 1]

GlobalMax == RateLimitMax

\* Mutant: the webhook limiter has the global limit.
WebhookMaxUnhalved == RateLimitMax

WebhookMax == Max({1, RateLimitMax \div 2})

\* registerMiddleware: globalRateLimiter comes before the body is read.
Arrive(r) ==
  LET s == content[r].sender
      entry == Increment(globalStore, s)
  IN
  /\ pc[r] \in {"unsent", "answered"} /\ sends < MaxSends
  /\ sends' = sends + 1
  /\ globalStore' = [globalStore EXCEPT ![s] = entry]
  /\ \/ entry.hits <= GlobalMax /\ Continue(r, "parsing")
     \/ entry.hits > GlobalMax /\ Reject(r, 429, "Too many requests")
  /\ UNCHANGED <<now, content, webhookStore, limiterLog, handed>>

\* A GET of a health endpoint: it counts for the global limiter alone.
HealthCheck(s) ==
  /\ sends < MaxSends
  /\ sends' = sends + 1
  /\ globalStore' = [globalStore EXCEPT ![s] = Increment(globalStore, s)]
  /\ UNCHANGED <<now, content, pc, answer, webhookStore, limiterLog, handed>>

\* express.json and express.urlencoded, both limited to 1 MB; their errors go
\* to the error handler, past the routes.
ParseBody(r) ==
  /\ pc[r] = "parsing"
  /\ \/ content[r].body = "invalid" /\ Reject(r, 400, "Invalid JSON in request body")
     \/ content[r].body = "tooLarge" /\ Reject(r, 500, "Internal server error")
     \/ content[r].body \notin {"invalid", "tooLarge"} /\ Continue(r, "limiting")
  /\ UNCHANGED <<now, content, stores, logs>>

\* Mutant: every hit begins a new window.
LimitWebhookSliding(r) ==
  LET s == content[r].sender
      entry == [Increment(webhookStore, s) EXCEPT !.resetTime = now + RateWindow]
      passed == entry.hits <= WebhookMax
  IN
  /\ pc[r] = "limiting"
  /\ webhookStore' = [webhookStore EXCEPT ![s] = entry]
  /\ limiterLog' = [limiterLog EXCEPT ![s] = Append(@, [at |-> now, passed |-> passed])]
  /\ \/ passed /\ Continue(r, "validating")
     \/ ~passed /\ Reject(r, 429, "Too many webhook requests from this IP")
  /\ UNCHANGED <<now, content, globalStore, sends, handed>>

LimitWebhook(r) ==
  LET s == content[r].sender
      entry == Increment(webhookStore, s)
      passed == entry.hits <= WebhookMax
  IN
  /\ pc[r] = "limiting"
  /\ webhookStore' = [webhookStore EXCEPT ![s] = entry]
  /\ limiterLog' = [limiterLog EXCEPT ![s] = Append(@, [at |-> now, passed |-> passed])]
  /\ \/ passed /\ Continue(r, "validating")
     \/ ~passed /\ Reject(r, 429, "Too many webhook requests from this IP")
  /\ UNCHANGED <<now, content, globalStore, sends, handed>>

(* ------------------------- validation and service --------------------- *)

\* Signature middleware, payload middleware and the checks of the controller.
Validate(r) ==
  LET verdict == Answer(content[r], now) IN
  /\ pc[r] = "validating"
  /\ \/ /\ verdict = Passed
        /\ handed' = [handed EXCEPT ![r] = @ \cup {now}]
        /\ Continue(r, "serving")
     \/ /\ verdict # Passed
        /\ Reject(r, verdict.status, verdict.error)
        /\ UNCHANGED handed
  /\ UNCHANGED <<now, content, stores, sends, limiterLog>>

\* What the controllers answer to their services' results.
ServiceStatuses(path) == IF path = GovPay THEN {202} ELSE {200, 202, 500}

Serve(r) ==
  /\ pc[r] = "serving"
  /\ \E status \in ServiceStatuses(content[r].path) : Reject(r, status, "none")
  /\ UNCHANGED <<now, content, stores, logs>>

Next ==
  \/ Tick
  \/ \E r \in Requests :
       Arrive(r) \/ ParseBody(r) \/ LimitWebhook(r) \/ Validate(r) \/ Serve(r)
  \/ \E s \in Senders : HealthCheck(s)

Spec == Init /\ [][Next]_vars

(* ----------------------------- properties ---------------------------- *)

Serving(r) == pc[r] = "serving"

\* What a well-formed value of a field is, whichever middleware looks at it.
GovPayAllowed(f) ==
  IF f \in {"resource.description", "resource.reference", "resource.payment_id",
            "resource.payment_provider", "resource_id"} THEN {"good", "text", "long"}
  ELSE IF f \in Dates THEN {"good", "looseDate"}
  ELSE IF f = "api_version" THEN {"good", "zero"}
  ELSE IF f \in {"resource.email", "card_details.expiry_date", "card_details.card_type"}
  THEN {"good", "absent", "null", "empty"}
  ELSE IF f = "resource.card_details" THEN {"good", "absent", "null", "text"}
  ELSE {"good"}

BacsAllowed(f) ==
  IF f \in {"source", "paymentReference", "bacsReference"}
  THEN {"good", "text", "blank"} \cup (IF f = "paymentReference" THEN {} ELSE {"long"})
         \cup (IF f = "bacsReference" THEN {"absent"} ELSE {})
  ELSE IF f = "amount" THEN {"good", "numeric"}
  ELSE IF f = "attemptNumber" THEN {"good", "numeric", "absent"}
  ELSE IF f \in {"callback", "deliveryId"} THEN {"good", "absent"}
  ELSE IF f = "unknownKey" THEN {"absent"}
  ELSE {"good"}

\* The fields of an optional object that is not there.
Ignored(p, f) ==
  \/ /\ f \in {"card_details.expiry_date", "card_details.card_type"}
     /\ p["resource.card_details"] # "good"
  \/ f \in {"deliveryId", "attemptNumber"} /\ p["callback"] # "good"

WellFormed(request) ==
  LET p == Parsed(request) IN
  \A f \in Fields(request.path) :
    Ignored(p, f)
      \/ p[f] \in (IF request.path = GovPay THEN GovPayAllowed(f) ELSE BacsAllowed(f))

\* Three middlewares and a controller, each with its own checks, agree with one
\* table of well-formed fields: what is handed to a service is well-formed, and
\* the answers 401 and 422, and 400, are for what is not, or for a stale timestamp.
AcceptedIffWellFormed ==
  \A r \in Requests :
    /\ Serving(r) => WellFormed(content[r])
    /\ pc[r] = "answered" /\ answer[r].status \in {400, 401, 422} =>
         \/ content[r].body = "invalid" \/ ~WellFormed(content[r])
         \/ answer[r].error = "TIMESTAMP_EXPIRED"

\* The event the signature middleware built with defaults, substitutes and
\* conversions is, once the payload middleware let it pass, the body as it was
\* sent: nothing is stored under 'unknown', or with a made-up date or version.
EventIsTheBody ==
  \A r \in Requests :
    Serving(r) /\ content[r].path = GovPay =>
      LET source == EventSource(Parsed(content[r])) IN
      \A f \in DOMAIN source : source[f] = "body"

\* The senders take 2xx for an acknowledgement: no message is answered so
\* without ever having reached its service.
NoSilentRefusal ==
  \A r \in Requests :
    pc[r] = "answered" /\ answer[r].status \in 200..299 => handed[r] # {}

\* The same signed BACS message is handed to the service only over a span of
\* twice the freshness window, whatever the sender's clock says.
ReplayHorizon ==
  \A q, r \in Requests :
    content[q] = content[r] /\ content[r].path = Bacs =>
      \A t \in handed[q], u \in handed[r] : t - u <= 2 * FreshnessWindow

\* In any span of a window's length, not only in the limiter's own windows, the
\* webhook limiter lets a sender through no more than twice its limit, which is
\* rateLimitMax, or two.
AdmissionBound ==
  \A s \in Senders : \A t \in Times :
    Cardinality({i \in DOMAIN limiterLog[s] :
                   limiterLog[s][i].passed /\ limiterLog[s][i].at \in t..(t + RateWindow - 1)})
      <= Max({2, RateLimitMax})

\* A sender that keeps sending is not kept out: between two refusals a window
\* apart the webhook limiter lets one of its requests through.
NeverLockedOut ==
  \A s \in Senders :
    LET log == limiterLog[s] IN
    \A i, j \in DOMAIN log :
      ~log[i].passed /\ ~log[j].passed /\ log[j].at >= log[i].at + RateWindow =>
        \E k \in i..j : log[k].passed
========================================================================
