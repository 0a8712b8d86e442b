------------------------ MODULE RateLimitProofs ------------------------
(* Proofs about the webhook rate limiter of RequestPipeline, for any limit,  *)
(* window, clock and numbers of senders, messages and requests.              *)
EXTENDS RequestPipeline, FiniteSetTheorems, TLAPS

(* ----------------------------- arithmetic ----------------------------- *)

LEMMA MaxOfTwo ==
  ASSUME NEW a \in Int, NEW b \in Int
  PROVE  Max({a, b}) \in {a, b} /\ Max({a, b}) >= a /\ Max({a, b}) >= b
<1>1. \E x \in {a, b} : \A y \in {a, b} : x >= y
  <2>1. CASE a >= b
    BY <2>1
  <2>2. CASE ~(a >= b)
    BY <2>2
  <2> QED BY <2>1, <2>2
<1>2. Max({a, b}) \in {a, b} /\ \A y \in {a, b} : Max({a, b}) >= y
  BY <1>1 DEF Max
<1> QED BY <1>2

\* Half the limit, rounded down and at least one, twice is the limit, or two.
LEMMA TwiceTheLimit ==
  /\ WebhookMax \in Nat /\ WebhookMax >= 1
  /\ 2 * WebhookMax <= Max({2, RateLimitMax}) /\ Max({2, RateLimitMax}) \in Int
<1>1. /\ RateLimitMax \in Nat /\ RateLimitMax \div 2 \in Nat
      /\ 2 * (RateLimitMax \div 2) <= RateLimitMax
  BY PositiveLimits
<1>2. /\ WebhookMax \in {1, RateLimitMax \div 2}
      /\ WebhookMax >= 1
  BY <1>1, MaxOfTwo DEF WebhookMax
<1>3. Max({2, RateLimitMax}) \in Int /\ Max({2, RateLimitMax}) >= 2
      /\ Max({2, RateLimitMax}) >= RateLimitMax
  BY <1>1, MaxOfTwo
<1> QED BY <1>1, <1>2, <1>3

(* ------------------------------ windows ------------------------------- *)

\* The decisions of a log that a limiter took in the window that began at a and
\* that let the request through.
Passes(log, start, a) == {i \in DOMAIN log : log[i].passed /\ start[i] = a}

\* start gives each decision of a log its window: windows are RateWindow long
\* and do not overlap, each begins with a request that passes, and no more than
\* WebhookMax pass in it.
Windows(log, start) ==
  /\ start \in [DOMAIN log -> Nat]
  /\ \A i \in DOMAIN log : start[i] <= log[i].at /\ log[i].at < start[i] + RateWindow
  /\ \A i, j \in DOMAIN log :
       i <= j => start[i] = start[j] \/ start[i] + RateWindow <= start[j]
  /\ \A i \in DOMAIN log :
       \E k \in DOMAIN log : k <= i /\ start[k] = start[i] /\ log[k].passed
  /\ \A a \in Nat : Cardinality(Passes(log, start, a)) <= WebhookMax

\* The last of them is the one the store counts.
LastWindow(log, start, entry, time) ==
  /\ \A i \in DOMAIN log : log[i].at <= time
  /\ log = <<>> => entry.resetTime = 0
  /\ log # <<>> =>
       /\ entry.resetTime = start[Len(log)] + RateWindow
       /\ Cardinality(Passes(log, start, start[Len(log)])) <= entry.hits

LimiterInv ==
  /\ now \in Times
  /\ content \in [Requests -> Contents]
  /\ limiterLog \in [Senders -> Decisions]
  /\ webhookStore \in [Senders -> [hits : Nat, resetTime : Nat]]
  /\ \A s \in Senders : \E start \in [DOMAIN limiterLog[s] -> Nat] :
       /\ Windows(limiterLog[s], start)
       /\ LastWindow(limiterLog[s], start, webhookStore[s], now)

LEMMA PassesAreFew ==
  ASSUME NEW log \in Decisions, NEW start, NEW a
  PROVE  IsFiniteSet(Passes(log, start, a)) /\ Cardinality(Passes(log, start, a)) \in Nat
<1>1. Len(log) \in Nat /\ DOMAIN log = 1..Len(log)
  BY DEF Decisions
<1>2. IsFiniteSet(1..Len(log))
  BY <1>1, FS_Interval
<1>3. IsFiniteSet(Passes(log, start, a))
  BY <1>1, <1>2, FS_Subset DEF Passes
<1> QED BY <1>3, FS_CardinalityType

LEMMA LogTypes ==
  ASSUME NEW log \in Decisions
  PROVE  /\ Len(log) \in Nat /\ DOMAIN log = 1..Len(log)
         /\ \A i \in 1..Len(log) : log[i].at \in Times /\ log[i].passed \in BOOLEAN
<1> DEFINE D == [at : Times, passed : BOOLEAN]
<1>1. log \in Seq(D)
  BY DEF Decisions
<1> HIDE DEF D
<1>2. Len(log) \in Nat /\ DOMAIN log = 1..Len(log) /\ \A i \in 1..Len(log) : log[i] \in D
  BY <1>1
<1> QED BY <1>2 DEF D

\* more is log with one more decision, in the window that began at a: the last
\* one of log, or a later one that this request opens.
Continues(more, log, start, d, a, limit) ==
  /\ more = Append(log, d)
  /\ a <= d.at /\ d.at < a + RateWindow
  /\ \A i \in DOMAIN log : start[i] = a \/ start[i] + RateWindow <= a
  /\ d.passed \/ (\E i \in DOMAIN log : start[i] = a)
  /\ Cardinality(Passes(log, start, a)) + 1 <= limit
  /\ d.passed => limit <= WebhookMax

LEMMA OneMoreDecision ==
  ASSUME NEW log \in Decisions, NEW start \in [DOMAIN log -> Nat], Windows(log, start),
         NEW d \in [at : Times, passed : BOOLEAN], NEW a \in Nat, NEW limit \in Nat,
         NEW more, Continues(more, log, start, d, a, limit)
  PROVE  \E begin \in [DOMAIN more -> Nat] :
           /\ Windows(more, begin) /\ begin[Len(more)] = a
           /\ Cardinality(Passes(more, begin, a)) <= limit
<1> DEFINE n == Len(log)
           begin == [i \in DOMAIN more |-> IF i \in DOMAIN log THEN start[i] ELSE a]
<1>1. /\ n \in Nat /\ DOMAIN log = 1..n
      /\ \A i \in 1..n : log[i].at \in Times /\ log[i].passed \in BOOLEAN
  BY LogTypes
<1> USE DEF Continues
<1>2. /\ more \in Decisions /\ Len(more) = n + 1 /\ DOMAIN more = 1..(n + 1)
      /\ more[n + 1] = d /\ \A i \in 1..n : more[i] = log[i]
  BY <1>1 DEF Decisions
<1>3. /\ \A i \in 1..n : begin[i] = start[i]
      /\ begin[n + 1] = a
      /\ begin \in [DOMAIN more -> Nat]
  BY <1>1, <1>2
<1>4. \A i \in 1..(n + 1) : i \in 1..n \/ i = n + 1
  BY <1>1
<1> HIDE DEF n, begin
<1>5. RateWindow \in Nat \ {0} /\ \A t \in Times : t \in Nat
  BY PositiveLimits DEF Times
<1>6. \A i \in DOMAIN more : begin[i] <= more[i].at /\ more[i].at < begin[i] + RateWindow
  <2>1. ASSUME NEW i \in 1..n
        PROVE  begin[i] <= more[i].at /\ more[i].at < begin[i] + RateWindow
    BY <1>1, <1>2, <1>3 DEF Windows
  <2>2. begin[n + 1] <= more[n + 1].at /\ more[n + 1].at < begin[n + 1] + RateWindow
    BY <1>2, <1>3
  <2> QED BY <1>2, <1>4, <2>1, <2>2
<1>7. \A i, j \in DOMAIN more :
        i <= j => begin[i] = begin[j] \/ begin[i] + RateWindow <= begin[j]
  <2> SUFFICES ASSUME NEW i \in DOMAIN more, NEW j \in DOMAIN more, i <= j
               PROVE  begin[i] = begin[j] \/ begin[i] + RateWindow <= begin[j]
    OBVIOUS
  <2>1. CASE j = n + 1
    BY <1>1, <1>2, <1>3, <1>4, <2>1
  <2>2. CASE j \in 1..n
    <3>1. i \in 1..n
      BY <1>1, <1>2, <2>2
    <3> QED BY <1>1, <1>3, <2>2, <3>1 DEF Windows
  <2> QED BY <1>2, <1>4, <2>1, <2>2
<1>8. \A i \in DOMAIN more :
        \E k \in DOMAIN more : k <= i /\ begin[k] = begin[i] /\ more[k].passed
  <2>1. ASSUME NEW i \in 1..n
        PROVE  \E k \in DOMAIN more : k <= i /\ begin[k] = begin[i] /\ more[k].passed
    <3>1. PICK k \in 1..n : k <= i /\ start[k] = start[i] /\ log[k].passed
      BY <1>1 DEF Windows
    <3>2. k \in DOMAIN more
      BY <1>1, <1>2
    <3>3. begin[k] = begin[i] /\ more[k].passed
      BY <1>2, <1>3, <3>1
    <3> QED BY <3>1, <3>2, <3>3
  <2>2. \E k \in DOMAIN more : k <= n + 1 /\ begin[k] = begin[n + 1] /\ more[k].passed
    <3>1. CASE d.passed
      BY <1>1, <1>2, <1>3, <3>1
    <3>2. CASE \E i \in DOMAIN log : start[i] = a
      <4>1. PICK i \in 1..n : start[i] = a
        BY <1>1, <3>2
      <4>2. PICK k \in DOMAIN more : k <= i /\ begin[k] = begin[i] /\ more[k].passed
        BY <2>1
      <4> QED BY <1>1, <1>2, <1>3, <4>1, <4>2
    <3> QED BY <3>1, <3>2
  <2> QED BY <1>2, <1>4, <2>1, <2>2
<1>9. ASSUME NEW b \in Nat, b # a
      PROVE  Passes(more, begin, b) = Passes(log, start, b)
  BY <1>1, <1>2, <1>3, <1>4, <1>9 DEF Passes
<1>10. Passes(more, begin, a) = IF d.passed THEN Passes(log, start, a) \cup {n + 1}
                                          ELSE Passes(log, start, a)
  BY <1>1, <1>2, <1>3, <1>4 DEF Passes
<1>11. /\ IsFiniteSet(Passes(log, start, a))
       /\ Cardinality(Passes(log, start, a)) \in Nat
       /\ n + 1 \notin Passes(log, start, a)
  <2>1. n + 1 \notin Passes(log, start, a)
    BY <1>1 DEF Passes
  <2> QED BY <2>1, PassesAreFew
<1>12. Cardinality(Passes(more, begin, a)) <= Cardinality(Passes(log, start, a)) + 1
  <2>1. CASE d.passed
    <3>1. Cardinality(Passes(log, start, a) \cup {n + 1})
            = Cardinality(Passes(log, start, a)) + 1
      BY <1>11, FS_AddElement
    <3>2. Passes(more, begin, a) = Passes(log, start, a) \cup {n + 1}
      BY <1>10, <2>1
    <3>3. Cardinality(Passes(more, begin, a)) = Cardinality(Passes(log, start, a)) + 1
      BY <3>1, <3>2, Zenon
    <3> QED BY <1>11, <3>3
  <2>2. CASE ~d.passed
    BY <1>10, <1>11, <2>2
  <2> QED BY <2>1, <2>2
<1>13. Cardinality(Passes(more, begin, a)) <= limit
  BY <1>11, <1>12, <1>2, PassesAreFew
<1>14. \A b \in Nat : Cardinality(Passes(more, begin, b)) <= WebhookMax
  <2>1. Cardinality(Passes(more, begin, a)) <= WebhookMax
    <3>1. CASE d.passed
      BY <1>13, <3>1, <1>2, PassesAreFew, TwiceTheLimit
    <3>2. CASE ~d.passed
      BY <1>10, <3>2 DEF Windows
    <3> QED BY <3>1, <3>2
  <2> QED BY <1>9, <2>1 DEF Windows
<1>15. Windows(more, begin)
  BY <1>3, <1>6, <1>7, <1>8, <1>14 DEF Windows
<1> QED BY <1>2, <1>3, <1>13, <1>15

(* --------------------------- the limiter ------------------------------ *)

\* The message of a slot.
LEMMA MessageOf ==
  ASSUME content \in [Requests -> Contents], NEW r \in Requests
  PROVE  /\ content[r] \in Contents /\ content[r].sender \in Senders
         /\ content[r].path \in {GovPay, Bacs} /\ content[r].signedAt \in Nat
         /\ content[r].body \in Bodies
BY ContentsAreMessages

\* A decision of webhookRateLimiter is one more in the window that the store
\* counts, or the first of a new one.
LEMMA DecisionIsLogged ==
  ASSUME LimiterInv, NEW r \in Requests, LimitWebhook(r)
  PROVE  LimiterInv'
<1> DEFINE s == content[r].sender
           log == limiterLog[s]
           entry == Increment(webhookStore, s)
           passed == entry.hits <= WebhookMax
           d == [at |-> now, passed |-> passed]
           more == Append(log, d)
<1>1. /\ s \in Senders /\ log \in Decisions /\ now \in Times /\ now \in Nat
      /\ webhookStore[s] \in [hits : Nat, resetTime : Nat]
      /\ RateWindow \in Nat \ {0}
  BY MessageOf, PositiveLimits DEF LimiterInv, Times
<1>2. /\ webhookStore' = [webhookStore EXCEPT ![s] = entry]
      /\ limiterLog' = [limiterLog EXCEPT ![s] = more]
      /\ UNCHANGED <<now, content>>
  BY DEF LimitWebhook
<1>3. entry \in [hits : Nat, resetTime : Nat]
  BY <1>1 DEF Increment
<1>4. more \in Decisions /\ more # <<>> /\ Len(more) = Len(log) + 1
      /\ \A i \in DOMAIN more : more[i].at = now \/ (i \in DOMAIN log /\ more[i] = log[i])
  <2> DEFINE D == [at : Times, passed : BOOLEAN]
  <2>1. d \in D /\ log \in Seq(D)
    BY <1>1 DEF Decisions
  <2> HIDE DEF d, D
  <2>2. more \in Seq(D) /\ more # <<>> /\ Len(more) = Len(log) + 1
        /\ \A i \in DOMAIN more : more[i] = d \/ (i \in DOMAIN log /\ more[i] = log[i])
    BY <2>1
  <2> QED BY <2>2 DEF D, d, Decisions
<1> HIDE DEF entry, s, log
<1>5. PICK start \in [DOMAIN log -> Nat] :
        Windows(log, start) /\ LastWindow(log, start, webhookStore[s], now)
  BY <1>1 DEF LimiterInv, log
<1>6. /\ more = Append(log, d) /\ d \in [at : Times, passed : BOOLEAN]
      /\ d.at = now /\ (d.passed <=> entry.hits <= WebhookMax)
  <2>1. d.at = now /\ d.passed = passed /\ passed \in BOOLEAN
    OBVIOUS
  <2>2. passed <=> entry.hits <= WebhookMax
    OBVIOUS
  <2> HIDE DEF passed
  <2> QED BY <1>1, <2>1, <2>2
<1> HIDE DEF more, d
<1>8. \E begin \in [DOMAIN more -> Nat] :
        Windows(more, begin) /\ LastWindow(more, begin, entry, now)
  <2>0. /\ Len(log) \in Nat /\ DOMAIN log = 1..Len(log)
        /\ \A i \in 1..Len(log) : log[i].at \in Nat /\ log[i].at <= now
        /\ log # <<>> => Len(log) > 0
    BY <1>1, <1>5, LogTypes DEF LastWindow, Times
  <2>1. \A i \in DOMAIN more : more[i].at <= now
    BY <1>1, <1>4, <2>0
  <2>2. \E a, limit \in Nat :
          /\ Continues(more, log, start, d, a, limit)
          /\ entry.resetTime = a + RateWindow /\ entry.hits = limit
    <3>1. CASE webhookStore[s].resetTime <= now
      <4>1. entry = [hits |-> 1, resetTime |-> now + RateWindow]
        BY <3>1 DEF entry, Increment
      <4>2. ASSUME NEW i \in DOMAIN log PROVE start[i] + RateWindow <= now
        <5>1. log # <<>> /\ i <= Len(log) /\ Len(log) \in DOMAIN log
          BY <2>0
        <5>2. start[Len(log)] + RateWindow <= now
          BY <1>5, <3>1, <5>1 DEF LastWindow
        <5>3. start[i] = start[Len(log)] \/ start[i] + RateWindow <= start[Len(log)]
          BY <1>5, <5>1 DEF Windows
        <5>4. start[i] \in Nat /\ start[Len(log)] \in Nat
          BY <5>1
        <5> QED BY <1>1, <5>2, <5>3, <5>4
      <4>3. Passes(log, start, now) = {}
        <5>1. \A i \in DOMAIN log : start[i] # now
          BY <1>1, <4>2
        <5> QED BY <5>1 DEF Passes
      <4>4. Cardinality(Passes(log, start, now)) + 1 <= 1
        BY <4>3, FS_EmptySet
      <4>5. d.passed /\ 1 <= WebhookMax /\ now < now + RateWindow
        BY <1>1, <1>6, <4>1, TwiceTheLimit
      <4>6. Continues(more, log, start, d, now, 1)
        BY <1>1, <1>6, <4>2, <4>4, <4>5 DEF Continues
      <4> QED BY <1>1, <4>1, <4>6
    <3>2. CASE ~(webhookStore[s].resetTime <= now)
      <4> DEFINE a == start[Len(log)]
      <4>1. entry = [webhookStore[s] EXCEPT !.hits = @ + 1]
        BY <3>2 DEF entry, Increment
      <4>2. log # <<>> /\ Len(log) \in DOMAIN log
        BY <1>1, <1>5, <2>0, <3>2 DEF LastWindow
      <4>3. webhookStore[s].resetTime = a + RateWindow
            /\ Cardinality(Passes(log, start, a)) <= webhookStore[s].hits
        BY <1>5, <4>2 DEF LastWindow
      <4>4. a \in Nat /\ a <= now /\ now < a + RateWindow
        <5>1. a \in Nat /\ a <= log[Len(log)].at
          BY <1>5, <4>2 DEF Windows
        <5>2. log[Len(log)].at \in Nat /\ log[Len(log)].at <= now
          BY <2>0, <4>2
        <5> QED BY <1>1, <3>2, <4>3, <5>1, <5>2
      <4>5. /\ entry.hits = webhookStore[s].hits + 1 /\ entry.hits \in Nat
            /\ entry.resetTime = a + RateWindow
            /\ Cardinality(Passes(log, start, a)) + 1 <= entry.hits
        <5>1. Cardinality(Passes(log, start, a)) \in Nat
          BY <1>1, PassesAreFew
        <5> QED BY <1>1, <4>1, <4>3, <5>1
      <4>6. \A i \in DOMAIN log : start[i] = a \/ start[i] + RateWindow <= a
        <5>1. \A i \in DOMAIN log : i <= Len(log)
          BY <2>0
        <5> QED BY <1>5, <4>2, <5>1 DEF Windows
      <4>7. \E i \in DOMAIN log : start[i] = a
        BY <4>2
      <4> HIDE DEF a
      <4>8. Continues(more, log, start, d, a, entry.hits)
        BY <1>6, <4>4, <4>5, <4>6, <4>7 DEF Continues
      <4> QED BY <4>4, <4>5, <4>8
    <3> QED BY <3>1, <3>2
  <2>3. PICK a \in Nat, limit \in Nat :
          /\ Continues(more, log, start, d, a, limit)
          /\ entry.resetTime = a + RateWindow /\ entry.hits = limit
    BY <2>2
  <2>4. PICK begin \in [DOMAIN more -> Nat] :
          /\ Windows(more, begin) /\ begin[Len(more)] = a
          /\ Cardinality(Passes(more, begin, a)) <= limit
    BY <1>1, <1>5, <1>6, <2>3, OneMoreDecision
  <2> QED BY <1>4, <2>1, <2>3, <2>4 DEF LastWindow
<1>9. ASSUME NEW u \in Senders
      PROVE  \E begin \in [DOMAIN limiterLog'[u] -> Nat] :
               Windows(limiterLog'[u], begin)
               /\ LastWindow(limiterLog'[u], begin, webhookStore'[u], now')
  <2>1. CASE u = s
    BY <1>1, <1>2, <1>8, <2>1 DEF LimiterInv
  <2>2. CASE u # s
    <3>1. limiterLog'[u] = limiterLog[u] /\ webhookStore'[u] = webhookStore[u] /\ now' = now
      BY <1>2, <2>2 DEF LimiterInv
    <3> QED BY <3>1 DEF LimiterInv
  <2> QED BY <2>1, <2>2
<1>10. /\ limiterLog' \in [Senders -> Decisions]
       /\ webhookStore' \in [Senders -> [hits : Nat, resetTime : Nat]]
  BY <1>1, <1>2, <1>3, <1>4 DEF LimiterInv
<1> QED BY <1>1, <1>2, <1>9, <1>10 DEF LimiterInv

LEMMA LimiterInit == Init => LimiterInv
<1> SUFFICES ASSUME Init PROVE LimiterInv
  OBVIOUS
<1>1. now \in Times /\ content \in [Requests -> Contents]
  BY PositiveLimits DEF Init, Times
<1>2. /\ limiterLog \in [Senders -> Decisions]
      /\ webhookStore \in [Senders -> [hits : Nat, resetTime : Nat]]
  BY DEF Init, Decisions
<1>3. ASSUME NEW s \in Senders
      PROVE  \E start \in [DOMAIN limiterLog[s] -> Nat] :
               /\ Windows(limiterLog[s], start)
               /\ LastWindow(limiterLog[s], start, webhookStore[s], now)
  <2> DEFINE start == [i \in DOMAIN limiterLog[s] |-> 0]
  <2>1. limiterLog[s] = <<>> /\ webhookStore[s].resetTime = 0
    BY DEF Init
  <2>2. DOMAIN limiterLog[s] = {}
    BY <2>1
  <2>3. start \in [DOMAIN limiterLog[s] -> Nat]
    OBVIOUS
  <2> HIDE DEF start
  <2>4. \A a \in Nat : Cardinality(Passes(limiterLog[s], start, a)) <= WebhookMax
    <3>1. \A a \in Nat : Passes(limiterLog[s], start, a) = {}
      BY <2>2 DEF Passes
    <3>2. Cardinality({}) <= WebhookMax
      BY FS_EmptySet, TwiceTheLimit
    <3> QED BY <3>1, <3>2, Zenon
  <2>5. Windows(limiterLog[s], start)
    BY <2>2, <2>3, <2>4 DEF Windows
  <2>6. LastWindow(limiterLog[s], start, webhookStore[s], now)
    BY <2>1, <2>2 DEF LastWindow
  <2> QED BY <2>3, <2>5, <2>6
<1> QED BY <1>1, <1>2, <1>3 DEF LimiterInv

\* Nothing else touches the limiter's store or log; the clock only moves on.
LEMMA LimiterNext == LimiterInv /\ [Next]_vars => LimiterInv'
<1> SUFFICES ASSUME LimiterInv, [Next]_vars PROVE LimiterInv'
  OBVIOUS
<1>1. ASSUME UNCHANGED <<content, limiterLog, webhookStore>>, now' \in Times, now' >= now
      PROVE  LimiterInv'
  <2>1. ASSUME NEW s \in Senders
        PROVE  \E start \in [DOMAIN limiterLog[s] -> Nat] :
                 /\ Windows(limiterLog[s], start)
                 /\ LastWindow(limiterLog[s], start, webhookStore[s], now')
    <3>1. PICK start \in [DOMAIN limiterLog[s] -> Nat] :
            /\ Windows(limiterLog[s], start)
            /\ LastWindow(limiterLog[s], start, webhookStore[s], now)
      BY DEF LimiterInv
    <3>2. \A i \in DOMAIN limiterLog[s] : limiterLog[s][i].at \in Int
      BY LogTypes DEF LimiterInv, Times
    <3>3. LastWindow(limiterLog[s], start, webhookStore[s], now')
      BY <1>1, <3>1, <3>2 DEF LastWindow, LimiterInv, Times
    <3> QED BY <3>1, <3>3
  <2> QED BY <1>1, <2>1 DEF LimiterInv
<1>2. CASE Tick
  BY <1>1, <1>2, PositiveLimits DEF Tick, Times, LimiterInv, stores, logs
<1>3. ASSUME NEW r \in Requests, Arrive(r) \/ ParseBody(r) \/ Validate(r) \/ Serve(r)
      PROVE  LimiterInv'
  BY <1>1, <1>3 DEF Arrive, ParseBody, Validate, Serve, LimiterInv, Times, stores, logs
<1>4. ASSUME NEW r \in Requests, LimitWebhook(r)
      PROVE  LimiterInv'
  BY <1>4, DecisionIsLogged
<1>5. ASSUME NEW s \in Senders, HealthCheck(s)
      PROVE  LimiterInv'
  BY <1>1, <1>5 DEF HealthCheck, LimiterInv, Times
<1>6. CASE UNCHANGED vars
  BY <1>1, <1>6 DEF vars, stores, logs, LimiterInv, Times
<1> QED BY <1>2, <1>3, <1>4, <1>5, <1>6 DEF Next

\* The limiter's decisions are those of windows that do not overlap, the last
\* of which its store counts (MemoryStore as config/rateLimiting.ts uses it).
THEOREM LimiterCorrect == Spec => []LimiterInv
BY LimiterInit, LimiterNext, PTL DEF Spec

\* Decisions of a log taken in the span of a window's length that begins at t.
Within(Q, log, t) ==
  /\ Q \subseteq DOMAIN log
  /\ \A i \in Q : t <= log[i].at /\ log[i].at <= t + RateWindow - 1

\* Three windows that are a length apart do not all meet it.
LEMMA NoThirdWindow ==
  ASSUME NEW a \in Nat, NEW b \in Nat, NEW c \in Nat, NEW t \in Nat, NEW w \in Nat,
         t < a + w, a < t + w, t < b + w, b < t + w, t < c + w, c < t + w,
         a + w <= b \/ b + w <= a, a + w <= c \/ c + w <= a, b + w <= c \/ c + w <= b
  PROVE  FALSE
<1>1. CASE a + w <= b
  BY <1>1
<1>2. CASE b + w <= a
  BY <1>2
<1> QED BY <1>1, <1>2

\* No such span meets a third window.
LEMMA TwoWindows ==
  ASSUME NEW log \in Decisions, NEW start \in [DOMAIN log -> Nat], Windows(log, start),
         NEW t \in Nat, NEW Q, Within(Q, log, t)
  PROVE  \E a, b \in Nat : \A i \in Q : start[i] = a \/ start[i] = b
<1>1. RateWindow \in Nat \ {0} /\ Len(log) \in Nat /\ DOMAIN log = 1..Len(log)
  BY PositiveLimits, LogTypes
<1>2. ASSUME NEW i \in Q, NEW j \in Q
      PROVE  start[i] = start[j] \/ start[i] + RateWindow <= start[j]
               \/ start[j] + RateWindow <= start[i]
  <2>1. i \in DOMAIN log /\ j \in DOMAIN log /\ (i <= j \/ j <= i)
    BY <1>1 DEF Within
  <2> QED BY <2>1 DEF Windows
<1>3. ASSUME NEW i \in Q
      PROVE  start[i] \in Nat /\ t < start[i] + RateWindow /\ start[i] < t + RateWindow
  <2>1. /\ i \in DOMAIN log /\ log[i].at \in Nat
        /\ t <= log[i].at /\ log[i].at <= t + RateWindow - 1
    BY LogTypes DEF Times, Within
  <2>2. start[i] \in Nat /\ start[i] <= log[i].at /\ log[i].at < start[i] + RateWindow
    BY <2>1 DEF Windows
  <2> QED BY <1>1, <2>1, <2>2
<1>4. CASE \A i, j \in Q : start[i] = start[j]
  <2>1. CASE Q = {}
    BY <2>1
  <2>2. ASSUME NEW i \in Q PROVE \E a, b \in Nat : \A k \in Q : start[k] = a \/ start[k] = b
    BY <1>3, <1>4
  <2> QED BY <2>1, <2>2
<1>5. ASSUME NEW i \in Q, NEW j \in Q, start[i] # start[j]
      PROVE  \E a, b \in Nat : \A k \in Q : start[k] = a \/ start[k] = b
  <2>1. ASSUME NEW k \in Q PROVE start[k] = start[i] \/ start[k] = start[j]
    <3>1. /\ start[i] + RateWindow <= start[j] \/ start[j] + RateWindow <= start[i]
          /\ start[k] = start[i] \/ start[i] + RateWindow <= start[k]
               \/ start[k] + RateWindow <= start[i]
          /\ start[k] = start[j] \/ start[j] + RateWindow <= start[k]
               \/ start[k] + RateWindow <= start[j]
      BY <1>2, <1>5
    <3>2. /\ start[i] \in Nat /\ t < start[i] + RateWindow /\ start[i] < t + RateWindow
          /\ start[j] \in Nat /\ t < start[j] + RateWindow /\ start[j] < t + RateWindow
          /\ start[k] \in Nat /\ t < start[k] + RateWindow /\ start[k] < t + RateWindow
      BY <1>3
    <3> QED BY <1>1, <3>1, <3>2, NoThirdWindow
  <2> QED BY <1>3, <2>1
<1> QED BY <1>4, <1>5

THEOREM AdmissionBounded == Spec => []AdmissionBound
<1>1. LimiterInv => AdmissionBound
  <2> SUFFICES ASSUME LimiterInv, NEW s \in Senders, NEW t \in Times
               PROVE  Cardinality({i \in DOMAIN limiterLog[s] :
                                     /\ limiterLog[s][i].passed
                                     /\ limiterLog[s][i].at \in t..(t + RateWindow - 1)})
                        <= Max({2, RateLimitMax})
    BY DEF AdmissionBound
  <2> DEFINE log == limiterLog[s]
             Q == {i \in DOMAIN log : log[i].passed /\ log[i].at \in t..(t + RateWindow - 1)}
  <2>1. log \in Decisions
    BY DEF LimiterInv
  <2>2. PICK start \in [DOMAIN log -> Nat] : Windows(log, start)
    BY DEF LimiterInv
  <2>3. t \in Nat /\ Within(Q, log, t) /\ \A i \in Q : i \in DOMAIN log /\ log[i].passed
    <3>1. \A i \in DOMAIN log : log[i].at \in Int
      BY <2>1, LogTypes DEF Times
    <3> QED BY <3>1, PositiveLimits DEF Times, Within
  <2> HIDE DEF log, Q
  <2>4. PICK a \in Nat, b \in Nat : \A i \in Q : start[i] = a \/ start[i] = b
    BY <2>1, <2>2, <2>3, TwoWindows
  <2> DEFINE A == Passes(log, start, a)
             B == Passes(log, start, b)
  <2>5. /\ IsFiniteSet(A) /\ Cardinality(A) \in Nat /\ Cardinality(A) <= WebhookMax
        /\ IsFiniteSet(B) /\ Cardinality(B) \in Nat /\ Cardinality(B) <= WebhookMax
    BY <2>1, <2>2, PassesAreFew DEF Windows
  <2>6. Q \in SUBSET (A \cup B)
    BY <2>3, <2>4 DEF Passes
  <2> HIDE DEF A, B
  <2>7. /\ IsFiniteSet(A \cup B) /\ IsFiniteSet(A \cap B)
        /\ Cardinality(A \cup B) = Cardinality(A) + Cardinality(B) - Cardinality(A \cap B)
    <3>1. A \cap B \in SUBSET A
      OBVIOUS
    <3> QED BY <2>5, <3>1, FS_Union, FS_Subset
  <2>8. /\ IsFiniteSet(Q) /\ Cardinality(Q) <= Cardinality(A \cup B)
    BY <2>6, <2>7, FS_Subset
  <2>9. Cardinality(A \cap B) \in Nat /\ Cardinality(A \cup B) \in Nat /\ Cardinality(Q) \in Nat
    <3>1. \A S : IsFiniteSet(S) => Cardinality(S) \in Nat
      BY FS_CardinalityType
    <3> QED BY <2>7, <2>8, <3>1, Zenon
  <2>10. Cardinality(Q) <= Max({2, RateLimitMax})
    BY <2>5, <2>7, <2>8, <2>9, TwiceTheLimit
  <2> QED BY <2>10 DEF Q, log
<1> QED BY <1>1, LimiterCorrect, PTL

\* A refusal a window after another one lies in a later window, and that one
\* began with a request that was let through.
THEOREM LetInAgain == Spec => []NeverLockedOut
<1>1. LimiterInv => NeverLockedOut
  <2> SUFFICES ASSUME LimiterInv, NEW s \in Senders,
                      NEW i \in DOMAIN limiterLog[s], NEW j \in DOMAIN limiterLog[s],
                      limiterLog[s][j].at >= limiterLog[s][i].at + RateWindow
               PROVE  \E k \in i..j : limiterLog[s][k].passed
    BY DEF NeverLockedOut
  <2> DEFINE log == limiterLog[s]
  <2>1. log \in Decisions
    BY DEF LimiterInv
  <2>2. /\ Len(log) \in Nat /\ DOMAIN log = 1..Len(log) /\ RateWindow \in Nat \ {0}
        /\ \A k \in DOMAIN log : log[k].at \in Nat
    BY <2>1, LogTypes, PositiveLimits DEF Times
  <2>3. PICK start \in [DOMAIN log -> Nat] : Windows(log, start)
    BY DEF LimiterInv
  <2> HIDE DEF log
  <2>4. i \in DOMAIN log /\ j \in DOMAIN log /\ log[j].at >= log[i].at + RateWindow
    BY DEF log
  <2>5. start[i] \in Nat /\ start[j] \in Nat /\ start[i] < start[j]
    <3>1. start[i] \in Nat /\ start[j] \in Nat /\ log[i].at \in Nat /\ log[j].at \in Nat
      BY <2>2, <2>4
    <3>2. start[i] <= log[i].at /\ log[j].at < start[j] + RateWindow
      BY <2>3, <2>4 DEF Windows
    <3> QED BY <2>2, <2>4, <3>1, <3>2
  <2>6. PICK k \in DOMAIN log : k <= j /\ start[k] = start[j] /\ log[k].passed
    BY <2>3, <2>4 DEF Windows
  <2>7. i <= k
    <3>1. CASE k <= i
      <4>1. start[k] = start[i] \/ start[k] + RateWindow <= start[i]
        BY <2>3, <2>4, <3>1 DEF Windows
      <4> QED BY <2>2, <2>5, <2>6, <4>1
    <3> QED BY <2>2, <2>4, <3>1
  <2>8. k \in i..j
    BY <2>2, <2>4, <2>6, <2>7
  <2> QED BY <2>6, <2>8 DEF log
<1> QED BY <1>1, LimiterCorrect, PTL
========================================================================
