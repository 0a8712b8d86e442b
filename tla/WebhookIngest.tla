------------------------- MODULE WebhookIngest -------------------------
(* From an accepted delivery to its HTTP answer: the controllers of the two  *)
(* webhook endpoints, their services, createWebhook, withTransaction, the pg *)
(* connection pool below it, and the PostgreSQL sessions at the other end of *)
(* the connections.                                                          *)
(*                                                                           *)
(* A step is what the node process does between two awaits, together with    *)
(* the database's answer that ends the await.  A statement the client gave   *)
(* up on is still executed by the server: active[c] outlives its sender.     *)
EXTENDS Naturals, FiniteSets

CONSTANTS
  Deliveries,   \* HTTP requests that carry a webhook, past the middlewares
  GovPayIds,    \* webhook_message_id values, delivered to /callback/payment
  BacsIds,      \* event.eventId values, delivered to /webhooks/bacs/payments
  Instances,    \* processes of the service, each with its pool
  Clients,      \* pg clients, each a connection to a session of its own
  PoolMax,      \* dbConfig.poolMax
  None

WebhookIds == GovPayIds \cup BacsIds

Ops == {"BEGIN", "INSERT", "COMMIT", "ROLLBACK"}

Statement(op, d) == [op |-> op, by |-> d]

Statements == [op : Ops, by : Deliveries]

ASSUME DistinctIds == GovPayIds \cap BacsIds = {}

ASSUME NoneIsNothing ==
  None \notin Deliveries \cup WebhookIds \cup Instances \cup Clients \cup Statements

ASSUME PoolMaxPositive == PoolMax \in Nat \ {0}

ASSUME FinitelyManyClients == IsFiniteSet(Clients)

VARIABLES
  \* the handler of each delivery
  pc,           \* what it awaits: a client, a statement by name, or nothing more
  id,           \* webhook_id the delivery carries
  home,         \* the instance that received it
  created,      \* what createWebhook's callback returned
  result,       \* WebhookProcessingResult
  undone,       \* deliveries that logged "Transaction rolled back"
  \* each instance
  enabled,      \* config.features.callbackServiceEnabled
  \* each pg client
  owner,        \* the instance whose pool it belongs to
  user,         \* the delivery that checked it out
  active,       \* the statement on the wire
  queued,       \* the statement held back behind active, in the client
  \* each database session
  txn,          \* no transaction, an open one, or one that an error doomed
  dirty,        \* deliveries whose INSERT is uncommitted here
  seen,         \* whether the active INSERT's snapshot holds the row
  \* the table payment_webhooks
  row           \* which delivery inserted the row with a webhook_id

handlerVars == <<pc, id, home, created, result, undone>>
clientVars == <<owner, user, active, queued>>
sessionVars == <<txn, dirty, seen, row>>
vars == <<handlerVars, enabled, clientVars, sessionVars>>

TypeOK ==
  /\ pc \in [Deliveries -> {"unsent", "getClient", "answered", "dead"} \cup Ops]
  /\ id \in [Deliveries -> WebhookIds \cup {None}]
  /\ home \in [Deliveries -> Instances \cup {None}]
  /\ created \in [Deliveries -> {"none", "new", "duplicate"}]
  /\ result \in [Deliveries -> {"none", "success", "duplicate", "failed"}]
  /\ undone \in SUBSET Deliveries
  /\ enabled \in [Instances -> BOOLEAN]
  /\ owner \in [Clients -> Instances \cup {None}]
  /\ user \in [Clients -> Deliveries \cup {None}]
  /\ active \in [Clients -> Statements \cup {None}]
  /\ queued \in [Clients -> Statements \cup {None}]
  /\ txn \in [Clients -> {"none", "open", "failed"}]
  /\ dirty \in [Clients -> SUBSET Deliveries]
  /\ seen \in [Clients -> {"unset", "absent", "present"}]
  /\ row \in [WebhookIds -> Deliveries \cup {None}]

Init ==
  /\ pc = [d \in Deliveries |-> "unsent"]
  /\ id = [d \in Deliveries |-> None]
  /\ home = [d \in Deliveries |-> None]
  /\ created = [d \in Deliveries |-> "none"]
  /\ result = [d \in Deliveries |-> "none"]
  /\ undone = {}
  /\ enabled \in [Instances -> BOOLEAN]
  /\ owner = [c \in Clients |-> None]
  /\ user = [c \in Clients |-> None]
  /\ active = [c \in Clients |-> None]
  /\ queued = [c \in Clients |-> None]
  /\ txn = [c \in Clients |-> "none"]
  /\ dirty = [c \in Clients |-> {}]
  /\ seen = [c \in Clients |-> "unset"]
  /\ row = [w \in WebhookIds |-> None]

(* ---------------------------- the handler ---------------------------- *)

\* A delivery reaches its controller, and through it the service, which looks
\* at the feature flag before it touches the database.
Deliver(d, w, i) ==
  /\ pc[d] = "unsent"
  /\ id' = [id EXCEPT ![d] = w]
  /\ home' = [home EXCEPT ![d] = i]
  /\ \/ /\ enabled[i]
        /\ pc' = [pc EXCEPT ![d] = "getClient"]
        /\ UNCHANGED result
     \/ /\ ~enabled[i]
        /\ pc' = [pc EXCEPT ![d] = "answered"]
        /\ result' = [result EXCEPT ![d] = "failed"]
  /\ UNCHANGED <<created, undone, enabled, clientVars, sessionVars>>

Idle(c, i) == owner[c] = i /\ user[c] = None

Fresh(c) == owner[c] = None /\ active[c] = None /\ txn[c] = "none"

PoolSize(i) == Cardinality({c \in Clients : owner[c] = i})

HasRoom(i) == PoolSize(i) < PoolMax

Send(c, op, d) ==
  IF active[c] = None
  THEN active' = [active EXCEPT ![c] = Statement(op, d)] /\ UNCHANGED queued
  ELSE queued' = [queued EXCEPT ![c] = Statement(op, d)] /\ UNCHANGED active

\* pool.connect: an idle client, or a new one while the pool is not full;
\* withTransaction sends BEGIN on it at once.
CheckOut(d, c) ==
  /\ pc[d] = "getClient"
  /\ \/ Idle(c, home[d])
     \/ /\ Fresh(c)
        /\ \A other \in Clients : ~Idle(other, home[d])
        /\ HasRoom(home[d])
  /\ owner' = [owner EXCEPT ![c] = home[d]]
  /\ user' = [user EXCEPT ![c] = d]
  /\ pc' = [pc EXCEPT ![d] = "BEGIN"]
  /\ Send(c, "BEGIN", d)
  /\ UNCHANGED <<id, home, created, result, undone, enabled, sessionVars>>

\* No client within connectionTimeoutMillis, or the new connection failed:
\* getClient throws, and the service turns the error into a failed result.
NoClient(d) ==
  /\ pc[d] = "getClient"
  /\ \A c \in Clients : ~Idle(c, home[d])
  /\ pc' = [pc EXCEPT ![d] = "answered"]
  /\ result' = [result EXCEPT ![d] = "failed"]
  /\ UNCHANGED <<id, home, created, undone, enabled, clientVars, sessionVars>>

\* Mutant: the answer to a statement that timed out is taken for the answer to
\* the ROLLBACK held back behind it.
LiveByUser(c) == active[c] # None /\ user[c] # None /\ user[c] = active[c].by

\* The handler still awaits the statement on the wire.
Live(c) ==
  /\ active[c] # None /\ user[c] # None
  /\ user[c] = active[c].by
  /\ pc[user[c]] = active[c].op

\* Mutant: COMMIT forgotten.
AfterSuccessNoCommit == [BEGIN |-> "INSERT", INSERT |-> "answered",
                         COMMIT |-> "answered", ROLLBACK |-> "answered"]

AfterSuccess == [BEGIN |-> "INSERT", INSERT |-> "COMMIT",
                 COMMIT |-> "answered", ROLLBACK |-> "answered"]

\* What withTransaction awaits once a statement of it was answered.
After(op, ok) == IF ok THEN AfterSuccess[op] ELSE "ROLLBACK"

\* Mutant: the service trusts what createWebhook's callback returned.
OutcomeOfCallback(op, kind) == IF kind = "duplicate" THEN "duplicate" ELSE "success"

\* What the service returns when withTransaction settled with this statement.
Outcome(op, kind) ==
  IF op = "ROLLBACK" THEN "failed"
  ELSE IF kind = "duplicate" THEN "duplicate" ELSE "success"

\* The server answered the statement on the wire.  Nobody listens, and the
\* client sends what it held back; or the handler goes on with its next
\* statement; or it releases the client and answers.
Reply(c, ok) ==
  \/ /\ ~Live(c)
     /\ active' = [active EXCEPT ![c] = queued[c]]
     /\ queued' = [queued EXCEPT ![c] = None]
     /\ UNCHANGED <<pc, result, user>>
  \/ LET d == user[c]
         next == After(active[c].op, ok)
     IN /\ Live(c) /\ next # "answered"
        /\ pc' = [pc EXCEPT ![d] = next]
        /\ active' = [active EXCEPT ![c] = Statement(next, d)]
        /\ UNCHANGED <<result, user, queued>>
  \/ LET d == user[c]
     IN /\ Live(c) /\ After(active[c].op, ok) = "answered"
        /\ pc' = [pc EXCEPT ![d] = "answered"]
        /\ result' = [result EXCEPT ![d] = Outcome(active[c].op, created[d])]
        /\ active' = [active EXCEPT ![c] = None]
        /\ user' = [user EXCEPT ![c] = None]
        /\ UNCHANGED queued

(* ------------------------ the database session ----------------------- *)

Executes(c, op) == active[c] # None /\ active[c].op = op

DbBegin(c) ==
  /\ Executes(c, "BEGIN")
  /\ txn' = [txn EXCEPT ![c] = IF txn[c] = "failed" THEN "failed" ELSE "open"]
  /\ Reply(c, txn[c] # "failed")
  /\ UNCHANGED <<id, home, created, undone, enabled, owner, dirty, seen, row>>

\* Mutant: no unique index on webhook_id.
VisibleInSession(c, w) == \E d \in dirty[c] : id[d] = w

\* A session's statement sees the committed rows and the session's own.
Visible(c, w) == row[w] # None \/ \E d \in dirty[c] : id[d] = w

\* READ COMMITTED: CREATE_WEBHOOK_WITH_CONFLICT takes its snapshot first.
TakeSnapshot(c) ==
  /\ Executes(c, "INSERT") /\ txn[c] # "failed" /\ seen[c] = "unset"
  /\ seen' = [seen EXCEPT
                ![c] = IF Visible(c, id[active[c].by]) THEN "present" ELSE "absent"]
  /\ UNCHANGED <<handlerVars, enabled, clientVars, txn, dirty, row>>

\* The row is uncommitted in another session, on whose end the INSERT waits.
Locked(c, w) == \E other \in Clients \ {c} : \E d \in dirty[other] : id[d] = w

\* Mutant: the is_duplicate flags of the two SELECTs swapped.
CreateResultSwapped(inserted, snapshot) ==
  IF ~inserted /\ snapshot = "present" THEN "new" ELSE "duplicate"

\* Mutant: the callback reads is_duplicate of a row that is not there.
CreateResultOfNoRow(inserted, snapshot) ==
  IF inserted THEN "new" ELSE IF snapshot = "present" THEN "duplicate" ELSE "undefined"

\* What the callback of createWebhook returns, given the rows the statement
\* returned: its own row, the row its snapshot holds, or none at all.
CreateResult(inserted, snapshot) ==
  IF ~inserted /\ snapshot = "present" THEN "duplicate" ELSE "new"

DbInsert(c) ==
  LET d == active[c].by
      fresh == ~Visible(c, id[d])
  IN
  /\ Executes(c, "INSERT") /\ txn[c] # "failed" /\ seen[c] # "unset"
  /\ ~Locked(c, id[d])
  /\ dirty' = IF fresh THEN [dirty EXCEPT ![c] = @ \cup {d}] ELSE dirty
  /\ created' = IF Live(c)
                THEN [created EXCEPT ![d] = CreateResult(fresh, seen[c])]
                ELSE created
  /\ seen' = [seen EXCEPT ![c] = "unset"]
  /\ Reply(c, TRUE)
  /\ UNCHANGED <<id, home, undone, enabled, owner, txn, row>>

\* Any error of the INSERT, or an INSERT in a transaction already doomed.
DbInsertFails(c) ==
  /\ Executes(c, "INSERT")
  /\ txn' = [txn EXCEPT ![c] = "failed"]
  /\ seen' = [seen EXCEPT ![c] = "unset"]
  /\ Reply(c, FALSE)
  /\ UNCHANGED <<id, home, created, undone, enabled, owner, dirty, row>>

\* The rows of the session's transaction enter the table; a doomed
\* transaction is rolled back, and the answer is not an error either way.
Committed(c) ==
  [w \in WebhookIds |->
     IF txn[c] = "open" /\ \E d \in dirty[c] : id[d] = w
     THEN CHOOSE d \in dirty[c] : id[d] = w
     ELSE row[w]]

EndTransaction(c) ==
  /\ txn' = [txn EXCEPT ![c] = "none"]
  /\ dirty' = [dirty EXCEPT ![c] = {}]

DbCommit(c) ==
  /\ Executes(c, "COMMIT")
  /\ row' = Committed(c)
  /\ EndTransaction(c)
  /\ Reply(c, TRUE)
  /\ UNCHANGED <<id, home, created, undone, enabled, owner, seen>>

\* Mutant: ROLLBACK sent through the pool, to a session of another client.
DbRollbackElsewhere(c) ==
  /\ Executes(c, "ROLLBACK")
  /\ undone' = IF Live(c) THEN undone \cup {user[c]} ELSE undone
  /\ Reply(c, TRUE)
  /\ UNCHANGED <<id, home, created, enabled, owner, txn, dirty, seen, row>>

DbRollback(c) ==
  /\ Executes(c, "ROLLBACK")
  /\ EndTransaction(c)
  /\ undone' = IF Live(c) THEN undone \cup {user[c]} ELSE undone
  /\ Reply(c, TRUE)
  /\ UNCHANGED <<id, home, created, enabled, owner, seen, row>>

\* The server noticed that the client is gone.
SessionEnds(c) ==
  /\ owner[c] = None /\ (active[c] # None \/ txn[c] # "none")
  /\ EndTransaction(c)
  /\ seen' = [seen EXCEPT ![c] = "unset"]
  /\ active' = [active EXCEPT ![c] = None]
  /\ UNCHANGED <<handlerVars, enabled, owner, user, queued, row>>

(* ------------------- timeouts, lost connections, crashes -------------- *)

\* query_timeout: the awaited statement rejects in the client, and the catch
\* block sends ROLLBACK behind whatever the server still executes.
QueryTimeout(c) ==
  LET d == user[c] IN
  /\ d # None /\ pc[d] \in Ops \ {"ROLLBACK"}
  /\ pc' = [pc EXCEPT ![d] = "ROLLBACK"]
  /\ queued' = [queued EXCEPT ![c] = Statement("ROLLBACK", d)]
  /\ UNCHANGED <<id, home, created, result, undone, enabled, owner, user, active,
                 sessionVars>>

\* Mutant: the client is not released in a finally block.
RollbackTimeoutNoRelease(c) ==
  LET d == user[c] IN
  /\ d # None /\ pc[d] = "ROLLBACK"
  /\ pc' = [pc EXCEPT ![d] = "answered"]
  /\ result' = [result EXCEPT ![d] = "failed"]
  /\ queued' = [queued EXCEPT ![c] = None]
  /\ UNCHANGED <<id, home, created, undone, enabled, owner, user, active, sessionVars>>

\* Mutant: the error of ROLLBACK never reaches the controller.
RollbackTimeoutNoAnswer(c) ==
  LET d == user[c] IN
  /\ d # None /\ pc[d] = "ROLLBACK"
  /\ user' = [user EXCEPT ![c] = None]
  /\ queued' = [queued EXCEPT ![c] = None]
  /\ UNCHANGED <<pc, id, home, created, result, undone, enabled, owner, active,
                 sessionVars>>

\* ROLLBACK itself times out: the finally block releases the client as it is.
RollbackTimeout(c) ==
  LET d == user[c] IN
  /\ d # None /\ pc[d] = "ROLLBACK"
  /\ pc' = [pc EXCEPT ![d] = "answered"]
  /\ result' = [result EXCEPT ![d] = "failed"]
  /\ user' = [user EXCEPT ![c] = None]
  /\ queued' = [queued EXCEPT ![c] = None]
  /\ UNCHANGED <<id, home, created, undone, enabled, owner, active, sessionVars>>

\* The connection breaks under the handler: the awaited statement and the
\* ROLLBACK after it reject, and the pool drops the released client.
ConnectionLost(c) ==
  LET d == user[c] IN
  /\ d # None
  /\ pc' = [pc EXCEPT ![d] = "answered"]
  /\ result' = [result EXCEPT ![d] = "failed"]
  /\ owner' = [owner EXCEPT ![c] = None]
  /\ user' = [user EXCEPT ![c] = None]
  /\ queued' = [queued EXCEPT ![c] = None]
  /\ UNCHANGED <<id, home, created, undone, enabled, active, sessionVars>>

\* Mutant: idleTimeoutMillis: 0, which keeps idle clients open for ever.
IdleTimeoutNever(c) == FALSE /\ UNCHANGED vars

\* idleTimeoutMillis: the pool closes a client nobody has checked out.
IdleTimeout(c) ==
  /\ owner[c] # None /\ user[c] = None
  /\ owner' = [owner EXCEPT ![c] = None]
  /\ UNCHANGED <<handlerVars, enabled, user, active, queued, sessionVars>>

\* The process dies, at any point or forced out by the shutdown timer, and is
\* started again, perhaps with another setting of the feature flag.
Crash(i) ==
  /\ pc' = [d \in Deliveries |->
              IF home[d] = i /\ pc[d] # "answered" THEN "dead" ELSE pc[d]]
  /\ owner' = [c \in Clients |-> IF owner[c] = i THEN None ELSE owner[c]]
  /\ user' = [c \in Clients |-> IF owner[c] = i THEN None ELSE user[c]]
  /\ queued' = [c \in Clients |-> IF owner[c] = i THEN None ELSE queued[c]]
  /\ \E flag \in BOOLEAN : enabled' = [enabled EXCEPT ![i] = flag]
  /\ UNCHANGED <<id, home, created, result, undone, active, sessionVars>>

Next ==
  \/ \E d \in Deliveries, w \in WebhookIds, i \in Instances : Deliver(d, w, i)
  \/ \E d \in Deliveries : NoClient(d)
  \/ \E d \in Deliveries, c \in Clients : CheckOut(d, c)
  \/ \E c \in Clients :
       \/ DbBegin(c) \/ TakeSnapshot(c) \/ DbInsert(c) \/ DbInsertFails(c)
       \/ DbCommit(c) \/ DbRollback(c) \/ SessionEnds(c)
       \/ QueryTimeout(c) \/ RollbackTimeout(c) \/ ConnectionLost(c)
       \/ IdleTimeout(c)
  \/ \E i \in Instances : Crash(i)

Spec == Init /\ [][Next]_vars

\* The pool's and the driver's timers fire, and a server that can execute a
\* statement, or end a session, does so.  Nothing makes a delivery arrive.
Fairness ==
  /\ \A d \in Deliveries : WF_vars(NoClient(d))
  /\ \A c \in Clients :
       /\ WF_vars(QueryTimeout(c)) /\ WF_vars(RollbackTimeout(c))
       /\ WF_vars(IdleTimeout(c)) /\ WF_vars(SessionEnds(c))
       /\ WF_vars(\E d \in Deliveries : CheckOut(d, c))
       /\ WF_vars(DbBegin(c) \/ TakeSnapshot(c) \/ DbInsert(c) \/ DbCommit(c)
                    \/ DbRollback(c))

FairSpec == Spec /\ Fairness

(* ----------------------------- properties ---------------------------- *)

\* handleWebhookInternal answers every result with 202 and tells them apart in
\* the body.
GovPayStatus(outcome) == 202

\* Mutant: the answers of the GOV.UK Pay controller.
BacsStatusAccepted(outcome) == 202

\* handleBACSWebhookInternal answers 500 unless the webhook is stored.
BacsStatus(outcome) ==
  IF outcome = "duplicate" THEN 200 ELSE IF outcome = "success" THEN 202 ELSE 500

Status(d) ==
  IF id[d] \in GovPayIds THEN GovPayStatus(result[d]) ELSE BacsStatus(result[d])

Acked(d) == pc[d] = "answered" /\ Status(d) \in 200..299

\* A delivery whose body says success or duplicate is about a webhook that is
\* committed to payment_webhooks, whatever timed out, broke or crashed before.
PositiveMeansStored ==
  \A d \in Deliveries :
    result[d] \in {"success", "duplicate"} => row[id[d]] # None

\* The BACS sender never sees a 2xx for an event that is not committed: it
\* would not send the event again.
BacsAckMeansStored ==
  \A d \in Deliveries :
    id[d] \in BacsIds /\ Acked(d) => row[id[d]] # None

\* A delivery answered as a duplicate did not store the row itself: the
\* webhook really was processed before, by another delivery.
DuplicateMeansAnother ==
  \A d \in Deliveries : result[d] = "duplicate" => row[id[d]] \notin {None, d}

\* createWebhook only ever adds rows: whichever session commits last, a stored
\* webhook keeps the row it was stored with.
RowsAreFinal ==
  [][\A w \in WebhookIds : row[w] # None => row'[w] = row[w]]_vars

\* Every way out of withTransaction gives its one client back: a client is
\* checked out exactly by the handlers that await a statement on it.
NoClientLeak ==
  /\ \A c \in Clients :
       user[c] # None => pc[user[c]] \in Ops /\ owner[c] = home[user[c]]
  /\ \A d \in Deliveries :
       pc[d] \in Ops => \E c \in Clients : user[c] = d
  /\ \A c1, c2 \in Clients : user[c1] # None /\ user[c1] = user[c2] => c1 = c2

\* No INSERT ever reaches the server outside an open transaction, where it
\* would commit by itself and no ROLLBACK could undo it, even on a client that
\* came back to the pool with a statement still on the wire.
InsertsAreTransactional ==
  \A c \in Clients : Executes(c, "INSERT") => txn[c] = "open"

\* A delivery whose ROLLBACK was acknowledged before it ever sent COMMIT stores
\* nothing, then or later: nothing of it lingers in a session another delivery
\* goes on to commit.
RollbackIsFinal ==
  \A d \in undone : created[d] = "none" =>
    (\A w \in WebhookIds : row[w] # d) /\ (\A c \in Clients : d \notin dirty[c])

\* The service implements what WebhookIntake promises.
Intake == INSTANCE WebhookIntake WITH about <- id, stored <- row

IntakeSpec == Intake!Spec

\* A handler never hangs: every delivery is answered, unless its process dies.
EveryDeliverySettles ==
  \A d \in Deliveries :
    pc[d] # "unsent" ~> pc[d] \in {"answered", "dead"}

\* No row stays uncommitted for ever, keeping the INSERTs of the same webhook
\* waiting, even when a client went back to the pool in mid-transaction.
LocksAreReleased == \A c \in Clients : dirty[c] # {} ~> dirty[c] = {}

\* As sql.constants.ts:21-23 and the tests say of the ON CONFLICT query: of the
\* deliveries of a webhook, one is answered as new and the others as duplicates.
NewAnsweredOnce ==
  \A d, e \in Deliveries :
    id[d] = id[e] /\ result[d] = "success" /\ result[e] = "success" => d = e

\* An accepted GOV.UK Pay webhook is kept: 202 means it was stored.
GovPayAckMeansStored ==
  \A d \in Deliveries :
    id[d] \in GovPayIds /\ Acked(d) => row[id[d]] # None

\* As withTransaction logs it (db.ts:51): what was rolled back is not stored.
RolledBackMeansNotStored ==
  \A d \in undone : \A w \in WebhookIds : row[w] # d

(* ------------- what the properties rest on, inductively -------------- *)

\* A delivery whose statement or row is about has arrived, with a webhook id.
Arrived ==
  {d \in Deliveries :
     pc[d] # "unsent" /\ id[d] \in WebhookIds /\ home[d] \in Instances}

OnlyArrived ==
  /\ \A d \in Deliveries \ Arrived : pc[d] = "unsent" /\ home[d] = None /\ id[d] = None
  /\ \A c \in Clients :
       /\ active[c] # None => active[c].by \in Arrived
       /\ queued[c] # None => queued[c].by \in Arrived
       /\ user[c] # None => user[c] \in Arrived
       /\ dirty[c] \subseteq Arrived

\* A checked-out client belongs to a handler that awaits a statement on it:
\* the one on the wire, or a BEGIN or ROLLBACK held back behind a statement
\* that nobody awaits any more.
AwaitedStatement(c) ==
  LET d == user[c]
      s == Statement(pc[d], d)
  IN
  \/ active[c] = s /\ queued[c] = None
  \/ /\ queued[c] = s /\ active[c] # None
     /\ \/ pc[d] = "BEGIN" /\ active[c].by # d
        \/ pc[d] = "ROLLBACK" /\ active[c] # s

Holding ==
  /\ \A c \in Clients :
       IF user[c] = None THEN queued[c] = None
       ELSE /\ pc[user[c]] \in Ops /\ owner[c] = home[user[c]]
            /\ AwaitedStatement(c)
  /\ \A c1, c2 \in Clients : user[c1] # None /\ user[c1] = user[c2] => c1 = c2

\* A handler that has no client yet has sent nothing.
WaitersSentNothing ==
  \A c \in Clients : active[c] # None => pc[active[c].by] # "getClient"

\* Whoever sent them, an INSERT and a COMMIT on the wire meet an open
\* transaction, and a COMMIT finds the webhook stored or about to be.
Transactional ==
  \A c \in Clients :
    /\ Executes(c, "INSERT") \/ Executes(c, "COMMIT") => txn[c] = "open"
    /\ Executes(c, "COMMIT") => Visible(c, id[active[c].by])

\* The unique index: one session at most has an uncommitted row of a webhook,
\* and only while none is committed.
UniqueIndex ==
  /\ \A c \in Clients : \A d \in dirty[c] : row[id[d]] = None
  /\ \A c1, c2 \in Clients : \A d1 \in dirty[c1], d2 \in dirty[c2] :
       id[d1] = id[d2] => c1 = c2 /\ d1 = d2

\* Every handler that awaits a statement holds a client.
AwaitersHold ==
  \A d \in Deliveries : pc[d] \in Ops => \E c \in Clients : user[c] = d

ResultsAreAnswers ==
  \A d \in Deliveries : result[d] # "none" => pc[d] = "answered"

\* What the proofs show to be inductive, together with TypeOK: who holds which
\* client, which session has an open transaction, which rows can be inserted,
\* and the answers given so far.
IngestInv ==
  /\ OnlyArrived /\ WaitersSentNothing /\ Holding /\ AwaitersHold
  /\ Transactional /\ UniqueIndex /\ ResultsAreAnswers /\ PositiveMeansStored

\* Where a handler is that has not sent its INSERT yet.
BeforeInsert == {"unsent", "getClient", "BEGIN"}

Inserting(d, c) == active[c] = Statement("INSERT", d)

\* No trace of the delivery in the table or in a session.
Unstored(d) ==
  /\ \A w \in WebhookIds : row[w] # d
  /\ \A c \in Clients : d \notin dirty[c]

\* Each delivery sends one INSERT, and until it is executed there is no trace of
\* the delivery; then createWebhook's callback knows whose row it was.
InsertedOnce ==
  /\ \A d \in Deliveries :
       pc[d] \in BeforeInsert =>
         created[d] = "none" /\ Unstored(d) /\ \A c \in Clients : ~Inserting(d, c)
  /\ \A d \in Deliveries, c \in Clients : Inserting(d, c) =>
       /\ created[d] = "none" /\ Unstored(d)
       /\ \A b \in Clients : Inserting(d, b) => b = c
  /\ \A d \in Deliveries : created[d] = "duplicate" => Unstored(d)
  /\ \A d \in Deliveries : result[d] = "duplicate" => created[d] = "duplicate"

\* While a handler awaits a statement, whatever it sent is on the client it
\* holds, and whatever it inserted in that client's session, behind nobody
\* else's statement; a COMMIT was sent knowing what came of the INSERT.
OnOwnClient ==
  /\ \A c \in Clients : active[c] # None /\ pc[active[c].by] \in Ops =>
       user[c] = active[c].by
  /\ \A c \in Clients : \A d \in dirty[c] : pc[d] \in Ops =>
       user[c] = d /\ active[c] # None /\ active[c].by = d
  /\ \A c \in Clients : Executes(c, "COMMIT") => created[active[c].by] # "none"

\* What a handler that ended up rolling back inserted, if anything, is not
\* committed, and with the ROLLBACK acknowledged, nothing is left of it.
UndoneIsGone ==
  /\ \A d \in Deliveries : pc[d] \in Ops /\ created[d] = "none" =>
       \A w \in WebhookIds : row[w] # d
  /\ \A d \in undone :
       /\ pc[d] \in {"answered", "dead"}
       /\ created[d] = "none" => Unstored(d) /\ \A c \in Clients : ~Inserting(d, c)

\* What became of each delivery's INSERT, inductive beside IngestInv: what the
\* difference between a duplicate and a new webhook rests on, and between a
\* rolled back and a committed one.
HistoryInv == InsertedOnce /\ OnOwnClient /\ UndoneIsGone
========================================================================
