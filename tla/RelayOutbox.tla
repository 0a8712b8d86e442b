-------------------------- MODULE RelayOutbox --------------------------
(* The table payment_webhooks as the outbox of pay-callback-relay: what the  *)
(* transactions of createWebhook put into it, and what the relay and the     *)
(* payment Lambda do to it with the queries of WEBHOOK_QUERIES.              *)
(*                                                                           *)
(* The relay and the Lambda are not in the repository: a relay is assumed to *)
(* poll, and to send each row it read to SQS before it marks the row.        *)
EXTENDS Naturals, Sequences, FiniteSets, Functions

CONSTANTS
  Deliveries,   \* runs of createWebhook, each a transaction of its own
  WebhookIds,
  Relays,       \* relays that poll, perhaps at the same time
  Limit,        \* the LIMIT of the poll
  MaxFaults,    \* bound: crashes of a relay and failed calls of SQS or database
  None

ASSUME LimitPositive == Limit \in Nat \ {0}

ASSUME FinitelyMany ==
  IsFiniteSet(Deliveries) /\ IsFiniteSet(Relays) /\ MaxFaults \in Nat

\* "failed" stands for retrying and dead_letter too.
Statuses == {"pending", "processed", "failed"}

Rows == [createdAt : Nat, status : Statuses, enqueued : BOOLEAN]

Transactions == [about : WebhookIds, startedAt : Nat]

ASSUME NoneIsNothing == None \notin Rows \cup Transactions \cup Nat

VARIABLES
  begun,    \* the transactions that have begun, which is all a clock has to tell
  txn,      \* what each transaction inserts, and its NOW(), while it is open
  row,      \* the table
  batch,    \* the rows a relay read and has not dealt with, oldest first
  inHand,   \* it has sent the first of them
  sent,     \* by webhook, how often it was sent to SQS
  faults

relayVars == <<batch, inHand>>
vars == <<begun, txn, row, relayVars, sent, faults>>

TypeOK ==
  /\ begun \in SUBSET Deliveries
  /\ txn \in [Deliveries -> Transactions \cup {None}]
  /\ row \in [WebhookIds -> Rows \cup {None}]
  /\ batch \in [Relays -> Seq(WebhookIds)]
  /\ inHand \in [Relays -> BOOLEAN]
  /\ sent \in [WebhookIds -> Nat]
  /\ faults \in 0..MaxFaults

Init ==
  /\ begun = {}
  /\ txn = [d \in Deliveries |-> None]
  /\ row = [w \in WebhookIds |-> None]
  /\ batch = [p \in Relays |-> <<>>]
  /\ inHand = [p \in Relays |-> FALSE]
  /\ sent = [w \in WebhookIds |-> 0]
  /\ faults = 0

(* ---------------------------- createWebhook --------------------------- *)

\* BEGIN: NOW() is fixed here, and with it created_at.
Begin(d, w) ==
  /\ d \notin begun
  /\ txn' = [txn EXCEPT ![d] = [about |-> w, startedAt |-> Cardinality(begun)]]
  /\ begun' = begun \cup {d}
  /\ UNCHANGED <<row, relayVars, sent, faults>>

NewRow(d) == [createdAt |-> txn[d].startedAt, status |-> "pending", enqueued |-> FALSE]

\* Mutant: ON CONFLICT (webhook_id) DO UPDATE.
InsertedUpserting(d) == [row EXCEPT ![txn[d].about] = NewRow(d)]

\* ON CONFLICT (webhook_id) DO NOTHING.
Inserted(d) ==
  IF row[txn[d].about] = None THEN [row EXCEPT ![txn[d].about] = NewRow(d)] ELSE row

\* COMMIT or ROLLBACK, in any order of the transactions' beginnings.
End(d) ==
  /\ txn[d] # None
  /\ row' = Inserted(d) \/ UNCHANGED row
  /\ txn' = [txn EXCEPT ![d] = None]
  /\ UNCHANGED <<begun, relayVars, sent, faults>>

(* ------------------------ pay-callback-relay -------------------------- *)

Stored == {w \in WebhookIds : row[w] # None}

\* Mutant: the relay remembers how far it got instead.
PendingAfterLast ==
  {w \in Stored : \A v \in Stored : row[v].enqueued => row[v].createdAt < row[w].createdAt}

\* GET_PENDING_RELAY's WHERE.
Pending == {w \in Stored : ~row[w].enqueued /\ row[w].status = "pending"}

Older(v, w) == row[v].createdAt < row[w].createdAt

\* No row that the query leaves out, or has further down, is older.
OldestFirst(rows) ==
  \A i \in DOMAIN rows : \A w \in Pending :
    Older(w, rows[i]) => \E j \in 1..(i - 1) : rows[j] = w

\* GET_PENDING_RELAY, by a relay that has dealt with what it read before.
Poll(p) ==
  /\ batch[p] = <<>>
  /\ \E n \in 1..Limit : \E rows \in [1..n -> Pending] :
       /\ IsInjective(rows) /\ OldestFirst(rows)
       /\ n = Limit \/ Range(rows) = Pending
       /\ batch' = [batch EXCEPT ![p] = rows]
  /\ UNCHANGED <<begun, txn, row, inHand, sent, faults>>

SendToSqs(p) ==
  /\ batch[p] # <<>> /\ ~inHand[p]
  /\ sent' = [sent EXCEPT ![Head(batch[p])] = @ + 1]
  /\ inHand' = [inHand EXCEPT ![p] = TRUE]
  /\ UNCHANGED <<begun, txn, row, batch, faults>>

\* Mutant: the whole batch is marked with the first row of it.
MarkedBatch(p) ==
  [w \in WebhookIds |->
     IF w \in Range(batch[p]) THEN [row[w] EXCEPT !.enqueued = TRUE] ELSE row[w]]

\* UPDATE_ENQUEUED_AT, whatever the row is by now.
Marked(p) == [row EXCEPT ![Head(batch[p])].enqueued = TRUE]

MarkEnqueued(p) ==
  /\ inHand[p]
  /\ row' = Marked(p)
  /\ batch' = [batch EXCEPT ![p] = Tail(@)]
  /\ inHand' = [inHand EXCEPT ![p] = FALSE]
  /\ UNCHANGED <<begun, txn, sent, faults>>

\* The relay dies, or a call of it fails: what it has read is forgotten.
Fault(p) ==
  /\ batch[p] # <<>> /\ faults < MaxFaults
  /\ batch' = [batch EXCEPT ![p] = <<>>]
  /\ inHand' = [inHand EXCEPT ![p] = FALSE]
  /\ faults' = faults + 1
  /\ UNCHANGED <<begun, txn, row, sent>>

(* --------------------------- payment Lambda --------------------------- *)

\* SQS delivers what was sent, perhaps again and out of order; UPDATE_STATUS
\* sets any status, pending again for a retry, whatever the row says by now.
UpdateStatus(w) ==
  /\ sent[w] > 0
  /\ \E status \in Statuses :
       row' = [row EXCEPT ![w].status = status]
  /\ UNCHANGED <<begun, txn, relayVars, sent, faults>>

Next ==
  \/ \E d \in Deliveries, w \in WebhookIds : Begin(d, w)
  \/ \E d \in Deliveries : End(d)
  \/ \E p \in Relays : Poll(p) \/ SendToSqs(p) \/ MarkEnqueued(p) \/ Fault(p)
  \/ \E w \in WebhookIds : UpdateStatus(w)

Spec == Init /\ [][Next]_vars

\* The relays go on polling and working off what they read.  Nothing makes a
\* webhook arrive, a transaction commit or the Lambda run.
Fairness ==
  \A p \in Relays : WF_vars(Poll(p)) /\ WF_vars(SendToSqs(p)) /\ WF_vars(MarkEnqueued(p))

FairSpec == Spec /\ Fairness

(* ----------------------------- properties ---------------------------- *)

\* enqueued_at is never set on a row that no relay has sent, whichever relay
\* sets it and whatever failed before: nothing drops out of the outbox unsent.
MarkedIsSent == \A w \in Stored : row[w].enqueued => sent[w] > 0

\* A webhook is sent more than once only because of a fault or of another relay
\* that had read it too.  A webhook that is delivered to the service again, at
\* whatever stage of its row, is not sent again.
ResendsHaveACause ==
  \A w \in WebhookIds : sent[w] <= Cardinality(Relays) + faults

Open == {d \in Deliveries : txn[d] # None}

\* The created_at of the rows, and of those that open transactions may insert.
Times == {row[w].createdAt : w \in Stored} \cup {txn[d].startedAt : d \in Open}

Ahead(w) == {t \in Times : t < row[w].createdAt}

\* What ORDER BY created_at puts before a row never grows: a row that is
\* committed late takes a place that its transaction had from its beginning, so
\* that no row is overtaken for ever by those that arrive after it.
NobodyCutsIn == [][\A w \in Stored : Ahead(w)' \subseteq Ahead(w)]_vars

\* The relays that have sent a row and not marked it yet, and those that have
\* read it and not sent it.
Sending(w) == {p \in Relays : inHand[p] /\ Head(batch[p]) = w}
Waiting(w) == {p \in Relays : w \in Range(batch[p])} \ Sending(w)

SendsAreAccounted ==
  \A w \in WebhookIds :
    IF w \in Stored /\ row[w].enqueued
      THEN sent[w] + Cardinality(Waiting(w)) <= Cardinality(Relays) + faults
      ELSE sent[w] <= Cardinality(Sending(w)) + faults

BatchesAreRows ==
  \A p \in Relays : Range(batch[p]) \subseteq Stored /\ IsInjective(batch[p])

InHandIsSent == \A p \in Relays : inHand[p] => batch[p] # <<>> /\ sent[Head(batch[p])] > 0

SentIsStored == \A w \in WebhookIds : sent[w] > 0 => w \in Stored

\* Each row and each open transaction has a time of its own, which is over.
TimesAreOver == Open \subseteq begun /\ \A t \in Times : t < Cardinality(begun)

TimesAreDistinct ==
  /\ \A v, w \in Stored : row[v].createdAt = row[w].createdAt => v = w
  /\ \A d, e \in Open : txn[d].startedAt = txn[e].startedAt => d = e
  /\ \A d \in Open, w \in Stored : txn[d].startedAt # row[w].createdAt

\* What makes the above hold: a time stands for one transaction; relays hold rows
\* of the table, each of them once; and every send of a row that is not marked is
\* in a relay's hand or was lost to a fault, while a marked one is only sent by
\* those who had read it before.
OutboxInv ==
  TypeOK /\ BatchesAreRows /\ InHandIsSent /\ SentIsStored /\ MarkedIsSent /\ SendsAreAccounted
  /\ TimesAreOver /\ TimesAreDistinct

Ages == [w \in WebhookIds |-> IF w \in Stored THEN row[w].createdAt ELSE None]

MarkedRows == {w \in Stored : row[w].enqueued}

Promised == INSTANCE Outbox WITH age <- Ages, marked <- MarkedRows

\* The outbox as its comments describe it: rows are kept as they were inserted,
\* sent only once committed, marked one by one only once sent, and no conflicting
\* delivery, late relay or Lambda undoes a mark.
OutboxSpec == Promised!Spec

\* Every row is sent, even one that is committed after younger rows were read.
EveryRowIsSent == \A w \in WebhookIds : w \in Stored ~> sent[w] > 0
========================================================================
