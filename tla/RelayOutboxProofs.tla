----------------------- MODULE RelayOutboxProofs -----------------------
(* Proofs about RelayOutbox for any number of deliveries, webhooks, relays   *)
(* and faults, and any LIMIT.                                                *)
EXTENDS RelayOutbox, FiniteSetTheorems, TLAPS

(* ------------------------------ sequences ---------------------------- *)

\* A batch is its first row and the rest of it, which does not have the first
\* row again when the batch has no row twice.
LEMMA HeadAndTail ==
  ASSUME NEW S, NEW s \in Seq(S), s # <<>>
  PROVE  /\ Head(s) \in S /\ Tail(s) \in Seq(S)
         /\ Range(s) = {Head(s)} \cup Range(Tail(s))
         /\ IsInjective(s) => IsInjective(Tail(s)) /\ Head(s) \notin Range(Tail(s))
<1>1. /\ Len(s) \in Nat /\ Len(s) > 0 /\ Head(s) = s[1] /\ Head(s) \in S
      /\ Tail(s) \in Seq(S) /\ Len(Tail(s)) = Len(s) - 1
  OBVIOUS
<1>2. DOMAIN s = 1..Len(s) /\ DOMAIN Tail(s) = 1..(Len(s) - 1)
  BY <1>1
<1>3. \A i \in 1..(Len(s) - 1) : Tail(s)[i] = s[i + 1]
  BY <1>1
<1>4. \A i \in 1..Len(s) : i = 1 \/ i - 1 \in 1..(Len(s) - 1)
  BY <1>1
<1>5. Range(s) \subseteq {Head(s)} \cup Range(Tail(s))
  <2>1. ASSUME NEW i \in 1..Len(s) PROVE s[i] \in {Head(s)} \cup Range(Tail(s))
    <3>1. CASE i = 1
      BY <1>1, <3>1
    <3>2. CASE i - 1 \in 1..(Len(s) - 1)
      <4>1. s[i] = Tail(s)[i - 1]
        BY <1>3, <3>2
      <4> QED BY <1>2, <3>2, <4>1 DEF Range
    <3> QED BY <1>4, <3>1, <3>2
  <2> QED BY <1>2, <2>1 DEF Range
<1>6. {Head(s)} \cup Range(Tail(s)) \subseteq Range(s)
  BY <1>1, <1>2, <1>3 DEF Range
<1>7. ASSUME IsInjective(s)
      PROVE  IsInjective(Tail(s)) /\ Head(s) \notin Range(Tail(s))
  BY <1>1, <1>2, <1>3, <1>7 DEF IsInjective, Range
<1> QED BY <1>1, <1>5, <1>6, <1>7

\* What a relay reads is a batch of pending rows, each of them once.
LEMMA PollReads ==
  ASSUME NEW p \in Relays, Poll(p)
  PROVE  \E rows \in Seq(WebhookIds) :
           /\ Range(rows) \subseteq Pending /\ IsInjective(rows)
           /\ batch' = [batch EXCEPT ![p] = rows]
<1>1. PICK n \in 1..Limit : \E rows \in [1..n -> Pending] :
        IsInjective(rows) /\ batch' = [batch EXCEPT ![p] = rows]
  BY DEF Poll
<1>2. PICK rows \in [1..n -> Pending] :
        IsInjective(rows) /\ batch' = [batch EXCEPT ![p] = rows]
  BY <1>1
<1>3. n \in Nat
  BY LimitPositive
<1>4. rows \in Seq(WebhookIds) /\ Range(rows) \subseteq Pending
  BY <1>3 DEF Pending, Stored, Range
<1> QED BY <1>2, <1>4

\* The first row of a relay's batch.
LEMMA HeadIsRow ==
  ASSUME TypeOK, BatchesAreRows, NEW p \in Relays, batch[p] # <<>>
  PROVE  /\ batch[p] \in Seq(WebhookIds) /\ Head(batch[p]) \in WebhookIds
         /\ Head(batch[p]) \in Stored /\ Head(batch[p]) \in Range(batch[p])
         /\ row[Head(batch[p])] \in Rows
<1>1. batch[p] \in Seq(WebhookIds)
  BY DEF TypeOK
<1>2. Head(batch[p]) \in WebhookIds /\ Head(batch[p]) \in Range(batch[p])
  BY <1>1, HeadAndTail
<1> QED BY <1>1, <1>2 DEF TypeOK, BatchesAreRows, Stored

(* -------------------------- type correctness ------------------------- *)

LEMMA TypeNext == OutboxInv /\ [Next]_vars => TypeOK'
<1> SUFFICES ASSUME OutboxInv, [Next]_vars PROVE TypeOK'
  OBVIOUS
<1> USE DEF relayVars, OutboxInv
<1>1. ASSUME NEW d \in Deliveries, NEW w \in WebhookIds, Begin(d, w) PROVE TypeOK'
  <2>1. Cardinality(begun) \in Nat
    BY FinitelyMany, FS_Subset, FS_CardinalityType DEF TypeOK
  <2> QED BY <1>1, <2>1 DEF Begin, TypeOK, Transactions
<1>2. ASSUME NEW d \in Deliveries, End(d) PROVE TypeOK'
  <2>1. txn[d] \in Transactions
    BY <1>2 DEF End, TypeOK
  <2>2. NewRow(d) \in Rows /\ txn[d].about \in WebhookIds
    BY <2>1 DEF NewRow, Transactions, Rows, Statuses
  <2> QED BY <1>2, <2>2 DEF End, Inserted, TypeOK
<1>3. ASSUME NEW p \in Relays, Poll(p) PROVE TypeOK'
  <2>1. PICK rows \in Seq(WebhookIds) : batch' = [batch EXCEPT ![p] = rows]
    BY <1>3, PollReads
  <2> QED BY <1>3, <2>1 DEF Poll, TypeOK
<1>4. ASSUME NEW p \in Relays, SendToSqs(p) PROVE TypeOK'
  BY <1>4, HeadIsRow DEF SendToSqs, TypeOK
<1>5. ASSUME NEW p \in Relays, MarkEnqueued(p) PROVE TypeOK'
  <2>1. batch[p] # <<>>
    BY <1>5 DEF MarkEnqueued, InHandIsSent
  <2>2. [row[Head(batch[p])] EXCEPT !.enqueued = TRUE] \in Rows
    BY <2>1, HeadIsRow DEF Rows
  <2>3. Tail(batch[p]) \in Seq(WebhookIds)
    BY <2>1, HeadIsRow, HeadAndTail
  <2> QED BY <1>5, <2>1, <2>2, <2>3, HeadIsRow DEF MarkEnqueued, Marked, TypeOK
<1>6. ASSUME NEW p \in Relays, Fault(p) PROVE TypeOK'
  BY <1>6, FinitelyMany DEF Fault, TypeOK
<1>7. ASSUME NEW w \in WebhookIds, UpdateStatus(w) PROVE TypeOK'
  <2>1. row[w] \in Rows
    BY <1>7 DEF UpdateStatus, SentIsStored, Stored, TypeOK
  <2>2. \A status \in Statuses : [row[w] EXCEPT !.status = status] \in Rows
    BY <2>1 DEF Rows
  <2> QED BY <1>7, <2>2 DEF UpdateStatus, TypeOK
<1>8. CASE UNCHANGED vars
  BY <1>8 DEF vars, TypeOK
<1> QED BY <1>1, <1>2, <1>3, <1>4, <1>5, <1>6, <1>7, <1>8 DEF Next

(* ------------------------- the inductive invariant -------------------- *)

\* Nothing that was sent, and nothing that was stored, is taken back.
LEMMA StoredStays ==
  ASSUME OutboxInv, [Next]_vars
  PROVE  /\ Stored \subseteq Stored'
         /\ \A w \in WebhookIds : sent[w] \in Nat /\ sent'[w] \in Nat /\ sent[w] <= sent'[w]
<1> USE DEF relayVars, OutboxInv
<1>1. TypeOK'
  BY TypeNext
<1>2. ASSUME NEW d \in Deliveries, End(d) PROVE Stored \subseteq Stored'
  BY <1>2 DEF End, Inserted, Stored, TypeOK
<1>3. ASSUME NEW p \in Relays, MarkEnqueued(p) PROVE Stored \subseteq Stored'
  <2>1. [row[Head(batch[p])] EXCEPT !.enqueued = TRUE] # None
    BY <1>3, HeadIsRow, NoneIsNothing DEF MarkEnqueued, InHandIsSent, Rows
  <2> QED BY <1>3, <2>1 DEF MarkEnqueued, Marked, Stored, TypeOK
<1>4. ASSUME NEW w \in WebhookIds, UpdateStatus(w) PROVE Stored \subseteq Stored'
  <2>1. row[w] \in Rows
    BY <1>4 DEF UpdateStatus, SentIsStored, Stored, TypeOK
  <2>2. \A status \in Statuses : [row[w] EXCEPT !.status = status] # None
    BY <2>1, NoneIsNothing DEF Rows
  <2> QED BY <1>4, <2>2 DEF UpdateStatus, Stored, TypeOK
<1>5. Stored \subseteq Stored'
  BY <1>2, <1>3, <1>4 DEF Next, Begin, Poll, SendToSqs, Fault, Stored, vars
<1>6. \A w \in WebhookIds : sent[w] \in Nat /\ sent'[w] \in Nat
  BY <1>1 DEF TypeOK
<1>7. ASSUME NEW p \in Relays, SendToSqs(p), NEW w \in WebhookIds PROVE sent[w] <= sent'[w]
  BY <1>6, <1>7 DEF SendToSqs, TypeOK
<1>8. \A w \in WebhookIds : sent[w] <= sent'[w]
  BY <1>6, <1>7 DEF Next, Begin, End, Poll, MarkEnqueued, Fault, UpdateStatus, vars
<1> QED BY <1>5, <1>6, <1>8

LEMMA BatchesNext == OutboxInv /\ [Next]_vars => BatchesAreRows'
<1> SUFFICES ASSUME OutboxInv, [Next]_vars PROVE BatchesAreRows'
  OBVIOUS
<1> USE DEF OutboxInv, relayVars
<1>1. \A p \in Relays : Range(batch[p]) \subseteq Stored'
  BY StoredStays DEF BatchesAreRows
<1>2. ASSUME NEW p \in Relays, Poll(p) PROVE BatchesAreRows'
  <2>1. PICK rows \in Seq(WebhookIds) :
          /\ Range(rows) \subseteq Pending /\ IsInjective(rows)
          /\ batch' = [batch EXCEPT ![p] = rows]
    BY <1>2, PollReads
  <2>2. Range(rows) \subseteq Stored'
    BY <2>1, StoredStays DEF Pending
  <2> QED BY <1>1, <2>1, <2>2 DEF BatchesAreRows, TypeOK
<1>3. ASSUME NEW p \in Relays, MarkEnqueued(p) PROVE BatchesAreRows'
  <2>1. batch[p] \in Seq(WebhookIds) /\ batch[p] # <<>>
    BY <1>3 DEF MarkEnqueued, InHandIsSent, TypeOK
  <2>2. Range(Tail(batch[p])) \subseteq Stored' /\ IsInjective(Tail(batch[p]))
    BY <1>1, <2>1, HeadAndTail DEF BatchesAreRows
  <2> QED BY <1>1, <1>3, <2>2 DEF BatchesAreRows, MarkEnqueued, TypeOK
<1>4. ASSUME NEW p \in Relays, Fault(p) PROVE BatchesAreRows'
  <2>1. Range(<<>>) = {} /\ IsInjective(<<>>)
    BY DEF Range, IsInjective
  <2> QED BY <1>1, <1>4, <2>1 DEF BatchesAreRows, Fault, TypeOK
<1>5. CASE UNCHANGED batch
  BY <1>1, <1>5 DEF BatchesAreRows
<1> QED BY <1>2, <1>3, <1>4, <1>5 DEF Next, Begin, End, SendToSqs, UpdateStatus, vars

LEMMA InHandNext == OutboxInv /\ [Next]_vars => InHandIsSent'
<1> SUFFICES ASSUME OutboxInv, [Next]_vars, NEW p \in Relays, inHand'[p]
             PROVE  batch'[p] # <<>> /\ sent'[Head(batch'[p])] > 0
  BY DEF InHandIsSent
<1> USE DEF OutboxInv, relayVars
<1>1. ASSUME inHand[p], batch'[p] = batch[p]
      PROVE  batch'[p] # <<>> /\ sent'[Head(batch'[p])] > 0
  <2>1. batch[p] # <<>> /\ sent[Head(batch[p])] > 0 /\ Head(batch[p]) \in WebhookIds
    BY <1>1, HeadIsRow DEF InHandIsSent
  <2> QED BY <1>1, <2>1, StoredStays
<1>2. ASSUME NEW q \in Relays, Poll(q) PROVE inHand[p] /\ batch'[p] = batch[p]
  <2>1. inHand[p] /\ batch[p] # <<>> /\ batch[q] = <<>>
    BY <1>2 DEF Poll, InHandIsSent
  <2>2. PICK rows \in Seq(WebhookIds) : batch' = [batch EXCEPT ![q] = rows]
    BY <1>2, PollReads
  <2> QED BY <2>1, <2>2 DEF TypeOK
<1>3. ASSUME NEW q \in Relays, SendToSqs(q)
      PROVE  batch'[p] # <<>> /\ sent'[Head(batch'[p])] > 0
  <2>1. CASE p = q
    <3>1. batch'[p] # <<>> /\ Head(batch'[p]) \in WebhookIds
      BY <1>3, <2>1, HeadIsRow DEF SendToSqs
    <3> QED BY <1>3, <2>1, <3>1 DEF SendToSqs, TypeOK
  <2>2. CASE p # q
    BY <1>1, <1>3, <2>2 DEF SendToSqs, TypeOK
  <2> QED BY <2>1, <2>2
<1>4. ASSUME NEW q \in Relays, MarkEnqueued(q) \/ Fault(q)
      PROVE  inHand[p] /\ batch'[p] = batch[p]
  BY <1>4 DEF MarkEnqueued, Fault, TypeOK
<1>5. CASE UNCHANGED relayVars
  BY <1>1, <1>5
<1> QED BY <1>1, <1>2, <1>3, <1>4, <1>5 DEF Next, Begin, End, UpdateStatus, vars

LEMMA SentNext == OutboxInv /\ [Next]_vars => SentIsStored'
<1> SUFFICES ASSUME OutboxInv, [Next]_vars, NEW w \in WebhookIds, sent'[w] > 0
             PROVE  w \in Stored'
  BY DEF SentIsStored
<1> USE DEF OutboxInv
<1>1. ASSUME NEW p \in Relays, SendToSqs(p), w = Head(batch[p]) PROVE w \in Stored
  BY <1>1, HeadIsRow DEF SendToSqs
<1>2. ASSUME NEW p \in Relays, SendToSqs(p), w # Head(batch[p]) PROVE w \in Stored
  BY <1>2 DEF SendToSqs, SentIsStored, TypeOK
<1>3. CASE UNCHANGED sent
  BY <1>3, StoredStays DEF SentIsStored
<1> QED BY <1>1, <1>2, <1>3, StoredStays
        DEF Next, Begin, End, Poll, MarkEnqueued, Fault, UpdateStatus, vars

\* A row that is marked after a step was marked before, or a relay that had sent
\* it marks it now.
LEMMA MarkedFrom ==
  ASSUME OutboxInv, [Next]_vars, NEW w \in Stored', row'[w].enqueued
  PROVE  \/ w \in Stored /\ row[w].enqueued
         \/ \E p \in Relays : MarkEnqueued(p) /\ w = Head(batch[p])
<1> USE DEF OutboxInv, relayVars
<1>1. w \in WebhookIds
  BY DEF Stored
<1>2. ASSUME NEW d \in Deliveries, End(d) PROVE w \in Stored /\ row[w].enqueued
  <2>1. ~NewRow(d).enqueued /\ row \in [WebhookIds -> Rows \cup {None}]
    BY DEF NewRow, TypeOK
  <2>2. row'[w] # None
    BY DEF Stored
  <2>3. row' = row \/ row' = [row EXCEPT ![txn[d].about] = NewRow(d)]
    BY <1>2 DEF End, Inserted
  <2>4. row'[w] = row[w]
    BY <1>1, <2>1, <2>3
  <2> QED BY <1>1, <2>2, <2>4 DEF Stored
<1>3. ASSUME NEW p \in Relays, MarkEnqueued(p), w # Head(batch[p])
      PROVE  w \in Stored /\ row[w].enqueued
  BY <1>1, <1>3 DEF MarkEnqueued, Marked, Stored, TypeOK
<1>4. ASSUME NEW v \in WebhookIds, UpdateStatus(v) PROVE w \in Stored /\ row[w].enqueued
  <2>1. row[v] \in Rows /\ row[v] # None
    BY <1>4 DEF UpdateStatus, SentIsStored, Stored, TypeOK
  <2>2. \A status \in Statuses : [row[v] EXCEPT !.status = status].enqueued = row[v].enqueued
    BY <2>1 DEF Rows
  <2> QED BY <1>1, <1>4, <2>1, <2>2 DEF UpdateStatus, Stored, TypeOK
<1>5. CASE UNCHANGED row
  BY <1>5 DEF Stored
<1> QED BY <1>2, <1>3, <1>4, <1>5 DEF Next, Begin, Poll, SendToSqs, Fault, vars

LEMMA MarkedNext == OutboxInv /\ [Next]_vars => MarkedIsSent'
<1> SUFFICES ASSUME OutboxInv, [Next]_vars, NEW w \in Stored', row'[w].enqueued
             PROVE  sent'[w] > 0
  BY DEF MarkedIsSent
<1> USE DEF OutboxInv
<1>1. w \in WebhookIds
  BY DEF Stored
<1>2. CASE w \in Stored /\ row[w].enqueued
  BY <1>1, <1>2, StoredStays DEF MarkedIsSent
<1>3. ASSUME NEW p \in Relays, MarkEnqueued(p), w = Head(batch[p]) PROVE sent'[w] > 0
  BY <1>1, <1>3, StoredStays DEF MarkEnqueued, InHandIsSent
<1> QED BY <1>2, <1>3, MarkedFrom

(* ------------------------- the count of the sends --------------------- *)

Enqueued(w) == w \in Stored /\ row[w].enqueued

Account(w) ==
  IF Enqueued(w) THEN sent[w] + Cardinality(Waiting(w)) <= Cardinality(Relays) + faults
  ELSE sent[w] <= Cardinality(Sending(w)) + faults

LEMMA RelaySets ==
  ASSUME NEW w
  PROVE  /\ Sending(w) \subseteq Relays /\ IsFiniteSet(Sending(w))
         /\ Waiting(w) \subseteq Relays /\ IsFiniteSet(Waiting(w))
         /\ Cardinality(Sending(w)) \in Nat /\ Cardinality(Waiting(w)) \in Nat
         /\ Cardinality(Relays) \in Nat
         /\ Cardinality(Sending(w)) + Cardinality(Waiting(w)) <= Cardinality(Relays)
<1>1. Sending(w) \subseteq Relays /\ Waiting(w) \subseteq Relays
  BY DEF Sending, Waiting
<1>2. /\ IsFiniteSet(Relays) /\ IsFiniteSet(Sending(w)) /\ IsFiniteSet(Waiting(w))
      /\ Cardinality(Relays) \in Nat
      /\ Cardinality(Sending(w)) \in Nat /\ Cardinality(Waiting(w)) \in Nat
  BY <1>1, FinitelyMany, FS_Subset, FS_CardinalityType
<1>3. Sending(w) \cap Waiting(w) = {}
  BY DEF Waiting
<1>4. Cardinality(Sending(w) \cup Waiting(w)) = Cardinality(Sending(w)) + Cardinality(Waiting(w))
  <2>1. Cardinality(Sending(w) \cup Waiting(w)) =
          Cardinality(Sending(w)) + Cardinality(Waiting(w))
            - Cardinality(Sending(w) \cap Waiting(w))
    BY <1>2, FS_Union
  <2>2. Cardinality(Sending(w) \cap Waiting(w)) = 0
    BY <1>3, FS_EmptySet
  <2> QED BY <1>2, <2>1, <2>2
<1>5. Cardinality(Sending(w) \cup Waiting(w)) <= Cardinality(Relays)
  BY <1>1, <1>2, FS_Subset
<1> QED BY <1>1, <1>2, <1>4, <1>5

\* The account of a webhook that a step does not touch.
LEMMA AccountStays ==
  ASSUME NEW w \in WebhookIds, Account(w), Enqueued(w)' = Enqueued(w),
         sent'[w] = sent[w], faults' = faults,
         Sending(w)' = Sending(w), Waiting(w)' = Waiting(w)
  PROVE  Account(w)'
BY DEF Account

LEMMA PollAccount ==
  ASSUME OutboxInv, NEW p \in Relays, Poll(p), NEW w \in WebhookIds, Account(w)
  PROVE  Account(w)'
<1> USE DEF OutboxInv
<1>1. PICK rows \in Seq(WebhookIds) :
        /\ Range(rows) \subseteq Pending /\ IsInjective(rows)
        /\ batch' = [batch EXCEPT ![p] = rows]
  BY PollReads
<1>2. batch[p] = <<>> /\ inHand' = inHand /\ ~inHand[p]
  BY DEF Poll, InHandIsSent
<1>3. \A q \in Relays \ {p} : batch'[q] = batch[q]
  BY <1>1 DEF TypeOK
<1>4. batch'[p] = rows
  BY <1>1 DEF TypeOK
<1>5. Sending(w)' = Sending(w)
  BY <1>2, <1>3 DEF Sending
<1>6. Enqueued(w)' = Enqueued(w) /\ sent' = sent /\ faults' = faults
  BY DEF Poll, Enqueued, Stored
<1>7. CASE Enqueued(w)
  <2>1. w \notin Range(rows)
    BY <1>1, <1>7 DEF Pending, Enqueued
  <2>2. w \notin Range(batch[p])
    BY <1>2 DEF Range
  <2>3. Waiting(w)' = Waiting(w)
    BY <1>2, <1>3, <1>4, <1>5, <2>1, <2>2 DEF Waiting
  <2> QED BY <1>5, <1>6, <2>3 DEF Account
<1>8. CASE ~Enqueued(w)
  BY <1>5, <1>6, <1>8 DEF Account
<1> QED BY <1>7, <1>8

LEMMA SendAccount ==
  ASSUME OutboxInv, NEW p \in Relays, SendToSqs(p), NEW w \in WebhookIds, Account(w)
  PROVE  Account(w)'
<1> USE DEF OutboxInv
<1>1. /\ batch' = batch /\ faults' = faults /\ batch[p] # <<>> /\ ~inHand[p] /\ inHand'[p]
      /\ \A q \in Relays \ {p} : inHand'[q] = inHand[q]
  BY DEF SendToSqs, TypeOK
<1>2. Enqueued(w)' = Enqueued(w)
  BY DEF SendToSqs, Enqueued, Stored
<1>3. CASE w # Head(batch[p])
  <2>1. sent'[w] = sent[w]
    BY <1>3 DEF SendToSqs, TypeOK
  <2>2. Sending(w)' = Sending(w)
    BY <1>1, <1>3 DEF Sending
  <2>3. Waiting(w)' = Waiting(w)
    BY <1>1, <2>2 DEF Waiting
  <2> QED BY <1>1, <1>2, <2>1, <2>2, <2>3, AccountStays
<1>4. CASE w = Head(batch[p])
  <2>1. sent[w] \in Nat /\ sent'[w] = sent[w] + 1 /\ faults \in Nat
    BY <1>4, FinitelyMany DEF SendToSqs, TypeOK
  <2>2. p \notin Sending(w) /\ Sending(w)' = Sending(w) \cup {p}
    BY <1>1, <1>4 DEF Sending
  <2>3. Cardinality(Sending(w)') = Cardinality(Sending(w)) + 1
    BY <2>2, RelaySets, FS_AddElement
  <2>4. p \in Waiting(w) /\ Waiting(w)' = Waiting(w) \ {p}
    BY <1>1, <1>4, <2>2, HeadIsRow DEF Waiting
  <2>5. Cardinality(Waiting(w)') = Cardinality(Waiting(w)) - 1
    BY <2>4, RelaySets, FS_RemoveElement
  <2>6. Cardinality(Sending(w)) \in Nat /\ Cardinality(Waiting(w)) \in Nat
    BY RelaySets
  <2>7. faults' = faults
    BY <1>1
  <2> HIDE DEF OutboxInv
  <2>8. CASE Enqueued(w)
    BY <1>2, <2>1, <2>5, <2>6, <2>7, <2>8, RelaySets DEF Account
  <2>9. CASE ~Enqueued(w)
    BY <1>2, <2>1, <2>3, <2>6, <2>7, <2>9 DEF Account
  <2> QED BY <2>8, <2>9
<1> QED BY <1>3, <1>4

LEMMA MarkAccount ==
  ASSUME OutboxInv, NEW p \in Relays, MarkEnqueued(p), NEW w \in WebhookIds, Account(w)
  PROVE  Account(w)'
<1> USE DEF OutboxInv
<1> DEFINE h == Head(batch[p])
<1>1. /\ inHand[p] /\ batch[p] # <<>> /\ batch[p] \in Seq(WebhookIds)
      /\ ~inHand'[p] /\ batch'[p] = Tail(batch[p])
      /\ \A q \in Relays \ {p} : inHand'[q] = inHand[q] /\ batch'[q] = batch[q]
      /\ sent' = sent /\ faults' = faults
  BY DEF MarkEnqueued, InHandIsSent, TypeOK
<1>2. Range(batch[p]) = {h} \cup Range(Tail(batch[p])) /\ h \notin Range(Tail(batch[p]))
  BY <1>1, HeadAndTail DEF BatchesAreRows
<1>3. CASE w # h
  <2>1. Enqueued(w)' = Enqueued(w)
    BY <1>3 DEF MarkEnqueued, Marked, Enqueued, Stored, TypeOK
  <2>2. Sending(w)' = Sending(w)
    BY <1>1, <1>3 DEF Sending
  <2>3. Waiting(w)' = Waiting(w)
    BY <1>1, <1>2, <1>3, <2>2 DEF Waiting
  <2> QED BY <1>1, <2>1, <2>2, <2>3, AccountStays
<1>4. CASE w = h
  <2>1. Enqueued(w)'
    <3>1. [row[h] EXCEPT !.enqueued = TRUE] \in Rows
      BY <1>1, HeadIsRow DEF Rows
    <3>2. [row[h] EXCEPT !.enqueued = TRUE].enqueued
      BY <1>1, HeadIsRow DEF Rows
    <3>3. row'[w] = [row[h] EXCEPT !.enqueued = TRUE]
      BY <1>4 DEF MarkEnqueued, Marked, TypeOK
    <3> QED BY <3>1, <3>2, <3>3, NoneIsNothing DEF Enqueued, Stored
  <2>2. p \in Sending(w) /\ Sending(w)' = Sending(w) \ {p}
    BY <1>1, <1>4 DEF Sending
  <2>3. Waiting(w)' = Waiting(w)
    BY <1>1, <1>2, <1>4, <2>2 DEF Waiting
  <2>4. sent[w] \in Nat /\ faults \in Nat
    BY FinitelyMany DEF TypeOK
  <2> QED BY <1>1, <2>1, <2>3, <2>4, RelaySets DEF Account
<1> QED BY <1>3, <1>4

LEMMA FaultAccount ==
  ASSUME OutboxInv, NEW p \in Relays, Fault(p), NEW w \in WebhookIds, Account(w)
  PROVE  Account(w)'
<1> USE DEF OutboxInv
<1>1. /\ ~inHand'[p] /\ batch'[p] = <<>>
      /\ \A q \in Relays \ {p} : inHand'[q] = inHand[q] /\ batch'[q] = batch[q]
      /\ sent' = sent /\ faults' = faults + 1
      /\ Enqueued(w)' = Enqueued(w)
      /\ sent[w] \in Nat /\ faults \in Nat
  BY FinitelyMany DEF Fault, Enqueued, Stored, TypeOK
<1>2. Sending(w)' = Sending(w) \ {p}
  BY <1>1 DEF Sending
<1>3. Waiting(w)' \subseteq Waiting(w)
  <2>1. Range(<<>>) = {}
    BY DEF Range
  <2> QED BY <1>1, <1>2, <2>1 DEF Waiting
<1>4. Cardinality(Waiting(w)') <= Cardinality(Waiting(w)) /\ Cardinality(Waiting(w)') \in Nat
  BY <1>3, RelaySets, FS_Subset, FS_CardinalityType
<1>5. Cardinality(Sending(w)) <= Cardinality(Sending(w)') + 1 /\ Cardinality(Sending(w)') \in Nat
  <2>1. /\ IsFiniteSet(Sending(w)) /\ Cardinality(Sending(w)) \in Nat
        /\ IsFiniteSet(Sending(w) \ {p}) /\ Cardinality(Sending(w) \ {p}) \in Nat
    BY RelaySets, FS_RemoveElement, FS_CardinalityType
  <2>2. Cardinality(Sending(w) \ {p}) =
          IF p \in Sending(w) THEN Cardinality(Sending(w)) - 1 ELSE Cardinality(Sending(w))
    BY <2>1, FS_RemoveElement
  <2>3. Cardinality(Sending(w)) <= Cardinality(Sending(w) \ {p}) + 1
    BY <2>1, <2>2
  <2> QED BY <1>2, <2>1, <2>3
<1> HIDE DEF OutboxInv
<1>6. CASE Enqueued(w)
  BY <1>1, <1>4, <1>6, RelaySets DEF Account
<1>7. CASE ~Enqueued(w)
  BY <1>1, <1>5, <1>7, RelaySets DEF Account
<1> QED BY <1>6, <1>7

LEMMA AccountsNext == OutboxInv /\ [Next]_vars => SendsAreAccounted'
<1> SUFFICES ASSUME OutboxInv, [Next]_vars, NEW w \in WebhookIds PROVE Account(w)'
  BY DEF SendsAreAccounted, Account, Enqueued
<1> USE DEF relayVars
<1>1. Account(w)
  BY DEF OutboxInv, SendsAreAccounted, Account, Enqueued
<1>2. ASSUME UNCHANGED <<batch, inHand, sent, faults>>, Enqueued(w)' = Enqueued(w)
      PROVE  Account(w)'
  <2>1. Sending(w)' = Sending(w)
    BY <1>2 DEF Sending
  <2>2. Waiting(w)' = Waiting(w)
    BY <1>2, <2>1 DEF Waiting
  <2> QED BY <1>1, <1>2, <2>1, <2>2, AccountStays
<1>3. ASSUME NEW d \in Deliveries, End(d) PROVE Enqueued(w)' = Enqueued(w)
  <2>1. row'[w] = row[w] \/ (row[w] = None /\ row'[w] = NewRow(d))
    BY <1>3 DEF End, Inserted, OutboxInv, TypeOK
  <2>2. ~NewRow(d).enqueued
    BY DEF NewRow
  <2> QED BY <2>1, <2>2 DEF Enqueued, Stored
<1>4. ASSUME NEW v \in WebhookIds, UpdateStatus(v) PROVE Enqueued(w)' = Enqueued(w)
  <2>1. row[v] \in Rows /\ row[v] # None
    BY <1>4 DEF UpdateStatus, OutboxInv, SentIsStored, Stored, TypeOK
  <2>2. \A status \in Statuses :
          /\ [row[v] EXCEPT !.status = status].enqueued = row[v].enqueued
          /\ [row[v] EXCEPT !.status = status] # None
    BY <2>1, NoneIsNothing DEF Rows
  <2> QED BY <1>4, <2>1, <2>2 DEF UpdateStatus, Enqueued, Stored, OutboxInv, TypeOK
<1>5. ASSUME row' = row PROVE Enqueued(w)' = Enqueued(w)
  BY <1>5 DEF Enqueued, Stored
<1> QED BY <1>1, <1>2, <1>3, <1>4, <1>5, PollAccount, SendAccount, MarkAccount, FaultAccount
        DEF Next, Begin, End, UpdateStatus, vars

(* --------------------------- the order of rows ------------------------ *)

LEMMA RowHasAge ==
  ASSUME TypeOK, NEW w \in Stored
  PROVE  w \in WebhookIds /\ row[w] \in Rows /\ row[w].createdAt \in Nat
         /\ row[w].createdAt # None
<1>1. w \in WebhookIds /\ row[w] \in Rows
  BY DEF Stored, TypeOK
<1> QED BY <1>1, NoneIsNothing DEF Rows

\* The rows that were in the table keep their created_at; a new one has that of
\* the transaction which inserted it, and is the only one.
LEMMA RowsKeepTheirTime ==
  ASSUME OutboxInv, [Next]_vars
  PROVE  /\ \A w \in Stored : w \in Stored' /\ row'[w].createdAt = row[w].createdAt
         /\ \A w \in Stored' \ Stored :
              \E d \in Deliveries : /\ End(d) /\ w = txn[d].about
                                    /\ row'[w].createdAt = txn[d].startedAt
<1> USE DEF relayVars, OutboxInv
<1> DEFINE Goal ==
      /\ \A w \in Stored : w \in Stored' /\ row'[w].createdAt = row[w].createdAt
      /\ \A w \in Stored' \ Stored :
           \E d \in Deliveries : /\ End(d) /\ w = txn[d].about
                                 /\ row'[w].createdAt = txn[d].startedAt
<1>1. CASE UNCHANGED row
  BY <1>1 DEF Stored
<1>2. ASSUME NEW w \in Stored, NEW r, row' = [row EXCEPT ![w] = r], r \in Rows,
             r.createdAt = row[w].createdAt
      PROVE  Goal
  <2>1. w \in WebhookIds /\ r # None
    BY <1>2, NoneIsNothing DEF Stored
  <2>2. \A v \in WebhookIds : row'[v] = IF v = w THEN r ELSE row[v]
    BY <1>2, <2>1 DEF TypeOK
  <2> QED BY <1>2, <2>1, <2>2 DEF Stored
<1>3. ASSUME NEW d \in Deliveries, End(d) PROVE Goal
  <2>1. CASE row' # row
    <3>1. /\ txn[d] \in Transactions /\ txn[d].about \in WebhookIds
          /\ row[txn[d].about] = None /\ row' = [row EXCEPT ![txn[d].about] = NewRow(d)]
      BY <1>3, <2>1 DEF End, Inserted, TypeOK, Transactions
    <3>2. NewRow(d).createdAt = txn[d].startedAt
      BY DEF NewRow
    <3>3. \A v \in WebhookIds : row'[v] = IF v = txn[d].about THEN NewRow(d) ELSE row[v]
      BY <3>1 DEF TypeOK
    <3>4. \A v \in Stored : v \in WebhookIds /\ v # txn[d].about /\ row'[v] = row[v]
      BY <3>1, <3>3 DEF Stored
    <3>5. \A v \in Stored' \ Stored : v = txn[d].about
      BY <3>3 DEF Stored
    <3> QED BY <1>3, <3>1, <3>2, <3>3, <3>4, <3>5 DEF Stored
  <2> QED BY <1>1, <2>1
<1>4. ASSUME NEW p \in Relays, MarkEnqueued(p) PROVE Goal
  <2>1. Head(batch[p]) \in Stored /\ row[Head(batch[p])] \in Rows
    BY <1>4, HeadIsRow DEF MarkEnqueued, InHandIsSent
  <2>2. /\ [row[Head(batch[p])] EXCEPT !.enqueued = TRUE] \in Rows
        /\ [row[Head(batch[p])] EXCEPT !.enqueued = TRUE].createdAt =
             row[Head(batch[p])].createdAt
    BY <2>1 DEF Rows
  <2> QED BY <1>2, <1>4, <2>1, <2>2 DEF MarkEnqueued, Marked
<1>5. ASSUME NEW w \in WebhookIds, UpdateStatus(w) PROVE Goal
  <2>1. row[w] \in Rows /\ w \in Stored
    BY <1>5 DEF UpdateStatus, SentIsStored, Stored, TypeOK
  <2>2. PICK status \in Statuses : row' = [row EXCEPT ![w] = [row[w] EXCEPT !.status = status]]
    BY <1>5 DEF UpdateStatus
  <2>3. /\ [row[w] EXCEPT !.status = status] \in Rows
        /\ [row[w] EXCEPT !.status = status].createdAt = row[w].createdAt
    BY <2>1 DEF Rows
  <2> QED BY <1>2, <2>1, <2>2, <2>3
<1> QED BY <1>1, <1>3, <1>4, <1>5 DEF Next, Begin, Poll, SendToSqs, Fault, vars

\* Only BEGIN opens a transaction, and it takes a time that comes after all others.
LEMMA TransactionsKeepTheirTime ==
  ASSUME OutboxInv, [Next]_vars
  PROVE  /\ Cardinality(begun) \in Nat /\ Cardinality(begun') \in Nat
         /\ Cardinality(begun) <= Cardinality(begun')
         /\ \A d \in Open' :
              \/ d \in Open /\ txn'[d] = txn[d]
              \/ /\ d \notin Open /\ d \in begun'
                 /\ txn'[d].startedAt = Cardinality(begun)
                 /\ Cardinality(begun') = Cardinality(begun) + 1
                 /\ row' = row
                 /\ \A e \in Open' \ {d} : e \in Open /\ txn'[e] = txn[e]
<1> USE DEF relayVars, OutboxInv
<1>1. begun \in SUBSET Deliveries /\ IsFiniteSet(begun) /\ Cardinality(begun) \in Nat
  BY FinitelyMany, FS_Subset, FS_CardinalityType DEF TypeOK
<1>2. CASE UNCHANGED <<begun, txn>>
  BY <1>1, <1>2 DEF Open
<1>3. ASSUME NEW d \in Deliveries, End(d)
      PROVE  begun' = begun /\ \A e \in Open' : e \in Open /\ txn'[e] = txn[e]
  BY <1>3 DEF End, Open, TypeOK
<1>4. ASSUME NEW d \in Deliveries, NEW w \in WebhookIds, Begin(d, w)
      PROVE  /\ Cardinality(begun') = Cardinality(begun) + 1 /\ row' = row
             /\ d \notin Open /\ d \in begun' /\ txn'[d].startedAt = Cardinality(begun)
             /\ \A e \in Open' \ {d} : e \in Open /\ txn'[e] = txn[e]
  <2>1. Cardinality(begun') = Cardinality(begun) + 1
    BY <1>1, <1>4, FS_AddElement DEF Begin
  <2>2. /\ txn' = [txn EXCEPT ![d] = [about |-> w, startedAt |-> Cardinality(begun)]]
        /\ d \notin begun /\ d \in begun' /\ row' = row
    BY <1>4 DEF Begin
  <2> QED BY <2>1, <2>2 DEF Open, TypeOK, TimesAreOver
<1> QED BY <1>1, <1>2, <1>3, <1>4 DEF Next, Poll, SendToSqs, MarkEnqueued, Fault, UpdateStatus,
                                      vars

\* The times after a step: those of before, or the new one of a transaction that
\* begins, which comes after all of them.
LEMMA TimesNext ==
  ASSUME OutboxInv, [Next]_vars
  PROVE  \A t \in Times' : \/ t \in Times
                           \/ t = Cardinality(begun) /\ t + 1 = Cardinality(begun')
<1> DEFINE IsNew(t) == t = Cardinality(begun) /\ t + 1 = Cardinality(begun')
<1> SUFFICES ASSUME NEW t \in Times' PROVE t \in Times \/ IsNew(t)
  OBVIOUS
<1>1. ASSUME NEW w \in Stored', t = row'[w].createdAt PROVE t \in Times
  <2>1. CASE w \in Stored
    BY <1>1, <2>1, RowsKeepTheirTime DEF Times
  <2>2. CASE w \notin Stored
    <3>1. PICK d \in Deliveries : End(d) /\ row'[w].createdAt = txn[d].startedAt
      BY <2>2, RowsKeepTheirTime
    <3>2. d \in Open
      BY <3>1 DEF End, Open
    <3> QED BY <1>1, <3>1, <3>2 DEF Times
  <2> QED BY <2>1, <2>2
<1>2. ASSUME NEW d \in Open', t = txn'[d].startedAt
      PROVE  t \in Times \/ IsNew(t)
  BY <1>2, TransactionsKeepTheirTime DEF Times
<1>3. \/ \E w \in Stored' : t = row'[w].createdAt
      \/ \E d \in Open' : t = txn'[d].startedAt
  BY DEF Times
<1> QED BY <1>1, <1>2, <1>3

LEMMA TimesAreNumbers == OutboxInv => Times \subseteq Nat
<1> SUFFICES ASSUME OutboxInv PROVE Times \subseteq Nat
  OBVIOUS
<1>1. \A w \in Stored : row[w].createdAt \in Nat
  BY RowHasAge DEF OutboxInv
<1>2. \A d \in Open : txn[d].startedAt \in Nat
  BY DEF OutboxInv, TypeOK, Open, Transactions
<1> QED BY <1>1, <1>2 DEF Times

LEMMA OverNext == OutboxInv /\ [Next]_vars => TimesAreOver'
<1> SUFFICES ASSUME OutboxInv, [Next]_vars PROVE TimesAreOver'
  OBVIOUS
<1>1. Open' \subseteq begun'
  <2>1. begun \subseteq begun' /\ Open \subseteq begun
    BY DEF OutboxInv, TimesAreOver, Next, Begin, End, Poll, SendToSqs, MarkEnqueued, Fault,
           UpdateStatus, vars
  <2>2. ASSUME NEW d \in Open', d \notin Open PROVE d \in begun'
    BY <2>2, TransactionsKeepTheirTime
  <2> QED BY <2>1, <2>2
<1>2. ASSUME NEW t \in Times' PROVE t < Cardinality(begun')
  <2>1. CASE t \in Times
    <3>1. t \in Nat /\ t < Cardinality(begun)
      BY <2>1, TimesAreNumbers DEF OutboxInv, TimesAreOver
    <3> QED BY <3>1, TransactionsKeepTheirTime
  <2>2. CASE t \notin Times
    BY <2>2, TimesNext, TransactionsKeepTheirTime
  <2> QED BY <2>1, <2>2
<1> QED BY <1>1, <1>2 DEF TimesAreOver

LEMMA DistinctNext == OutboxInv /\ [Next]_vars => TimesAreDistinct'
<1> SUFFICES ASSUME OutboxInv, [Next]_vars PROVE TimesAreDistinct'
  OBVIOUS
<1>1. /\ \A w \in Stored : row[w].createdAt \in Times
      /\ \A d \in Open : txn[d].startedAt \in Times
  BY DEF Times
<1>2. Cardinality(begun) \notin Times
  <2>1. \A t \in Times : t \in Nat /\ t < Cardinality(begun)
    BY TimesAreNumbers DEF OutboxInv, TimesAreOver
  <2>2. \A t \in Nat : ~(t < t)
    OBVIOUS
  <2> QED BY <2>1, <2>2
\* The transaction that inserts a row is open until then.
<1>3. ASSUME NEW w \in Stored', w \notin Stored
      PROVE  \E d \in Open \ Open' : /\ End(d) /\ w = txn[d].about
                                    /\ row'[w].createdAt = txn[d].startedAt
  <2>1. PICK d \in Deliveries : /\ End(d) /\ w = txn[d].about
                                /\ row'[w].createdAt = txn[d].startedAt
    BY <1>3, RowsKeepTheirTime
  <2>2. txn[d] # None /\ txn'[d] = None
    BY <2>1 DEF End, OutboxInv, TypeOK
  <2> QED BY <2>1, <2>2 DEF Open
<1>4. ASSUME NEW v \in Stored', NEW w \in Stored', row'[v].createdAt = row'[w].createdAt
      PROVE  v = w
  <2>1. CASE v \in Stored /\ w \in Stored
    BY <1>4, <2>1, RowsKeepTheirTime DEF OutboxInv, TimesAreDistinct
  <2>2. ASSUME NEW x \in Stored, NEW y \in Stored', y \notin Stored
        PROVE  row'[x].createdAt # row'[y].createdAt
    <3>1. PICK d \in Open : row'[y].createdAt = txn[d].startedAt
      BY <1>3, <2>2
    <3>2. row'[x].createdAt = row[x].createdAt
      BY RowsKeepTheirTime
    <3> QED BY <3>1, <3>2 DEF OutboxInv, TimesAreDistinct
  <2>3. CASE v \notin Stored /\ w \notin Stored
    <3>1. PICK d \in Open \ Open' : /\ End(d) /\ v = txn[d].about
                                   /\ row'[v].createdAt = txn[d].startedAt
      BY <1>3, <2>3
    <3>2. PICK e \in Open \ Open' : /\ End(e) /\ w = txn[e].about
                                   /\ row'[w].createdAt = txn[e].startedAt
      BY <1>3, <2>3
    <3>3. d = e
      BY <1>4, <3>1, <3>2 DEF OutboxInv, TimesAreDistinct
    <3> QED BY <3>1, <3>2, <3>3
  <2> QED BY <1>4, <2>1, <2>2, <2>3
<1>5. ASSUME NEW d \in Open', NEW e \in Open', txn'[d].startedAt = txn'[e].startedAt
      PROVE  d = e
  <2>1. CASE d \in Open /\ e \in Open
    BY <1>5, <2>1, TransactionsKeepTheirTime DEF OutboxInv, TimesAreDistinct
  <2>2. CASE d \notin Open /\ d # e
    BY <1>1, <1>2, <1>5, <2>2, TransactionsKeepTheirTime
  <2>3. CASE e \notin Open /\ d # e
    BY <1>1, <1>2, <1>5, <2>3, TransactionsKeepTheirTime
  <2> QED BY <2>1, <2>2, <2>3
<1>6. ASSUME NEW d \in Open', NEW w \in Stored'
      PROVE  txn'[d].startedAt # row'[w].createdAt
  <2>1. CASE d \notin Open
    <3>1. txn'[d].startedAt = Cardinality(begun) /\ row' = row
      BY <2>1, TransactionsKeepTheirTime
    <3>2. w \in Stored
      BY <3>1 DEF Stored
    <3> QED BY <1>1, <1>2, <3>1, <3>2
  <2>2. CASE d \in Open /\ w \in Stored
    <3>1. txn'[d].startedAt = txn[d].startedAt /\ row'[w].createdAt = row[w].createdAt
      BY <2>2, RowsKeepTheirTime, TransactionsKeepTheirTime
    <3> QED BY <2>2, <3>1 DEF OutboxInv, TimesAreDistinct
  <2>3. CASE d \in Open /\ w \notin Stored
    <3>1. PICK e \in Open \ Open' : row'[w].createdAt = txn[e].startedAt
      BY <1>3, <2>3
    <3>2. d # e /\ txn'[d].startedAt = txn[d].startedAt
      BY <2>3, <3>1, TransactionsKeepTheirTime
    <3> QED BY <2>3, <3>1, <3>2 DEF OutboxInv, TimesAreDistinct
  <2> QED BY <2>1, <2>2, <2>3
<1> QED BY <1>4, <1>5, <1>6 DEF TimesAreDistinct

(* ----------------------------- the theorems --------------------------- *)

LEMMA OutboxInit == Init => OutboxInv
<1> SUFFICES ASSUME Init PROVE OutboxInv
  OBVIOUS
<1>1. TypeOK
  BY FinitelyMany DEF Init, TypeOK
<1>2. Stored = {} /\ \A w \in WebhookIds : sent[w] = 0
  BY DEF Init, Stored
<1>3. BatchesAreRows
  BY DEF Init, BatchesAreRows, Range, IsInjective
<1>4. InHandIsSent /\ SentIsStored /\ MarkedIsSent
  BY <1>2 DEF Init, InHandIsSent, SentIsStored, MarkedIsSent
<1>5. SendsAreAccounted
  <2>1. faults = 0
    BY DEF Init
  <2> QED BY <1>2, <2>1, RelaySets DEF SendsAreAccounted
<1>6. TimesAreOver /\ TimesAreDistinct
  <2>1. Open = {}
    BY DEF Init, Open
  <2> QED BY <1>2, <2>1 DEF TimesAreOver, TimesAreDistinct, Times
<1> QED BY <1>1, <1>3, <1>4, <1>5, <1>6 DEF OutboxInv

\* The inductive invariant of the outbox: relays hold rows of the table, and
\* every send of GET_PENDING_RELAY's rows is accounted for.
THEOREM OutboxInductive == Spec => []OutboxInv
<1>1. Init => OutboxInv
  BY OutboxInit
<1>2. OutboxInv /\ [Next]_vars => OutboxInv'
  BY TypeNext, BatchesNext, InHandNext, SentNext, MarkedNext, AccountsNext, OverNext,
     DistinctNext DEF OutboxInv
<1> QED BY <1>1, <1>2, PTL DEF Spec

\* The type invariant of the outbox.
THEOREM OutboxTypeCorrect == Spec => []TypeOK
<1>1. OutboxInv => TypeOK
  BY DEF OutboxInv
<1> QED BY <1>1, OutboxInductive, PTL

\* UPDATE_ENQUEUED_AT never reaches a row that was not sent to SQS, however many
\* relays poll without locking rows, and wherever they fail.
THEOREM NothingDropsOut == Spec => []MarkedIsSent
<1>1. OutboxInv => MarkedIsSent
  BY DEF OutboxInv
<1> QED BY <1>1, OutboxInductive, PTL

\* A row is sent at most once by every relay, and once more for every fault.
THEOREM ResendsBounded == Spec => []ResendsHaveACause
<1>1. OutboxInv => ResendsHaveACause
  <2> SUFFICES ASSUME OutboxInv, NEW w \in WebhookIds
               PROVE  sent[w] <= Cardinality(Relays) + faults
    BY DEF ResendsHaveACause
  <2>1. sent[w] \in Nat /\ faults \in Nat
    BY FinitelyMany DEF OutboxInv, TypeOK
  <2>2. Account(w)
    BY DEF OutboxInv, SendsAreAccounted, Account, Enqueued
  <2> QED BY <2>1, <2>2, RelaySets DEF Account
<1> QED BY <1>1, OutboxInductive, PTL

\* What ORDER BY created_at puts before a row only shrinks: a transaction that
\* begins takes a time after all rows, and one that commits late had its time
\* already when it was still open, whatever else was committed and sent meanwhile.
THEOREM QueueOnlyShrinks == Spec => NobodyCutsIn
<1>1. OutboxInv /\ [Next]_vars => [\A w \in Stored : Ahead(w)' \subseteq Ahead(w)]_vars
  <2> SUFFICES ASSUME OutboxInv, [Next]_vars, NEW w \in Stored, NEW t \in Ahead(w)'
               PROVE  t \in Ahead(w)
    OBVIOUS
  <2>1. row'[w].createdAt = row[w].createdAt
    BY RowsKeepTheirTime
  <2>2. t \in Times' /\ t < row[w].createdAt
    BY <2>1 DEF Ahead
  <2>3. row[w].createdAt \in Nat /\ row[w].createdAt < Cardinality(begun)
    <3>1. row[w].createdAt \in Times
      BY DEF Times
    <3> QED BY <3>1, TimesAreNumbers DEF OutboxInv, TimesAreOver
  <2>4. t \in Times
    BY <2>2, <2>3, TimesNext, TransactionsKeepTheirTime
  <2> QED BY <2>2, <2>4 DEF Ahead
<1> QED BY <1>1, OutboxInductive, PTL DEF Spec, NobodyCutsIn

(* ------------------------ the abstract outbox ------------------------- *)

LEMMA PromisedStored == ASSUME TypeOK PROVE Promised!Stored = Stored
BY RowHasAge DEF Promised!Stored, Ages, Stored

\* What a step does not insert or mark is the same to the abstract outbox.
LEMMA RowsStay ==
  ASSUME Stored' = Stored,
         \A w \in Stored : row'[w].createdAt = row[w].createdAt
                          /\ row'[w].enqueued = row[w].enqueued
  PROVE  Ages' = Ages /\ MarkedRows' = MarkedRows
BY DEF Ages, MarkedRows

LEMMA InsertIsPromised ==
  ASSUME OutboxInv, NEW d \in Deliveries, End(d), row' # row
  PROVE  Promised!Insert(txn[d].about)
<1> DEFINE w == txn[d].about
<1>1. TypeOK /\ txn[d] \in Transactions /\ w \in WebhookIds
  BY DEF OutboxInv, End, TypeOK, Transactions
<1>2. row[w] = None /\ row' = [row EXCEPT ![w] = NewRow(d)] /\ sent' = sent
  BY DEF End, Inserted
<1>3. NewRow(d).createdAt \in Nat /\ ~NewRow(d).enqueued /\ NewRow(d) # None
  <2>1. NewRow(d) \in Rows /\ ~NewRow(d).enqueued
    BY <1>1 DEF NewRow, Transactions, Rows, Statuses
  <2> QED BY <2>1, NoneIsNothing DEF Rows
<1>4. /\ row'[w] = NewRow(d)
      /\ \A v \in WebhookIds \ {w} : row'[v] = row[v]
  BY <1>1, <1>2 DEF TypeOK
<1>5. w \notin Stored /\ Stored' = Stored \cup {w}
  BY <1>1, <1>2, <1>3, <1>4 DEF Stored
<1>6. Ages' = [Ages EXCEPT ![w] = NewRow(d).createdAt]
  BY <1>1, <1>4, <1>5 DEF Ages, Stored
<1>7. MarkedRows' = MarkedRows
  BY <1>3, <1>4, <1>5 DEF MarkedRows, Stored
<1>8. Ages'[w] = NewRow(d).createdAt
  BY <1>1, <1>6 DEF Ages
<1> QED BY <1>1, <1>2, <1>3, <1>5, <1>6, <1>7, <1>8, PromisedStored DEF Promised!Insert

LEMMA MarkIsPromised ==
  ASSUME OutboxInv, NEW p \in Relays, MarkEnqueued(p)
  PROVE  Promised!Mark(Head(batch[p])) /\ Head(batch[p]) \in WebhookIds
<1> DEFINE w == Head(batch[p])
           marked == [row[w] EXCEPT !.enqueued = TRUE]
<1>1. TypeOK /\ w \in Stored /\ w \in WebhookIds /\ row[w] \in Rows /\ sent[w] > 0
  BY HeadIsRow DEF OutboxInv, MarkEnqueued, InHandIsSent
<1>2. marked \in Rows /\ marked.enqueued /\ marked.createdAt = row[w].createdAt
  BY <1>1 DEF Rows
<1>3. row'[w] = marked /\ \A v \in WebhookIds \ {w} : row'[v] = row[v]
  BY <1>1 DEF MarkEnqueued, Marked, TypeOK
<1>4. Stored' = Stored
  BY <1>1, <1>2, <1>3, NoneIsNothing DEF Stored
<1>5. Ages' = Ages
  BY <1>2, <1>3, <1>4 DEF Ages
<1>6. MarkedRows' = MarkedRows \cup {w}
  BY <1>1, <1>2, <1>3, <1>4 DEF MarkedRows, Stored
<1> QED BY <1>1, <1>5, <1>6 DEF Promised!Mark, MarkEnqueued

LEMMA StatusIsNotPromised ==
  ASSUME OutboxInv, NEW w \in WebhookIds, UpdateStatus(w)
  PROVE  UNCHANGED <<Ages, sent, MarkedRows>>
<1>1. TypeOK /\ row[w] \in Rows /\ w \in Stored
  BY DEF OutboxInv, UpdateStatus, SentIsStored, Stored, TypeOK
<1>2. PICK status \in Statuses : row' = [row EXCEPT ![w].status = status]
  BY DEF UpdateStatus
<1> DEFINE updated == [row[w] EXCEPT !.status = status]
<1>3. /\ updated \in Rows /\ updated.createdAt = row[w].createdAt
      /\ updated.enqueued = row[w].enqueued
  BY <1>1 DEF Rows
<1>4. row'[w] = updated /\ \A v \in WebhookIds \ {w} : row'[v] = row[v]
  BY <1>1, <1>2 DEF TypeOK
<1>5. Stored' = Stored
  BY <1>1, <1>3, <1>4, NoneIsNothing DEF Stored
<1>6. \A v \in Stored : row'[v].createdAt = row[v].createdAt
                       /\ row'[v].enqueued = row[v].enqueued
  BY <1>3, <1>4 DEF Stored
<1> QED BY <1>5, <1>6, RowsStay DEF UpdateStatus

LEMMA StepIsPromised ==
  OutboxInv /\ [Next]_vars => [Promised!Next]_(Promised!outboxVars)
<1> SUFFICES ASSUME OutboxInv, [Next]_vars PROVE [Promised!Next]_(Promised!outboxVars)
  OBVIOUS
<1> USE DEF relayVars
<1>1. ASSUME UNCHANGED <<row, sent>> PROVE UNCHANGED Promised!outboxVars
  <2>1. Stored' = Stored
    BY <1>1 DEF Stored
  <2> QED BY <1>1, <2>1, RowsStay DEF Promised!outboxVars
<1>2. ASSUME NEW d \in Deliveries, End(d)
      PROVE  Promised!Next \/ UNCHANGED Promised!outboxVars
  <2>1. CASE row' = row
    BY <1>1, <1>2, <2>1 DEF End
  <2>2. CASE row' # row
    <3>1. txn[d].about \in WebhookIds
      BY <1>2 DEF End, OutboxInv, TypeOK, Transactions
    <3> QED BY <1>2, <2>2, <3>1, InsertIsPromised DEF Promised!Next
  <2> QED BY <2>1, <2>2
<1>3. ASSUME NEW p \in Relays, SendToSqs(p) PROVE Promised!Next
  <2>1. Head(batch[p]) \in Stored /\ Head(batch[p]) \in WebhookIds
    BY <1>3, HeadIsRow DEF SendToSqs, OutboxInv
  <2>2. Ages' = Ages /\ MarkedRows' = MarkedRows
    BY <1>3, RowsStay DEF SendToSqs, Stored
  <2>3. Head(batch[p]) \in Promised!Stored
    BY <2>1, PromisedStored DEF OutboxInv
  <2>4. Promised!Send(Head(batch[p]))
    BY <1>3, <2>2, <2>3 DEF SendToSqs, Promised!Send
  <2> QED BY <2>1, <2>4 DEF Promised!Next
<1>4. ASSUME NEW p \in Relays, MarkEnqueued(p) PROVE Promised!Next
  BY <1>4, MarkIsPromised DEF Promised!Next
<1>5. ASSUME NEW w \in WebhookIds, UpdateStatus(w) PROVE UNCHANGED Promised!outboxVars
  BY <1>5, StatusIsNotPromised DEF Promised!outboxVars
<1> QED BY <1>1, <1>2, <1>3, <1>4, <1>5 DEF Next, Begin, Poll, Fault, vars

\* Any number of relays that poll without locks, fail and poll again, over a
\* table that transactions fill in any order and a Lambda updates at will,
\* implement the abstract outbox.
THEOREM OutboxImplements == Spec => OutboxSpec
<1>1. Init => Promised!Init
  <2> SUFFICES ASSUME Init PROVE Promised!Init
    OBVIOUS
  <2>1. Stored = {} /\ \A w \in WebhookIds : w \notin Stored
    BY DEF Init, Stored
  <2> QED BY <2>1 DEF Init, Promised!Init, Ages, MarkedRows
<1> QED BY <1>1, OutboxInductive, StepIsPromised, PTL DEF Spec, OutboxSpec, Promised!Spec
========================================================================
