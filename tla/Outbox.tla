----------------------------- MODULE Outbox -----------------------------
(* What a transactional outbox promises, with nothing of how: no relays, no  *)
(* batches, no order of rows.  Rows are only ever added, and each of them    *)
(* keeps its age; a row may be sent once it is committed, and may be marked  *)
(* as sent once it was; a mark is for good.  Sending is at least once: a row *)
(* may be sent again, even when it is marked already.  RelayOutbox           *)
(* implements this specification.                                            *)
EXTENDS Naturals

CONSTANTS
  WebhookIds,
  None

VARIABLES
  age,      \* by webhook, the created_at of its row, None while there is none
  sent,     \* by webhook, how often it was sent
  marked    \* the webhooks whose rows are marked as sent

outboxVars == <<age, sent, marked>>

Stored == {w \in WebhookIds : age[w] # None}

Init ==
  /\ age = [w \in WebhookIds |-> None]
  /\ sent = [w \in WebhookIds |-> 0]
  /\ marked = {}

Insert(w) ==
  /\ w \notin Stored
  /\ age'[w] \in Nat /\ age' = [age EXCEPT ![w] = age'[w]]
  /\ UNCHANGED <<sent, marked>>

Send(w) ==
  /\ w \in Stored
  /\ sent' = [sent EXCEPT ![w] = @ + 1]
  /\ UNCHANGED <<age, marked>>

Mark(w) ==
  /\ sent[w] > 0
  /\ marked' = marked \cup {w}
  /\ UNCHANGED <<age, sent>>

Next == \E w \in WebhookIds : Insert(w) \/ Send(w) \/ Mark(w)

Spec == Init /\ [][Next]_outboxVars
=========================================================================
