----------------------- MODULE WebhookIntakeProofs -----------------------
(* That WebhookIngest implements WebhookIntake, proved for any number of     *)
(* deliveries, webhooks, instances and clients.  It takes the history of     *)
(* each delivery's one INSERT, on top of what WebhookIngestProofs shows.     *)
EXTENDS WebhookIngestProofs

(* ------------------ what becomes of the one INSERT -------------------- *)

\* Rows come from INSERTs on the wire, and enter the table by COMMITs.
LEMMA TracesArise ==
  ASSUME TypeOK, [Next]_vars, NEW d \in Deliveries
  PROVE  /\ \A c \in Clients : d \in dirty'[c] =>
              d \in dirty[c] \/ (DbInsert(c) /\ Inserting(d, c))
         /\ \A w \in WebhookIds : row'[w] = d =>
              row[w] = d \/ (\E c \in Clients : DbCommit(c) /\ d \in dirty[c])
<1> USE DEF handlerVars, clientVars, sessionVars
<1> DEFINE Dirty == \A c \in Clients : d \in dirty'[c] =>
                      d \in dirty[c] \/ (DbInsert(c) /\ Inserting(d, c))
           Rows == \A w \in WebhookIds : row'[w] = d =>
                     row[w] = d \/ (\E c \in Clients : DbCommit(c) /\ d \in dirty[c])
<1>1. ASSUME NEW c \in Clients, DbInsert(c)
      PROVE  Dirty /\ Rows
  <2>1. active[c] = Statement("INSERT", active[c].by) /\ row' = row
    BY <1>1, StatementFacts DEF DbInsert, Executes, TypeOK
  <2>2. \A b \in Clients :
          \/ dirty'[b] = dirty[b]
          \/ b = c /\ dirty'[c] = dirty[c] \cup {active[c].by}
    BY <1>1 DEF DbInsert, TypeOK
  <2> QED BY <1>1, <2>1, <2>2 DEF Inserting
<1>2. ASSUME NEW c \in Clients, DbCommit(c)
      PROVE  Dirty /\ Rows
  <2>1. row' = Committed(c) /\ \A b \in Clients : dirty'[b] \subseteq dirty[b]
    BY <1>2 DEF DbCommit, EndTransaction, TypeOK
  <2>2. ASSUME NEW w \in WebhookIds, row'[w] # row[w]
        PROVE  row'[w] \in dirty[c]
    <3>1. (\E e \in dirty[c] : id[e] = w) /\ row'[w] = CHOOSE e \in dirty[c] : id[e] = w
      BY <2>1, <2>2 DEF Committed
    <3> DEFINE f == CHOOSE e \in dirty[c] : id[e] = w
    <3>2. f \in dirty[c]
      BY <3>1
    <3> QED BY <3>1, <3>2
  <2> QED BY <1>2, <2>1, <2>2
<1>3. ASSUME NEW c \in Clients, DbRollback(c) \/ SessionEnds(c)
      PROVE  Dirty /\ Rows
  BY <1>3 DEF DbRollback, SessionEnds, EndTransaction, TypeOK
<1>4. CASE \/ \E e \in Deliveries, w \in WebhookIds, i \in Instances : Deliver(e, w, i)
           \/ \E e \in Deliveries : NoClient(e)
           \/ \E e \in Deliveries, c \in Clients : CheckOut(e, c)
           \/ \E c \in Clients : DbBegin(c) \/ TakeSnapshot(c) \/ DbInsertFails(c)
           \/ \E c \in Clients : \/ QueryTimeout(c) \/ RollbackTimeout(c)
                                 \/ ConnectionLost(c) \/ IdleTimeout(c)
           \/ \E i \in Instances : Crash(i)
           \/ UNCHANGED vars
  BY <1>4 DEF Deliver, NoClient, CheckOut, DbBegin, TakeSnapshot, DbInsertFails,
              QueryTimeout, RollbackTimeout, ConnectionLost, IdleTimeout, Crash, vars
<1> QED BY <1>1, <1>2, <1>3, <1>4 DEF Next

\* createWebhook's callback runs when a handler gets the answer to its INSERT.
LEMMA CreatedArises ==
  ASSUME TypeOK, [Next]_vars, NEW d \in Deliveries, created'[d] # created[d]
  PROVE  \E c \in Clients :
           /\ DbInsert(c) /\ Live(c) /\ Inserting(d, c)
           /\ created'[d] \in {"new", "duplicate"}
           /\ created'[d] = "duplicate" => Visible(c, id[d])
<1> USE DEF handlerVars, clientVars, sessionVars
<1>1. PICK c \in Clients : DbInsert(c)
  BY DEF Next, Deliver, NoClient, CheckOut, DbBegin, TakeSnapshot, DbInsertFails, DbCommit,
         DbRollback, SessionEnds, QueryTimeout, RollbackTimeout, ConnectionLost,
         IdleTimeout, Crash, vars
<1>2. active[c] = Statement("INSERT", active[c].by)
  BY <1>1, StatementFacts DEF DbInsert, Executes, TypeOK
<1>3. /\ Live(c) /\ d = active[c].by
      /\ created'[d] = CreateResult(~Visible(c, id[d]), seen[c])
  BY <1>1 DEF DbInsert, TypeOK
<1> QED BY <1>1, <1>2, <1>3 DEF Inserting, CreateResult

\* The client's part of an answer puts nothing on the wire, or a statement that
\* the handler holding the client awaits from then on.
LEMMA ReplyWire ==
  ASSUME TypeOK, Holding, NEW c \in Clients, NEW ok \in BOOLEAN, active[c] # None,
         Reply(c, ok), active'[c] # None
  PROVE  /\ user'[c] = user[c] /\ active'[c].by = user[c]
         /\ \/ active'[c].op \in {"BEGIN", "ROLLBACK"}
            \/ /\ Live(c) /\ active[c].op = "BEGIN" /\ active'[c].op = "INSERT"
               /\ pc'[user[c]] = "INSERT"
            \/ Live(c) /\ active[c].op = "INSERT" /\ active'[c].op = "COMMIT"
<1> DEFINE d == user[c]  next == After(active[c].op, ok)
<1>1. active[c] \in Statements /\ active[c].op \in Ops
  BY StatementFacts DEF TypeOK
<1>2. CASE ~Live(c)
  <2>1. active'[c] = queued[c] /\ user' = user
    BY <1>2 DEF Reply, TypeOK
  <2>2. d # None /\ queued[c] = Statement(pc[d], d) /\ pc[d] \in {"BEGIN", "ROLLBACK"}
    BY <1>2, <2>1, LiveFacts
  <2> HIDE DEF d
  <2>3. Statement(pc[d], d).op = pc[d] /\ Statement(pc[d], d).by = d
    BY DEF Statement
  <2> QED BY <2>1, <2>2, <2>3 DEF d
<1>3. CASE Live(c) /\ next # "answered"
  <2>1. /\ active'[c] = Statement(next, d) /\ user' = user /\ d \in Deliveries
        /\ pc' = [pc EXCEPT ![d] = next]
    BY <1>3, LiveFacts DEF Reply, TypeOK
  <2>2. active'[c].op = next /\ active'[c].by = d /\ pc'[d] = next
    BY <2>1 DEF Statement, TypeOK
  <2>3. \/ next = "ROLLBACK"
        \/ active[c].op = "BEGIN" /\ next = "INSERT"
        \/ active[c].op = "INSERT" /\ next = "COMMIT"
    BY <1>1, <1>3 DEF After, AfterSuccess, Ops
  <2> QED BY <1>3, <2>1, <2>2, <2>3
<1>4. CASE Live(c) /\ next = "answered"
  BY <1>4 DEF Reply, TypeOK
<1> QED BY <1>2, <1>3, <1>4

\* The same of every step: what is new on the wire was sent by the handler that
\* holds the client, an INSERT after its BEGIN and a COMMIT after its INSERT.
LEMMA WireNext ==
  ASSUME TypeOK, Holding, [Next]_vars, NEW c \in Clients,
         active'[c] # None, active'[c] # active[c]
  PROVE  /\ active'[c].by = user'[c]
         /\ \/ active'[c].op \in {"BEGIN", "ROLLBACK"}
            \/ /\ Live(c) /\ active[c].op = "BEGIN" /\ active'[c].op = "INSERT"
               /\ user'[c] = user[c] /\ pc'[user[c]] = "INSERT"
            \/ /\ Live(c) /\ DbInsert(c) /\ active'[c].op = "COMMIT"
               /\ user'[c] = user[c]
<1> USE DEF handlerVars, clientVars, sessionVars
<1> DEFINE Good == /\ active'[c].by = user'[c]
                   /\ \/ active'[c].op \in {"BEGIN", "ROLLBACK"}
                      \/ /\ Live(c) /\ active[c].op = "BEGIN" /\ active'[c].op = "INSERT"
                         /\ user'[c] = user[c] /\ pc'[user[c]] = "INSERT"
                      \/ /\ Live(c) /\ DbInsert(c) /\ active'[c].op = "COMMIT"
                         /\ user'[c] = user[c]
<1>1. ASSUME NEW b \in Clients, NEW ok \in BOOLEAN, active[b] # None, Reply(b, ok),
             active[b].op = "INSERT" /\ ok => DbInsert(b)
      PROVE  Good
  <2>1. b = c
    BY <1>1, ReplyStatements
  <2>2. active[c].op = "INSERT" /\ active'[c].op = "COMMIT" => ok
    BY <1>1, <2>1, ReplySends
  <2> QED BY <1>1, <2>1, <2>2, ReplyWire
<1>2. ASSUME NEW d \in Deliveries, NEW b \in Clients, CheckOut(d, b)
      PROVE  Good
  <2>1. active'[c] = Statement("BEGIN", d) /\ b = c /\ user'[c] = d
    BY <1>2 DEF CheckOut, Send, TypeOK
  <2> QED BY <2>1 DEF Statement
<1>3. ASSUME NEW b \in Clients, \/ DbBegin(b) \/ DbInsert(b) \/ DbInsertFails(b)
                                \/ DbCommit(b) \/ DbRollback(b)
      PROVE  Good
  <2>1. CASE DbBegin(b)
    <3>1. active[b] # None /\ active[b].op = "BEGIN" /\ Reply(b, txn[b] # "failed")
      BY <2>1 DEF DbBegin, Executes
    <3> QED BY <1>1, <3>1
  <2>2. CASE DbInsert(b)
    <3>1. active[b] # None /\ Reply(b, TRUE)
      BY <2>2 DEF DbInsert, Executes
    <3> QED BY <1>1, <2>2, <3>1
  <2>3. CASE DbInsertFails(b)
    <3>1. active[b] # None /\ Reply(b, FALSE)
      BY <2>3 DEF DbInsertFails, Executes
    <3> QED BY <1>1, <2>3, <3>1
  <2>4. CASE DbCommit(b) \/ DbRollback(b)
    <3>1. active[b] # None /\ active[b].op # "INSERT" /\ Reply(b, TRUE)
      BY <2>4 DEF DbCommit, DbRollback, Executes
    <3> QED BY <1>1, <3>1
  <2> QED BY <1>3, <2>1, <2>2, <2>3, <2>4
<1>4. CASE \E b \in Clients : SessionEnds(b)
  BY <1>4 DEF SessionEnds, TypeOK
<1>5. CASE \/ \E d \in Deliveries, w \in WebhookIds, i \in Instances : Deliver(d, w, i)
           \/ \E d \in Deliveries : NoClient(d)
           \/ \E b \in Clients : TakeSnapshot(b) \/ IdleTimeout(b)
           \/ \E b \in Clients : QueryTimeout(b) \/ RollbackTimeout(b) \/ ConnectionLost(b)
           \/ \E i \in Instances : Crash(i)
           \/ UNCHANGED vars
  BY <1>5 DEF Deliver, NoClient, TakeSnapshot, IdleTimeout, QueryTimeout,
              RollbackTimeout, ConnectionLost, Crash, vars
<1> QED BY <1>2, <1>3, <1>4, <1>5 DEF Next

\* A handler never goes back to where it had sent no INSERT, nor from its end to
\* a statement.
LEMMA PcMoves ==
  ASSUME TypeOK, Holding, [Next]_vars, NEW d \in Deliveries
  PROVE  /\ pc'[d] \in BeforeInsert => pc[d] \in BeforeInsert
         /\ pc'[d] \in Ops => pc[d] \in Ops \cup {"getClient"}
         /\ pc[d] \in {"answered", "dead"} => pc'[d] \in {"answered", "dead"}
<1> USE DEF handlerVars, clientVars, sessionVars
<1> DEFINE Good == /\ pc'[d] \in BeforeInsert => pc[d] \in BeforeInsert
                   /\ pc'[d] \in Ops => pc[d] \in Ops \cup {"getClient"}
                   /\ pc[d] \in {"answered", "dead"} => pc'[d] \in {"answered", "dead"}
<1>a. pc[d] \in {"unsent", "getClient", "answered", "dead"} \cup Ops
  BY DEF TypeOK
<1>1. ASSUME NEW c \in Clients, NEW ok \in BOOLEAN, active[c] # None, Reply(c, ok)
      PROVE  Good
  <2> DEFINE next == After(active[c].op, ok)
  <2>1. active[c].op \in Ops
    BY <1>1, StatementFacts DEF TypeOK
  <2>2. next \in {"INSERT", "COMMIT", "ROLLBACK", "answered"}
    BY <2>1 DEF After, AfterSuccess, Ops
  <2>3. pc'[d] = pc[d] \/ (Live(c) /\ user[c] = d /\ pc'[d] = next)
    BY <1>1 DEF Reply, TypeOK
  <2>4. Live(c) /\ user[c] = d => pc[d] \in Ops
    BY <1>1, LiveFacts
  <2> HIDE DEF next
  <2> QED BY <1>a, <2>2, <2>3, <2>4 DEF BeforeInsert, Ops
<1>2. ASSUME NEW e \in Deliveries, NEW w \in WebhookIds, NEW i \in Instances,
             Deliver(e, w, i)
      PROVE  Good
  BY <1>a, <1>2 DEF Deliver, TypeOK, BeforeInsert, Ops
<1>3. ASSUME NEW e \in Deliveries, NoClient(e) \/ \E c \in Clients : CheckOut(e, c)
      PROVE  Good
  BY <1>a, <1>3 DEF NoClient, CheckOut, TypeOK, BeforeInsert, Ops
<1>4. ASSUME NEW c \in Clients, DbBegin(c) \/ DbInsert(c) \/ DbInsertFails(c)
                                \/ DbCommit(c) \/ DbRollback(c)
      PROVE  Good
  <2>1. active[c] # None /\ \E ok \in BOOLEAN : Reply(c, ok)
    BY <1>4 DEF DbBegin, DbInsert, DbInsertFails, DbCommit, DbRollback, Executes
  <2> QED BY <1>1, <2>1
<1>5. ASSUME NEW c \in Clients,
             QueryTimeout(c) \/ RollbackTimeout(c) \/ ConnectionLost(c)
      PROVE  Good
  <2>1. user[c] # None => pc[user[c]] \in Ops
    BY DEF Holding
  <2> QED BY <1>a, <1>5, <2>1 DEF QueryTimeout, RollbackTimeout, ConnectionLost, TypeOK,
                              BeforeInsert, Ops
<1>6. CASE \E i \in Instances : Crash(i)
  BY <1>a, <1>6 DEF Crash, TypeOK, BeforeInsert, Ops
<1>7. CASE \/ \E c \in Clients : TakeSnapshot(c) \/ SessionEnds(c) \/ IdleTimeout(c)
           \/ UNCHANGED vars
  BY <1>a, <1>7 DEF TakeSnapshot, SessionEnds, IdleTimeout, vars, BeforeInsert, Ops
<1> QED BY <1>2, <1>3, <1>4, <1>5, <1>6, <1>7 DEF Next

\* A handler keeps its client for as long as it awaits statements.
LEMMA UserStays ==
  ASSUME TypeOK, OnlyArrived, Holding, [Next]_vars, NEW c \in Clients,
         user[c] # None, pc'[user[c]] \in Ops
  PROVE  user'[c] = user[c]
<1> USE DEF handlerVars, clientVars, sessionVars
<1>a. /\ user[c] \in Arrived /\ pc[user[c]] \in Ops
      /\ owner[c] = home[user[c]] /\ owner[c] # None
  <2>1. user[c] \in Arrived /\ pc[user[c]] \in Ops /\ owner[c] = home[user[c]]
    BY DEF Holding, OnlyArrived
  <2> QED BY <2>1, StatementFacts DEF Arrived
<1>1. ASSUME NEW b \in Clients, NEW ok \in BOOLEAN, Reply(b, ok)
      PROVE  user'[c] = user[c]
  BY <1>1, <1>a DEF Reply, TypeOK, Arrived, Ops
<1>2. ASSUME NEW d \in Deliveries, NEW b \in Clients, CheckOut(d, b)
      PROVE  user'[c] = user[c]
  <2>1. b # c
    BY <1>2, <1>a DEF CheckOut, Idle, Fresh
  <2> QED BY <1>2, <2>1 DEF CheckOut, TypeOK
<1>3. ASSUME NEW b \in Clients, RollbackTimeout(b) \/ ConnectionLost(b)
      PROVE  user'[c] = user[c]
  BY <1>3, <1>a DEF RollbackTimeout, ConnectionLost, TypeOK, Arrived, Ops
<1>4. ASSUME NEW i \in Instances, Crash(i)
      PROVE  user'[c] = user[c]
  BY <1>4, <1>a DEF Crash, TypeOK, Arrived, Ops
<1>5. ASSUME NEW b \in Clients, \/ DbBegin(b) \/ DbInsert(b) \/ DbInsertFails(b)
                                \/ DbCommit(b) \/ DbRollback(b)
      PROVE  user'[c] = user[c]
  <2>1. \E ok \in BOOLEAN : Reply(b, ok)
    BY <1>5 DEF DbBegin, DbInsert, DbInsertFails, DbCommit, DbRollback
  <2> QED BY <1>1, <2>1
<1>6. CASE \/ \E d \in Deliveries, w \in WebhookIds, i \in Instances : Deliver(d, w, i)
           \/ \E d \in Deliveries : NoClient(d)
           \/ \E b \in Clients : \/ TakeSnapshot(b) \/ SessionEnds(b) \/ QueryTimeout(b)
                                 \/ IdleTimeout(b)
           \/ UNCHANGED vars
  BY <1>6 DEF Deliver, NoClient, TakeSnapshot, SessionEnds, QueryTimeout, IdleTimeout, vars
<1> QED BY <1>2, <1>3, <1>4, <1>5, <1>6 DEF Next

\* "Transaction rolled back" is logged by the handler whose ROLLBACK is answered.
LEMMA UndoneArises ==
  ASSUME TypeOK, Holding, [Next]_vars, NEW d \in undone' \ undone
  PROVE  \E c \in Clients :
           /\ DbRollback(c) /\ user[c] = d /\ pc[d] = "ROLLBACK"
           /\ active[c] = Statement("ROLLBACK", d)
           /\ pc'[d] = "answered" /\ active'[c] = None
<1> USE DEF handlerVars, clientVars, sessionVars
<1>1. PICK c \in Clients : DbRollback(c)
  BY DEF Next, Deliver, NoClient, CheckOut, DbBegin, TakeSnapshot, DbInsert, DbInsertFails,
         DbCommit, SessionEnds, QueryTimeout, RollbackTimeout, ConnectionLost,
         IdleTimeout, Crash, vars
<1>2. Live(c) /\ user[c] = d /\ Executes(c, "ROLLBACK") /\ Reply(c, TRUE)
  BY <1>1 DEF DbRollback
<1>3. d \in Deliveries /\ active[c] = Statement(pc[d], d) /\ active[c].op = "ROLLBACK"
  BY <1>2, LiveFacts DEF Executes
<1>4. pc[d] = "ROLLBACK"
  BY <1>3 DEF Statement
<1>5. After(active[c].op, TRUE) = "answered"
  BY <1>3 DEF After, AfterSuccess
<1>6. pc'[d] = "answered" /\ active'[c] = None
  BY <1>2, <1>3, <1>5 DEF Reply, TypeOK
<1>7. active[c] = Statement("ROLLBACK", d)
  BY <1>3, <1>4
<1> QED BY <1>1, <1>2, <1>4, <1>6, <1>7

\* An answer of duplicate says what the callback returned.
LEMMA DuplicateFromCreated ==
  ASSUME TypeOK, [Next]_vars, NEW d \in Deliveries,
         result'[d] = "duplicate", result[d] # "duplicate"
  PROVE  created[d] = "duplicate"
<1> USE DEF handlerVars, clientVars, sessionVars
<1>1. ASSUME NEW c \in Clients, NEW ok \in BOOLEAN, Reply(c, ok)
      PROVE  created[d] = "duplicate"
  BY <1>1 DEF Reply, Outcome, TypeOK
<1>2. ASSUME NEW c \in Clients, \/ DbBegin(c) \/ DbInsert(c) \/ DbInsertFails(c)
                                \/ DbCommit(c) \/ DbRollback(c)
      PROVE  created[d] = "duplicate"
  <2>1. \E ok \in BOOLEAN : Reply(c, ok)
    BY <1>2 DEF DbBegin, DbInsert, DbInsertFails, DbCommit, DbRollback
  <2> QED BY <1>1, <2>1
<1>3. CASE \/ \E e \in Deliveries, w \in WebhookIds, i \in Instances : Deliver(e, w, i)
           \/ \E e \in Deliveries : NoClient(e)
           \/ \E e \in Deliveries, c \in Clients : CheckOut(e, c)
           \/ \E c \in Clients : \/ TakeSnapshot(c) \/ SessionEnds(c) \/ QueryTimeout(c)
                                 \/ RollbackTimeout(c) \/ ConnectionLost(c) \/ IdleTimeout(c)
           \/ \E i \in Instances : Crash(i)
           \/ UNCHANGED vars
  BY <1>3 DEF Deliver, NoClient, CheckOut, TakeSnapshot, SessionEnds, QueryTimeout,
              RollbackTimeout, ConnectionLost, IdleTimeout, Crash, TypeOK, vars
<1> QED BY <1>2, <1>3 DEF Next

LEMMA HistoryInit == Init => HistoryInv
<1> SUFFICES ASSUME Init PROVE HistoryInv
  OBVIOUS
<1>1. /\ \A d \in Deliveries : pc[d] = "unsent" /\ pc[d] \notin Ops
      /\ \A d \in Deliveries : created[d] = "none" /\ result[d] = "none"
      /\ \A c \in Clients : active[c] = None /\ dirty[c] = {}
      /\ \A w \in WebhookIds : row[w] = None
      /\ undone = {}
  BY DEF Init, Ops
<1>2. \A d \in Deliveries : d # None /\ \A c \in Clients : ~Inserting(d, c)
  BY <1>1, StatementFacts DEF Inserting, Ops
<1>3. \A d \in Deliveries : Unstored(d)
  BY <1>1, <1>2 DEF Unstored
<1> QED BY <1>1, <1>2, <1>3 DEF HistoryInv, InsertedOnce, OnOwnClient, UndoneIsGone, Executes

\* What is not stored, and of which no INSERT is on the wire, stays so unless an
\* INSERT of it is put there.
LEMMA UnstoredStays ==
  ASSUME TypeOK, [Next]_vars, NEW d \in Deliveries, Unstored(d),
         \A c \in Clients : Inserting(d, c) => ~DbInsert(c)
  PROVE  Unstored(d)'
BY TracesArise DEF Unstored

LEMMA InsertingArises ==
  ASSUME TypeOK, Holding, [Next]_vars, NEW d \in Deliveries, NEW c \in Clients,
         Inserting(d, c)', ~(Inserting(d, c) /\ ~DbInsert(c))
  PROVE  pc[d] = "BEGIN" /\ pc'[d] = "INSERT" /\ user[c] = d
<1>1. /\ active'[c] = Statement("INSERT", d) /\ active'[c] # None
      /\ active'[c].op = "INSERT" /\ active'[c].by = d
  BY StatementFacts DEF Inserting, Ops
<1>2. ~DbInsert(c)
  <2> SUFFICES ASSUME DbInsert(c) PROVE FALSE
    OBVIOUS
  <2>1. active[c] # None /\ Reply(c, TRUE) /\ active[c].op = "INSERT"
    BY DEF DbInsert, Executes
  <2> QED BY <1>1, <2>1, ReplySends
<1>3. active'[c] # active[c]
  BY <1>2 DEF Inserting
<1>4. /\ d = user'[c] /\ Live(c) /\ active[c].op = "BEGIN" /\ user'[c] = user[c]
      /\ pc'[user[c]] = "INSERT"
  BY <1>1, <1>3, WireNext
<1> QED BY <1>4 DEF Live

LEMMA InsertedOnceNext ==
  TypeOK /\ Holding /\ InsertedOnce /\ [Next]_vars => InsertedOnce'
<1> SUFFICES ASSUME TypeOK, Holding, InsertedOnce, [Next]_vars PROVE InsertedOnce'
  OBVIOUS
<1>a. ASSUME NEW d \in Deliveries, \A c \in Clients : ~Inserting(d, c)
      PROVE  created'[d] = created[d] /\ (Unstored(d) => Unstored(d)')
  BY <1>a, CreatedArises, UnstoredStays
<1>1. ASSUME NEW d \in Deliveries, pc'[d] \in BeforeInsert
      PROVE  /\ created'[d] = "none" /\ Unstored(d)'
             /\ \A c \in Clients : ~Inserting(d, c)'
  <2>1. /\ pc[d] \in BeforeInsert /\ created[d] = "none" /\ Unstored(d)
        /\ \A c \in Clients : ~Inserting(d, c)
    BY <1>1, PcMoves DEF InsertedOnce
  <2>2. \A c \in Clients : ~Inserting(d, c)'
    BY <1>1, <2>1, InsertingArises DEF BeforeInsert
  <2> QED BY <1>a, <2>1, <2>2
<1>2. ASSUME NEW d \in Deliveries, NEW c \in Clients, Inserting(d, c)'
      PROVE  /\ created'[d] = "none" /\ Unstored(d)'
             /\ \A b \in Clients : Inserting(d, b)' => b = c
  <2>1. CASE Inserting(d, c) /\ ~DbInsert(c)
    <3>1. /\ created[d] = "none" /\ Unstored(d) /\ pc[d] # "BEGIN"
          /\ \A b \in Clients : Inserting(d, b) => b = c
      BY <2>1 DEF InsertedOnce, BeforeInsert
    <3>2. created'[d] = created[d]
      BY <2>1, <3>1, CreatedArises
    <3>3. Unstored(d)'
      BY <2>1, <3>1, UnstoredStays
    <3>4. \A b \in Clients : Inserting(d, b)' => b = c
      BY <3>1, InsertingArises
    <3> QED BY <3>1, <3>2, <3>3, <3>4
  <2>2. CASE ~(Inserting(d, c) /\ ~DbInsert(c))
    <3>1. pc[d] = "BEGIN" /\ user[c] = d
      BY <1>2, <2>2, InsertingArises
    <3>2. /\ created[d] = "none" /\ Unstored(d)
          /\ \A b \in Clients : ~Inserting(d, b)
      BY <3>1 DEF InsertedOnce, BeforeInsert
    <3>3. \A b \in Clients : Inserting(d, b)' => user[b] = d
      BY <3>2, InsertingArises
    <3>4. \A b \in Clients : Inserting(d, b)' => b = c
      BY <3>1, <3>3, StatementFacts DEF Holding
    <3> QED BY <1>a, <3>2, <3>4
  <2> QED BY <2>1, <2>2
<1>3. ASSUME NEW d \in Deliveries, created'[d] = "duplicate"
      PROVE  Unstored(d)'
  <2>1. CASE created[d] = "duplicate"
    <3>1. Unstored(d) /\ \A c \in Clients : ~Inserting(d, c)
      BY <2>1 DEF InsertedOnce
    <3> QED BY <1>a, <3>1
  <2>2. CASE created[d] # "duplicate"
    <3>1. PICK c \in Clients : DbInsert(c) /\ Inserting(d, c) /\ Visible(c, id[d])
      BY <1>3, <2>2, CreatedArises
    <3>2. active[c].by = d /\ Unstored(d)
      BY <3>1, StatementFacts DEF Inserting, InsertedOnce, Ops
    <3>3. dirty' = dirty /\ row' = row
      BY <3>1, <3>2 DEF DbInsert
    <3> QED BY <3>2, <3>3 DEF Unstored
  <2> QED BY <2>1, <2>2
<1>4. ASSUME NEW d \in Deliveries, result'[d] = "duplicate"
      PROVE  created'[d] = "duplicate"
  <2>1. created[d] = "duplicate"
    BY <1>4, DuplicateFromCreated DEF InsertedOnce
  <2> QED BY <1>a, <2>1 DEF InsertedOnce
<1> QED BY <1>1, <1>2, <1>3, <1>4 DEF InsertedOnce

LEMMA OnOwnClientNext ==
  /\ TypeOK /\ OnlyArrived /\ Holding /\ Holding' /\ WaitersSentNothing
  /\ InsertedOnce /\ OnOwnClient /\ [Next]_vars
  => OnOwnClient'
<1> SUFFICES ASSUME TypeOK, OnlyArrived, Holding, Holding', WaitersSentNothing,
                    InsertedOnce, OnOwnClient, [Next]_vars
             PROVE  OnOwnClient'
  OBVIOUS
<1>a. \A c \in Clients : active'[c] # None =>
        active'[c] = active[c] \/ active'[c].by = user'[c]
  BY WireNext
<1>1. ASSUME NEW c \in Clients, active'[c] # None, pc'[active'[c].by] \in Ops
      PROVE  user'[c] = active'[c].by
  <2> SUFFICES ASSUME active'[c] = active[c] PROVE user'[c] = active'[c].by
    BY <1>a, <1>1
  <2>1. active[c].by \in Deliveries /\ pc[active[c].by] # "getClient"
    BY <1>1 DEF WaitersSentNothing, OnlyArrived, Arrived
  <2>2. pc[active[c].by] \in Ops
    BY <1>1, <2>1, PcMoves
  <2>3. user[c] = active[c].by /\ user[c] # None
    BY <1>1, <2>1, <2>2, StatementFacts DEF OnOwnClient
  <2> QED BY <1>1, <2>3, UserStays
<1>2. ASSUME NEW c \in Clients, NEW d \in dirty'[c], pc'[d] \in Ops
      PROVE  user'[c] = d /\ active'[c] # None /\ active'[c].by = d
  <2>1. d \in Deliveries
    <3>1. TypeOK'
      BY TypeNext
    <3> QED BY <3>1 DEF TypeOK
  <2>2. user[c] = d /\ active[c].by = d
    <3>1. CASE d \in dirty[c]
      <4>1. pc[d] # "getClient"
        BY <2>1, <3>1 DEF InsertedOnce, BeforeInsert, Unstored
      <4>2. pc[d] \in Ops
        BY <1>2, <2>1, <4>1, PcMoves
      <4> QED BY <3>1, <4>2 DEF OnOwnClient
    <3>2. CASE DbInsert(c) /\ Inserting(d, c)
      <4>1. active[c] # None /\ active[c].by = d
        BY <2>1, <3>2, StatementFacts DEF Inserting, Ops
      <4>2. pc[d] # "getClient"
        BY <2>1, <3>2 DEF InsertedOnce, BeforeInsert
      <4>3. pc[d] \in Ops
        BY <1>2, <2>1, <4>2, PcMoves
      <4> QED BY <4>1, <4>3 DEF OnOwnClient
    <3> QED BY <2>1, <3>1, <3>2, TracesArise
  <2>3. user'[c] = d /\ d # None
    BY <1>2, <2>1, <2>2, UserStays, StatementFacts
  <2>4. active'[c] # None
    <3>1. AwaitedStatement(c)'
      BY <2>3 DEF Holding
    <3>2. Statement(pc'[d], d) # None
      BY <1>2, <2>1, StatementFacts
    <3> QED BY <2>3, <3>1, <3>2 DEF AwaitedStatement
  <2> QED BY <1>a, <2>2, <2>3, <2>4
<1>3. ASSUME NEW c \in Clients, Executes(c, "COMMIT")'
      PROVE  created'[active'[c].by] # "none"
  <2>1. active'[c] # None /\ active'[c].op = "COMMIT"
    BY <1>3 DEF Executes
  <2>2. CASE active'[c] = active[c]
    <3>1. created[active[c].by] # "none" /\ active[c].by \in Deliveries
      BY <2>1, <2>2 DEF OnOwnClient, Executes, OnlyArrived, Arrived
    <3> QED BY <2>2, <3>1, CreatedArises
  <2>3. CASE active'[c] # active[c]
    <3>1. /\ Live(c) /\ DbInsert(c) /\ active'[c].by = user'[c] /\ user'[c] = user[c]
      BY <2>1, <2>3, WireNext
    <3>2. active'[c].by = active[c].by /\ active[c].by \in Deliveries
      BY <3>1, LiveFacts DEF Live
    <3>3. created'[active[c].by] \in {"new", "duplicate"}
      BY <3>1, <3>2 DEF DbInsert, CreateResult, TypeOK
    <3> QED BY <3>2, <3>3
  <2> QED BY <2>2, <2>3
<1> QED BY <1>1, <1>2, <1>3 DEF OnOwnClient

LEMMA UndoneIsGoneNext ==
  /\ TypeOK /\ OnlyArrived /\ Holding /\ InsertedOnce /\ OnOwnClient /\ UndoneIsGone
  /\ [Next]_vars
  => UndoneIsGone'
<1> SUFFICES ASSUME TypeOK, OnlyArrived, Holding, InsertedOnce, OnOwnClient, UndoneIsGone,
                    [Next]_vars
             PROVE  UndoneIsGone'
  OBVIOUS
<1>1. ASSUME NEW d \in Deliveries, created'[d] = "none"
      PROVE  created[d] = "none"
  BY <1>1, CreatedArises
<1>2. ASSUME NEW d \in Deliveries, pc'[d] \in Ops, created'[d] = "none",
             NEW w \in WebhookIds, row'[w] = d
      PROVE  FALSE
  <2>1. pc[d] \in Ops \cup {"getClient"}
    BY <1>2, PcMoves
  <2>2. created[d] = "none"
    BY <1>1, <1>2
  <2>3. pc[d] = "getClient" => Unstored(d)
    BY DEF InsertedOnce, BeforeInsert
  <2>4. row[w] # d
    BY <2>1, <2>2, <2>3 DEF UndoneIsGone, Unstored
  <2>5. PICK c \in Clients : DbCommit(c) /\ d \in dirty[c]
    BY <1>2, <2>4, TracesArise
  <2>6. active[c].by = d
    BY <2>1, <2>3, <2>5 DEF OnOwnClient, Unstored
  <2>7. created[active[c].by] # "none"
    BY <2>5 DEF DbCommit, OnOwnClient
  <2> QED BY <2>2, <2>6, <2>7
<1>3. ASSUME NEW d \in Deliveries, d \in undone
      PROVE  /\ pc'[d] \in {"answered", "dead"}
             /\ created'[d] = "none" =>
                  Unstored(d)' /\ \A c \in Clients : ~Inserting(d, c)'
  <2>1. pc[d] \in {"answered", "dead"} /\ pc'[d] \in {"answered", "dead"}
    BY <1>3, PcMoves DEF UndoneIsGone
  <2>2. ASSUME created'[d] = "none"
        PROVE  Unstored(d)' /\ \A c \in Clients : ~Inserting(d, c)'
    <3>1. Unstored(d) /\ \A c \in Clients : ~Inserting(d, c)
      BY <1>1, <1>3, <2>2 DEF UndoneIsGone
    <3> QED BY <2>1, <3>1, UnstoredStays, InsertingArises
  <2> QED BY <2>1, <2>2
<1>4. ASSUME NEW d \in undone' \ undone
      PROVE  /\ pc'[d] \in {"answered", "dead"}
             /\ created'[d] = "none" =>
                  Unstored(d)' /\ \A c \in Clients : ~Inserting(d, c)'
  <2>1. PICK c \in Clients :
          /\ DbRollback(c) /\ user[c] = d /\ pc[d] = "ROLLBACK"
          /\ active[c] = Statement("ROLLBACK", d)
          /\ pc'[d] = "answered" /\ active'[c] = None
    BY <1>4, UndoneArises
  <2>2. d \in Deliveries /\ d # None
    <3>1. TypeOK'
      BY TypeNext
    <3> QED BY <1>4, <3>1, StatementFacts DEF TypeOK
  <2>3. \A b \in Clients : user[b] = d => b = c
    BY <2>1, <2>2 DEF Holding
  <2>4. ASSUME created'[d] = "none"
        PROVE  Unstored(d)'
    <3>1. \A w \in WebhookIds : row[w] # d
      BY <1>1, <2>1, <2>2, <2>4 DEF UndoneIsGone, Ops
    <3>2. \A b \in Clients \ {c} : d \notin dirty[b]
      BY <2>1, <2>3 DEF OnOwnClient, Ops
    <3>3. row' = row /\ dirty' = [dirty EXCEPT ![c] = {}]
      BY <2>1 DEF DbRollback, EndTransaction
    <3> QED BY <3>1, <3>2, <3>3 DEF Unstored, TypeOK
  <2>5. ASSUME NEW b \in Clients, Inserting(d, b)'
        PROVE  FALSE
    <3>1. Inserting(d, b)
      BY <2>1, <2>2, <2>5, InsertingArises
    <3>2. active[b] # None /\ active[b].by = d /\ active[b].op = "INSERT"
      BY <2>2, <3>1, StatementFacts DEF Inserting, Ops
    <3>3. user[b] = d
      BY <2>1, <3>2 DEF OnOwnClient, Ops
    <3>4. b = c
      BY <2>3, <3>3
    <3> QED BY <2>1, <2>2, <3>2, <3>4, StatementFacts DEF Ops
  <2>6. \A b \in Clients : ~Inserting(d, b)'
    BY <2>5
  <2>7. pc'[d] \in {"answered", "dead"}
    BY <2>1
  <2> QED BY <2>4, <2>6, <2>7
<1>5. \A d \in Deliveries : pc'[d] \in Ops /\ created'[d] = "none" =>
        \A w \in WebhookIds : row'[w] # d
  BY <1>2
<1>6. undone \subseteq Deliveries
  BY DEF TypeOK
<1>7. ASSUME NEW d \in undone'
      PROVE  /\ pc'[d] \in {"answered", "dead"}
             /\ created'[d] = "none" =>
                  Unstored(d)' /\ \A c \in Clients : ~Inserting(d, c)'
  BY <1>3, <1>4, <1>6
<1> QED BY <1>5, <1>7 DEF UndoneIsGone

(* ----------------------------- the theorems -------------------------- *)

\* The inductive invariant about the history of the INSERTs.
THEOREM HistoryInductive == Spec => []HistoryInv
<1> DEFINE Inv == TypeOK /\ IngestInv /\ HistoryInv
<1>1. Init /\ TypeOK /\ IngestInv => Inv
  BY HistoryInit
<1>2. Inv /\ TypeOK' /\ IngestInv' /\ [Next]_vars => Inv'
  BY InsertedOnceNext, OnOwnClientNext, UndoneIsGoneNext DEF IngestInv, HistoryInv
<1>3. Inv => HistoryInv
  OBVIOUS
<1> HIDE DEF Inv
<1> QED BY <1>1, <1>2, <1>3, Inductive, PTL DEF Spec

\* Whoever is told that a webhook is a duplicate did not store it: the row is
\* another delivery's, whichever snapshot the INSERT saw.
THEOREM DuplicateIsAnothers == Spec => []DuplicateMeansAnother
<1>1. TypeOK /\ IngestInv /\ HistoryInv => DuplicateMeansAnother
  <2> SUFFICES ASSUME TypeOK, IngestInv, HistoryInv,
                      NEW d \in Deliveries, result[d] = "duplicate"
               PROVE  row[id[d]] \notin {None, d}
    BY DEF DuplicateMeansAnother
  <2>1. row[id[d]] # None /\ Unstored(d)
    BY DEF IngestInv, PositiveMeansStored, HistoryInv, InsertedOnce
  <2>2. pc[d] = "answered"
    BY DEF IngestInv, ResultsAreAnswers
  <2>3. id[d] \in WebhookIds
    BY <2>2 DEF IngestInv, OnlyArrived, Arrived
  <2> QED BY <2>1, <2>3 DEF Unstored
<1> QED BY <1>1, Inductive, HistoryInductive, PTL

\* What was rolled back before its COMMIT was sent is gone from every session, to
\* the end of time.
THEOREM RollbackFinal == Spec => []RollbackIsFinal
<1>1. HistoryInv => RollbackIsFinal
  BY DEF HistoryInv, UndoneIsGone, RollbackIsFinal, Unstored
<1> QED BY <1>1, HistoryInductive, PTL

(* ---------------------------- the refinement ------------------------- *)

\* A step answers one delivery at most.
LEMMA OneIsAnswered ==
  ASSUME TypeOK, [Next]_vars, result' # result
  PROVE  \E d \in Deliveries, r \in {"success", "duplicate", "failed"} :
           result' = [result EXCEPT ![d] = r]
<1> USE DEF handlerVars, clientVars, sessionVars
<1> DEFINE Goal == \E d \in Deliveries, r \in {"success", "duplicate", "failed"} :
                     result' = [result EXCEPT ![d] = r]
<1>1. ASSUME NEW c \in Clients, NEW ok \in BOOLEAN, Reply(c, ok)
      PROVE  Goal
  <2>1. /\ Live(c)
        /\ result' = [result EXCEPT ![user[c]] = Outcome(active[c].op, created[user[c]])]
    BY <1>1 DEF Reply
  <2>2. user[c] \in Deliveries
    BY <2>1 DEF Live, TypeOK
  <2>3. Outcome(active[c].op, created[user[c]]) \in {"success", "duplicate", "failed"}
    BY DEF Outcome
  <2> QED BY <2>1, <2>2, <2>3
<1>2. ASSUME NEW d \in Deliveries,
             (\E w \in WebhookIds, i \in Instances : Deliver(d, w, i)) \/ NoClient(d)
      PROVE  Goal
  BY <1>2 DEF Deliver, NoClient
<1>3. ASSUME NEW c \in Clients, RollbackTimeout(c) \/ ConnectionLost(c)
      PROVE  Goal
  <2>1. user[c] \in Deliveries /\ result' = [result EXCEPT ![user[c]] = "failed"]
    BY <1>3 DEF RollbackTimeout, ConnectionLost, TypeOK
  <2> QED BY <2>1
<1>4. ASSUME NEW c \in Clients, \/ DbBegin(c) \/ DbInsert(c) \/ DbInsertFails(c)
                                \/ DbCommit(c) \/ DbRollback(c)
      PROVE  Goal
  <2>1. \E ok \in BOOLEAN : Reply(c, ok)
    BY <1>4 DEF DbBegin, DbInsert, DbInsertFails, DbCommit, DbRollback
  <2> QED BY <1>1, <2>1
<1>5. CASE \/ \E d \in Deliveries, c \in Clients : CheckOut(d, c)
           \/ \E c \in Clients : \/ TakeSnapshot(c) \/ SessionEnds(c) \/ QueryTimeout(c)
                                 \/ IdleTimeout(c)
           \/ \E i \in Instances : Crash(i)
           \/ UNCHANGED vars
  BY <1>5 DEF CheckOut, TakeSnapshot, SessionEnds, QueryTimeout, IdleTimeout, Crash, vars
<1> QED BY <1>2, <1>3, <1>4, <1>5 DEF Next

\* Deliveries arrive as the intake says: with a webhook, once.
LEMMA ImplementsArrive ==
  ASSUME TypeOK, OnlyArrived, [Next]_vars
  PROVE  Intake!Arrive
<1> USE DEF handlerVars, clientVars, sessionVars
<1>1. ASSUME NEW d \in Deliveries, NEW w \in WebhookIds, NEW i \in Instances,
             Deliver(d, w, i)
      PROVE  Intake!Arrive
  <2>1. pc[d] = "unsent" /\ id' = [id EXCEPT ![d] = w]
    BY <1>1 DEF Deliver
  <2>2. id[d] = None
    BY <2>1 DEF OnlyArrived, Arrived
  <2> QED BY <2>1, <2>2 DEF Intake!Arrive
<1>2. CASE id' = id
  BY <1>2 DEF Intake!Arrive
<1> QED BY <1>1, <1>2 DEF Next, NoClient, CheckOut, DbBegin, TakeSnapshot, DbInsert,
           DbInsertFails, DbCommit, DbRollback, SessionEnds, QueryTimeout,
           RollbackTimeout, ConnectionLost, IdleTimeout, Crash, vars

\* A COMMIT stores the webhooks of its transaction, none of them stored before
\* and no two the same; nothing else stores any.
LEMMA ImplementsStore ==
  ASSUME TypeOK, OnlyArrived, UniqueIndex, [Next]_vars
  PROVE  Intake!Store
<1> USE DEF handlerVars, clientVars, sessionVars
<1>1. CASE row' = row
  <2>1. PICK S \in SUBSET Deliveries : S = {}
    OBVIOUS
  <2>2. row' = [w \in WebhookIds |->
                  IF \E d \in S : id[d] = w THEN CHOOSE d \in S : id[d] = w ELSE row[w]]
    BY <1>1, <2>1 DEF TypeOK
  <2> QED BY <2>1, <2>2 DEF Intake!Store
<1>2. ASSUME NEW c \in Clients, DbCommit(c)
      PROVE  Intake!Store
  <2>1. CASE txn[c] # "open"
    <3>1. row' = row
      BY <1>2, <2>1 DEF DbCommit, Committed, TypeOK
    <3> QED BY <1>1, <3>1
  <2>2. CASE txn[c] = "open"
    <3>1. row' = [w \in WebhookIds |->
                    IF \E d \in dirty[c] : id[d] = w
                    THEN CHOOSE d \in dirty[c] : id[d] = w ELSE row[w]]
      BY <1>2, <2>2 DEF DbCommit, Committed
    <3>2. dirty[c] \in SUBSET Deliveries
      BY DEF TypeOK
    <3>3. \A d \in dirty[c] : id[d] \in WebhookIds /\ row[id[d]] = None
      BY DEF OnlyArrived, Arrived, UniqueIndex
    <3>4. \A d, e \in dirty[c] : id[d] = id[e] => d = e
      BY DEF UniqueIndex
    <3> QED BY <3>1, <3>2, <3>3, <3>4 DEF Intake!Store
  <2> QED BY <2>1, <2>2
<1> QED BY <1>1, <1>2 DEF Next, Deliver, NoClient, CheckOut, DbBegin, TakeSnapshot, DbInsert,
           DbInsertFails, DbRollback, SessionEnds, QueryTimeout, RollbackTimeout,
           ConnectionLost, IdleTimeout, Crash, vars

\* An answer is given once, positively only about what is stored by then, and as
\* a duplicate only of another delivery's row.
LEMMA ImplementsSettle ==
  ASSUME TypeOK, TypeOK', IngestInv, IngestInv', DuplicateMeansAnother', [Next]_vars
  PROVE  Intake!Settle
<1>1. CASE result' = result
  BY <1>1 DEF Intake!Settle
<1>2. CASE result' # result
  <2>1. PICK d \in Deliveries, r \in {"success", "duplicate", "failed"} :
          result' = [result EXCEPT ![d] = r]
    BY <1>2, OneIsAnswered
  <2>2. result'[d] = r /\ result[d] # r
    BY <1>2, <2>1 DEF TypeOK
  <2>3. pc'[d] = "answered"
    BY <2>2, ResultsFromCommit DEF IngestInv
  <2>4. result[d] = "none"
    BY <2>2, AnsweredStable DEF IngestInv, ResultsAreAnswers
  <2>5. id'[d] \in WebhookIds
    BY <2>3 DEF IngestInv, OnlyArrived, Arrived
  <2>6. r \in {"success", "duplicate"} => row'[id'[d]] # None
    BY <2>2 DEF IngestInv, PositiveMeansStored
  <2>7. r = "duplicate" => row'[id'[d]] # d
    BY <2>2 DEF DuplicateMeansAnother
  <2> QED BY <2>1, <2>4, <2>5, <2>6, <2>7 DEF Intake!Settle, Intake!Results
<1> QED BY <1>1, <1>2

\* The service with its pools, sessions, timeouts and crashes implements the
\* abstract intake, and a step that changes none of webhooks, rows and answers is
\* a stutter of it.
THEOREM Implements == Spec => IntakeSpec
<1>1. Init => Intake!Init
  BY DEF Init, Intake!Init
<1>2. /\ TypeOK /\ TypeOK' /\ IngestInv /\ IngestInv' /\ DuplicateMeansAnother'
      /\ [Next]_vars
      => [Intake!Next]_(Intake!intakeVars)
  BY ImplementsArrive, ImplementsStore, ImplementsSettle DEF IngestInv, Intake!Next
<1> QED BY <1>1, <1>2, Inductive, DuplicateIsAnothers, PTL DEF Spec, IntakeSpec, Intake!Spec
==========================================================================
