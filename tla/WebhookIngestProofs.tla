---------------------- MODULE WebhookIngestProofs ----------------------
(* Proofs about WebhookIngest for any number of deliveries, webhooks,        *)
(* instances and clients.                                                    *)
EXTENDS WebhookIngest, TLAPS

(* -------------------------- type correctness ------------------------- *)

\* A statement of a delivery is a statement, and None is neither that nor a
\* delivery, an instance or a webhook id.
LEMMA StatementFacts ==
  /\ \A op \in Ops, d \in Deliveries :
       /\ Statement(op, d) \in Statements
       /\ Statement(op, d).op = op /\ Statement(op, d).by = d
  /\ \A s \in Statements :
       s.op \in Ops /\ s.by \in Deliveries /\ s = Statement(s.op, s.by)
  /\ None \notin Statements /\ None \notin Deliveries
  /\ None \notin Instances /\ None \notin WebhookIds
  /\ None \notin Clients
BY NoneIsNothing DEF Statement, Statements

\* The steps of withTransaction lead from a statement to a statement or to the
\* answer.
LEMMA AfterFacts ==
  ASSUME NEW op \in Ops, NEW ok \in BOOLEAN
  PROVE  /\ After(op, ok) \in Ops \cup {"answered"}
         /\ After(op, ok) = "answered" <=> ok /\ op \in {"COMMIT", "ROLLBACK"}
         /\ After(op, ok) = "INSERT" <=> ok /\ op = "BEGIN"
         /\ After(op, ok) = "COMMIT" <=> ok /\ op = "INSERT"
BY DEF After, AfterSuccess, Ops

\* The client's part of a server's answer keeps the handlers' and the clients'
\* variables in their types.
LEMMA ReplyTypes ==
  ASSUME TypeOK, NEW c \in Clients, NEW ok \in BOOLEAN, active[c] # None, Reply(c, ok)
  PROVE  /\ pc' \in [Deliveries -> {"unsent", "getClient", "answered", "dead"} \cup Ops]
         /\ result' \in [Deliveries -> {"none", "success", "duplicate", "failed"}]
         /\ active' \in [Clients -> Statements \cup {None}]
         /\ queued' \in [Clients -> Statements \cup {None}]
         /\ user' \in [Clients -> Deliveries \cup {None}]
<1> DEFINE d == user[c]  next == After(active[c].op, ok)
<1>1. active[c] \in Statements /\ active[c].op \in Ops
  BY StatementFacts DEF TypeOK
<1>2. next \in Ops \cup {"answered"}
  BY <1>1, AfterFacts
<1>3. CASE ~Live(c)
  BY <1>3 DEF Reply, TypeOK
<1>4. CASE Live(c) /\ next # "answered"
  <2>1. d \in Deliveries /\ next \in Ops
    BY <1>2, <1>4 DEF Live, TypeOK
  <2>2. Statement(next, d) \in Statements
    BY <2>1, StatementFacts
  <2> QED BY <1>4, <2>1, <2>2 DEF Reply, TypeOK
<1>5. CASE Live(c) /\ next = "answered"
  <2>1. d \in Deliveries
    BY <1>5 DEF Live, TypeOK
  <2>2. Outcome(active[c].op, created[d]) \in {"success", "duplicate", "failed"}
    BY DEF Outcome
  <2> QED BY <1>5, <2>1, <2>2 DEF Reply, TypeOK
<1> QED BY <1>3, <1>4, <1>5

LEMMA TypeInit == Init => TypeOK
BY DEF Init, TypeOK

LEMMA TypeNext == TypeOK /\ [Next]_vars => TypeOK'
<1> SUFFICES ASSUME TypeOK, [Next]_vars PROVE TypeOK'
  OBVIOUS
<1> USE DEF handlerVars, clientVars, sessionVars
<1>1. ASSUME NEW d \in Deliveries, NEW w \in WebhookIds, NEW i \in Instances,
             Deliver(d, w, i)
      PROVE TypeOK'
  BY <1>1 DEF Deliver, TypeOK
<1>2. ASSUME NEW d \in Deliveries, NoClient(d)
      PROVE TypeOK'
  BY <1>2 DEF NoClient, TypeOK
<1>3. ASSUME NEW d \in Deliveries, NEW c \in Clients, CheckOut(d, c)
      PROVE TypeOK'
  <2>1. Statement("BEGIN", d) \in Statements /\ "BEGIN" \in Ops
    BY StatementFacts DEF Ops
  <2>2. /\ active' \in [Clients -> Statements \cup {None}]
        /\ queued' \in [Clients -> Statements \cup {None}]
    BY <1>3, <2>1 DEF CheckOut, Send, TypeOK
  <2> QED BY <1>3, <2>1, <2>2 DEF CheckOut, TypeOK
<1>4. ASSUME NEW c \in Clients, DbBegin(c)
      PROVE TypeOK'
  <2>1. active[c] # None /\ (txn[c] # "failed") \in BOOLEAN
    BY <1>4 DEF DbBegin, Executes
  <2>2. Reply(c, txn[c] # "failed")
    BY <1>4 DEF DbBegin
  <2> QED BY <1>4, <2>1, <2>2, ReplyTypes DEF DbBegin, TypeOK
<1>5. ASSUME NEW c \in Clients, TakeSnapshot(c)
      PROVE TypeOK'
  BY <1>5 DEF TakeSnapshot, TypeOK
<1>6. ASSUME NEW c \in Clients, DbInsert(c)
      PROVE TypeOK'
  <2>1. active[c] # None /\ Reply(c, TRUE)
    BY <1>6 DEF DbInsert, Executes
  <2>2. active[c].by \in Deliveries
    BY <2>1, StatementFacts DEF TypeOK
  <2>3. dirty' \in [Clients -> SUBSET Deliveries]
    BY <1>6, <2>2 DEF DbInsert, TypeOK
  <2>4. created' \in [Deliveries -> {"none", "new", "duplicate"}]
    BY <1>6, <2>2 DEF DbInsert, CreateResult, TypeOK
  <2>5. seen' \in [Clients -> {"unset", "absent", "present"}]
    BY <1>6 DEF DbInsert, TypeOK
  <2> QED BY <1>6, <2>1, <2>3, <2>4, <2>5, ReplyTypes DEF DbInsert, TypeOK
<1>7. ASSUME NEW c \in Clients, DbInsertFails(c)
      PROVE TypeOK'
  <2>1. active[c] # None /\ Reply(c, FALSE)
    BY <1>7 DEF DbInsertFails, Executes
  <2> QED BY <1>7, <2>1, ReplyTypes DEF DbInsertFails, TypeOK
<1>8. ASSUME NEW c \in Clients, DbCommit(c)
      PROVE TypeOK'
  <2>1. active[c] # None /\ Reply(c, TRUE)
    BY <1>8 DEF DbCommit, Executes
  <2>2. row' \in [WebhookIds -> Deliveries \cup {None}]
    BY <1>8 DEF DbCommit, Committed, TypeOK
  <2> QED BY <1>8, <2>1, <2>2, ReplyTypes DEF DbCommit, EndTransaction, TypeOK
<1>9. ASSUME NEW c \in Clients, DbRollback(c)
      PROVE TypeOK'
  <2>1. active[c] # None /\ Reply(c, TRUE)
    BY <1>9 DEF DbRollback, Executes
  <2>2. undone' \in SUBSET Deliveries
    BY <1>9 DEF DbRollback, Live, TypeOK
  <2> QED BY <1>9, <2>1, <2>2, ReplyTypes DEF DbRollback, EndTransaction, TypeOK
<1>10. ASSUME NEW c \in Clients, SessionEnds(c)
       PROVE TypeOK'
  BY <1>10 DEF SessionEnds, EndTransaction, TypeOK
<1>11. ASSUME NEW c \in Clients, QueryTimeout(c)
       PROVE TypeOK'
  <2>1. user[c] \in Deliveries
    BY <1>11 DEF QueryTimeout, TypeOK
  <2>2. Statement("ROLLBACK", user[c]) \in Statements /\ "ROLLBACK" \in Ops
    BY <2>1, StatementFacts DEF Ops
  <2> QED BY <1>11, <2>1, <2>2 DEF QueryTimeout, TypeOK
<1>12. ASSUME NEW c \in Clients, RollbackTimeout(c)
       PROVE TypeOK'
  BY <1>12 DEF RollbackTimeout, TypeOK
<1>13. ASSUME NEW c \in Clients, ConnectionLost(c)
       PROVE TypeOK'
  BY <1>13 DEF ConnectionLost, TypeOK
<1>14. ASSUME NEW c \in Clients, IdleTimeout(c)
       PROVE TypeOK'
  BY <1>14 DEF IdleTimeout, TypeOK
<1>15. ASSUME NEW i \in Instances, Crash(i)
       PROVE TypeOK'
  BY <1>15 DEF Crash, TypeOK
<1>16. CASE UNCHANGED vars
  BY <1>16 DEF vars, TypeOK
<1> QED BY <1>1, <1>2, <1>3, <1>4, <1>5, <1>6, <1>7, <1>8, <1>9, <1>10, <1>11,
           <1>12, <1>13, <1>14, <1>15, <1>16 DEF Next

\* Every variable of the service and of the database keeps its type, for every
\* number of deliveries, webhooks, instances and clients.
THEOREM TypeCorrect == Spec => []TypeOK
<1> QED BY TypeInit, TypeNext, PTL DEF Spec

(* --------------------- what has arrived stays so --------------------- *)

LEMMA ReplyAdvances ==
  ASSUME TypeOK, NEW c \in Clients, NEW ok \in BOOLEAN, active[c] # None, Reply(c, ok),
         NEW d \in Deliveries
  PROVE  pc[d] # "unsent" => pc'[d] # "unsent"
<1>1. active[c] \in Statements /\ active[c].op \in Ops
  BY StatementFacts DEF TypeOK
<1>2. After(active[c].op, ok) \in Ops \cup {"answered"}
  BY <1>1, AfterFacts
<1> QED BY <1>2 DEF Reply, TypeOK, Ops

\* Deliveries never un-arrive, and keep their webhook id and their instance.
LEMMA ArrivedStable ==
  ASSUME TypeOK, [Next]_vars, NEW d \in Deliveries, d \in Arrived
  PROVE  d \in Arrived' /\ id'[d] = id[d] /\ home'[d] = home[d]
<1> USE DEF Arrived, handlerVars, clientVars, sessionVars
<1>1. ASSUME NEW e \in Deliveries, NEW w \in WebhookIds, NEW i \in Instances,
             Deliver(e, w, i)
      PROVE d \in Arrived' /\ id'[d] = id[d] /\ home'[d] = home[d]
  BY <1>1 DEF Deliver, TypeOK
<1>2. CASE \E e \in Deliveries : NoClient(e) \/ \E c \in Clients : CheckOut(e, c)
  BY <1>2 DEF NoClient, CheckOut, TypeOK
<1>3. ASSUME NEW c \in Clients, DbBegin(c)
      PROVE d \in Arrived' /\ id'[d] = id[d] /\ home'[d] = home[d]
  <2>1. active[c] # None /\ (txn[c] # "failed") \in BOOLEAN /\ Reply(c, txn[c] # "failed")
    BY <1>3 DEF DbBegin, Executes
  <2>2. pc'[d] # "unsent"
    BY <2>1, ReplyAdvances
  <2> QED BY <1>3, <2>2 DEF DbBegin
<1>4. ASSUME NEW c \in Clients, DbInsert(c) \/ DbCommit(c) \/ DbRollback(c)
      PROVE d \in Arrived' /\ id'[d] = id[d] /\ home'[d] = home[d]
  <2>1. active[c] # None /\ Reply(c, TRUE)
    BY <1>4 DEF DbInsert, DbCommit, DbRollback, Executes
  <2>2. pc'[d] # "unsent"
    BY <2>1, ReplyAdvances
  <2> QED BY <1>4, <2>2 DEF DbInsert, DbCommit, DbRollback
<1>5. ASSUME NEW c \in Clients, DbInsertFails(c)
      PROVE d \in Arrived' /\ id'[d] = id[d] /\ home'[d] = home[d]
  <2>1. active[c] # None /\ Reply(c, FALSE)
    BY <1>5 DEF DbInsertFails, Executes
  <2>2. pc'[d] # "unsent"
    BY <2>1, ReplyAdvances
  <2> QED BY <1>5, <2>2 DEF DbInsertFails
<1>6. CASE \E c \in Clients : TakeSnapshot(c) \/ SessionEnds(c) \/ IdleTimeout(c)
  BY <1>6 DEF TakeSnapshot, SessionEnds, IdleTimeout
<1>7. CASE \E c \in Clients : QueryTimeout(c) \/ RollbackTimeout(c) \/ ConnectionLost(c)
  BY <1>7 DEF QueryTimeout, RollbackTimeout, ConnectionLost, TypeOK
<1>8. CASE \E i \in Instances : Crash(i)
  BY <1>8 DEF Crash, TypeOK
<1>9. CASE UNCHANGED vars
  BY <1>9 DEF vars
<1> QED BY <1>1, <1>2, <1>3, <1>4, <1>5, <1>6, <1>7, <1>8, <1>9 DEF Next

\* The client's part of an answer puts on the wire a statement of a delivery
\* that was already there, and holds back nothing new.
LEMMA ReplyStatements ==
  ASSUME TypeOK, NEW c \in Clients, NEW ok \in BOOLEAN, active[c] # None, Reply(c, ok)
  PROVE  /\ \A b \in Clients \ {c} : active'[b] = active[b] /\ queued'[b] = queued[b]
         /\ queued'[c] \in {None, queued[c]}
         /\ active'[c] = None \/ active'[c] = queued[c] \/ active'[c].by = active[c].by
<1>1. active[c] \in Statements /\ active[c].op \in Ops /\ active[c].by \in Deliveries
  BY StatementFacts DEF TypeOK
<1>2. ASSUME Live(c), After(active[c].op, ok) # "answered"
      PROVE  Statement(After(active[c].op, ok), user[c]).by = active[c].by
  <2>1. After(active[c].op, ok) \in Ops
    BY <1>1, <1>2, AfterFacts
  <2> QED BY <1>1, <1>2, <2>1, StatementFacts DEF Live
<1> QED BY <1>2 DEF Reply, TypeOK

LEMMA ArrivedInit == Init => OnlyArrived
BY DEF Init, OnlyArrived

\* A step whose statements, users and uncommitted rows are of deliveries that
\* have arrived, and which leaves the others alone, keeps OnlyArrived.
LEMMA ArrivedFrame ==
  ASSUME OnlyArrived,
         \A c \in Clients :
           /\ active'[c] # None => active'[c].by \in Arrived'
           /\ queued'[c] # None => queued'[c].by \in Arrived'
           /\ user'[c] # None => user'[c] \in Arrived'
           /\ dirty'[c] \subseteq Arrived',
         \A d \in Deliveries \ Arrived :
           \/ d \in Arrived'
           \/ pc'[d] = pc[d] /\ home'[d] = home[d] /\ id'[d] = id[d],
         Arrived \subseteq Arrived'
  PROVE  OnlyArrived'
BY DEF OnlyArrived

LEMMA ArrivedNext == TypeOK /\ OnlyArrived /\ [Next]_vars => OnlyArrived'
<1> SUFFICES ASSUME TypeOK, OnlyArrived, [Next]_vars PROVE OnlyArrived'
  OBVIOUS
<1> USE DEF handlerVars, clientVars, sessionVars
<1>a. Arrived \subseteq Arrived'
  BY ArrivedStable DEF Arrived
<1>b. \A c \in Clients :
        /\ active[c] # None => active[c].by \in Arrived'
        /\ queued[c] # None => queued[c].by \in Arrived'
        /\ user[c] # None => user[c] \in Arrived'
        /\ dirty[c] \subseteq Arrived'
  BY <1>a DEF OnlyArrived
<1>c. ASSUME NEW c \in Clients, NEW ok \in BOOLEAN, active[c] # None, Reply(c, ok),
             id' = id, home' = home,
             \A b \in Clients : dirty'[b] \in {{}, dirty[b], dirty[b] \cup {active[c].by}}
      PROVE OnlyArrived'
  <2>1. \A b \in Clients : /\ active'[b] # None => active'[b].by \in Arrived'
                           /\ queued'[b] # None => queued'[b].by \in Arrived'
    BY <1>b, <1>c, ReplyStatements
  <2>2. \A b \in Clients : user'[b] \in {None, user[b]}
    BY <1>c DEF Reply, TypeOK
  <2>3. \A b \in Clients : dirty'[b] \subseteq Arrived'
    BY <1>b, <1>c
  <2>4. \A d \in Deliveries \ Arrived : pc'[d] = pc[d]
    <3>1. Live(c) => user[c] \in Arrived
      BY <1>c DEF Live, OnlyArrived
    <3> QED BY <1>c, <3>1 DEF Reply, TypeOK
  <2> QED BY <1>a, <1>b, <1>c, <2>1, <2>2, <2>3, <2>4, ArrivedFrame
<1>1. ASSUME NEW d \in Deliveries, NEW w \in WebhookIds, NEW i \in Instances,
             Deliver(d, w, i)
      PROVE OnlyArrived'
  <2>1. active' = active /\ queued' = queued /\ user' = user /\ dirty' = dirty
    BY <1>1 DEF Deliver
  <2>2. d \in Arrived'
    BY <1>1 DEF Deliver, TypeOK, Arrived
  <2>3. \A e \in Deliveries \ {d} : pc'[e] = pc[e] /\ home'[e] = home[e] /\ id'[e] = id[e]
    BY <1>1 DEF Deliver, TypeOK
  <2> QED BY <1>a, <1>b, <2>1, <2>2, <2>3, ArrivedFrame
<1>2. ASSUME NEW d \in Deliveries, NoClient(d)
      PROVE OnlyArrived'
  <2>1. /\ active' = active /\ queued' = queued /\ user' = user /\ dirty' = dirty
        /\ home' = home /\ id' = id
    BY <1>2 DEF NoClient
  <2>2. d \in Arrived /\ \A e \in Deliveries \ {d} : pc'[e] = pc[e]
    BY <1>2 DEF NoClient, TypeOK, OnlyArrived
  <2> QED BY <1>a, <1>b, <2>1, <2>2, ArrivedFrame
<1>3. ASSUME NEW d \in Deliveries, NEW c \in Clients, CheckOut(d, c)
      PROVE OnlyArrived'
  <2>1. d \in Arrived /\ d \in Arrived' /\ dirty' = dirty /\ home' = home /\ id' = id
    BY <1>3, <1>a DEF CheckOut, OnlyArrived
  <2>2. Statement("BEGIN", d).by = d
    BY DEF Statement
  <2>3. \A b \in Clients : /\ active'[b] \in {active[b], Statement("BEGIN", d)}
                           /\ queued'[b] \in {queued[b], Statement("BEGIN", d)}
                           /\ user'[b] \in {user[b], d}
    BY <1>3 DEF CheckOut, Send, TypeOK
  <2>4. \A e \in Deliveries \ {d} : pc'[e] = pc[e]
    BY <1>3 DEF CheckOut, TypeOK
  <2> QED BY <1>a, <1>b, <2>1, <2>2, <2>3, <2>4, ArrivedFrame
<1>4. ASSUME NEW c \in Clients, DbBegin(c)
      PROVE OnlyArrived'
  BY <1>4, <1>c DEF DbBegin, Executes
<1>5. ASSUME NEW c \in Clients, DbInsert(c)
      PROVE OnlyArrived'
  BY <1>5, <1>c DEF DbInsert, Executes, TypeOK
<1>6. ASSUME NEW c \in Clients, DbInsertFails(c)
      PROVE OnlyArrived'
  BY <1>6, <1>c DEF DbInsertFails, Executes
<1>7. ASSUME NEW c \in Clients, DbCommit(c) \/ DbRollback(c)
      PROVE OnlyArrived'
  BY <1>7, <1>c DEF DbCommit, DbRollback, EndTransaction, Executes, TypeOK
<1>8. ASSUME NEW c \in Clients, TakeSnapshot(c) \/ SessionEnds(c) \/ IdleTimeout(c)
      PROVE OnlyArrived'
  <2>1. /\ \A b \in Clients : active'[b] \in {None, active[b]} /\ dirty'[b] \in {{}, dirty[b]}
        /\ queued' = queued /\ user' = user /\ pc' = pc /\ home' = home /\ id' = id
    BY <1>8 DEF TakeSnapshot, SessionEnds, IdleTimeout, EndTransaction, TypeOK
  <2> QED BY <1>a, <1>b, <2>1, ArrivedFrame
<1>9. ASSUME NEW c \in Clients, QueryTimeout(c) \/ RollbackTimeout(c) \/ ConnectionLost(c)
      PROVE OnlyArrived'
  <2> DEFINE d == user[c]
  <2>1. /\ active' = active /\ dirty' = dirty /\ home' = home /\ id' = id
        /\ d # None /\ d \in Arrived /\ d \in Arrived'
    BY <1>9, <1>a DEF QueryTimeout, RollbackTimeout, ConnectionLost, OnlyArrived
  <2>2. Statement("ROLLBACK", d).by = d
    BY DEF Statement
  <2>3. /\ \A e \in Deliveries \ {d} : pc'[e] = pc[e]
        /\ \A b \in Clients : queued'[b] \in {None, queued[b], Statement("ROLLBACK", d)}
        /\ \A b \in Clients : user'[b] \in {None, user[b]}
    BY <1>9 DEF QueryTimeout, RollbackTimeout, ConnectionLost, TypeOK
  <2> QED BY <1>a, <1>b, <2>1, <2>2, <2>3, ArrivedFrame
<1>10. ASSUME NEW i \in Instances, Crash(i)
       PROVE OnlyArrived'
  <2>1. /\ active' = active /\ dirty' = dirty /\ home' = home /\ id' = id
        /\ \A b \in Clients : queued'[b] \in {None, queued[b]} /\ user'[b] \in {None, user[b]}
    BY <1>10 DEF Crash, TypeOK
  <2>2. \A d \in Deliveries \ Arrived : pc'[d] = pc[d]
    BY <1>10, StatementFacts DEF Crash, OnlyArrived, TypeOK
  <2> QED BY <1>a, <1>b, <2>1, <2>2, ArrivedFrame
<1>11. CASE UNCHANGED vars
  BY <1>a, <1>b, <1>11, ArrivedFrame DEF vars
<1> QED BY <1>1, <1>2, <1>3, <1>4, <1>5, <1>6, <1>7, <1>8, <1>9, <1>10, <1>11 DEF Next

(* ----------------------------- the table ----------------------------- *)

RowsKept == \A w \in WebhookIds : row[w] # None => row'[w] = row[w]

LEMMA UniqueInit == Init => UniqueIndex
BY DEF Init, UniqueIndex

\* The unique index holds from step to step, and no step changes a stored row:
\* a commit only adds rows, because the webhooks of its rows were not stored.
LEMMA UniqueNext ==
  TypeOK /\ OnlyArrived /\ UniqueIndex /\ [Next]_vars => UniqueIndex' /\ RowsKept
<1> SUFFICES ASSUME TypeOK, OnlyArrived, UniqueIndex, [Next]_vars
             PROVE  UniqueIndex' /\ RowsKept
  OBVIOUS
<1> USE DEF handlerVars, clientVars, sessionVars
<1>a. \A c \in Clients : \A d \in dirty[c] :
        d \in Deliveries /\ id'[d] = id[d] /\ id[d] \in WebhookIds
  BY ArrivedStable DEF OnlyArrived, Arrived
<1>1. ASSUME row' = row, \A c \in Clients : dirty'[c] \subseteq dirty[c]
      PROVE  UniqueIndex' /\ RowsKept
  BY <1>1, <1>a DEF UniqueIndex, RowsKept
<1>2. ASSUME NEW c \in Clients, DbInsert(c)
      PROVE  UniqueIndex' /\ RowsKept
  <2> DEFINE d == active[c].by
  <2>1. row' = row /\ id' = id /\ d \in Deliveries /\ id[d] \in WebhookIds
    BY <1>2 DEF DbInsert, Executes, OnlyArrived, Arrived
  <2>2. CASE Visible(c, id[d])
    BY <1>1, <1>2, <2>1, <2>2 DEF DbInsert
  <2>3. CASE ~Visible(c, id[d])
    <3>1. row[id[d]] = None /\ \A b \in Clients : \A e \in dirty[b] : id[e] # id[d]
      BY <1>2, <2>3 DEF DbInsert, Visible, Locked
    <3>2. dirty' = [dirty EXCEPT ![c] = @ \cup {d}]
      BY <1>2, <2>3 DEF DbInsert
    <3>3. /\ \A b \in Clients : dirty'[b] \subseteq dirty[b] \cup {d}
          /\ \A b \in Clients \ {c} : dirty'[b] = dirty[b]
      BY <3>2 DEF TypeOK
    <3>4. ASSUME NEW b1 \in Clients, NEW b2 \in Clients,
                 NEW e1 \in dirty'[b1], NEW e2 \in dirty'[b2], id[e1] = id[e2]
          PROVE  b1 = b2 /\ e1 = e2
      <4>1. CASE e1 = d \/ e2 = d
        BY <3>1, <3>3, <3>4, <4>1
      <4>2. CASE e1 # d /\ e2 # d
        BY <3>3, <3>4, <4>2 DEF UniqueIndex
      <4> QED BY <4>1, <4>2
    <3>5. \A b \in Clients : \A e \in dirty'[b] : row[id[e]] = None
      BY <3>1, <3>3 DEF UniqueIndex
    <3> QED BY <2>1, <3>4, <3>5 DEF UniqueIndex, RowsKept
  <2> QED BY <2>2, <2>3
<1>3. ASSUME NEW c \in Clients, DbCommit(c)
      PROVE  UniqueIndex' /\ RowsKept
  <2>1. id' = id /\ dirty' = [dirty EXCEPT ![c] = {}] /\ row' = Committed(c)
    BY <1>3 DEF DbCommit, EndTransaction
  <2>2. \A w \in WebhookIds :
          row'[w] # row[w] => \E d \in dirty[c] : id[d] = w
    BY <2>1 DEF Committed, TypeOK
  <2>3. RowsKept
    BY <2>2 DEF RowsKept, UniqueIndex
  <2>4. \A b \in Clients : dirty'[b] \subseteq dirty[b] /\ dirty'[c] = {}
    BY <2>1 DEF TypeOK
  <2>5. ASSUME NEW b \in Clients, NEW e \in dirty'[b]
        PROVE  row'[id[e]] = None
    <3>1. b # c /\ e \in dirty[b] /\ id[e] \in WebhookIds /\ row[id[e]] = None
      BY <1>a, <2>4, <2>5 DEF UniqueIndex
    <3>2. \A d \in dirty[c] : id[d] # id[e]
      BY <3>1 DEF UniqueIndex
    <3> QED BY <2>2, <3>1, <3>2
  <2>6. \A b1, b2 \in Clients : \A e1 \in dirty'[b1], e2 \in dirty'[b2] :
          id[e1] = id[e2] => b1 = b2 /\ e1 = e2
    BY <2>4 DEF UniqueIndex
  <2> QED BY <2>1, <2>3, <2>5, <2>6 DEF UniqueIndex
<1>4. ASSUME NEW c \in Clients, DbRollback(c) \/ SessionEnds(c)
      PROVE  UniqueIndex' /\ RowsKept
  BY <1>1, <1>4 DEF DbRollback, SessionEnds, EndTransaction, TypeOK
<1>5. CASE \/ \E d \in Deliveries, w \in WebhookIds, i \in Instances : Deliver(d, w, i)
           \/ \E d \in Deliveries : NoClient(d)
           \/ \E d \in Deliveries, c \in Clients : CheckOut(d, c)
           \/ \E c \in Clients : DbBegin(c) \/ TakeSnapshot(c) \/ DbInsertFails(c)
           \/ \E c \in Clients : \/ QueryTimeout(c) \/ RollbackTimeout(c)
                                 \/ ConnectionLost(c) \/ IdleTimeout(c)
           \/ \E i \in Instances : Crash(i)
           \/ UNCHANGED vars
  <2>1. row' = row /\ dirty' = dirty
    BY <1>5 DEF Deliver, NoClient, CheckOut, DbBegin, TakeSnapshot, DbInsertFails,
                QueryTimeout, RollbackTimeout, ConnectionLost, IdleTimeout, Crash, vars
  <2> QED BY <1>1, <2>1
<1> QED BY <1>2, <1>3, <1>4, <1>5 DEF Next

\* A webhook that is stored keeps its row, for every interleaving of any number
\* of transactions, lost connections and crashes (the action property
\* RowsAreFinal).
THEOREM RowsFinal == Spec => RowsAreFinal
<1> DEFINE Inv == TypeOK /\ OnlyArrived /\ UniqueIndex
<1>1. Init => Inv
  BY TypeInit, ArrivedInit, UniqueInit
<1>2. Inv /\ [Next]_vars => Inv' /\ RowsKept
  BY TypeNext, ArrivedNext, UniqueNext
<1>3. RowsKept => [\A w \in WebhookIds : row[w] # None => row'[w] = row[w]]_vars
  BY DEF RowsKept
<1> HIDE DEF Inv, RowsKept
<1> QED BY <1>1, <1>2, <1>3, PTL DEF Spec, RowsAreFinal

(* ----------------------- who holds which client ---------------------- *)

LEMMA HoldingInit == Init => Holding /\ AwaitersHold
BY DEF Init, Holding, AwaitersHold, Ops

\* A handler's statement is either on the wire, and live, or held back.
LEMMA LiveFacts ==
  ASSUME TypeOK, Holding, NEW c \in Clients
  PROVE  /\ Live(c) => /\ user[c] \in Deliveries /\ pc[user[c]] \in Ops
                       /\ active[c] = Statement(pc[user[c]], user[c])
                       /\ queued[c] = None
         /\ ~Live(c) /\ user[c] # None =>
              /\ queued[c] = Statement(pc[user[c]], user[c])
              /\ pc[user[c]] \in {"BEGIN", "ROLLBACK"}
         /\ user[c] = None => queued[c] = None
<1>1. CASE user[c] = None
  BY <1>1 DEF Live, Holding
<1>2. CASE user[c] # None
  <2> DEFINE d == user[c]  s == Statement(pc[d], d)
  <2>1. d \in Deliveries /\ pc[d] \in Ops /\ AwaitedStatement(c)
    BY <1>2 DEF Holding, TypeOK
  <2>2. s \in Statements /\ s.op = pc[d] /\ s.by = d
    BY <2>1, StatementFacts
  <2>3. Live(c) <=> active[c] = s
    BY <1>2, <2>2, StatementFacts DEF Live, TypeOK
  <2> QED BY <1>2, <2>1, <2>2, <2>3 DEF AwaitedStatement
<1> QED BY <1>1, <1>2

\* A step about the client c alone keeps Holding when it leaves c either free
\* or held, with its statement, by a delivery that holds no other client.
LEMMA HoldingFrame ==
  ASSUME TypeOK, TypeOK', Holding, NEW c \in Clients, home' = home,
         \A b \in Clients \ {c} : /\ user'[b] = user[b] /\ owner'[b] = owner[b]
                                  /\ active'[b] = active[b] /\ queued'[b] = queued[b],
         \A d \in Deliveries : d # user[c] /\ d # user'[c] => pc'[d] = pc[d],
         user'[c] \in {None, user[c]} \/ \A b \in Clients : user[b] # user'[c],
         user'[c] = None => queued'[c] = None,
         user'[c] # None => /\ pc'[user'[c]] \in Ops /\ owner'[c] = home[user'[c]]
                            /\ AwaitedStatement(c)'
  PROVE  Holding'
<1>1. ASSUME NEW b \in Clients \ {c}, user[b] # None
      PROVE  user[b] \in Deliveries /\ user[b] # user[c] /\ user[b] # user'[c]
  BY <1>1 DEF Holding, TypeOK
<1>2. \A b \in Clients \ {c} : user[b] # None => pc'[user[b]] = pc[user[b]]
  BY <1>1
<1>3. \A b \in Clients \ {c} :
        IF user'[b] = None THEN queued'[b] = None
        ELSE /\ pc'[user'[b]] \in Ops /\ owner'[b] = home'[user'[b]]
             /\ AwaitedStatement(b)'
  BY <1>2 DEF Holding, AwaitedStatement
<1>4. IF user'[c] = None THEN queued'[c] = None
      ELSE /\ pc'[user'[c]] \in Ops /\ owner'[c] = home'[user'[c]]
           /\ AwaitedStatement(c)'
  OBVIOUS
<1>5. \A c1, c2 \in Clients :
        user'[c1] # None /\ user'[c1] = user'[c2] => c1 = c2
  BY <1>1 DEF Holding
<1> QED BY <1>3, <1>4, <1>5 DEF Holding

LEMMA ReplyHolding ==
  ASSUME TypeOK, TypeOK', Holding, NEW c \in Clients, NEW ok \in BOOLEAN,
         active[c] # None, Reply(c, ok), home' = home, owner' = owner
  PROVE  Holding'
<1> DEFINE d == user[c]  next == After(active[c].op, ok)
<1>1. \A b \in Clients \ {c} : /\ user'[b] = user[b] /\ owner'[b] = owner[b]
                               /\ active'[b] = active[b] /\ queued'[b] = queued[b]
  BY DEF Reply, TypeOK
<1>2. active[c].op \in Ops
  BY StatementFacts DEF TypeOK
<1>3. CASE ~Live(c)
  <2>1. pc' = pc /\ user' = user /\ active'[c] = queued[c] /\ queued'[c] = None
    BY <1>3 DEF Reply, TypeOK
  <2>2. user[c] # None => active'[c] = Statement(pc[d], d) /\ pc[d] \in Ops
    BY <1>3, <2>1, LiveFacts DEF Ops
  <2>3. user[c] # None => AwaitedStatement(c)'
    BY <2>1, <2>2 DEF AwaitedStatement
  <2>4. user[c] # None => owner[c] = home[user[c]]
    BY DEF Holding
  <2> HIDE DEF d
  <2> QED BY <1>1, <2>1, <2>2, <2>3, <2>4, HoldingFrame DEF d
<1>4. CASE Live(c) /\ next # "answered"
  <2>1. d \in Deliveries /\ d # None /\ queued[c] = None /\ next \in Ops
    BY <1>2, <1>4, LiveFacts, AfterFacts, StatementFacts
  <2>2. /\ user' = user /\ queued' = queued /\ pc' = [pc EXCEPT ![d] = next]
        /\ active'[c] = Statement(next, d)
    BY <1>4, <1>2 DEF Reply, TypeOK
  <2>3. pc'[d] = next /\ \A e \in Deliveries \ {d} : pc'[e] = pc[e]
    BY <2>1, <2>2 DEF TypeOK
  <2>4. AwaitedStatement(c)'
    BY <2>1, <2>2, <2>3 DEF AwaitedStatement
  <2>5. owner[c] = home[d]
    BY <2>1 DEF Holding
  <2> QED BY <1>1, <2>1, <2>2, <2>3, <2>4, <2>5, HoldingFrame
<1>5. CASE Live(c) /\ next = "answered"
  <2>1. user'[c] = None /\ queued'[c] = None /\ \A e \in Deliveries \ {d} : pc'[e] = pc[e]
    BY <1>5, LiveFacts DEF Reply, TypeOK
  <2> QED BY <1>1, <2>1, HoldingFrame
<1> QED BY <1>3, <1>4, <1>5

\* Waiting handlers stay silent: what a step puts on the wire is a statement
\* that its handler awaits.
LEMMA SilentNext ==
  TypeOK /\ OnlyArrived /\ Holding /\ WaitersSentNothing /\ [Next]_vars
    => WaitersSentNothing'
<1> SUFFICES ASSUME TypeOK, OnlyArrived, Holding, WaitersSentNothing, [Next]_vars
             PROVE  WaitersSentNothing'
  OBVIOUS
<1> USE DEF handlerVars, clientVars, sessionVars
<1>a. \A c \in Clients : active[c] # None =>
        /\ active[c].by \in Deliveries /\ pc[active[c].by] # "unsent"
        /\ pc[active[c].by] # "getClient"
  BY DEF OnlyArrived, Arrived, WaitersSentNothing
<1>b. ASSUME \A c \in Clients : active'[c] \in {None, active[c]},
             \A d \in Deliveries :
               pc'[d] = "getClient" => pc[d] \in {"unsent", "getClient"}
      PROVE  WaitersSentNothing'
  BY <1>a, <1>b DEF WaitersSentNothing
<1>c. ASSUME NEW c \in Clients, NEW ok \in BOOLEAN, active[c] # None, Reply(c, ok)
      PROVE  WaitersSentNothing'
  <2> DEFINE d == user[c]  next == After(active[c].op, ok)
  <2>1. active[c].op \in Ops
    BY <1>c, StatementFacts DEF TypeOK
  <2>2. next \in Ops \cup {"answered"}
    BY <2>1, AfterFacts
  <2>3. \A e \in Deliveries : pc'[e] = "getClient" => pc[e] = "getClient"
    BY <1>c, <2>2 DEF Reply, TypeOK, Ops
  <2>4. \A b \in Clients \ {c} : active'[b] = active[b]
    BY <1>c DEF Reply, TypeOK
  <2>5. active'[c] # None => pc'[active'[c].by] # "getClient"
    <3>1. ASSUME active'[c] = queued[c], queued[c] # None
          PROVE  pc'[active'[c].by] # "getClient"
      <4>1. ~Live(c) /\ user[c] # None
        BY <3>1, LiveFacts
      <4>2. pc[d] \in Ops /\ queued[c] = Statement(pc[d], d) /\ d \in Deliveries
        BY <4>1, LiveFacts DEF Holding, TypeOK
      <4>3. queued[c].by = d /\ pc[d] # "getClient"
        BY <4>2, StatementFacts DEF Ops
      <4> QED BY <3>1, <2>3, <4>2, <4>3
    <3>2. ASSUME active'[c] # None, active'[c].by = active[c].by
          PROVE  pc'[active'[c].by] # "getClient"
      BY <1>a, <1>c, <2>3, <3>2
    <3> QED BY <1>c, <3>1, <3>2, ReplyStatements
  <2> QED BY <1>a, <2>3, <2>4, <2>5 DEF WaitersSentNothing
<1>1. ASSUME NEW d \in Deliveries, NEW c \in Clients, CheckOut(d, c)
      PROVE  WaitersSentNothing'
  <2>1. /\ pc'[d] = "BEGIN" /\ \A e \in Deliveries \ {d} : pc'[e] = pc[e]
        /\ \A b \in Clients : active'[b] \in {active[b], Statement("BEGIN", d)}
    BY <1>1 DEF CheckOut, Send, TypeOK
  <2>2. Statement("BEGIN", d).by = d
    BY DEF Statement
  <2> QED BY <1>a, <2>1, <2>2 DEF WaitersSentNothing
<1>2. CASE \/ \E d \in Deliveries, w \in WebhookIds, i \in Instances : Deliver(d, w, i)
           \/ \E d \in Deliveries : NoClient(d)
           \/ \E c \in Clients : TakeSnapshot(c) \/ SessionEnds(c) \/ IdleTimeout(c)
           \/ \E c \in Clients : QueryTimeout(c) \/ RollbackTimeout(c) \/ ConnectionLost(c)
           \/ \E i \in Instances : Crash(i)
           \/ UNCHANGED vars
  <2>1. \A c \in Clients : active'[c] \in {None, active[c]}
    BY <1>2 DEF Deliver, NoClient, TakeSnapshot, SessionEnds, IdleTimeout,
                QueryTimeout, RollbackTimeout, ConnectionLost, Crash, vars, TypeOK
  <2>2. \A d \in Deliveries :
          pc'[d] = "getClient" => pc[d] \in {"unsent", "getClient"}
    BY <1>2 DEF Deliver, NoClient, TakeSnapshot, SessionEnds, IdleTimeout,
                QueryTimeout, RollbackTimeout, ConnectionLost, Crash, vars, TypeOK
  <2> QED BY <1>b, <2>1, <2>2
<1>3. ASSUME NEW c \in Clients,
             \/ DbBegin(c) \/ DbInsert(c) \/ DbInsertFails(c)
             \/ DbCommit(c) \/ DbRollback(c)
      PROVE  WaitersSentNothing'
  BY <1>3, <1>c DEF DbBegin, DbInsert, DbInsertFails, DbCommit, DbRollback, Executes
<1> QED BY <1>1, <1>2, <1>3 DEF Next

LEMMA HoldingNext ==
  TypeOK /\ OnlyArrived /\ WaitersSentNothing /\ Holding /\ [Next]_vars => Holding'
<1> SUFFICES ASSUME TypeOK, OnlyArrived, WaitersSentNothing, Holding, [Next]_vars
             PROVE  Holding'
  OBVIOUS
<1> USE DEF handlerVars, clientVars, sessionVars
<1>a. TypeOK'
  BY TypeNext
<1>b. \A c \in Clients : user[c] # None =>
        /\ user[c] \in Deliveries /\ pc[user[c]] \in Ops
        /\ owner[c] = home[user[c]] /\ owner[c] \in Instances /\ owner[c] # None
  BY StatementFacts DEF Holding, TypeOK, OnlyArrived, Arrived
<1>c. ASSUME UNCHANGED clientVars,
             \A c \in Clients : user[c] # None =>
               pc'[user[c]] = pc[user[c]] /\ home'[user[c]] = home[user[c]]
      PROVE  Holding'
  <2>1. user' = user /\ owner' = owner /\ active' = active /\ queued' = queued
    BY <1>c
  <2>2. \A c \in Clients : user[c] # None /\ AwaitedStatement(c) => AwaitedStatement(c)'
    BY <1>c, <2>1 DEF AwaitedStatement
  <2> QED BY <1>c, <2>1, <2>2 DEF Holding
<1>1. ASSUME NEW d \in Deliveries, NEW w \in WebhookIds, NEW i \in Instances,
             Deliver(d, w, i)
      PROVE Holding'
  <2>1. \A c \in Clients : user[c] # d
    BY <1>1, <1>b, StatementFacts DEF Deliver, Ops
  <2>2. /\ \A e \in Deliveries \ {d} : pc'[e] = pc[e] /\ home'[e] = home[e]
        /\ UNCHANGED clientVars
    BY <1>1 DEF Deliver, TypeOK
  <2> QED BY <1>b, <1>c, <2>1, <2>2
<1>2. ASSUME NEW d \in Deliveries, NoClient(d)
      PROVE Holding'
  <2>1. \A c \in Clients : user[c] # d
    BY <1>2, <1>b, StatementFacts DEF NoClient, Ops
  <2>2. /\ \A e \in Deliveries \ {d} : pc'[e] = pc[e]
        /\ home' = home /\ UNCHANGED clientVars
    BY <1>2 DEF NoClient, TypeOK
  <2> QED BY <1>b, <1>c, <2>1, <2>2
<1>3. ASSUME NEW d \in Deliveries, NEW c \in Clients, CheckOut(d, c)
      PROVE Holding'
  <2>1. /\ pc[d] = "getClient" /\ \A b \in Clients : user[b] # d
        /\ home' = home /\ d # None
    BY <1>3, <1>b, StatementFacts DEF CheckOut, Ops
  <2>2. user[c] = None
    BY <1>3, <1>b DEF CheckOut, Idle, Fresh
  <2>3. queued[c] = None
    BY <2>2 DEF Holding
  <2>4. /\ user'[c] = d /\ owner'[c] = home[d] /\ pc'[d] = "BEGIN"
        /\ \A e \in Deliveries \ {d} : pc'[e] = pc[e]
        /\ \A b \in Clients \ {c} : user'[b] = user[b] /\ owner'[b] = owner[b]
    BY <1>3 DEF CheckOut, TypeOK
  <2>5. \A b \in Clients \ {c} : active'[b] = active[b] /\ queued'[b] = queued[b]
    BY <1>3 DEF CheckOut, Send, TypeOK
  <2>6. active[c] # None => active[c].by # d
    BY <2>1 DEF WaitersSentNothing
  <2>7. IF active[c] = None
        THEN active'[c] = Statement("BEGIN", d) /\ queued'[c] = None
        ELSE queued'[c] = Statement("BEGIN", d) /\ active'[c] = active[c]
    BY <1>3, <2>3 DEF CheckOut, Send, TypeOK
  <2>8. AwaitedStatement(c)'
    BY <2>4, <2>6, <2>7 DEF AwaitedStatement
  <2>9. "BEGIN" \in Ops
    BY DEF Ops
  <2> QED BY <1>a, <2>1, <2>4, <2>5, <2>8, <2>9, HoldingFrame
<1>4. ASSUME NEW c \in Clients, DbBegin(c)
      PROVE Holding'
  BY <1>4, <1>a, ReplyHolding DEF DbBegin, Executes
<1>5. ASSUME NEW c \in Clients,
             DbInsert(c) \/ DbInsertFails(c) \/ DbCommit(c) \/ DbRollback(c)
      PROVE Holding'
  BY <1>5, <1>a, ReplyHolding DEF DbInsert, DbInsertFails, DbCommit, DbRollback, Executes
<1>6. ASSUME NEW c \in Clients, QueryTimeout(c)
      PROVE Holding'
  <2> DEFINE d == user[c]
  <2>1. /\ d # None /\ d \in Deliveries /\ pc[d] \in Ops \ {"ROLLBACK"}
        /\ owner[c] = home[d] /\ home' = home /\ user' = user /\ owner' = owner
        /\ active' = active
    BY <1>6, <1>b DEF QueryTimeout
  <2>2. /\ pc'[d] = "ROLLBACK" /\ queued'[c] = Statement("ROLLBACK", d)
        /\ \A e \in Deliveries \ {d} : pc'[e] = pc[e]
        /\ \A b \in Clients \ {c} : queued'[b] = queued[b]
    BY <1>6, <2>1 DEF QueryTimeout, TypeOK
  <2>3. active[c] # None /\ active[c] # Statement("ROLLBACK", d)
    <3>1. AwaitedStatement(c)
      BY <2>1 DEF Holding
    <3>2. pc[d] # "ROLLBACK" /\ None # Statement(pc[d], d)
      BY <2>1, StatementFacts
    <3> QED BY <3>1, <3>2 DEF AwaitedStatement, Statement
  <2>4. AwaitedStatement(c)'
    BY <2>1, <2>2, <2>3 DEF AwaitedStatement
  <2>5. "ROLLBACK" \in Ops
    BY DEF Ops
  <2> QED BY <1>a, <2>1, <2>2, <2>4, <2>5, HoldingFrame
<1>7. ASSUME NEW c \in Clients, RollbackTimeout(c) \/ ConnectionLost(c)
      PROVE Holding'
  <2>1. /\ user[c] # None /\ user'[c] = None /\ queued'[c] = None
        /\ home' = home /\ active' = active
        /\ \A e \in Deliveries \ {user[c]} : pc'[e] = pc[e]
        /\ \A b \in Clients \ {c} : /\ user'[b] = user[b] /\ owner'[b] = owner[b]
                                    /\ queued'[b] = queued[b]
    BY <1>7 DEF RollbackTimeout, ConnectionLost, TypeOK
  <2> QED BY <1>a, <2>1, HoldingFrame
<1>8. ASSUME NEW c \in Clients, SessionEnds(c) \/ IdleTimeout(c)
      PROVE Holding'
  <2>1. user[c] = None
    BY <1>8, <1>b DEF SessionEnds, IdleTimeout
  <2>2. /\ user' = user /\ queued' = queued /\ pc' = pc /\ home' = home
        /\ \A b \in Clients \ {c} : owner'[b] = owner[b] /\ active'[b] = active[b]
    BY <1>8 DEF SessionEnds, IdleTimeout, TypeOK
  <2>3. queued[c] = None
    BY <2>1 DEF Holding
  <2> QED BY <1>a, <2>1, <2>2, <2>3, HoldingFrame
<1>9. ASSUME NEW i \in Instances, Crash(i)
      PROVE Holding'
  <2>1. /\ home' = home /\ active' = active
        /\ \A c \in Clients :
             /\ owner'[c] = IF owner[c] = i THEN None ELSE owner[c]
             /\ user'[c] = IF owner[c] = i THEN None ELSE user[c]
             /\ queued'[c] = IF owner[c] = i THEN None ELSE queued[c]
        /\ \A d \in Deliveries : home[d] # i => pc'[d] = pc[d]
    BY <1>9 DEF Crash, TypeOK
  <2>2. \A c \in Clients : user'[c] # None =>
          /\ owner[c] # i /\ user[c] # None /\ user'[c] = user[c]
          /\ owner'[c] = owner[c] /\ queued'[c] = queued[c]
          /\ pc'[user[c]] = pc[user[c]]
    BY <1>b, <2>1
  <2>3. \A c \in Clients : user'[c] # None => AwaitedStatement(c)'
    BY <2>1, <2>2 DEF Holding, AwaitedStatement
  <2>4. \A c \in Clients : user'[c] = None => queued'[c] = None
    BY <2>1 DEF Holding
  <2> QED BY <1>b, <2>1, <2>2, <2>3, <2>4 DEF Holding
<1>10. CASE \/ \E c \in Clients : TakeSnapshot(c)
            \/ UNCHANGED vars
  <2>1. UNCHANGED clientVars /\ pc' = pc /\ home' = home
    BY <1>10 DEF TakeSnapshot, vars
  <2> QED BY <1>c, <2>1
<1> QED BY <1>1, <1>2, <1>3, <1>4, <1>5, <1>6, <1>7, <1>8, <1>9, <1>10 DEF Next

\* A client is given back only by a handler that stops awaiting statements.
LEMMA AwaitersFrame ==
  ASSUME AwaitersHold,
         \A d \in Deliveries :
           pc'[d] \in Ops => pc[d] \in Ops \/ \E c \in Clients : user'[c] = d,
         \A c \in Clients : user'[c] # user[c] => user[c] = None \/ pc'[user[c]] \notin Ops
  PROVE  AwaitersHold'
<1> SUFFICES ASSUME NEW d \in Deliveries, pc'[d] \in Ops
             PROVE  \E c \in Clients : user'[c] = d
  BY DEF AwaitersHold
<1>1. CASE pc[d] \in Ops
  <2>1. PICK c \in Clients : user[c] = d
    BY <1>1 DEF AwaitersHold
  <2>2. d # None
    BY StatementFacts
  <2> QED BY <2>1, <2>2
<1> QED BY <1>1

LEMMA AwaitersNext ==
  TypeOK /\ Holding /\ AwaitersHold /\ [Next]_vars => AwaitersHold'
<1> SUFFICES ASSUME TypeOK, Holding, AwaitersHold, [Next]_vars PROVE AwaitersHold'
  OBVIOUS
<1> USE DEF handlerVars, clientVars, sessionVars
<1>b. \A c \in Clients : user[c] # None =>
        user[c] \in Deliveries /\ pc[user[c]] \in Ops
  BY DEF Holding, TypeOK
<1>c. ASSUME NEW c \in Clients, NEW ok \in BOOLEAN, active[c] # None, Reply(c, ok)
      PROVE  AwaitersHold'
  <2>1. Live(c) => user[c] \in Deliveries /\ pc[user[c]] \in Ops
    BY <1>b DEF Live
  <2>2. \A d \in Deliveries : pc'[d] \in Ops => pc[d] \in Ops
    BY <1>c, <2>1 DEF Reply, TypeOK
  <2>3. \A b \in Clients :
          user'[b] # user[b] => pc'[user[b]] = "answered"
    BY <1>c, <2>1 DEF Reply, TypeOK
  <2>4. "answered" \notin Ops
    BY DEF Ops
  <2> QED BY <2>2, <2>3, <2>4, AwaitersFrame
<1>1. ASSUME NEW d \in Deliveries, NEW c \in Clients, CheckOut(d, c)
      PROVE  AwaitersHold'
  <2>1. user[c] = None
    <3>1. user[c] # None => owner[c] = home[user[c]] /\ AwaitedStatement(c) /\ user[c] \in Deliveries
      BY <1>b DEF Holding
    <3>2. user[c] # None => active[c] # None
      BY <1>b, <3>1, StatementFacts DEF AwaitedStatement
    <3> QED BY <1>1, <3>2 DEF CheckOut, Idle, Fresh
  <2>2. /\ user'[c] = d /\ \A b \in Clients \ {c} : user'[b] = user[b]
        /\ \A e \in Deliveries \ {d} : pc'[e] = pc[e]
    BY <1>1 DEF CheckOut, TypeOK
  <2> QED BY <2>1, <2>2, AwaitersFrame
<1>2. CASE \/ \E d \in Deliveries, w \in WebhookIds, i \in Instances : Deliver(d, w, i)
           \/ \E d \in Deliveries : NoClient(d)
           \/ \E c \in Clients : TakeSnapshot(c) \/ SessionEnds(c) \/ IdleTimeout(c)
           \/ UNCHANGED vars
  <2>1. user' = user
    BY <1>2 DEF Deliver, NoClient, TakeSnapshot, SessionEnds, IdleTimeout, vars
  <2>2. \A d \in Deliveries : pc'[d] \in Ops => pc[d] \in Ops
    BY <1>2 DEF Deliver, NoClient, TakeSnapshot, SessionEnds, IdleTimeout, vars, TypeOK, Ops
  <2> QED BY <2>1, <2>2, AwaitersFrame
<1>3. ASSUME NEW c \in Clients, QueryTimeout(c)
      PROVE  AwaitersHold'
  <2>1. user' = user /\ \A d \in Deliveries : pc'[d] \in Ops => pc[d] \in Ops
    BY <1>3, <1>b DEF QueryTimeout, TypeOK
  <2> QED BY <2>1, AwaitersFrame
<1>4. ASSUME NEW c \in Clients, RollbackTimeout(c) \/ ConnectionLost(c)
      PROVE  AwaitersHold'
  <2>1. /\ \A b \in Clients \ {c} : user'[b] = user[b]
        /\ user[c] \in Deliveries /\ pc' = [pc EXCEPT ![user[c]] = "answered"]
    BY <1>4, <1>b DEF RollbackTimeout, ConnectionLost, TypeOK
  <2>2. "answered" \notin Ops
    BY DEF Ops
  <2> QED BY <2>1, <2>2, AwaitersFrame DEF TypeOK
<1>5. ASSUME NEW i \in Instances, Crash(i)
      PROVE  AwaitersHold'
  <2>1. /\ \A d \in Deliveries :
             pc'[d] = IF home[d] = i /\ pc[d] # "answered" THEN "dead" ELSE pc[d]
        /\ \A c \in Clients : user'[c] = IF owner[c] = i THEN None ELSE user[c]
    BY <1>5 DEF Crash, TypeOK
  <2>2. \A d \in Deliveries : pc'[d] \in Ops => pc[d] \in Ops
    BY <2>1 DEF Ops
  <2>3. \A c \in Clients : user[c] # None =>
          owner[c] = home[user[c]] /\ pc[user[c]] # "answered"
    BY <1>b DEF Holding, Ops
  <2>4. \A c \in Clients : user'[c] # user[c] => pc'[user[c]] = "dead"
    BY <1>b, <2>1, <2>3
  <2>5. "dead" \notin Ops
    BY DEF Ops
  <2> QED BY <2>2, <2>4, <2>5, AwaitersFrame
<1>6. ASSUME NEW c \in Clients,
             \/ DbBegin(c) \/ DbInsert(c) \/ DbInsertFails(c)
             \/ DbCommit(c) \/ DbRollback(c)
      PROVE  AwaitersHold'
  BY <1>6, <1>c DEF DbBegin, DbInsert, DbInsertFails, DbCommit, DbRollback, Executes
<1> QED BY <1>1, <1>2, <1>3, <1>4, <1>5, <1>6 DEF Next

(* -------------------- transactions and the results -------------------- *)

LEMMA TransactionalInit ==
  Init => WaitersSentNothing /\ Transactional /\ ResultsAreAnswers /\ PositiveMeansStored
BY DEF Init, WaitersSentNothing, Transactional, Executes, ResultsAreAnswers,
       PositiveMeansStored

\* What an answer can put on the wire: INSERT after BEGIN, COMMIT after INSERT,
\* and otherwise the beginning or the end of a transaction.
LEMMA ReplySends ==
  ASSUME TypeOK, Holding, NEW c \in Clients, NEW ok \in BOOLEAN, active[c] # None,
         Reply(c, ok)
  PROVE  \/ active'[c] = None
         \/ active'[c].op \in {"BEGIN", "ROLLBACK"}
         \/ /\ ok /\ active[c].op = "BEGIN" /\ active'[c].op = "INSERT"
         \/ /\ ok /\ active[c].op = "INSERT" /\ active'[c].op = "COMMIT"
            /\ active'[c].by = active[c].by
<1> DEFINE d == user[c]  next == After(active[c].op, ok)
<1>1. active[c] \in Statements /\ active[c].op \in Ops
  BY StatementFacts DEF TypeOK
<1>2. CASE ~Live(c)
  <2>1. active'[c] = queued[c]
    BY <1>2 DEF Reply, TypeOK
  <2>2. ASSUME user[c] # None PROVE queued[c].op \in {"BEGIN", "ROLLBACK"}
    <3>1. queued[c] = Statement(pc[d], d) /\ pc[d] \in {"BEGIN", "ROLLBACK"}
      BY <1>2, <2>2, LiveFacts
    <3> HIDE DEF d
    <3>2. Statement(pc[d], d).op = pc[d]
      BY DEF Statement
    <3> QED BY <3>1, <3>2
  <2> QED BY <1>2, <2>1, <2>2, LiveFacts
<1>3. CASE Live(c) /\ next # "answered"
  <2>1. active'[c] = Statement(next, d) /\ d = active[c].by
    BY <1>3 DEF Reply, Live, TypeOK
  <2>2. active'[c].op = next /\ active'[c].by = active[c].by
    BY <2>1 DEF Statement
  <2>3. \/ next = "ROLLBACK"
        \/ ok /\ active[c].op = "BEGIN" /\ next = "INSERT"
        \/ ok /\ active[c].op = "INSERT" /\ next = "COMMIT"
    BY <1>1, <1>3 DEF After, AfterSuccess, Ops
  <2> QED BY <2>2, <2>3
<1>4. CASE Live(c) /\ next = "answered"
  BY <1>4 DEF Reply, TypeOK
<1> QED BY <1>2, <1>3, <1>4

\* A session whose statement, transaction and rows a step leaves alone stays
\* transactional: committed rows stay, and so does the id of the statement's
\* delivery.
LEMMA TransactionalFrame ==
  ASSUME TypeOK, OnlyArrived, Transactional, RowsKept, [Next]_vars, NEW b \in Clients,
         active'[b] = active[b], txn'[b] = txn[b], dirty'[b] = dirty[b]
  PROVE  /\ Executes(b, "INSERT")' \/ Executes(b, "COMMIT")' => txn'[b] = "open"
         /\ Executes(b, "COMMIT")' => Visible(b, id[active[b].by])'
<1>1. \A d \in Arrived : id'[d] = id[d] /\ id[d] \in WebhookIds
  BY ArrivedStable DEF Arrived
<1>2. ASSUME Executes(b, "COMMIT")'
      PROVE  Visible(b, id[active[b].by])'
  <2> DEFINE d == active[b].by
  <2>1. d \in Arrived /\ Visible(b, id[d]) /\ active[b] # None
    BY <1>2 DEF Executes, Transactional, OnlyArrived
  <2>2. dirty[b] \subseteq Arrived /\ id'[d] = id[d] /\ id[d] \in WebhookIds
    BY <1>1, <2>1 DEF OnlyArrived
  <2>3. row[id[d]] # None => row'[id[d]] # None
    BY <2>2 DEF RowsKept
  <2> QED BY <1>1, <2>1, <2>2, <2>3 DEF Visible
<1> QED BY <1>2 DEF Executes, Transactional

LEMMA TransactionalNext ==
  /\ TypeOK /\ OnlyArrived /\ Holding /\ Transactional /\ RowsKept /\ [Next]_vars
  => Transactional'
<1> SUFFICES ASSUME TypeOK, OnlyArrived, Holding, Transactional, RowsKept, [Next]_vars
             PROVE  Transactional'
  OBVIOUS
<1> USE DEF handlerVars, clientVars, sessionVars
<1>a. ASSUME NEW c \in Clients,
             \A b \in Clients \ {c} :
               active'[b] = active[b] /\ txn'[b] = txn[b] /\ dirty'[b] = dirty[b],
             Executes(c, "INSERT")' \/ Executes(c, "COMMIT")' => txn'[c] = "open",
             Executes(c, "COMMIT")' => Visible(c, id[active[c].by])'
      PROVE  Transactional'
  BY <1>a, TransactionalFrame DEF Transactional
<1>1. ASSUME NEW c \in Clients, DbBegin(c)
      PROVE  Transactional'
  <2>1. /\ active[c] # None /\ active[c].op = "BEGIN" /\ Reply(c, txn[c] # "failed")
        /\ (txn[c] # "failed") \in BOOLEAN
    BY <1>1 DEF DbBegin, Executes
  <2>2. /\ \A b \in Clients \ {c} : txn'[b] = txn[b] /\ dirty'[b] = dirty[b]
        /\ txn[c] # "failed" => txn'[c] = "open"
    BY <1>1 DEF DbBegin, TypeOK
  <2>3. \A b \in Clients \ {c} : active'[b] = active[b]
    BY <2>1, ReplyStatements
  <2>4. active'[c] # None =>
          \/ active'[c].op \in {"BEGIN", "ROLLBACK"}
          \/ txn'[c] = "open" /\ active'[c].op = "INSERT"
    BY <2>1, <2>2, ReplySends
  <2> QED BY <1>a, <2>2, <2>3, <2>4 DEF Executes
<1>2. ASSUME NEW c \in Clients, DbInsert(c)
      PROVE  Transactional'
  <2> DEFINE d == active[c].by
  <2>1. /\ active[c] # None /\ active[c].op = "INSERT" /\ Reply(c, TRUE)
        /\ txn' = txn /\ row' = row /\ id' = id /\ txn[c] = "open"
    BY <1>2 DEF DbInsert, Executes, Transactional
  <2>2. /\ \A b \in Clients \ {c} : dirty'[b] = dirty[b]
        /\ Visible(c, id[d]) \/ d \in dirty'[c]
        /\ dirty[c] \subseteq dirty'[c]
    BY <1>2 DEF DbInsert, TypeOK
  <2>3. \A b \in Clients \ {c} : active'[b] = active[b]
    BY <2>1, ReplyStatements
  <2>4. active'[c] # None =>
          \/ active'[c].op \in {"BEGIN", "ROLLBACK"}
          \/ active'[c].op = "COMMIT" /\ active'[c].by = d
    BY <2>1, ReplySends
  <2>5. Executes(c, "COMMIT")' => active'[c] # None /\ active'[c].by = d
    BY <2>4 DEF Executes
  <2>6. Executes(c, "COMMIT")' => Visible(c, id[active[c].by])'
    BY <2>1, <2>2, <2>5 DEF Visible
  <2> QED BY <1>a, <2>1, <2>2, <2>3, <2>6
<1>3. ASSUME NEW c \in Clients, DbInsertFails(c)
      PROVE  Transactional'
  <2>1. /\ active[c] # None /\ active[c].op = "INSERT" /\ Reply(c, FALSE)
        /\ dirty' = dirty /\ \A b \in Clients \ {c} : txn'[b] = txn[b]
    BY <1>3 DEF DbInsertFails, Executes, TypeOK
  <2>2. \A b \in Clients \ {c} : active'[b] = active[b]
    BY <2>1, ReplyStatements
  <2>3. active'[c] # None => active'[c].op \in {"BEGIN", "ROLLBACK"}
    BY <2>1, ReplySends
  <2> QED BY <1>a, <2>1, <2>2, <2>3 DEF Executes
<1>4. ASSUME NEW c \in Clients, DbCommit(c) \/ DbRollback(c)
      PROVE  Transactional'
  <2>1. /\ active[c] # None /\ active[c].op \in {"COMMIT", "ROLLBACK"} /\ Reply(c, TRUE)
        /\ \A b \in Clients \ {c} : txn'[b] = txn[b] /\ dirty'[b] = dirty[b]
    BY <1>4 DEF DbCommit, DbRollback, Executes, EndTransaction, TypeOK
  <2>2. \A b \in Clients \ {c} : active'[b] = active[b]
    BY <2>1, ReplyStatements
  <2>3. active'[c] # None => active'[c].op \in {"BEGIN", "ROLLBACK"}
    BY <2>1, ReplySends
  <2> QED BY <1>a, <2>1, <2>2, <2>3 DEF Executes
<1>5. ASSUME NEW c \in Clients, SessionEnds(c)
      PROVE  Transactional'
  <2>1. /\ active'[c] = None
        /\ \A b \in Clients \ {c} :
             active'[b] = active[b] /\ txn'[b] = txn[b] /\ dirty'[b] = dirty[b]
    BY <1>5 DEF SessionEnds, EndTransaction, TypeOK
  <2> QED BY <1>a, <2>1 DEF Executes
<1>6. ASSUME NEW d \in Deliveries, NEW c \in Clients, CheckOut(d, c)
      PROVE  Transactional'
  <2>1. /\ txn' = txn /\ dirty' = dirty
        /\ \A b \in Clients \ {c} : active'[b] = active[b]
        /\ active'[c] = active[c] \/ active'[c] = Statement("BEGIN", d)
    BY <1>6 DEF CheckOut, Send, TypeOK
  <2>2. Statement("BEGIN", d).op = "BEGIN"
    BY DEF Statement
  <2>3. CASE active'[c] = active[c]
    BY <2>1, <2>3, TransactionalFrame DEF Transactional
  <2>4. CASE active'[c] = Statement("BEGIN", d)
    BY <1>a, <2>1, <2>2, <2>4 DEF Executes
  <2> QED BY <2>1, <2>3, <2>4
<1>7. CASE \/ \E d \in Deliveries, w \in WebhookIds, i \in Instances : Deliver(d, w, i)
           \/ \E d \in Deliveries : NoClient(d)
           \/ \E c \in Clients : TakeSnapshot(c) \/ IdleTimeout(c)
           \/ \E c \in Clients : QueryTimeout(c) \/ RollbackTimeout(c) \/ ConnectionLost(c)
           \/ \E i \in Instances : Crash(i)
           \/ UNCHANGED vars
  <2>1. active' = active /\ txn' = txn /\ dirty' = dirty
    BY <1>7 DEF Deliver, NoClient, TakeSnapshot, IdleTimeout, QueryTimeout,
                RollbackTimeout, ConnectionLost, Crash, vars
  <2> QED BY <2>1, TransactionalFrame DEF Transactional
<1> QED BY <1>1, <1>2, <1>3, <1>4, <1>5, <1>6, <1>7 DEF Next

\* Answered is for good: no late reply, timeout or lost connection is about a
\* delivery that was answered.
LEMMA AnsweredStable ==
  ASSUME TypeOK, Holding, [Next]_vars, NEW d \in Deliveries, pc[d] = "answered"
  PROVE  pc'[d] = "answered" /\ result'[d] = result[d]
<1> USE DEF handlerVars, clientVars, sessionVars
<1>a. \A c \in Clients : user[c] # d
  BY StatementFacts DEF Holding, Ops
<1>b. ASSUME NEW c \in Clients, NEW ok \in BOOLEAN, Reply(c, ok)
      PROVE  pc'[d] = "answered" /\ result'[d] = result[d]
  BY <1>a, <1>b DEF Reply, TypeOK
<1>1. CASE \/ \E e \in Deliveries, w \in WebhookIds, i \in Instances : Deliver(e, w, i)
           \/ \E e \in Deliveries : NoClient(e)
           \/ \E e \in Deliveries, c \in Clients : CheckOut(e, c)
           \/ \E i \in Instances : Crash(i)
  <2>1. ASSUME NEW e \in Deliveries,
               \/ \E w \in WebhookIds, i \in Instances : Deliver(e, w, i)
               \/ NoClient(e) \/ \E c \in Clients : CheckOut(e, c)
        PROVE  pc'[d] = pc[d] /\ result'[d] = result[d]
    <3>1. e # d
      BY <2>1 DEF Deliver, NoClient, CheckOut
    <3> QED BY <2>1, <3>1 DEF Deliver, NoClient, CheckOut, TypeOK
  <2>2. ASSUME NEW i \in Instances, Crash(i)
        PROVE  pc'[d] = pc[d] /\ result'[d] = result[d]
    BY <2>2 DEF Crash, TypeOK
  <2> QED BY <1>1, <2>1, <2>2
<1>2. CASE \/ \E c \in Clients : TakeSnapshot(c) \/ SessionEnds(c) \/ IdleTimeout(c)
           \/ UNCHANGED vars
  BY <1>2 DEF TakeSnapshot, SessionEnds, IdleTimeout, vars
<1>3. ASSUME NEW c \in Clients,
             QueryTimeout(c) \/ RollbackTimeout(c) \/ ConnectionLost(c)
      PROVE  pc'[d] = "answered" /\ result'[d] = result[d]
  BY <1>3, <1>a DEF QueryTimeout, RollbackTimeout, ConnectionLost, TypeOK
<1>4. ASSUME NEW c \in Clients,
             \/ DbBegin(c) \/ DbInsert(c) \/ DbInsertFails(c)
             \/ DbCommit(c) \/ DbRollback(c)
      PROVE  pc'[d] = "answered" /\ result'[d] = result[d]
  <2>1. \E ok \in BOOLEAN : Reply(c, ok)
    BY <1>4 DEF DbBegin, DbInsert, DbInsertFails, DbCommit, DbRollback
  <2> QED BY <1>b, <2>1
<1> QED BY <1>1, <1>2, <1>3, <1>4 DEF Next

\* A step that gives a delivery a result answers it, and answers it positively
\* only when the server executed the COMMIT that the delivery awaited.
LEMMA ResultsFromCommit ==
  ASSUME TypeOK, Holding, [Next]_vars, NEW d \in Deliveries, result'[d] # result[d]
  PROVE  /\ pc'[d] = "answered"
         /\ \/ result'[d] = "failed"
            \/ \E c \in Clients : DbCommit(c) /\ active[c].by = d
<1> USE DEF handlerVars, clientVars, sessionVars
<1> DEFINE Good == /\ pc'[d] = "answered"
                   /\ \/ result'[d] = "failed"
                      \/ \E c \in Clients : DbCommit(c) /\ active[c].by = d
<1>1. ASSUME NEW c \in Clients, NEW ok \in BOOLEAN, active[c] # None, Reply(c, ok),
             active[c].op = "COMMIT" => DbCommit(c)
      PROVE  Good
  <2> DEFINE op == active[c].op
  <2>1. op \in Ops
    BY <1>1, StatementFacts DEF TypeOK
  <2>2. /\ Live(c) /\ After(op, ok) = "answered" /\ user[c] = d
        /\ pc'[d] = "answered" /\ result'[d] = Outcome(op, created[d])
    BY <1>1 DEF Reply, TypeOK
  <2>3. op \in {"COMMIT", "ROLLBACK"}
    BY <2>1, <2>2, AfterFacts
  <2>4. CASE op = "ROLLBACK"
    BY <2>2, <2>4 DEF Outcome
  <2>5. CASE op = "COMMIT"
    BY <1>1, <2>2, <2>5 DEF Live
  <2> QED BY <2>3, <2>4, <2>5
<1>2. CASE \/ \E e \in Deliveries, w \in WebhookIds, i \in Instances : Deliver(e, w, i)
           \/ \E e \in Deliveries : NoClient(e)
           \/ \E c \in Clients : RollbackTimeout(c) \/ ConnectionLost(c)
  BY <1>2 DEF Deliver, NoClient, RollbackTimeout, ConnectionLost, TypeOK
<1>3. CASE \/ \E e \in Deliveries, c \in Clients : CheckOut(e, c)
           \/ \E c \in Clients : \/ TakeSnapshot(c) \/ SessionEnds(c)
                                 \/ IdleTimeout(c) \/ QueryTimeout(c)
           \/ \E i \in Instances : Crash(i)
           \/ UNCHANGED vars
  BY <1>3 DEF CheckOut, TakeSnapshot, SessionEnds, IdleTimeout, QueryTimeout, Crash, vars
<1>4. ASSUME NEW c \in Clients,
             DbBegin(c) \/ DbInsert(c) \/ DbInsertFails(c) \/ DbRollback(c)
      PROVE  Good
  <2>1. active[c] # None /\ active[c].op # "COMMIT"
    BY <1>4 DEF DbBegin, DbInsert, DbInsertFails, DbRollback, Executes
  <2>2. \E ok \in BOOLEAN : Reply(c, ok)
    BY <1>4 DEF DbBegin, DbInsert, DbInsertFails, DbRollback
  <2> QED BY <1>1, <2>1, <2>2
<1>5. ASSUME NEW c \in Clients, DbCommit(c)
      PROVE  Good
  <2>1. active[c] # None /\ Reply(c, TRUE)
    BY <1>5 DEF DbCommit, Executes
  <2> QED BY <1>1, <1>5, <2>1
<1> QED BY <1>2, <1>3, <1>4, <1>5 DEF Next

LEMMA ResultsNext ==
  TypeOK /\ Holding /\ ResultsAreAnswers /\ [Next]_vars => ResultsAreAnswers'
BY AnsweredStable, ResultsFromCommit DEF ResultsAreAnswers

\* A positive result is given when the COMMIT is executed: the row is in the
\* table by then, inserted by this delivery or seen there before.
LEMMA PositiveNext ==
  /\ TypeOK /\ OnlyArrived /\ Holding /\ Transactional /\ ResultsAreAnswers
  /\ PositiveMeansStored /\ RowsKept /\ [Next]_vars
  => PositiveMeansStored'
<1> SUFFICES ASSUME TypeOK, OnlyArrived, Holding, Transactional, ResultsAreAnswers,
                    PositiveMeansStored, RowsKept, [Next]_vars,
                    NEW d \in Deliveries, result'[d] \in {"success", "duplicate"}
             PROVE  row'[id'[d]] # None
  BY DEF PositiveMeansStored
<1>1. CASE result'[d] = result[d]
  <2>1. pc[d] = "answered" /\ row[id[d]] # None
    BY <1>1 DEF ResultsAreAnswers, PositiveMeansStored
  <2>2. d \in Arrived
    BY <2>1 DEF OnlyArrived
  <2>3. id'[d] = id[d] /\ id[d] \in WebhookIds
    BY <2>2, ArrivedStable DEF Arrived
  <2> QED BY <2>1, <2>3 DEF RowsKept
<1>2. CASE result'[d] # result[d]
  <2>1. PICK c \in Clients : DbCommit(c) /\ active[c].by = d
    BY <1>2, ResultsFromCommit
  <2>2. Executes(c, "COMMIT") /\ row' = Committed(c) /\ id' = id
    BY <2>1 DEF DbCommit
  <2>3. txn[c] = "open" /\ Visible(c, id[d]) /\ d \in Arrived
    BY <2>1, <2>2 DEF Transactional, OnlyArrived, Executes
  <2>4. id[d] \in WebhookIds
    BY <2>3 DEF Arrived
  <2>5. CASE \E e \in dirty[c] : id[e] = id[d]
    <3>1. row'[id[d]] = CHOOSE e \in dirty[c] : id[e] = id[d]
      BY <2>2, <2>3, <2>4, <2>5 DEF Committed
    <3> DEFINE f == CHOOSE e \in dirty[c] : id[e] = id[d]
    <3>2. f \in dirty[c]
      BY <2>5
    <3>3. row'[id[d]] = f
      BY <3>1
    <3> HIDE DEF f
    <3>4. f \in Deliveries /\ f # None
      BY <3>2, StatementFacts DEF TypeOK
    <3> QED BY <2>2, <3>3, <3>4
  <2>6. CASE row[id[d]] # None
    BY <2>2, <2>4, <2>6 DEF RowsKept
  <2> QED BY <2>3, <2>5, <2>6 DEF Visible
<1> QED BY <1>1, <1>2

(* ----------------------------- the theorems -------------------------- *)

\* The inductive invariant of WebhookIngest.
THEOREM Inductive == Spec => [](TypeOK /\ IngestInv)
<1> DEFINE Inv == TypeOK /\ IngestInv
<1>1. Init => Inv
  BY TypeInit, ArrivedInit, HoldingInit, UniqueInit, TransactionalInit DEF IngestInv
<1>2. Inv /\ [Next]_vars => Inv'
  BY TypeNext, ArrivedNext, SilentNext, HoldingNext, AwaitersNext, UniqueNext,
     TransactionalNext, ResultsNext, PositiveNext DEF IngestInv
<1> HIDE DEF Inv
<1> QED BY <1>1, <1>2, PTL DEF Spec, Inv

\* A delivery told success or duplicate is about a stored webhook, for every
\* interleaving of any number of deliveries, instances, timeouts, lost
\* connections and crashes.
THEOREM PositiveStored == Spec => []PositiveMeansStored
<1>1. IngestInv => PositiveMeansStored
  BY DEF IngestInv
<1> QED BY <1>1, Inductive, PTL

\* No BACS sender sees a 2xx for a webhook that is not stored: with the body
\* settled by PositiveMeansStored, 500 is the status of every other result.
THEOREM BacsAckStored == Spec => []BacsAckMeansStored
<1>1. TypeOK /\ IngestInv => BacsAckMeansStored
  <2> SUFFICES ASSUME TypeOK, IngestInv, NEW d \in Deliveries, id[d] \in BacsIds, Acked(d)
               PROVE  row[id[d]] # None
    BY DEF BacsAckMeansStored
  <2>1. id[d] \notin GovPayIds
    BY DistinctIds
  <2>2. result[d] \in {"success", "duplicate"}
    BY <2>1, DistinctIds DEF Acked, Status, BacsStatus, GovPayStatus
  <2> QED BY <2>2 DEF IngestInv, PositiveMeansStored
<1> QED BY <1>1, Inductive, PTL

\* A client is checked out exactly by the one handler that awaits a statement
\* on it, whatever times out or breaks.
THEOREM NoLeak == Spec => []NoClientLeak
<1>1. IngestInv => NoClientLeak
  BY DEF IngestInv, Holding, AwaitersHold, NoClientLeak
<1> QED BY <1>1, Inductive, PTL

\* Every INSERT meets an open transaction of its session, even on clients that
\* were given back to the pool with a statement on the wire.
THEOREM InsertsTransactional == Spec => []InsertsAreTransactional
<1>1. IngestInv => InsertsAreTransactional
  BY DEF IngestInv, Transactional, InsertsAreTransactional
<1> QED BY <1>1, Inductive, PTL
========================================================================
