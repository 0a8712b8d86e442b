------------------------- MODULE DbPoolManager -------------------------
(* The credential rotation of DatabasePoolManager, with the calls that go    *)
(* through its wrapped pools and the shutdown that closes the last pool.     *)
(*                                                                           *)
(* A call is one getClient() of a webhook, or one query() of a health check. *)
(* The connect and the query of a wrapped pool are nests of closures, one    *)
(* for every getPool() that returned the pool; each may refresh the          *)
(* credentials and try again, through the wrappers of what is then the       *)
(* current pool.  A query connects with a callback, which takes the error    *)
(* past the wrappers of connect, to those of query: the two nests have one   *)
(* shape.  stack[c] is that nest: a frame for every connect the call is      *)
(* inside of, with the wrappers the error has yet to reach.                  *)
(*                                                                           *)
(* Below the wrappers is pg's Pool: at most PoolMax clients, a queue for the *)
(* calls that find no room, and an end() that waits for the clients and for  *)
(* nothing else, a call in the queue least of all.                           *)
(*                                                                           *)
(* A step is what the process does between two awaits.                       *)
EXTENDS Naturals, Sequences, FiniteSets

CONSTANTS
  Callers,       \* requests that use the database, health checks too, one call each
  PoolError,     \* the pool's 'error' event handler, the other refresher
  HasSecretArn,  \* whether Secrets Manager is configured
  PoolMax,       \* DB_POOL_MAX, the clients a pool may have
  MaxPools,      \* bound: Pool objects the process creates
  MaxRotations,  \* bound: changes of the database password
  MaxDepth,      \* bound: retries inside retries before a rotation is published
  None

Tasks == Callers \cup {PoolError}

Pools == 1..MaxPools

Versions == 0..MaxRotations

ASSUME HasSecretArnIsBoolean == HasSecretArn \in BOOLEAN

ASSUME BoundsAreNumbers ==
  MaxPools \in Nat /\ MaxRotations \in Nat /\ IsFiniteSet(Callers)

ASSUME PoolsHaveRoom == PoolMax \in Nat \ {0}

ASSUME NoneIsNeither == None \notin Pools \cup Versions

ASSUME PoolErrorIsNoCaller == PoolError \notin Callers

VARIABLES
  accepted,            \* the password the database accepts
  published,           \* the password in Secrets Manager
  cachedSecret,        \* what getDbSecretConfig keeps, or DB_CREDENTIALS injected
  currentPool, currentCredentials, isRefreshing,    \* DatabasePoolManager
  poolState,           \* of each Pool: unborn, open, ending, ended
  password,            \* the credentials it was created with
  wraps,               \* how many times its connect was wrapped
  idle,                \* how many idle clients it has
  strays,              \* clients it still connects for calls that timed out
  pc,                  \* what each task awaits
  stack,               \* the connects each call is inside of, innermost last
  held,                \* the pool of the client a call checked out
  ending,              \* whose end() a task awaits, to replace it
  fetched,             \* newCredentials
  connections,         \* the requests whose socket is open, which the server waits for
  phase,               \* gracefulShutdown: not begun, or begun
  closing,             \* the pools whose end() a closePool awaits
  exitCode

dbVars == <<accepted, published>>
managerVars == <<currentPool, currentCredentials, isRefreshing>>
poolVars == <<poolState, password, wraps, idle, strays>>
taskVars == <<pc, stack, held, ending, fetched>>
exitVars == <<connections, phase, closing, exitCode>>
vars == <<dbVars, cachedSecret, managerVars, poolVars, taskVars, exitVars>>

Frame == [pool : Pools, wrappers : 0..Cardinality(Callers)]

Settled == {"done", "failed"}

Refreshing == {"fetching", "ending"}

\* pg connects a client for the call: at once, or after a time in the queue.
Connecting == {"connecting", "promoted"}

TypeOK ==
  /\ accepted \in Versions /\ published \in Versions
  /\ cachedSecret \in Versions \cup {None}
  /\ currentPool \in Pools \cup {None}
  /\ currentCredentials \in Versions \cup {None}
  /\ isRefreshing \in BOOLEAN
  /\ poolState \in [Pools -> {"unborn", "open", "ending", "ended"}]
  /\ password \in [Pools -> Versions \cup {None}]
  /\ wraps \in [Pools -> 0..Cardinality(Callers)]
  /\ idle \in [Pools -> Nat] /\ strays \in [Pools -> Nat]
  /\ pc \in [Tasks -> {"idle", "loading", "initialized", "gotPool", "queued", "rejected",
                       "refreshed", "using"} \cup Connecting \cup Refreshing \cup Settled]
  /\ stack \in [Tasks -> Seq(Frame)]
  /\ held \in [Tasks -> Pools \cup {None}]
  /\ ending \in [Tasks -> Pools \cup {None}]
  /\ fetched \in [Tasks -> Versions \cup {None}]
  /\ connections \subseteq Callers
  /\ phase \in {"running", "draining"}
  /\ closing \subseteq Pools
  /\ exitCode \in {None, 0, 1}

Init ==
  /\ accepted = 0 /\ published = 0
  /\ cachedSecret \in {None, 0}
  /\ currentPool = None /\ currentCredentials = None /\ isRefreshing = FALSE
  /\ poolState = [p \in Pools |-> "unborn"]
  /\ password = [p \in Pools |-> None]
  /\ wraps = [p \in Pools |-> 0]
  /\ idle = [p \in Pools |-> 0] /\ strays = [p \in Pools |-> 0]
  /\ pc = [t \in Tasks |-> "idle"]
  /\ stack = [t \in Tasks |-> <<>>]
  /\ held = [t \in Tasks |-> None]
  /\ ending = [t \in Tasks |-> None]
  /\ fetched = [t \in Tasks |-> None]
  /\ connections = Callers /\ phase = "running" /\ closing = {} /\ exitCode = None

Goto(t, place) == pc' = [pc EXCEPT ![t] = place]

Running == exitCode = None

(* ------------------------ rotation of the password -------------------- *)

\* The rotation changes the password in the database before it publishes it.
Rotate ==
  /\ accepted = published /\ accepted < MaxRotations
  /\ accepted' = accepted + 1
  /\ UNCHANGED <<published, cachedSecret, managerVars, poolVars, taskVars, exitVars>>

Publish ==
  /\ published # accepted
  /\ published' = accepted
  /\ UNCHANGED <<accepted, cachedSecret, managerVars, poolVars, taskVars, exitVars>>

(* ------------------------------- getPool ------------------------------ *)

\* new Pool(createPoolConfig(credentials)), the manager's from now on.
NewPool(v) ==
  \E p \in Pools :
    /\ poolState[p] = "unborn" /\ \A q \in Pools : q < p => poolState[q] # "unborn"
    /\ poolState' = [poolState EXCEPT ![p] = "open"]
    /\ password' = [password EXCEPT ![p] = v]
    /\ currentPool' = p
    /\ currentCredentials' = v
    /\ UNCHANGED <<wraps, idle, strays>>

\* Mutant: getClient wraps the pool once more.
WrapTwice(c) ==
  /\ wraps' = [wraps EXCEPT ![currentPool] = @ + 2]
  /\ stack' = [stack EXCEPT ![c] = <<[pool |-> currentPool, wrappers |-> 0]>>]
  /\ Goto(c, "gotPool")
  /\ UNCHANGED <<poolState, password, idle, strays>>

\* wrapPoolWithAutoRefresh replaces connect on the Pool object itself.
Wrap(c) ==
  /\ wraps' = [wraps EXCEPT ![currentPool] = @ + 1]
  /\ stack' = [stack EXCEPT ![c] = <<[pool |-> currentPool, wrappers |-> 0]>>]
  /\ Goto(c, "gotPool")
  /\ UNCHANGED <<poolState, password, idle, strays>>

\* A request that was read before the server stopped to listen, or that comes on
\* a connection it still has, gets its pool at any moment, during the shutdown
\* too, and even when its client has hung up since.
GetPool(c) ==
  /\ pc[c] = "idle"
  /\ \/ currentPool # None /\ Wrap(c)
     \/ currentPool = None /\ Goto(c, "loading") /\ UNCHANGED <<poolVars, stack>>
  /\ UNCHANGED <<dbVars, cachedSecret, managerVars, held, ending, fetched, exitVars>>

\* getDbSecretConfig returns the cached secret while its TTL lasts, and fetches
\* it again afterwards.
InitializePool(c) ==
  /\ pc[c] = "loading"
  /\ \/ cachedSecret # None /\ NewPool(cachedSecret) /\ UNCHANGED cachedSecret
     \/ NewPool(published) /\ cachedSecret' = published
  /\ Goto(c, "initialized")
  /\ UNCHANGED <<dbVars, isRefreshing, stack, held, ending, fetched, exitVars>>

InitializeFails(c) ==
  /\ pc[c] = "loading"
  /\ Goto(c, "failed")
  /\ UNCHANGED <<dbVars, cachedSecret, managerVars, poolVars, stack, held, ending,
                 fetched, exitVars>>

\* The rest of getPool, which wraps what is the current pool by then.  There is
\* one: nothing but the end of closePool leaves the manager without a pool.
Initialized(c) ==
  /\ pc[c] = "initialized"
  /\ Wrap(c)
  /\ UNCHANGED <<dbVars, cachedSecret, managerVars, held, ending, fetched, exitVars>>

(* --------------------- connect through the wrappers ------------------- *)

\* The innermost connect of a call rejected.  An error that is none of
\* authentication passes every wrapper of that connect; the wrapper that
\* retried, if one did, throws its own error on to the next.
DropFrame(c) ==
  LET outer == SubSeq(stack[c], 1, Len(stack[c]) - 1) IN
  /\ stack' = [stack EXCEPT ![c] = outer]
  /\ Goto(c, IF outer = <<>> THEN "failed" ELSE "rejected")

TopPool(c) == stack[c][Len(stack[c])].pool

\* Calls that have a client of the pool, or that one is being connected for.
\* Those and the idle clients are all that pg knows of; a call in the queue is
\* no user yet.
Users(p) ==
  {c \in Callers : held[c] = p \/ (pc[c] \in Connecting /\ TopPool(c) = p)}

Full(p) == Cardinality(Users(p)) + idle[p] + strays[p] >= PoolMax

\* pool.connect() makes a connection when there is room and none is idle, and
\* otherwise queues the call.
Requested(p) == IF Full(p) \/ idle[p] > 0 THEN "queued" ELSE "connecting"

\* connect(), or query(), through all the wrappers the pool has by now.  A pool
\* whose end() was called rejects at once.
Connect(c) ==
  LET top == Len(stack[c])
      pool == TopPool(c)
  IN
  /\ pc[c] = "gotPool"
  /\ \/ /\ poolState[pool] = "open"
        /\ stack' = [stack EXCEPT ![c][top].wrappers = wraps[pool]]
        /\ Goto(c, Requested(pool))
     \/ poolState[pool] # "open" /\ DropFrame(c)
  /\ UNCHANGED <<dbVars, cachedSecret, managerVars, poolVars, held, ending, fetched,
                 exitVars>>

Acquire(c) ==
  /\ held' = [held EXCEPT ![c] = TopPool(c)]
  /\ stack' = [stack EXCEPT ![c] = <<>>]
  /\ Goto(c, "using")

\* _pulseQueue gives a queued call an idle client, which outlives a change of the
\* password, or the room for one; an ending pool serves its queue no more.  Any
\* queued call may be the next, and the others may run first: pg is quicker, and
\* serves them in their order.
Serve(c) ==
  LET p == TopPool(c) IN
  /\ pc[c] = "queued" /\ poolState[p] = "open"
  /\ \/ /\ idle[p] > 0
        /\ idle' = [idle EXCEPT ![p] = @ - 1]
        /\ Acquire(c)
     \/ /\ idle[p] = 0 /\ ~Full(p)
        /\ Goto(c, "promoted")
        /\ UNCHANGED <<idle, held, stack>>
  /\ UNCHANGED <<dbVars, cachedSecret, managerVars, poolState, password, wraps, strays,
                 ending, fetched, exitVars>>

\* A new connection needs the password of the day, in an ending pool too.
Connected(c) ==
  /\ pc[c] \in Connecting /\ password[TopPool(c)] = accepted
  /\ Acquire(c)
  /\ UNCHANGED <<dbVars, cachedSecret, managerVars, poolVars, ending, fetched, exitVars>>

\* PostgreSQL answers 28P01.
AuthenticationFails(c) ==
  /\ pc[c] \in Connecting /\ password[TopPool(c)] # accepted
  /\ Goto(c, "rejected")
  /\ UNCHANGED <<dbVars, cachedSecret, managerVars, poolVars, stack, held, ending,
                 fetched, exitVars>>

\* connectionTimeoutMillis, in the queue or of the connection, or any other error.
ConnectFails(c) ==
  /\ pc[c] \in {"queued"} \cup Connecting
  /\ DropFrame(c)
  /\ UNCHANGED <<dbVars, cachedSecret, managerVars, poolVars, held, ending, fetched,
                 exitVars>>

\* The time a call had in the queue is over while it is being connected: the
\* call fails, and the pool goes on to make the connection.
ConnectTooLate(c) ==
  /\ pc[c] = "promoted"
  /\ strays' = [strays EXCEPT ![TopPool(c)] = @ + 1]
  /\ DropFrame(c)
  /\ UNCHANGED <<dbVars, cachedSecret, managerVars, poolState, password, wraps, idle, held,
                 ending, fetched, exitVars>>

MayRefresh == HasSecretArn /\ ~isRefreshing

\* The authentication error reaches the next wrapper of the innermost connect,
\* which begins a refresh unless one is in progress; then it rejects in turn.
Catch(c) ==
  LET top == Len(stack[c]) IN
  /\ pc[c] = "rejected"
  /\ \/ /\ stack[c][top].wrappers = 0
        /\ DropFrame(c)
        /\ UNCHANGED isRefreshing
     \/ /\ stack[c][top].wrappers > 0
        /\ stack' = [stack EXCEPT ![c][top].wrappers = @ - 1]
        /\ \/ /\ MayRefresh
              /\ Goto(c, "fetching")
              /\ isRefreshing' = TRUE
           \/ ~MayRefresh /\ UNCHANGED <<pc, isRefreshing>>
  /\ UNCHANGED <<dbVars, cachedSecret, currentPool, currentCredentials, poolVars, held,
                 ending, fetched, exitVars>>

(* -------------------------- refreshCredentials ------------------------ *)

\* Mutant: the flag is not looked at.
OnPoolErrorAlways ==
  /\ pc[PoolError] = "idle" /\ HasSecretArn
  /\ \E p \in Pools : poolState[p] # "unborn" /\ password[p] # accepted
  /\ isRefreshing' = TRUE
  /\ Goto(PoolError, "fetching")
  /\ UNCHANGED <<dbVars, cachedSecret, currentPool, currentCredentials, poolVars, stack,
                 held, ending, fetched, exitVars>>

\* The pool emits 'error' with an authentication failure.
OnPoolError ==
  /\ pc[PoolError] = "idle" /\ HasSecretArn /\ ~isRefreshing
  /\ \E p \in Pools : poolState[p] # "unborn" /\ password[p] # accepted
  /\ isRefreshing' = TRUE
  /\ Goto(PoolError, "fetching")
  /\ UNCHANGED <<dbVars, cachedSecret, currentPool, currentCredentials, poolVars, stack,
                 held, ending, fetched, exitVars>>

\* Mutant: isRefreshing is reset only when the refresh succeeds.
ThrowsStillRefreshing(t) ==
  /\ UNCHANGED isRefreshing
  /\ Goto(t, IF t = PoolError THEN "idle" ELSE "rejected")

\* Mutant: refreshCredentials logs the error and returns.
ThrowsNothing(t) ==
  /\ isRefreshing' = FALSE
  /\ Goto(t, IF t = PoolError THEN "idle" ELSE "refreshed")

\* refreshCredentials throws: the wrapper goes on with its own error.
Throws(t) ==
  /\ isRefreshing' = FALSE
  /\ Goto(t, IF t = PoolError THEN "idle" ELSE "rejected")

\* refreshCredentials returns: the wrapper retries.
Returns(t) ==
  /\ isRefreshing' = FALSE
  /\ Goto(t, IF t = PoolError THEN "idle" ELSE "refreshed")

FetchFails(t) ==
  /\ pc[t] = "fetching"
  /\ Throws(t)
  /\ UNCHANGED <<dbVars, cachedSecret, currentPool, currentCredentials, poolVars, stack,
                 held, ending, fetched, exitVars>>

\* Mutant: the new credentials are recorded before the old pool was closed.
EndOldPoolRecordsFirst(t) ==
  /\ poolState[currentPool] = "open"
  /\ poolState' = [poolState EXCEPT ![currentPool] = "ending"]
  /\ ending' = [ending EXCEPT ![t] = currentPool]
  /\ fetched' = [fetched EXCEPT ![t] = published]
  /\ Goto(t, "ending")
  /\ currentCredentials' = published
  /\ idle' = [idle EXCEPT ![currentPool] = 0]
  /\ UNCHANGED <<currentPool, isRefreshing, password, wraps, strays>>

\* Mutant: the old pool is left alone with its idle timeouts.
EndOldPoolNever(t) ==
  /\ NewPool(published) /\ Returns(t)
  /\ UNCHANGED <<ending, fetched>>

\* recreatePool calls end() on the pool, which drops its idle clients and stays
\* the current one meanwhile.
EndOldPool(t) ==
  /\ poolState[currentPool] = "open"
  /\ poolState' = [poolState EXCEPT ![currentPool] = "ending"]
  /\ ending' = [ending EXCEPT ![t] = currentPool]
  /\ fetched' = [fetched EXCEPT ![t] = published]
  /\ Goto(t, "ending")
  /\ idle' = [idle EXCEPT ![currentPool] = 0]
  /\ UNCHANGED <<managerVars, password, wraps, strays>>

\* Secrets Manager answered.  Unchanged credentials end the refresh; changed
\* ones replace the pool, unless its end() was called already and rejects.
\* Bound: a rotation is published before a call is MaxDepth retries deep.
Fetch(t) ==
  /\ pc[t] = "fetching"
  /\ Len(stack[t]) < MaxDepth \/ published = accepted
  /\ \/ /\ currentCredentials = published
        /\ Returns(t)
        /\ UNCHANGED <<currentPool, currentCredentials, poolVars, ending, fetched>>
     \/ /\ currentCredentials # published
        /\ EndOldPool(t)
     \/ /\ currentCredentials # published
        /\ poolState[currentPool] # "open"
        /\ Throws(t)
        /\ UNCHANGED <<currentPool, currentCredentials, poolVars, ending, fetched>>
  /\ UNCHANGED <<dbVars, cachedSecret, stack, held, exitVars>>

\* Mutant: end() is not awaited.
RecreatePoolAtOnce(t) ==
  /\ pc[t] = "ending"
  /\ NewPool(fetched[t]) /\ Returns(t)
  /\ ending' = [ending EXCEPT ![t] = None]
  /\ fetched' = [fetched EXCEPT ![t] = None]
  /\ UNCHANGED <<dbVars, cachedSecret, stack, held, exitVars>>

\* end() resolved: the rest of recreatePool.  createPoolConfig never throws, for
\* dbConfig has a default host and a default database.
RecreatePool(t) ==
  /\ pc[t] = "ending" /\ poolState[ending[t]] = "ended"
  /\ NewPool(fetched[t]) /\ Returns(t)
  /\ ending' = [ending EXCEPT ![t] = None]
  /\ fetched' = [fetched EXCEPT ![t] = None]
  /\ UNCHANGED <<dbVars, cachedSecret, stack, held, exitVars>>

\* "Retry once": connect() of the current pool, wrapped like any other.
\* Bound: two frames more than Fetch allows, which no call of the runs exceeds.
Retry(c) ==
  /\ pc[c] = "refreshed" /\ Len(stack[c]) < MaxDepth + 2
  /\ \/ /\ poolState[currentPool] = "open"
        /\ stack' = [stack EXCEPT ![c] =
                       Append(@, [pool |-> currentPool, wrappers |-> wraps[currentPool]])]
        /\ Goto(c, Requested(currentPool))
     \/ /\ poolState[currentPool] # "open"
        /\ Goto(c, "rejected")
        /\ UNCHANGED stack
  /\ UNCHANGED <<dbVars, cachedSecret, managerVars, poolVars, held, ending, fetched,
                 exitVars>>

(* ----------------------------- the pg Pool ---------------------------- *)

\* A client comes back to the idle ones, unless it is broken or the pool ends.
ReturnClient(p) ==
  \/ poolState[p] = "open" /\ idle' = [idle EXCEPT ![p] = @ + 1]
  \/ UNCHANGED idle

\* Mutant: a handler is given up when its client hangs up, without its finally.
ReleaseUnlessHungUp(c) ==
  /\ pc[c] = "using" /\ c \in connections
  /\ ReturnClient(held[c])
  /\ held' = [held EXCEPT ![c] = None]
  /\ Goto(c, "done")
  /\ UNCHANGED <<dbVars, cachedSecret, managerVars, poolState, password, wraps, strays, stack,
                 ending, fetched, exitVars>>

\* The transaction or SELECT 1 is over, well or not.
Release(c) ==
  /\ pc[c] = "using"
  /\ ReturnClient(held[c])
  /\ held' = [held EXCEPT ![c] = None]
  /\ Goto(c, "done")
  /\ UNCHANGED <<dbVars, cachedSecret, managerVars, poolState, password, wraps, strays, stack,
                 ending, fetched, exitVars>>

\* The connection for a call that is gone is made, or not.
StrayEnds(p) ==
  /\ strays[p] > 0
  /\ strays' = [strays EXCEPT ![p] = @ - 1]
  /\ \/ password[p] = accepted /\ ReturnClient(p)
     \/ UNCHANGED idle
  /\ UNCHANGED <<dbVars, cachedSecret, managerVars, poolState, password, wraps, taskVars,
                 exitVars>>

\* end() resolves when the pool has no client left.  Queued calls stay queued.
PoolEnds(p) ==
  /\ poolState[p] = "ending" /\ Users(p) = {} /\ strays[p] = 0
  /\ poolState' = [poolState EXCEPT ![p] = "ended"]
  /\ UNCHANGED <<dbVars, cachedSecret, managerVars, password, wraps, idle, strays, taskVars,
                 exitVars>>

\* idleTimeoutMillis, or the server ends an idle connection.
IdleConnectionsExpire(p) ==
  /\ idle[p] > 0
  /\ idle' = [idle EXCEPT ![p] = @ - 1]
  /\ UNCHANGED <<dbVars, cachedSecret, managerVars, poolState, password, wraps, strays,
                 taskVars, exitVars>>

(* --------------------------- gracefulShutdown ------------------------- *)

InFlight(c) == pc[c] \notin {"idle"} \cup Settled

\* A request's connection closes: its client went away, before or after the
\* answer, or the server had no more use for it.  The handler does not notice,
\* and nobody asks before the shutdown: what closed earlier counts as closing
\* when it begins.
HangUp(c) ==
  /\ phase = "draining" /\ c \in connections
  /\ connections' = connections \ {c}
  /\ UNCHANGED <<dbVars, cachedSecret, managerVars, poolVars, taskVars, phase, closing,
                 exitCode>>

Signal ==
  /\ phase = "running"
  /\ phase' = "draining"
  /\ UNCHANGED <<dbVars, cachedSecret, managerVars, poolVars, taskVars, connections, closing,
                 exitCode>>

\* server.close calls back when its connections are closed, whatever their
\* handlers still do.
Drained == connections = {}

\* closePool, which a second signal calls again; end() rejects when it was
\* called already, and the process exits with 1.
ClosePool ==
  /\ phase = "draining" /\ Drained
  /\ \/ /\ currentPool # None /\ poolState[currentPool] = "open"
        /\ poolState' = [poolState EXCEPT ![currentPool] = "ending"]
        /\ idle' = [idle EXCEPT ![currentPool] = 0]
        /\ closing' = closing \cup {currentPool}
        /\ UNCHANGED exitCode
     \/ /\ currentPool # None /\ poolState[currentPool] # "open"
        /\ exitCode' = 1 /\ UNCHANGED <<poolState, idle, closing>>
     \/ currentPool = None /\ exitCode' = 0 /\ UNCHANGED <<poolState, idle, closing>>
  /\ UNCHANGED <<dbVars, cachedSecret, managerVars, password, wraps, strays, taskVars,
                 connections, phase>>

\* Mutant: closePool does not await end().
PoolClosedAtOnce ==
  /\ closing # {}
  /\ currentPool' = None
  /\ exitCode' = 0
  /\ UNCHANGED <<dbVars, cachedSecret, currentCredentials, isRefreshing, poolVars,
                 taskVars, connections, phase, closing>>

\* An end() that closePool awaits resolved: the process exits, with whatever
\* still runs.
PoolClosed ==
  /\ \E p \in closing : poolState[p] = "ended"
  /\ currentPool' = None
  /\ exitCode' = 0
  /\ UNCHANGED <<dbVars, cachedSecret, currentCredentials, isRefreshing, poolVars,
                 taskVars, connections, phase, closing>>

\* SHUTDOWN_TIMEOUT_MS.  The exit closes the connections that are left.
ForcedShutdown ==
  /\ phase = "draining"
  /\ exitCode' = 1
  /\ connections' = {}
  /\ UNCHANGED <<dbVars, cachedSecret, managerVars, poolVars, taskVars, phase, closing>>

Step(c) ==
  \/ GetPool(c) \/ InitializePool(c) \/ InitializeFails(c) \/ Initialized(c)
  \/ Connect(c) \/ Serve(c) \/ Connected(c) \/ AuthenticationFails(c)
  \/ ConnectFails(c) \/ ConnectTooLate(c) \/ Catch(c) \/ Retry(c) \/ Release(c)

Refresh(t) == Fetch(t) \/ FetchFails(t) \/ RecreatePool(t)

PoolStep(p) == PoolEnds(p) \/ StrayEnds(p) \/ IdleConnectionsExpire(p)

Shutdown ==
  \/ Signal \/ ClosePool \/ PoolClosed \/ ForcedShutdown
  \/ \E c \in Callers : HangUp(c)

Next ==
  /\ Running
  /\ \/ Rotate \/ Publish \/ OnPoolError
     \/ \E c \in Callers : Step(c)
     \/ \E t \in Tasks : Refresh(t)
     \/ \E p \in Pools : PoolStep(p)
     \/ Shutdown

Spec == Init /\ [][Next]_vars

\* The rotation publishes what it changed, a connect, in the queue or not, and a
\* call of Secrets Manager come to an end, clients are released, an ending pool
\* ends, and the one signal that is sure goes on when the server is closed.
\* Nothing makes a request, a pool error, a rotation, a signal or a hang-up
\* happen, no idle client need expire, and nothing depends on the forced exit.
Fairness ==
  /\ WF_vars(Running /\ Publish)
  /\ \A c \in Callers : WF_vars(Running /\ pc[c] # "idle" /\ Step(c))
  /\ WF_vars(Running /\ \E t \in Tasks : Refresh(t))
  /\ WF_vars(Running /\ \E p \in Pools : PoolEnds(p) \/ StrayEnds(p))
  /\ WF_vars(Running /\ closing = {} /\ ClosePool) /\ WF_vars(Running /\ PoolClosed)

FairSpec == Spec /\ Fairness

(* ----------------------------- properties ---------------------------- *)

\* The pool in use was made with the credentials the next refresh compares the
\* published ones with: a stale pool is never taken for one whose credentials
\* are "unchanged".
CredentialsMatchPool ==
  currentPool # None => password[currentPool] = currentCredentials

\* isRefreshing is set exactly while one task is between the check of the flag
\* and the finally block, through every failure on the way.
OneRefreshAtATime ==
  /\ \A t, u \in Tasks : pc[t] \in Refreshing /\ pc[u] \in Refreshing => t = u
  /\ isRefreshing <=> \E t \in Tasks : pc[t] \in Refreshing

PoolUsers == [p \in Pools |-> Users(p)]

Turnover ==
  INSTANCE PoolTurnover WITH
    state <- poolState, users <- PoolUsers, current <- currentPool, awaited <- ending

\* The rotation and the shutdown keep the promise of a pool that is replaced at
\* run time, with requests that begin, queue, connect, retry and refresh at any
\* moment: no request gets a client of a pool whose end() was called unless it was
\* being connected for it before, none waits for an end it stands in the way of
\* itself, and a pool is replaced, or given up, when its last client is gone,
\* though calls may still stand in its queue.
TurnoverSpec == Turnover!Spec

OpenPools == {p \in Pools : poolState[p] = "open"}

Initializing == {c \in Callers : pc[c] = "loading"}

Replacing == {t \in Tasks : pc[t] = "ending"}

\* Once the manager has a pool, no step adds one that the database sees, beyond
\* those that first callers are about to create at once: each rotation opens one
\* for the one it ended, and a rotation never leaves its old pool behind.
RotationAddsNoPool ==
  [][currentPool # None =>
       Cardinality(OpenPools') + Cardinality(Initializing') + Cardinality(Replacing')
         <= Cardinality(OpenPools) + Cardinality(Initializing) + Cardinality(Replacing)]_vars

\* An exit with code 0 cuts off no request whose client still waits, whatever
\* retry or refresh is in progress, and no transaction of the pool whose end() it
\* awaited: who still has a client has one of another pool, and there is another
\* only when two first callers made one each.
CleanExit ==
  exitCode = 0 =>
    \A c \in Callers :
      /\ InFlight(c) => c \notin connections
      /\ held[c] # None => \E p \in closing : poolState[p] = "ended" /\ p # held[c]

\* No call is in flight for ever: each comes to an end, through whatever nest of
\* retries and wherever it stands in line, unless the process exits.
EveryCallSettles ==
  \A c \in Callers : []<>~(Running /\ InFlight(c))

\* isRefreshing never stays set, which would end all rotation: every refresh
\* gives the flag back.
RefreshEnds == []<>~(Running /\ isRefreshing)

\* A process whose server has closed does not stay.  Its shutdown comes to an end
\* without the 30 seconds: no rotation, no nest of retries, no full pool and no
\* handler whose client is gone keeps it.
ShutdownCompletes == []<>~(Running /\ phase = "draining" /\ Drained)

\* As server.ts:35 says of closePool, "waits for active queries to complete".
ShutdownWaits == exitCode = 0 => \A c \in Callers : held[c] = None

\* As dbPoolManager.ts:143 says, "Retry once with refreshed pool".
RetryOnce == \A c \in Callers : Len(stack[c]) <= 2

(* ------------- what the properties rest on, inductively -------------- *)

\* Each caller wraps a pool once, when getPool returns it.
Wrappers == {c \in Callers : pc[c] \notin {"idle", "loading", "initialized"}}

WrapsAreCounted == \A p \in Pools : wraps[p] <= Cardinality(Wrappers)

\* A call that awaits a connect, or a refresh on behalf of one, is inside of it.
InsideConnects ==
  \A c \in Callers :
    pc[c] \in {"gotPool", "queued", "rejected", "refreshed"} \cup Connecting \cup Refreshing =>
      stack[c] # <<>>

\* Once there was a pool, there is one until the process exits.
PoolsLast ==
  currentPool = None /\ Running =>
    /\ \A p \in Pools : poolState[p] = "unborn"
    /\ \A t \in Tasks : pc[t] \in {"idle", "loading", "failed"}

\* A task names a pool exactly while it awaits the end of that pool, which was
\* asked for.
EndingIsAPool ==
  \A t \in Tasks :
    /\ ending[t] # None <=> pc[t] = "ending"
    /\ ending[t] # None => poolState[ending[t]] \in {"ending", "ended"}

HoldersUse == \A c \in Callers : held[c] # None => pc[c] = "using"

\* Draining is for good: no connection comes after the server was closed.
ClosedIsDrained == closing # {} => phase = "draining" /\ Drained

\* A pool that ended has no client left, and gets none for the calls that are
\* still in its queue.
EndedIsIdle == \A p \in Pools : poolState[p] = "ended" => Users(p) = {}

PoolInv ==
  /\ TypeOK /\ WrapsAreCounted /\ InsideConnects /\ PoolsLast /\ EndingIsAPool
  /\ HoldersUse /\ ClosedIsDrained /\ EndedIsIdle
  /\ CredentialsMatchPool /\ OneRefreshAtATime /\ CleanExit
========================================================================
