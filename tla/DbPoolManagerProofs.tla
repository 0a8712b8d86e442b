---------------------- MODULE DbPoolManagerProofs ----------------------
(* Proofs about DbPoolManager for any number of calls, pools, rotations and  *)
(* nested retries.                                                           *)
EXTENDS DbPoolManager, FiniteSetTheorems, TLAPS

(* -------------------------- stacks of frames ------------------------- *)

LEMMA CallersAreFew == Cardinality(Callers) \in Nat
BY BoundsAreNumbers, FS_CardinalityType

\* A wrapper of the innermost connect is used up: the call is still inside of
\* the same connects.
LEMMA FrameUpdate ==
  ASSUME NEW s \in Seq(Frame), s # <<>>, NEW w \in 0..Cardinality(Callers)
  PROVE  LET r == [s EXCEPT ![Len(s)] = [s[Len(s)] EXCEPT !.wrappers = w]] IN
         r \in Seq(Frame) /\ r # <<>> /\ Len(r) = Len(s) /\ r[Len(r)].pool = s[Len(s)].pool
<1> DEFINE r == [s EXCEPT ![Len(s)] = [s[Len(s)] EXCEPT !.wrappers = w]]
<1>1. Len(s) \in Nat /\ Len(s) > 0 /\ s \in [1..Len(s) -> Frame] /\ s[Len(s)] \in Frame
  OBVIOUS
<1>2. [s[Len(s)] EXCEPT !.wrappers = w] \in Frame
  BY <1>1 DEF Frame
<1>3. r \in [1..Len(s) -> Frame]
  BY <1>1, <1>2
<1>4. r \in Seq(Frame) /\ Len(r) = Len(s)
  BY <1>1, <1>3
<1>5. r[Len(s)].pool = s[Len(s)].pool
  BY <1>1 DEF Frame
<1> QED BY <1>1, <1>4, <1>5

\* The pool a call connects to.
LEMMA TopIsFrame ==
  ASSUME TypeOK, InsideConnects, NEW c \in Callers,
         pc[c] \in {"gotPool", "queued", "rejected", "refreshed"} \cup Connecting
  PROVE  /\ stack[c] \in Seq(Frame) /\ stack[c] # <<>> /\ Len(stack[c]) \in Nat
         /\ stack[c][Len(stack[c])] \in Frame
         /\ TopPool(c) \in Pools
<1>1. stack[c] \in Seq(Frame) /\ stack[c] # <<>>
  BY DEF TypeOK, InsideConnects, Tasks
<1>2. Len(stack[c]) \in Nat /\ stack[c][Len(stack[c])] \in Frame
  BY <1>1
<1> QED BY <1>1, <1>2 DEF TopPool, Frame

\* What a rejected connect leaves.
LEMMA FrameDropped ==
  ASSUME TypeOK, InsideConnects, NEW c \in Callers,
         pc[c] \in {"gotPool", "queued", "rejected"} \cup Connecting, DropFrame(c)
  PROVE  \E s \in Seq(Frame) :
           /\ stack' = [stack EXCEPT ![c] = s]
           /\ pc' = [pc EXCEPT ![c] = IF s = <<>> THEN "failed" ELSE "rejected"]
<1>1. stack[c] \in Seq(Frame) /\ stack[c] # <<>> /\ Len(stack[c]) \in Nat
  BY TopIsFrame
<1>2. SubSeq(stack[c], 1, Len(stack[c]) - 1) \in Seq(Frame)
  BY <1>1
<1> QED BY <1>2 DEF DropFrame, Goto

Inside == {"gotPool", "queued", "rejected", "refreshed"} \cup Connecting \cup Refreshing

Places == {"idle", "loading", "initialized", "gotPool", "queued", "rejected", "refreshed",
           "using"} \cup Connecting \cup Refreshing \cup Settled

LEMMA RequestedIsPlace ==
  ASSUME NEW p
  PROVE  Requested(p) \in {"queued", "connecting"} /\ Requested(p) \in Places
BY DEF Requested, Places, Connecting

\* A step that moves one task keeps every other call inside of its connects.
LEMMA OneMoves ==
  ASSUME TypeOK, InsideConnects, NEW t \in Tasks, NEW s \in Seq(Frame), NEW place \in Places,
         stack' = [stack EXCEPT ![t] = s], Goto(t, place),
         t \in Callers /\ place \in Inside => s # <<>>
  PROVE  stack' \in [Tasks -> Seq(Frame)] /\ pc' \in [Tasks -> Places] /\ InsideConnects'
<1>1. stack \in [Tasks -> Seq(Frame)] /\ pc \in [Tasks -> Places]
  BY DEF TypeOK, Places
<1>2. stack' \in [Tasks -> Seq(Frame)] /\ pc' \in [Tasks -> Places]
  BY <1>1 DEF Goto
<1>3. ASSUME NEW c \in Callers, pc'[c] \in Inside
      PROVE  stack'[c] # <<>>
  <2>1. CASE c = t
    BY <1>1, <1>3, <2>1 DEF Goto
  <2>2. CASE c # t
    <3>1. c \in Tasks /\ pc'[c] = pc[c] /\ stack'[c] = stack[c]
      BY <1>1, <2>2 DEF Goto, Tasks
    <3> QED BY <1>3, <3>1 DEF InsideConnects, Inside
  <2> QED BY <2>1, <2>2
<1> QED BY <1>2, <1>3 DEF InsideConnects, Inside

\* The same when the task goes nowhere deeper.
LEMMA OneMovesOn ==
  ASSUME TypeOK, InsideConnects, NEW t \in Tasks, NEW place \in Places,
         UNCHANGED stack, Goto(t, place),
         place \in Inside /\ t \in Callers => pc[t] \in Inside
  PROVE  stack' \in [Tasks -> Seq(Frame)] /\ pc' \in [Tasks -> Places] /\ InsideConnects'
<1>1. stack \in [Tasks -> Seq(Frame)] /\ stack[t] \in Seq(Frame)
  BY DEF TypeOK
<1>2. stack' = [stack EXCEPT ![t] = stack[t]]
  BY <1>1
<1>3. t \in Callers /\ place \in Inside => stack[t] # <<>>
  BY DEF InsideConnects, Inside
<1> QED BY <1>1, <1>2, <1>3, OneMoves

\* What every step keeps of pc and stack.
LEMMA InsideNext ==
  ASSUME TypeOK, InsideConnects, PoolsLast, Next
  PROVE  stack' \in [Tasks -> Seq(Frame)] /\ pc' \in [Tasks -> Places] /\ InsideConnects'
<1> DEFINE Goal == stack' \in [Tasks -> Seq(Frame)] /\ pc' \in [Tasks -> Places]
                   /\ InsideConnects'
<1>0. \A c \in Callers : c \in Tasks
  BY DEF Tasks
<1>1. UNCHANGED <<pc, stack>> => Goal
  BY DEF TypeOK, InsideConnects, Places
<1>2. PoolError \in Tasks /\ PoolError \notin Callers /\ Running
  BY PoolErrorIsNoCaller DEF Next, Tasks
<1>3. ASSUME NEW c \in Callers, DropFrame(c),
             pc[c] \in {"gotPool", "queued", "rejected"} \cup Connecting
      PROVE  Goal
  <2>1. PICK s \in Seq(Frame) :
           /\ stack' = [stack EXCEPT ![c] = s]
           /\ pc' = [pc EXCEPT ![c] = IF s = <<>> THEN "failed" ELSE "rejected"]
    BY <1>3, FrameDropped
  <2>2. CASE s = <<>>
    BY <1>0, <2>1, <2>2, OneMoves DEF Goto, Inside, Places, Settled, Refreshing, Connecting
  <2>3. CASE s # <<>>
    BY <1>0, <2>1, <2>3, OneMoves DEF Goto, Inside, Places, Settled
  <2> QED BY <2>2, <2>3
<1>4. ASSUME NEW c \in Callers, Wrap(c), currentPool # None
      PROVE  Goal
  <2> DEFINE s == <<[pool |-> currentPool, wrappers |-> 0]>>
  <2>1. s \in Seq(Frame) /\ s # <<>>
    BY <1>4, CallersAreFew DEF Frame, TypeOK
  <2> QED BY <1>0, <1>4, <2>1, OneMoves DEF Wrap, Places
<1>5. ASSUME NEW c \in Callers, Step(c)
      PROVE  Goal
  <2>1. CASE GetPool(c)
    <3>1. CASE currentPool # None /\ Wrap(c)
      BY <1>4, <3>1
    <3>2. CASE Goto(c, "loading") /\ UNCHANGED stack
      BY <1>0, <3>2, OneMovesOn DEF Inside, Places, Refreshing, Connecting
    <3> QED BY <2>1, <3>1, <3>2 DEF GetPool
  <2>2. CASE InitializePool(c)
    BY <1>0, <2>2, OneMovesOn DEF InitializePool, Inside, Places, Refreshing, Connecting
  <2>3. CASE InitializeFails(c)
    BY <1>0, <2>3, OneMovesOn DEF InitializeFails, Inside, Places, Refreshing, Connecting, Settled
  <2>4. CASE Initialized(c)
    <3>1. currentPool # None
      BY <1>0, <1>2, <2>4 DEF Initialized, PoolsLast
    <3> QED BY <1>4, <2>4, <3>1 DEF Initialized
  <2>5. CASE Connect(c)
    <3> DEFINE w == wraps[TopPool(c)]
               s == [stack[c] EXCEPT ![Len(stack[c])] =
                       [stack[c][Len(stack[c])] EXCEPT !.wrappers = w]]
    <3>1. CASE DropFrame(c)
      BY <1>3, <2>5, <3>1 DEF Connect
    <3>2. CASE /\ stack' = [stack EXCEPT ![c][Len(stack[c])].wrappers = w]
               /\ Goto(c, Requested(TopPool(c)))
      <4>1. stack[c] \in Seq(Frame) /\ stack[c] # <<>> /\ w \in 0..Cardinality(Callers)
        BY <2>5, TopIsFrame DEF Connect, TypeOK
      <4>2. s \in Seq(Frame) /\ s # <<>>
        BY <4>1, FrameUpdate
      <4>3. stack' = [stack EXCEPT ![c] = s]
        BY <3>2
      <4> QED BY <1>0, <3>2, <4>2, <4>3, OneMoves, RequestedIsPlace
    <3> QED BY <2>5, <3>1, <3>2 DEF Connect
  <2>6. CASE Acquire(c)
    <3>1. /\ <<>> \in Seq(Frame) /\ "using" \in Places /\ "using" \notin Inside
          /\ stack' = [stack EXCEPT ![c] = <<>>] /\ Goto(c, "using")
      BY <2>6 DEF Acquire, Inside, Places, Connecting, Refreshing
    <3> QED BY <1>0, <3>1, OneMoves
  <2>12. CASE Serve(c) /\ ~Acquire(c)
    BY <1>0, <2>12, OneMovesOn DEF Serve, Inside, Places, Connecting
  <2>7. CASE AuthenticationFails(c)
    BY <1>0, <2>7, OneMovesOn DEF AuthenticationFails, Inside, Places
  <2>8. CASE ConnectFails(c) \/ ConnectTooLate(c)
    BY <1>3, <2>8 DEF ConnectFails, ConnectTooLate, Connecting
  <2>9. CASE Catch(c)
    <3> DEFINE w == stack[c][Len(stack[c])].wrappers - 1
               s == [stack[c] EXCEPT ![Len(stack[c])] =
                       [stack[c][Len(stack[c])] EXCEPT !.wrappers = w]]
    <3>1. CASE DropFrame(c)
      BY <1>3, <2>9, <3>1 DEF Catch
    <3>2. CASE /\ stack[c][Len(stack[c])].wrappers > 0
               /\ stack' = [stack EXCEPT ![c][Len(stack[c])].wrappers = @ - 1]
               /\ Goto(c, "fetching") \/ UNCHANGED pc
      <4>1. /\ stack[c] \in Seq(Frame) /\ stack[c] # <<>> /\ Len(stack[c]) \in Nat
            /\ stack[c][Len(stack[c])] \in Frame /\ pc[c] = "rejected"
        BY <2>9, TopIsFrame DEF Catch
      <4>2. w \in 0..Cardinality(Callers)
        BY <3>2, <4>1, CallersAreFew DEF Frame
      <4>3. s \in Seq(Frame) /\ s # <<>>
        BY <4>1, <4>2, FrameUpdate
      <4>4. stack' = [stack EXCEPT ![c] = s]
        BY <3>2
      <4>5. CASE Goto(c, "fetching")
        BY <1>0, <4>3, <4>4, <4>5, OneMoves DEF Places, Refreshing
      <4>6. CASE UNCHANGED pc
        <5>1. Goto(c, "rejected")
          BY <1>0, <4>1, <4>6 DEF Goto, TypeOK
        <5> QED BY <1>0, <4>3, <4>4, <5>1, OneMoves DEF Places
      <4> QED BY <3>2, <4>5, <4>6
    <3> QED BY <2>9, <3>1, <3>2 DEF Catch
  <2>10. CASE Retry(c)
    <3>1. pc[c] = "refreshed" /\ stack[c] \in Seq(Frame) /\ stack[c] # <<>>
      BY <2>10, TopIsFrame DEF Retry
    <3>2. CASE Goto(c, "rejected") /\ UNCHANGED stack
      BY <1>0, <3>1, <3>2, OneMovesOn DEF Inside, Places
    <3> DEFINE f == [pool |-> currentPool, wrappers |-> wraps[currentPool]]
    <3>3. CASE stack' = [stack EXCEPT ![c] = Append(@, f)] /\ Goto(c, Requested(currentPool))
      <4>1. currentPool \in Pools
        BY <1>0, <1>2, <3>1 DEF PoolsLast, TypeOK
      <4>2. f \in Frame
        BY <4>1 DEF Frame, TypeOK
      <4>3. Append(stack[c], f) \in Seq(Frame) /\ Append(stack[c], f) # <<>>
        BY <3>1, <4>2
      <4>4. stack' = [stack EXCEPT ![c] = Append(stack[c], f)]
        BY <3>3
      <4> QED BY <1>0, <3>3, <4>3, <4>4, OneMoves, RequestedIsPlace
    <3> QED BY <2>10, <3>2, <3>3 DEF Retry
  <2>11. CASE Release(c)
    BY <1>0, <2>11, OneMovesOn DEF Release, Inside, Places, Refreshing, Connecting, Settled
  <2> QED BY <1>5, <2>1, <2>2, <2>3, <2>4, <2>5, <2>6, <2>7, <2>8, <2>9, <2>10, <2>11, <2>12
          DEF Step, Connected
<1>6. ASSUME NEW t \in Tasks, UNCHANGED stack, pc[t] \in Refreshing,
             Throws(t) \/ Returns(t) \/ Goto(t, "ending")
      PROVE  Goal
  <2>1. PICK place \in Places : Goto(t, place) /\ (t \in Callers => place \in Inside)
    BY <1>2, <1>6 DEF Throws, Returns, Places, Inside, Refreshing
  <2>2. pc[t] \in Inside
    BY <1>6 DEF Inside
  <2> QED BY <1>6, <2>1, <2>2, OneMovesOn
<1>7. ASSUME NEW t \in Tasks, Refresh(t)
      PROVE  Goal
  BY <1>6, <1>7 DEF Refresh, Fetch, FetchFails, RecreatePool, EndOldPool, Refreshing
<1>8. CASE OnPoolError
  BY <1>2, <1>8, OneMovesOn DEF OnPoolError, Places, Refreshing
<1>9. CASE \/ Rotate \/ Publish \/ Shutdown
           \/ \E p \in Pools : PoolStep(p)
  BY <1>1, <1>9 DEF Rotate, Publish, Shutdown, Signal, HangUp, ClosePool, PoolClosed,
                    ForcedShutdown, PoolStep, PoolEnds, StrayEnds, IdleConnectionsExpire, taskVars
<1> QED BY <1>5, <1>7, <1>8, <1>9 DEF Next

(* ------------------------------- types -------------------------------- *)

\* A pool is created with what becomes the current credentials.
LEMMA NewPoolTypes ==
  ASSUME TypeOK, NEW v \in Versions \cup {None}, NewPool(v)
  PROVE  /\ currentPool' \in Pools /\ currentCredentials' \in Versions \cup {None}
         /\ poolState[currentPool'] = "unborn"
         /\ poolState' = [poolState EXCEPT ![currentPool'] = "open"]
         /\ password' = [password EXCEPT ![currentPool'] = v]
         /\ currentCredentials' = v
         /\ poolState' \in [Pools -> {"unborn", "open", "ending", "ended"}]
         /\ password' \in [Pools -> Versions \cup {None}]
         /\ UNCHANGED <<wraps, idle, strays>>
BY DEF NewPool, TypeOK

\* The caller that wraps a pool is one more of those that did.
LEMMA WrapIsCounted ==
  ASSUME TypeOK, WrapsAreCounted, NEW c \in Callers, c \notin Wrappers, Wrap(c),
         currentPool # None
  PROVE  /\ wraps' \in [Pools -> 0..Cardinality(Callers)]
         /\ Wrappers' = Wrappers \cup {c}
         /\ WrapsAreCounted'
<1>1. IsFiniteSet(Wrappers) /\ IsFiniteSet(Wrappers \cup {c})
      /\ Cardinality(Wrappers) \in Nat
  BY BoundsAreNumbers, FS_Subset, FS_AddElement, FS_CardinalityType DEF Wrappers
<1>2. Cardinality(Wrappers \cup {c}) = Cardinality(Wrappers) + 1
  BY <1>1, FS_AddElement
<1>3. Cardinality(Wrappers \cup {c}) <= Cardinality(Callers)
  BY BoundsAreNumbers, FS_Subset DEF Wrappers
<1>4. Wrappers' = Wrappers \cup {c}
  BY DEF Wrappers, Wrap, Goto, TypeOK, Tasks
<1>5. ASSUME NEW p \in Pools
      PROVE  wraps'[p] \in Nat /\ wraps'[p] <= Cardinality(Wrappers) + 1
  BY <1>1, CallersAreFew DEF Wrap, TypeOK, WrapsAreCounted
<1>6. wraps' = [wraps EXCEPT ![currentPool] = wraps[currentPool] + 1]
  BY DEF Wrap
<1>7. wraps' \in [Pools -> 0..Cardinality(Callers)]
  BY <1>1, <1>2, <1>3, <1>5, <1>6, CallersAreFew DEF TypeOK
<1> QED BY <1>2, <1>4, <1>5, <1>7 DEF WrapsAreCounted

\* Nobody goes back to before getPool.
LEMMA WrappersStay ==
  ASSUME TypeOK, WrapsAreCounted, UNCHANGED wraps, Wrappers \subseteq Wrappers'
  PROVE  WrapsAreCounted'
<1>1. IsFiniteSet(Wrappers) /\ IsFiniteSet(Wrappers')
  BY BoundsAreNumbers, FS_Subset DEF Wrappers
<1>2. Cardinality(Wrappers) <= Cardinality(Wrappers')
      /\ Cardinality(Wrappers) \in Nat /\ Cardinality(Wrappers') \in Nat
  BY <1>1, FS_Subset, FS_CardinalityType
<1> QED BY <1>2, CallersAreFew DEF WrapsAreCounted, TypeOK

\* A client that comes back.
LEMMA ReturnTypes ==
  ASSUME TypeOK, NEW p, ReturnClient(p)
  PROVE  idle' \in [Pools -> Nat]
<1>1. CASE poolState[p] = "open" /\ idle' = [idle EXCEPT ![p] = idle[p] + 1]
  <2>1. CASE p \in Pools
    BY <1>1, <2>1 DEF TypeOK
  <2>2. CASE p \notin Pools
    BY <1>1, <2>2 DEF TypeOK
  <2> QED BY <2>1, <2>2
<1>2. CASE UNCHANGED idle
  BY <1>2 DEF TypeOK
<1> QED BY <1>1, <1>2 DEF ReturnClient

\* The rest of the type invariant, and the count of wrappers.
LEMMA TypeNext ==
  ASSUME TypeOK, InsideConnects, PoolsLast, WrapsAreCounted, Next
  PROVE  TypeOK' /\ WrapsAreCounted'
<1> DEFINE Rest ==
      /\ accepted' \in Versions /\ published' \in Versions
      /\ cachedSecret' \in Versions \cup {None}
      /\ currentPool' \in Pools \cup {None}
      /\ currentCredentials' \in Versions \cup {None}
      /\ isRefreshing' \in BOOLEAN
      /\ poolState' \in [Pools -> {"unborn", "open", "ending", "ended"}]
      /\ password' \in [Pools -> Versions \cup {None}]
      /\ wraps' \in [Pools -> 0..Cardinality(Callers)]
      /\ idle' \in [Pools -> Nat] /\ strays' \in [Pools -> Nat]
      /\ held' \in [Tasks -> Pools \cup {None}]
      /\ ending' \in [Tasks -> Pools \cup {None}]
      /\ fetched' \in [Tasks -> Versions \cup {None}]
      /\ phase' \in {"running", "draining"}
      /\ connections' \subseteq Callers /\ closing' \subseteq Pools
      /\ exitCode' \in {None, 0, 1}
<1> USE DEF dbVars, managerVars, poolVars, taskVars, exitVars
<1>0. /\ stack' \in [Tasks -> Seq(Frame)] /\ pc' \in [Tasks -> Places]
      /\ \A c \in Callers : c \in Tasks
      /\ PoolError \notin Callers /\ Running
      /\ pc \in [Tasks -> Places]
  BY InsideNext, PoolErrorIsNoCaller DEF Tasks, Next, TypeOK, Places
<1>1. ASSUME NEW c \in Callers, Step(c)
      PROVE  Rest /\ WrapsAreCounted'
  <2>1. CASE GetPool(c)
    <3>1. CASE currentPool # None /\ Wrap(c)
      <4>1. c \notin Wrappers
        BY <2>1 DEF GetPool, Wrappers
      <4> QED BY <2>1, <3>1, <4>1, WrapIsCounted DEF GetPool, Wrap, TypeOK
    <3>2. CASE Goto(c, "loading") /\ UNCHANGED <<poolVars, stack>>
      <4>1. Wrappers \subseteq Wrappers'
        BY <1>0, <2>1, <3>2 DEF GetPool, Wrappers, Goto
      <4> QED BY <2>1, <3>2, <4>1, WrappersStay DEF GetPool, TypeOK
    <3> QED BY <2>1, <3>1, <3>2 DEF GetPool
  <2>2. CASE InitializePool(c)
    <3>1. \E v \in Versions : NewPool(v) /\ cachedSecret' \in Versions \cup {None}
      BY <2>2 DEF InitializePool, TypeOK
    <3>2. Wrappers \subseteq Wrappers'
      BY <1>0, <2>2 DEF InitializePool, Wrappers, Goto
    <3> QED BY <2>2, <3>1, <3>2, NewPoolTypes, WrappersStay DEF InitializePool, TypeOK
  <2>3. CASE Initialized(c)
    <3>1. currentPool # None /\ c \notin Wrappers
      BY <1>0, <2>3 DEF Initialized, PoolsLast, Wrappers
    <3> QED BY <2>3, <3>1, WrapIsCounted DEF Initialized, Wrap, TypeOK
  <2>4. CASE InitializeFails(c)
    <3>1. Wrappers \subseteq Wrappers'
      BY <1>0, <2>4 DEF InitializeFails, Wrappers, Goto
    <3> QED BY <2>4, <3>1, WrappersStay DEF InitializeFails, TypeOK
  <2>5. CASE Connect(c) \/ Serve(c) \/ Connected(c) \/ AuthenticationFails(c) \/ ConnectFails(c)
             \/ ConnectTooLate(c) \/ Catch(c) \/ Retry(c) \/ Release(c)
    <3>1. Wrappers \subseteq Wrappers'
      BY <1>0, <2>5, RequestedIsPlace
         DEF Connect, Serve, Connected, Acquire, AuthenticationFails, ConnectFails,
             ConnectTooLate, Catch, Retry, Release, DropFrame, Wrappers, Goto
    <3>2. UNCHANGED wraps
      BY <2>5 DEF Connect, Serve, Connected, AuthenticationFails, ConnectFails, ConnectTooLate,
                  Catch, Retry, Release
    <3>3. WrapsAreCounted'
      BY <3>1, <3>2, WrappersStay
    <3>4. CASE Connect(c) \/ AuthenticationFails(c) \/ ConnectFails(c) \/ Retry(c)
      <4>1. UNCHANGED <<dbVars, cachedSecret, managerVars, poolVars, held, ending, fetched,
                        exitVars>>
        BY <3>4 DEF Connect, AuthenticationFails, ConnectFails, Retry
      <4> QED BY <3>3, <4>1 DEF TypeOK
    <3>5. CASE Catch(c)
      <4>1. isRefreshing' \in BOOLEAN
        BY <3>5 DEF Catch, TypeOK
      <4> QED BY <3>3, <3>5, <4>1 DEF Catch, TypeOK
    <3>6. CASE Serve(c)
      <4>1. TopPool(c) \in Pools
        BY <3>6, TopIsFrame DEF Serve
      <4>2. held' \in [Tasks -> Pools \cup {None}]
        BY <3>6, <4>1 DEF Serve, Acquire, TypeOK
      <4>3. \/ idle[TopPool(c)] > 0 /\ idle' = [idle EXCEPT ![TopPool(c)] = idle[TopPool(c)] - 1]
            \/ UNCHANGED idle
        BY <3>6 DEF Serve
      <4>4. idle[TopPool(c)] \in Nat /\ idle \in [Pools -> Nat]
        BY <4>1 DEF TypeOK
      <4>5. idle' \in [Pools -> Nat]
        BY <4>3, <4>4
      <4> QED BY <3>3, <3>6, <4>2, <4>5 DEF Serve, TypeOK
    <3>7. CASE Connected(c)
      <4>1. TopPool(c) \in Pools
        BY <3>7, TopIsFrame DEF Connected
      <4>2. held' \in [Tasks -> Pools \cup {None}]
        BY <3>7, <4>1 DEF Connected, Acquire, TypeOK
      <4> QED BY <3>3, <3>7, <4>2 DEF Connected, TypeOK
    <3>8. CASE ConnectTooLate(c)
      <4>1. TopPool(c) \in Pools
        BY <3>8, TopIsFrame DEF ConnectTooLate, Connecting
      <4>2. strays' \in [Pools -> Nat]
        BY <3>8, <4>1 DEF ConnectTooLate, TypeOK
      <4> QED BY <3>3, <3>8, <4>2 DEF ConnectTooLate, TypeOK
    <3>9. CASE Release(c)
      <4>1. idle' \in [Pools -> Nat]
        <5>1. ReturnClient(held[c])
          BY <3>9 DEF Release
        <5> QED BY <5>1, ReturnTypes
      <4>2. held' \in [Tasks -> Pools \cup {None}]
        BY <3>9 DEF Release, TypeOK
      <4> QED BY <3>3, <3>9, <4>1, <4>2 DEF Release, TypeOK
    <3> QED BY <2>5, <3>4, <3>5, <3>6, <3>7, <3>8, <3>9
  <2> QED BY <1>1, <2>1, <2>2, <2>3, <2>4, <2>5 DEF Step
<1>2. ASSUME NEW t \in Tasks, Refresh(t)
      PROVE  Rest /\ WrapsAreCounted'
  <2>1. Wrappers \subseteq Wrappers'
    BY <1>0, <1>2 DEF Refresh, Fetch, FetchFails, RecreatePool, EndOldPool, Throws, Returns,
                      Wrappers, Goto
  <2>2. CASE RecreatePool(t)
    <3>1. NewPool(fetched[t]) /\ fetched[t] \in Versions \cup {None}
      BY <2>2 DEF RecreatePool, TypeOK
    <3> QED BY <2>1, <2>2, <3>1, NewPoolTypes, WrappersStay
            DEF RecreatePool, Returns, TypeOK
  <2>3. CASE FetchFails(t)
    BY <2>1, <2>3, WrappersStay DEF FetchFails, Throws, TypeOK
  <2>4. CASE Fetch(t)
    <3>1. WrapsAreCounted'
      BY <2>1, <2>4, WrappersStay DEF Fetch, EndOldPool
    <3>2. CASE EndOldPool(t)
      BY <2>4, <3>1, <3>2 DEF Fetch, EndOldPool, TypeOK
    <3>3. CASE /\ Throws(t) \/ Returns(t)
               /\ UNCHANGED <<currentPool, currentCredentials, poolVars, ending, fetched>>
      BY <2>4, <3>1, <3>3 DEF Fetch, Throws, Returns, TypeOK
    <3> QED BY <2>4, <3>2, <3>3 DEF Fetch
  <2> QED BY <1>2, <2>2, <2>3, <2>4 DEF Refresh
<1>3. ASSUME OnPoolError
      PROVE  Rest /\ WrapsAreCounted'
  <2>1. Wrappers \subseteq Wrappers'
    BY <1>0, <1>3 DEF OnPoolError, Wrappers, Goto
  <2>2. WrapsAreCounted'
    BY <1>3, <2>1, WrappersStay DEF OnPoolError
  <2> QED BY <1>3, <2>2 DEF OnPoolError, TypeOK
<1>4. ASSUME \/ Rotate \/ Publish \/ Shutdown
             \/ \E p \in Pools : PoolStep(p)
      PROVE  Rest /\ WrapsAreCounted'
  <2>1. UNCHANGED <<pc, wraps>>
    BY <1>4 DEF Rotate, Publish, Shutdown, Signal, HangUp, ClosePool, PoolClosed,
                ForcedShutdown, PoolStep, PoolEnds, StrayEnds, IdleConnectionsExpire
  <2>2. WrapsAreCounted'
    BY <2>1 DEF WrapsAreCounted, Wrappers
  <2>3. CASE Rotate \/ Publish
    BY <2>2, <2>3, BoundsAreNumbers DEF Rotate, Publish, TypeOK, Versions
  <2>4. CASE Signal \/ PoolClosed \/ ForcedShutdown \/ \E c \in Callers : HangUp(c)
    BY <2>2, <2>4 DEF Signal, HangUp, PoolClosed, ForcedShutdown, TypeOK
  <2>5. CASE ClosePool
    <3>1. /\ poolState' \in [Pools -> {"unborn", "open", "ending", "ended"}]
          /\ idle' \in [Pools -> Nat] /\ closing' \subseteq Pools /\ exitCode' \in {None, 0, 1}
      <4>1. CASE currentPool # None /\ poolState[currentPool] = "open"
        <5>1. currentPool \in Pools
          BY <4>1 DEF TypeOK
        <5>2. /\ poolState' = [poolState EXCEPT ![currentPool] = "ending"]
              /\ idle' = [idle EXCEPT ![currentPool] = 0]
              /\ closing' = closing \cup {currentPool} /\ UNCHANGED exitCode
          BY <2>5, <4>1 DEF ClosePool
        <5>3. idle' \in [Pools -> Nat]
          BY <5>2 DEF TypeOK
        <5>4. poolState' \in [Pools -> {"unborn", "open", "ending", "ended"}]
          BY <5>2 DEF TypeOK
        <5> QED BY <5>1, <5>2, <5>3, <5>4 DEF TypeOK
      <4>2. CASE ~(currentPool # None /\ poolState[currentPool] = "open")
        BY <2>5, <4>2 DEF ClosePool, TypeOK
      <4> QED BY <4>1, <4>2
    <3>2. UNCHANGED <<dbVars, cachedSecret, managerVars, password, wraps, strays, taskVars,
                      connections, phase>>
      BY <2>5 DEF ClosePool
    <3> QED BY <2>2, <3>1, <3>2 DEF TypeOK
  <2>6. ASSUME NEW p \in Pools, PoolStep(p)
        PROVE  Rest
    <3>1. CASE PoolEnds(p)
      BY <3>1 DEF PoolEnds, TypeOK
    <3>2. CASE StrayEnds(p)
      <4>1. idle' \in [Pools -> Nat]
        <5>1. ReturnClient(p) \/ UNCHANGED idle
          BY <3>2 DEF StrayEnds
        <5>2. CASE UNCHANGED idle
          BY <5>2 DEF TypeOK
        <5> QED BY <5>1, <5>2, ReturnTypes
      <4>2. strays' \in [Pools -> Nat]
        BY <3>2 DEF StrayEnds, TypeOK
      <4> QED BY <3>2, <4>1, <4>2 DEF StrayEnds, TypeOK
    <3>3. CASE IdleConnectionsExpire(p)
      <4>1. idle' \in [Pools -> Nat]
        BY <3>3 DEF IdleConnectionsExpire, TypeOK
      <4> QED BY <3>3, <4>1 DEF IdleConnectionsExpire, TypeOK
    <3> QED BY <2>6, <3>1, <3>2, <3>3 DEF PoolStep
  <2> QED BY <1>4, <2>2, <2>3, <2>4, <2>5, <2>6 DEF Shutdown
<1>5. Rest /\ WrapsAreCounted'
  BY <1>1, <1>2, <1>3, <1>4 DEF Next
<1> QED BY <1>0, <1>5 DEF TypeOK, Places

(* ---------------------- the rest of the invariant --------------------- *)

\* A manager that has a pool keeps one until the process exits.
LEMMA PoolsLastNext ==
  ASSUME TypeOK, PoolsLast, Next
  PROVE  PoolsLast'
<1> USE DEF dbVars, managerVars, poolVars, taskVars, exitVars
<1>0. /\ \A c \in Callers : c \in Tasks
      /\ PoolError \notin Callers /\ Running /\ PoolError \in Tasks
      /\ None \notin Pools
      /\ pc \in [Tasks -> Places]
      /\ currentPool \in Pools \cup {None}
  BY PoolErrorIsNoCaller, NoneIsNeither DEF Tasks, Next, TypeOK, Places
<1>1. ASSUME NEW c \in Callers, Step(c)
      PROVE  PoolsLast'
  <2>1. CASE GetPool(c)
    BY <1>0, <2>1 DEF GetPool, Wrap, Goto, PoolsLast, Running
  <2>2. CASE InitializePool(c)
    <3>1. \E v \in Versions : NewPool(v)
      BY <2>2 DEF InitializePool, TypeOK
    <3>2. currentPool' # None
      BY <1>0, <3>1, NewPoolTypes
    <3> QED BY <1>0, <2>2, <3>2 DEF InitializePool, Goto, PoolsLast
  <2>3. CASE InitializeFails(c) \/ Initialized(c)
    BY <1>0, <2>3 DEF InitializeFails, Initialized, Wrap, Goto, PoolsLast,
                      Running
  <2>4. CASE Connect(c) \/ Serve(c) \/ Connected(c) \/ AuthenticationFails(c) \/ ConnectFails(c)
             \/ ConnectTooLate(c) \/ Catch(c) \/ Retry(c) \/ Release(c)
    <3>1. currentPool # None /\ UNCHANGED currentPool /\ UNCHANGED ending
      BY <1>0, <2>4 DEF Connect, Serve, Connected, AuthenticationFails, ConnectFails,
                        ConnectTooLate, Catch, Retry, Release, PoolsLast, Connecting
    <3> QED BY <3>1 DEF PoolsLast
  <2> QED BY <1>1, <2>1, <2>2, <2>3, <2>4 DEF Step
<1>2. ASSUME NEW t \in Tasks, Refresh(t)
      PROVE  PoolsLast'
  <2>1. currentPool \in Pools
    BY <1>0, <1>2 DEF Refresh, Fetch, FetchFails, RecreatePool, PoolsLast
  <2>2. CASE RecreatePool(t)
    <3>1. NewPool(fetched[t]) /\ fetched[t] \in Versions \cup {None}
      BY <2>2 DEF RecreatePool, TypeOK
    <3>2. currentPool' # None
      BY <1>0, <3>1, NewPoolTypes
    <3> QED BY <1>0, <2>2, <3>2 DEF RecreatePool, Returns, Goto, PoolsLast,
                                    TypeOK
  <2>3. CASE Fetch(t) /\ EndOldPool(t)
    <3>1. ending' = [ending EXCEPT ![t] = currentPool] /\ UNCHANGED currentPool
          /\ \A u \in Tasks : u # t => pc'[u] = pc[u]
      BY <1>0, <2>3 DEF EndOldPool, Goto
    <3> QED BY <1>0, <2>1, <3>1 DEF PoolsLast, TypeOK
  <2>4. CASE (Throws(t) \/ Returns(t)) /\ UNCHANGED <<currentPool, ending>>
    BY <1>0, <2>1, <2>4 DEF Throws, Returns, Goto, PoolsLast
  <2> QED BY <1>2, <2>2, <2>3, <2>4 DEF Refresh, Fetch, FetchFails
<1>3. CASE OnPoolError
  BY <1>0, <1>3 DEF OnPoolError, Goto, PoolsLast, Running
<1>4. CASE Rotate \/ Publish \/ Signal \/ ForcedShutdown \/ \E c \in Callers : HangUp(c)
  BY <1>0, <1>4 DEF Rotate, Publish, Signal, HangUp, ForcedShutdown, PoolsLast, Running
<1>5. CASE \E p \in Pools : PoolStep(p)
  BY <1>0, <1>5 DEF PoolStep, PoolEnds, StrayEnds, IdleConnectionsExpire, PoolsLast, Running,
                    TypeOK
<1>6. CASE ClosePool
  BY <1>0, <1>6 DEF ClosePool, PoolsLast, Running
<1>7. CASE PoolClosed
  <2>1. exitCode' # None
    BY <1>7, NoneIsNeither, BoundsAreNumbers DEF PoolClosed, Versions
  <2> QED BY <1>7, <2>1 DEF PoolClosed, PoolsLast, Running
<1> QED BY <1>1, <1>2, <1>3, <1>4, <1>5, <1>6, <1>7 DEF Next, Shutdown

\* Nothing opens a pool again whose end() was called.
LEMMA EndIsForGood ==
  ASSUME TypeOK, Next, NEW p \in Pools, poolState[p] \in {"ending", "ended"}
  PROVE  poolState'[p] \in {"ending", "ended"}
<1> USE DEF dbVars, managerVars, poolVars, taskVars, exitVars
<1>0. poolState \in [Pools -> {"unborn", "open", "ending", "ended"}]
  BY DEF TypeOK
<1>1. ASSUME NEW v \in Versions \cup {None}, NewPool(v)
      PROVE  poolState'[p] \in {"ending", "ended"}
  BY <1>0, <1>1, NewPoolTypes
<1>2. ASSUME NEW c \in Callers, Step(c)
      PROVE  poolState'[p] \in {"ending", "ended"}
  <2>1. CASE InitializePool(c)
    <3>1. \E v \in Versions : NewPool(v)
      BY <2>1 DEF InitializePool, TypeOK
    <3> QED BY <1>1, <3>1
  <2>2. CASE ~InitializePool(c)
    <3>1. UNCHANGED poolState
      BY <1>2, <2>2 DEF Step, GetPool, InitializeFails, Initialized, Wrap, Connect, Serve,
                        Connected, AuthenticationFails, ConnectFails, ConnectTooLate, Catch,
                        Retry, Release
    <3> QED BY <3>1
  <2> QED BY <2>1, <2>2
<1>3. ASSUME NEW t \in Tasks, Refresh(t)
      PROVE  poolState'[p] \in {"ending", "ended"}
  <2>1. CASE RecreatePool(t)
    BY <1>1, <2>1 DEF RecreatePool, TypeOK
  <2>2. CASE Fetch(t) \/ FetchFails(t)
    BY <1>0, <2>2 DEF Fetch, FetchFails, EndOldPool
  <2> QED BY <1>3, <2>1, <2>2 DEF Refresh
<1>4. CASE \E q \in Pools : PoolStep(q)
  BY <1>0, <1>4 DEF PoolStep, PoolEnds, StrayEnds, IdleConnectionsExpire
<1>5. CASE ClosePool
  BY <1>0, <1>5 DEF ClosePool
<1>6. CASE \/ Rotate \/ Publish \/ OnPoolError \/ Signal \/ PoolClosed \/ ForcedShutdown
           \/ \E c \in Callers : HangUp(c)
  <2>1. UNCHANGED poolState
    BY <1>6 DEF Rotate, Publish, OnPoolError, Signal, HangUp, PoolClosed, ForcedShutdown
  <2> QED BY <2>1
<1> QED BY <1>2, <1>3, <1>4, <1>5, <1>6 DEF Next, Shutdown

\* A task names the pool it ends when it calls end(), and forgets it when it
\* replaces it.
LEMMA EndingNext ==
  ASSUME TypeOK, PoolsLast, EndingIsAPool, Next
  PROVE  EndingIsAPool'
<1> USE DEF dbVars, managerVars, poolVars, taskVars, exitVars
<1>0. /\ \A c \in Callers : c \in Tasks
      /\ PoolError \in Tasks /\ PoolError \notin Callers /\ Running
      /\ None \notin Pools /\ currentPool \in Pools \cup {None}
      /\ pc \in [Tasks -> Places] /\ ending \in [Tasks -> Pools \cup {None}]
      /\ poolState \in [Pools -> {"unborn", "open", "ending", "ended"}]
  BY PoolErrorIsNoCaller, NoneIsNeither DEF Tasks, Next, TypeOK, Places
<1>1. \A p \in Pools : poolState[p] \in {"ending", "ended"} =>
                         poolState'[p] \in {"ending", "ended"}
  BY EndIsForGood
\* A task that neither begins nor ends a wait for end().
<1>2. ASSUME NEW t \in Tasks, UNCHANGED ending,
             \A u \in Tasks : u # t => pc'[u] = pc[u],
             pc'[t] = "ending" <=> pc[t] = "ending"
      PROVE  EndingIsAPool'
  <2>1. \A u \in Tasks : pc'[u] = "ending" <=> pc[u] = "ending"
    BY <1>2
  <2> QED BY <1>0, <1>1, <1>2, <2>1 DEF EndingIsAPool
<1>3. ASSUME NEW c \in Callers, Step(c)
      PROVE  EndingIsAPool'
  <2>1. /\ UNCHANGED ending /\ pc[c] # "ending" /\ pc'[c] # "ending"
        /\ \A u \in Tasks : u # c => pc'[u] = pc[u]
    <3>1. CASE GetPool(c) \/ InitializePool(c) \/ InitializeFails(c) \/ Initialized(c)
      BY <1>0, <3>1 DEF GetPool, InitializePool, InitializeFails, Initialized, Wrap, Goto
    <3>2. CASE Connect(c) \/ ConnectFails(c) \/ ConnectTooLate(c) \/ Retry(c)
      BY <1>0, <3>2, RequestedIsPlace
         DEF Connect, ConnectFails, ConnectTooLate, Retry, DropFrame, Goto, Connecting
    <3>3. CASE Serve(c) \/ Connected(c) \/ AuthenticationFails(c) \/ Release(c)
      BY <1>0, <3>3 DEF Serve, Connected, Acquire, AuthenticationFails, Release, Goto, Connecting
    <3>4. CASE Catch(c)
      BY <1>0, <3>4 DEF Catch, DropFrame, Goto
    <3> QED BY <1>3, <3>1, <3>2, <3>3, <3>4 DEF Step
  <2> QED BY <1>0, <1>2, <2>1
<1>4. ASSUME NEW t \in Tasks, Refresh(t)
      PROVE  EndingIsAPool'
  <2>1. CASE RecreatePool(t)
    <3>1. /\ ending' = [ending EXCEPT ![t] = None] /\ pc'[t] # "ending"
          /\ \A u \in Tasks : u # t => pc'[u] = pc[u]
      BY <1>0, <2>1 DEF RecreatePool, Returns, Goto
    <3> QED BY <1>0, <1>1, <3>1 DEF EndingIsAPool
  <2>2. CASE Fetch(t) /\ EndOldPool(t)
    <3>1. currentPool \in Pools
      BY <1>0, <2>2 DEF Fetch, PoolsLast
    <3>2. /\ ending' = [ending EXCEPT ![t] = currentPool] /\ pc'[t] = "ending"
          /\ poolState'[currentPool] = "ending"
          /\ \A u \in Tasks : u # t => pc'[u] = pc[u]
      BY <1>0, <2>2, <3>1 DEF EndOldPool, Goto
    <3> QED BY <1>0, <1>1, <3>1, <3>2 DEF EndingIsAPool
  <2>3. CASE (Throws(t) \/ Returns(t)) /\ UNCHANGED ending /\ pc[t] = "fetching"
    <3>1. pc'[t] # "ending" /\ \A u \in Tasks : u # t => pc'[u] = pc[u]
      BY <1>0, <2>3 DEF Throws, Returns, Goto
    <3> QED BY <1>2, <2>3, <3>1
  <2> QED BY <1>4, <2>1, <2>2, <2>3 DEF Refresh, Fetch, FetchFails
<1>5. CASE OnPoolError
  <2>1. /\ UNCHANGED ending /\ pc[PoolError] # "ending" /\ pc'[PoolError] # "ending"
        /\ \A u \in Tasks : u # PoolError => pc'[u] = pc[u]
    BY <1>0, <1>5 DEF OnPoolError, Goto
  <2> QED BY <1>0, <1>2, <2>1
<1>6. CASE \/ Rotate \/ Publish \/ Shutdown
           \/ \E p \in Pools : PoolStep(p)
  <2>1. UNCHANGED <<pc, ending>>
    BY <1>6 DEF Rotate, Publish, Shutdown, Signal, HangUp, ClosePool, PoolClosed,
                ForcedShutdown, PoolStep, PoolEnds, StrayEnds, IdleConnectionsExpire
  <2> QED BY <1>0, <1>1, <2>1 DEF EndingIsAPool
<1> QED BY <1>3, <1>4, <1>5, <1>6 DEF Next

\* Only a call in use of a client holds one.
LEMMA HoldersUseNext ==
  ASSUME TypeOK, HoldersUse, Next
  PROVE  HoldersUse'
<1> USE DEF dbVars, managerVars, poolVars, taskVars, exitVars
<1>0. /\ \A c \in Callers : c \in Tasks
      /\ PoolError \notin Callers /\ PoolError \in Tasks
      /\ None \notin Pools
      /\ pc \in [Tasks -> Places] /\ held \in [Tasks -> Pools \cup {None}]
  BY PoolErrorIsNoCaller, NoneIsNeither DEF Tasks, TypeOK, Places
<1>1. ASSUME NEW c \in Callers, Step(c)
      PROVE  HoldersUse'
  <2>1. CASE GetPool(c) \/ InitializePool(c) \/ InitializeFails(c) \/ Initialized(c)
    BY <1>0, <2>1 DEF GetPool, InitializePool, InitializeFails, Initialized, Wrap, Goto,
                      HoldersUse
  <2>2. CASE Connect(c) \/ AuthenticationFails(c) \/ ConnectFails(c) \/ ConnectTooLate(c)
             \/ Catch(c) \/ Retry(c)
    BY <1>0, <2>2 DEF Connect, AuthenticationFails, ConnectFails, ConnectTooLate, Catch, Retry,
                      DropFrame, Goto, HoldersUse, Connecting
  <2>3. CASE Serve(c) \/ Connected(c) \/ Release(c)
    BY <1>0, <2>3 DEF Serve, Connected, Release, Acquire, Goto, HoldersUse
  <2> QED BY <1>1, <2>1, <2>2, <2>3 DEF Step
<1>2. ASSUME NEW t \in Tasks, Refresh(t)
      PROVE  HoldersUse'
  <2>1. /\ UNCHANGED held /\ pc[t] \in Refreshing
        /\ \A u \in Tasks : u # t => pc'[u] = pc[u]
    BY <1>0, <1>2 DEF Refresh, Fetch, FetchFails, RecreatePool, EndOldPool, Throws, Returns,
                      Goto, Refreshing
  <2> QED BY <1>0, <2>1 DEF HoldersUse, Refreshing
<1>3. CASE OnPoolError
  BY <1>0, <1>3 DEF OnPoolError, Goto, HoldersUse
<1>4. CASE Rotate \/ Publish \/ Shutdown \/ \E p \in Pools : PoolStep(p)
  BY <1>0, <1>4 DEF Rotate, Publish, Shutdown, Signal, HangUp, ClosePool, PoolClosed,
                    ForcedShutdown, PoolStep, PoolEnds, StrayEnds, IdleConnectionsExpire,
                    HoldersUse
<1> QED BY <1>1, <1>2, <1>3, <1>4 DEF Next

\* What the shutdown knows only the shutdown changes.
LEMMA OnlyShutdownShuts ==
  ASSUME Next, ~Shutdown
  PROVE  UNCHANGED exitVars
<1> USE DEF dbVars, managerVars, poolVars, taskVars
<1>1. ASSUME NEW c \in Callers, Step(c)
      PROVE  UNCHANGED exitVars
  BY <1>1 DEF Step, GetPool, InitializePool, InitializeFails, Initialized, Connect, Serve,
              Connected, AuthenticationFails, ConnectFails, ConnectTooLate, Catch, Retry, Release
<1>2. ASSUME NEW t \in Tasks, Refresh(t)
      PROVE  UNCHANGED exitVars
  BY <1>2 DEF Refresh, Fetch, FetchFails, RecreatePool
<1>3. ASSUME Rotate \/ Publish \/ OnPoolError \/ \E p \in Pools : PoolStep(p)
      PROVE  UNCHANGED exitVars
  BY <1>3 DEF Rotate, Publish, OnPoolError, PoolStep, PoolEnds, StrayEnds, IdleConnectionsExpire
<1> QED BY <1>1, <1>2, <1>3 DEF Next

\* A server that was closed has no connection, and gets none.
LEMMA ClosedIsDrainedNext ==
  ASSUME ClosedIsDrained, Next
  PROVE  ClosedIsDrained'
<1>1. CASE ~Shutdown
  BY <1>1, OnlyShutdownShuts DEF ClosedIsDrained, Drained, exitVars
<1>2. CASE Shutdown
  BY <1>2 DEF Shutdown, Signal, HangUp, ClosePool, PoolClosed, ForcedShutdown, ClosedIsDrained,
              Drained
<1> QED BY <1>1, <1>2

\* What one task does to its place and to the flag.
LEMMA RefreshersNext ==
  ASSUME TypeOK, OneRefreshAtATime, Next
  PROVE  OneRefreshAtATime'
<1> USE DEF dbVars, managerVars, poolVars, taskVars, exitVars
<1>0. /\ \A c \in Callers : c \in Tasks
      /\ PoolError \notin Callers /\ PoolError \in Tasks
      /\ pc \in [Tasks -> Places] /\ isRefreshing \in BOOLEAN
  BY PoolErrorIsNoCaller DEF Tasks, TypeOK, Places
\* A task that neither begins nor ends a refresh.
<1>1. ASSUME NEW t \in Tasks, UNCHANGED isRefreshing,
             \A u \in Tasks : u # t => pc'[u] = pc[u],
             pc'[t] \in Refreshing <=> pc[t] \in Refreshing
      PROVE  OneRefreshAtATime'
  <2>1. \A u \in Tasks : pc'[u] \in Refreshing <=> pc[u] \in Refreshing
    BY <1>1
  <2> QED BY <1>1, <2>1 DEF OneRefreshAtATime
\* One that begins one.
<1>2. ASSUME NEW t \in Tasks, ~isRefreshing, isRefreshing', Goto(t, "fetching")
      PROVE  OneRefreshAtATime'
  <2>1. \A u \in Tasks : pc'[u] \in Refreshing <=> u = t
    BY <1>0, <1>2 DEF OneRefreshAtATime, Goto, Refreshing
  <2> QED BY <1>2, <2>1 DEF OneRefreshAtATime
\* One that ends its own.
<1>3. ASSUME NEW t \in Tasks, pc[t] \in Refreshing, Throws(t) \/ Returns(t)
      PROVE  OneRefreshAtATime'
  <2>1. pc'[t] \notin Refreshing /\ \A u \in Tasks : u # t => pc'[u] = pc[u]
    BY <1>0, <1>3 DEF Throws, Returns, Goto, Refreshing
  <2>2. \A u \in Tasks : pc'[u] \notin Refreshing
    BY <1>3, <2>1 DEF OneRefreshAtATime
  <2> QED BY <1>3, <2>2 DEF OneRefreshAtATime, Throws, Returns
<1>4. ASSUME NEW c \in Callers, Step(c)
      PROVE  OneRefreshAtATime'
  <2>1. CASE Catch(c) /\ Goto(c, "fetching")
    BY <1>0, <1>2, <2>1 DEF Catch, MayRefresh, DropFrame, Goto
  <2>2. CASE ~(Catch(c) /\ Goto(c, "fetching"))
    <3>1. /\ pc[c] \notin Refreshing /\ pc'[c] \notin Refreshing /\ UNCHANGED isRefreshing
          /\ \A u \in Tasks : u # c => pc'[u] = pc[u]
      <4>1. CASE GetPool(c) \/ InitializeFails(c) \/ Initialized(c)
        BY <1>0, <4>1 DEF GetPool, InitializeFails, Initialized, Wrap, Goto, Refreshing
      <4>2. CASE InitializePool(c)
        BY <1>0, <4>2 DEF InitializePool, Goto, Refreshing
      <4>3. CASE Connect(c) \/ ConnectFails(c) \/ ConnectTooLate(c) \/ Retry(c)
        BY <1>0, <4>3, RequestedIsPlace
           DEF Connect, ConnectFails, ConnectTooLate, Retry, DropFrame, Goto, Refreshing,
               Connecting
      <4>4. CASE Serve(c) \/ Connected(c) \/ AuthenticationFails(c) \/ Release(c)
        BY <1>0, <4>4 DEF Serve, Connected, Acquire, AuthenticationFails, Release, Goto,
                          Refreshing, Connecting
      <4>5. CASE Catch(c)
        BY <1>0, <2>2, <4>5 DEF Catch, DropFrame, Goto, Refreshing
      <4> QED BY <1>4, <4>1, <4>2, <4>3, <4>4, <4>5 DEF Step
    <3> QED BY <1>0, <1>1, <3>1
  <2> QED BY <2>1, <2>2
<1>5. ASSUME NEW t \in Tasks, Refresh(t)
      PROVE  OneRefreshAtATime'
  <2>1. pc[t] \in Refreshing
    BY <1>5 DEF Refresh, Fetch, FetchFails, RecreatePool, Refreshing
  <2>2. CASE Throws(t) \/ Returns(t)
    BY <1>3, <2>1, <2>2
  <2>3. CASE Fetch(t) /\ EndOldPool(t)
    <3>1. /\ pc'[t] \in Refreshing /\ UNCHANGED isRefreshing
          /\ \A u \in Tasks : u # t => pc'[u] = pc[u]
      BY <1>0, <2>3 DEF EndOldPool, Goto, Refreshing
    <3> QED BY <1>1, <2>1, <3>1
  <2> QED BY <1>5, <2>2, <2>3 DEF Refresh, Fetch, FetchFails, RecreatePool
<1>6. CASE OnPoolError
  BY <1>0, <1>2, <1>6 DEF OnPoolError
<1>7. CASE \/ Rotate \/ Publish \/ Shutdown
           \/ \E p \in Pools : PoolStep(p)
  BY <1>7 DEF Rotate, Publish, Shutdown, Signal, HangUp, ClosePool, PoolClosed, ForcedShutdown,
              PoolStep, PoolEnds, StrayEnds, IdleConnectionsExpire, OneRefreshAtATime
<1> QED BY <1>4, <1>5, <1>6, <1>7 DEF Next

\* Only NewPool gives a pool its password, and it makes that pool, and those
\* credentials, the current ones.
LEMMA CredentialsNext ==
  ASSUME TypeOK, CredentialsMatchPool, Next
  PROVE  CredentialsMatchPool'
<1> USE DEF dbVars, managerVars, poolVars, taskVars, exitVars
<1>1. ASSUME NEW v \in Versions \cup {None}, NewPool(v)
      PROVE  CredentialsMatchPool'
  BY <1>1, NewPoolTypes DEF CredentialsMatchPool, TypeOK
<1>2. CASE \E c \in Callers : InitializePool(c)
  <2>1. \E v \in Versions : NewPool(v)
    BY <1>2 DEF InitializePool, TypeOK
  <2> QED BY <1>1, <2>1
<1>3. CASE \E t \in Tasks : RecreatePool(t)
  BY <1>1, <1>3 DEF RecreatePool, TypeOK
<1>4. CASE UNCHANGED <<currentPool, password, currentCredentials>>
  BY <1>4 DEF CredentialsMatchPool
<1>5. CASE PoolClosed
  BY <1>5 DEF PoolClosed, CredentialsMatchPool
<1>6. ASSUME NEW c \in Callers, Step(c), ~InitializePool(c)
      PROVE  UNCHANGED <<currentPool, password, currentCredentials>>
  BY <1>6 DEF Step, GetPool, InitializeFails, Initialized, Wrap, Connect, Serve, Connected,
              AuthenticationFails, ConnectFails, ConnectTooLate, Catch, Retry, Release
<1>7. ASSUME NEW t \in Tasks, Refresh(t), ~RecreatePool(t)
      PROVE  UNCHANGED <<currentPool, password, currentCredentials>>
  BY <1>7 DEF Refresh, Fetch, FetchFails, EndOldPool
<1>8. CASE \/ Rotate \/ Publish \/ OnPoolError \/ Signal \/ ClosePool \/ ForcedShutdown
           \/ \E c \in Callers : HangUp(c)
           \/ \E p \in Pools : PoolStep(p)
  BY <1>4, <1>8 DEF Rotate, Publish, OnPoolError, Signal, HangUp, ClosePool, ForcedShutdown,
                    PoolStep, PoolEnds, StrayEnds, IdleConnectionsExpire
<1> QED BY <1>2, <1>3, <1>4, <1>5, <1>6, <1>7, <1>8 DEF Next, Shutdown

(* --------------- the turnover of pools, step by step ------------------ *)

UseIsOne ==
  \A c \in Callers : \A p, q \in Pools : c \in Users(p) /\ c \in Users(q) => p = q

\* A call uses one pool at a time.
LEMMA OnePoolEach == HoldersUse => UseIsOne
<1> SUFFICES ASSUME HoldersUse, NEW c \in Callers, NEW p \in Pools, NEW q \in Pools,
                    c \in Users(p), c \in Users(q)
             PROVE  p = q
  BY DEF UseIsOne
<1>1. p # None /\ q # None
  BY NoneIsNeither
<1>2. held[c] = p \/ (pc[c] \in Connecting /\ TopPool(c) = p)
  BY DEF Users
<1>3. held[c] = q \/ (pc[c] \in Connecting /\ TopPool(c) = q)
  BY DEF Users
<1>4. held[c] # None => pc[c] = "using"
  BY DEF HoldersUse
<1> QED BY <1>1, <1>2, <1>3, <1>4 DEF Connecting

\* A call that neither connects nor has a client uses no pool.
LEMMA NotInUse ==
  ASSUME TypeOK, HoldersUse, NEW t \in Tasks, pc[t] \notin {"using"} \cup Connecting
  PROVE  ~Turnover!Uses(t)
<1>1. \A p \in Pools : t \notin Users(p)
  BY NoneIsNeither DEF Users, HoldersUse, Tasks
<1> QED BY <1>1 DEF Turnover!Uses, PoolUsers

TurnoverStep == Turnover!Next \/ UNCHANGED Turnover!turnoverVars

\* What a call that does not move uses.
LEMMA UseStays ==
  ASSUME NEW c \in Callers, pc'[c] = pc[c], stack'[c] = stack[c], held'[c] = held[c],
         NEW p \in Pools
  PROVE  c \in Users(p)' <=> c \in Users(p)
BY DEF Users, TopPool

\* A step of one call after which it uses no pool is that it leaves the one it
\* used, if it used one.
LEMMA LeaveIsTurnover ==
  ASSUME TypeOK, HoldersUse, NEW c \in Callers,
         UNCHANGED <<poolState, currentPool, ending, closing>>,
         \A u \in Callers : u # c => pc'[u] = pc[u] /\ stack'[u] = stack[u] /\ held'[u] = held[u],
         \A p \in Pools : c \notin Users(p)'
  PROVE  TurnoverStep
<1>1. \A p \in Pools : Users(p)' = Users(p) \ {c}
  <2> SUFFICES ASSUME NEW p \in Pools, NEW u \in Callers
               PROVE  u \in Users(p)' <=> u \in Users(p) /\ u # c
    BY DEF Users
  <2> QED BY UseStays
<1>2. CASE \E q \in Pools : c \in Users(q)
  <2>1. PICK q \in Pools : c \in Users(q)
    BY <1>2
  <2>2. ASSUME NEW p \in Pools, p # q
        PROVE  Users(p)' = Users(p)
    <3>1. c \notin Users(p)
      BY <2>1, <2>2, OnePoolEach DEF UseIsOne
    <3> QED BY <1>1, <3>1
  <2>3. PoolUsers' = [PoolUsers EXCEPT ![q] = @ \ {c}]
    BY <1>1, <2>1, <2>2 DEF PoolUsers
  <2>4. Turnover!Leave(c, q)
    BY <2>1, <2>3 DEF Turnover!Leave, PoolUsers
  <2> QED BY <2>4 DEF TurnoverStep, Turnover!Next
<1>3. CASE \A q \in Pools : c \notin Users(q)
  <2>1. \A p \in Pools : Users(p)' = Users(p)
    BY <1>1, <1>3
  <2>2. PoolUsers' = PoolUsers
    BY <2>1 DEF PoolUsers
  <2> QED BY <2>2 DEF TurnoverStep, Turnover!turnoverVars
<1> QED BY <1>2, <1>3

\* A step of one call that begins to connect, or is handed an idle client, is that
\* it joins an open pool.
LEMMA JoinIsTurnover ==
  ASSUME TypeOK, HoldersUse, EndingIsAPool, NEW c \in Callers, NEW q \in Pools,
         poolState[q] = "open", pc[c] \notin {"using", "ending"} \cup Connecting,
         UNCHANGED <<poolState, currentPool, ending, closing>>,
         \A u \in Callers : u # c => pc'[u] = pc[u] /\ stack'[u] = stack[u] /\ held'[u] = held[u],
         \A p \in Pools : c \in Users(p)' <=> p = q
  PROVE  TurnoverStep
<1>1. c \in Tasks /\ ending[c] = None
  BY DEF Tasks, EndingIsAPool
<1>2. ~Turnover!Uses(c)
  BY <1>1, NotInUse
<1>3. \A p \in Pools : c \notin Users(p)
  BY <1>2 DEF Turnover!Uses, PoolUsers
<1>4. \A p \in Pools : Users(p)' = IF p = q THEN Users(p) \cup {c} ELSE Users(p)
  <2> SUFFICES ASSUME NEW p \in Pools, NEW u \in Callers
               PROVE  u \in Users(p)' <=> u \in Users(p) \/ (p = q /\ u = c)
    BY DEF Users
  <2>1. CASE u = c
    BY <1>3, <2>1
  <2>2. CASE u # c
    BY <2>2, UseStays
  <2> QED BY <2>1, <2>2
<1>5. PoolUsers' = [PoolUsers EXCEPT ![q] = @ \cup {c}]
  BY <1>4 DEF PoolUsers
<1>6. Turnover!Join(c, q)
  BY <1>1, <1>2, <1>5 DEF Turnover!Join
<1> QED BY <1>6 DEF TurnoverStep, Turnover!Next

\* What the calls use while none of them begins or ends a use.
LEMMA UsersStay ==
  ASSUME \A c \in Callers : \A p \in Pools : c \in Users(p)' <=> c \in Users(p)
  PROVE  PoolUsers' = PoolUsers
<1>1. \A p \in Pools : Users(p)' = Users(p)
  BY DEF Users
<1> QED BY <1>1 DEF PoolUsers

\* A step of a task that uses no pool before or after.
LEMMA IdleUsersStay ==
  ASSUME TypeOK, HoldersUse, NEW t \in Tasks, UNCHANGED <<held, stack>>,
         pc[t] \notin {"using"} \cup Connecting, pc'[t] \notin Connecting,
         \A u \in Tasks : u # t => pc'[u] = pc[u]
  PROVE  PoolUsers' = PoolUsers
<1>1. ASSUME NEW c \in Callers, NEW p \in Pools
      PROVE  c \in Users(p)' <=> c \in Users(p)
  <2>1. CASE c = t
    BY <2>1, NoneIsNeither DEF Users, HoldersUse
  <2>2. CASE c # t
    BY <2>2, UseStays DEF Tasks
  <2> QED BY <2>1, <2>2
<1> QED BY <1>1, UsersStay

\* A call's step is one of a user of a pool: it joins an open one, leaves the
\* one it used, or opens the first.
LEMMA CallIsTurnover ==
  ASSUME TypeOK, InsideConnects, PoolsLast, HoldersUse, EndingIsAPool, Running,
         NEW c \in Callers, Step(c)
  PROVE  TurnoverStep
<1> USE DEF dbVars, managerVars, poolVars, taskVars, exitVars
<1> DEFINE OthersStay == \A u \in Callers : u # c => /\ pc'[u] = pc[u] /\ stack'[u] = stack[u]
                                                     /\ held'[u] = held[u]
<1>0. /\ \A u \in Callers : u \in Tasks
      /\ None \notin Pools /\ currentPool \in Pools \cup {None}
      /\ pc \in [Tasks -> Places] /\ held \in [Tasks -> Pools \cup {None}]
      /\ stack \in [Tasks -> Seq(Frame)]
  BY NoneIsNeither DEF Tasks, TypeOK, Places
\* A step after which the call does not connect and has no client.
<1>1. ASSUME UNCHANGED <<poolState, currentPool, ending, closing>>, pc'[c] \notin Connecting,
             held'[c] = None, OthersStay
      PROVE  TurnoverStep
  <2>1. \A p \in Pools : c \notin Users(p)'
    BY <1>0, <1>1 DEF Users
  <2> QED BY <1>1, <2>1, LeaveIsTurnover
<1>2. ASSUME UNCHANGED <<poolState, currentPool, ending, closing, held>>, DropFrame(c),
             pc[c] # "using"
      PROVE  TurnoverStep
  <2>1. pc'[c] \notin Connecting /\ held'[c] = None /\ OthersStay
    BY <1>0, <1>2 DEF DropFrame, Goto, HoldersUse, Connecting
  <2> QED BY <1>1, <1>2, <2>1
\* What the pool makes of a connect.
<1>3. ASSUME UNCHANGED <<poolState, currentPool, ending, closing, held>>,
             NEW q \in Pools, poolState[q] = "open", Goto(c, Requested(q)), TopPool(c)' = q,
             pc[c] \notin {"using", "ending"} \cup Connecting, OthersStay
      PROVE  TurnoverStep
  <2>1. held[c] = None /\ held'[c] = None
    BY <1>3 DEF HoldersUse
  <2>2. CASE Requested(q) = "queued"
    <3>1. pc'[c] \notin Connecting
      BY <1>0, <1>3, <2>2 DEF Goto, Connecting
    <3> QED BY <1>1, <1>3, <2>1, <3>1
  <2>3. CASE Requested(q) = "connecting"
    <3>1. pc'[c] \in Connecting
      BY <1>0, <1>3, <2>3 DEF Goto, Connecting
    <3>2. \A p \in Pools : c \in Users(p)' <=> p = q
      BY <1>0, <1>3, <2>1, <3>1 DEF Users
    <3> QED BY <1>3, <3>2, JoinIsTurnover
  <2> QED BY <2>2, <2>3, RequestedIsPlace
<1>4. CASE GetPool(c) \/ InitializeFails(c) \/ Initialized(c)
  <2>1. /\ UNCHANGED <<poolState, currentPool, ending, closing>> /\ pc'[c] \notin Connecting
        /\ held'[c] = None /\ OthersStay
    BY <1>0, <1>4 DEF GetPool, InitializeFails, Initialized, Wrap, Goto, HoldersUse, Connecting
  <2> QED BY <1>1, <2>1
<1>5. CASE InitializePool(c)
  <2>1. PICK v \in Versions : NewPool(v)
    BY <1>5 DEF InitializePool, TypeOK
  <2>2. /\ currentPool' \in Pools /\ poolState[currentPool'] = "unborn"
        /\ poolState' = [poolState EXCEPT ![currentPool'] = "open"]
    BY <2>1, NewPoolTypes
  <2>3. /\ UNCHANGED <<held, stack, ending, closing>> /\ pc[c] \notin {"using"} \cup Connecting
        /\ pc'[c] \notin Connecting /\ \A u \in Tasks : u # c => pc'[u] = pc[u]
    BY <1>0, <1>5 DEF InitializePool, Goto, Connecting
  <2>4. PoolUsers' = PoolUsers
    BY <1>0, <2>3, IdleUsersStay
  <2>5. Turnover!OpenFirst(currentPool')
    BY <2>2, <2>3, <2>4 DEF Turnover!OpenFirst, Turnover!Open
  <2> QED BY <2>2, <2>5 DEF TurnoverStep, Turnover!Next
<1>6. CASE Connect(c)
  <2> DEFINE w == wraps[TopPool(c)]
             s == [stack[c] EXCEPT ![Len(stack[c])] =
                     [stack[c][Len(stack[c])] EXCEPT !.wrappers = w]]
  <2>0. /\ UNCHANGED <<poolState, currentPool, ending, closing, held>>
        /\ pc[c] \notin {"using", "ending"} \cup Connecting /\ pc[c] = "gotPool"
    BY <1>6 DEF Connect, Connecting
  <2>1. CASE DropFrame(c)
    BY <1>2, <2>0, <2>1
  <2>2. CASE /\ poolState[TopPool(c)] = "open"
             /\ stack' = [stack EXCEPT ![c][Len(stack[c])].wrappers = w]
             /\ Goto(c, Requested(TopPool(c)))
    <3>1. /\ stack[c] \in Seq(Frame) /\ stack[c] # <<>> /\ w \in 0..Cardinality(Callers)
          /\ TopPool(c) \in Pools
      BY <2>0, TopIsFrame DEF TypeOK
    <3>2. s[Len(s)].pool = TopPool(c)
      BY <3>1, FrameUpdate DEF TopPool
    <3>3. stack' = [stack EXCEPT ![c] = s]
      BY <2>2
    <3>4. stack'[c] = s /\ OthersStay
      BY <1>0, <2>0, <2>2, <3>3 DEF Goto
    <3>5. TopPool(c)' = TopPool(c)
      BY <3>2, <3>4 DEF TopPool
    <3> QED BY <1>3, <2>0, <2>2, <3>1, <3>4, <3>5
  <2> QED BY <1>6, <2>1, <2>2 DEF Connect
<1>7. CASE Serve(c)
  <2>0. /\ UNCHANGED <<poolState, currentPool, ending, closing>> /\ pc[c] = "queued"
        /\ poolState[TopPool(c)] = "open" /\ held[c] = None
        /\ pc[c] \notin {"using", "ending"} \cup Connecting
    BY <1>7 DEF Serve, Connecting, HoldersUse
  <2>1. TopPool(c) \in Pools
    BY <2>0, TopIsFrame
  <2>2. CASE Acquire(c)
    <3>1. held'[c] = TopPool(c) /\ pc'[c] \notin Connecting /\ OthersStay
      BY <1>0, <2>2 DEF Acquire, Goto, Connecting
    <3>2. \A p \in Pools : c \in Users(p)' <=> p = TopPool(c)
      BY <1>0, <3>1 DEF Users
    <3> QED BY <2>0, <2>1, <3>1, <3>2, JoinIsTurnover
  <2>3. CASE Goto(c, "promoted") /\ UNCHANGED <<held, stack>>
    <3>1. held'[c] = None /\ pc'[c] \in Connecting /\ TopPool(c)' = TopPool(c) /\ OthersStay
      BY <1>0, <2>0, <2>3 DEF Goto, Connecting, TopPool
    <3>2. \A p \in Pools : c \in Users(p)' <=> p = TopPool(c)
      BY <1>0, <3>1 DEF Users
    <3> QED BY <2>0, <2>1, <3>1, <3>2, JoinIsTurnover
  <2> QED BY <1>7, <2>2, <2>3 DEF Serve
<1>8. CASE Connected(c)
  <2>1. /\ held'[c] = TopPool(c) /\ pc'[c] \notin Connecting /\ pc[c] \in Connecting
        /\ UNCHANGED <<poolState, currentPool, ending, closing>> /\ OthersStay
    BY <1>0, <1>8 DEF Connected, Acquire, Goto, Connecting
  <2>2. held[c] = None
    BY <2>1 DEF HoldersUse, Connecting
  <2>3. ASSUME NEW u \in Callers, NEW p \in Pools
        PROVE  u \in Users(p)' <=> u \in Users(p)
    <3>1. CASE u = c
      BY <1>0, <2>1, <2>2, <3>1 DEF Users
    <3>2. CASE u # c
      BY <2>1, <3>2, UseStays
    <3> QED BY <3>1, <3>2
  <2>4. PoolUsers' = PoolUsers
    BY <2>3, UsersStay
  <2> QED BY <2>1, <2>4 DEF TurnoverStep, Turnover!turnoverVars
<1>9. CASE AuthenticationFails(c) \/ Release(c)
  <2>1. /\ UNCHANGED <<poolState, currentPool, ending, closing>> /\ pc'[c] \notin Connecting
        /\ held'[c] = None /\ OthersStay
    BY <1>0, <1>9 DEF AuthenticationFails, Release, Goto, HoldersUse, Connecting
  <2> QED BY <1>1, <2>1
<1>10. CASE ConnectFails(c) \/ ConnectTooLate(c)
  BY <1>2, <1>10 DEF ConnectFails, ConnectTooLate, Connecting
<1>11. CASE Catch(c)
  <2>0. UNCHANGED <<poolState, currentPool, ending, closing, held>> /\ pc[c] = "rejected"
    BY <1>11 DEF Catch
  <2>1. CASE DropFrame(c)
    BY <1>2, <2>0, <2>1
  <2>2. CASE ~DropFrame(c)
    <3>1. pc'[c] \notin Connecting /\ held'[c] = None /\ OthersStay
      BY <1>0, <1>11, <2>0, <2>2 DEF Catch, Goto, HoldersUse, Connecting
    <3> QED BY <1>1, <2>0, <3>1
  <2> QED BY <2>1, <2>2
<1>12. CASE Retry(c)
  <2> DEFINE f == [pool |-> currentPool, wrappers |-> wraps[currentPool]]
             s == Append(stack[c], f)
  <2>0. /\ UNCHANGED <<poolState, currentPool, ending, closing, held>>
        /\ pc[c] = "refreshed" /\ pc[c] \notin {"using", "ending"} \cup Connecting
    BY <1>12 DEF Retry, Connecting
  <2>1. CASE Goto(c, "rejected") /\ UNCHANGED stack
    <3>1. pc'[c] \notin Connecting /\ held'[c] = None /\ OthersStay
      BY <1>0, <2>0, <2>1 DEF Goto, HoldersUse, Connecting
    <3> QED BY <1>1, <2>0, <3>1
  <2>2. CASE /\ poolState[currentPool] = "open" /\ Goto(c, Requested(currentPool))
             /\ stack' = [stack EXCEPT ![c] = Append(@, f)]
    <3>1. currentPool \in Pools
      BY <1>0, <2>0 DEF PoolsLast
    <3>2. f \in Frame /\ stack[c] \in Seq(Frame)
      BY <1>0, <3>1 DEF Frame, TypeOK
    <3>3. s[Len(s)].pool = currentPool
      BY <3>2
    <3>4. stack' = [stack EXCEPT ![c] = s]
      BY <2>2
    <3>5. stack'[c] = s /\ OthersStay
      BY <1>0, <2>0, <2>2, <3>4 DEF Goto
    <3>6. TopPool(c)' = currentPool
      BY <3>3, <3>5 DEF TopPool
    <3> QED BY <1>3, <2>0, <2>2, <3>1, <3>5, <3>6
  <2> QED BY <1>12, <2>1, <2>2 DEF Retry
<1> QED BY <1>4, <1>5, <1>6, <1>7, <1>8, <1>9, <1>10, <1>11, <1>12 DEF Step

\* A refresh ends the pool in use, or replaces the one it ended.
LEMMA RefreshIsTurnover ==
  ASSUME TypeOK, PoolsLast, HoldersUse, EndingIsAPool, OneRefreshAtATime, Running,
         NEW t \in Tasks, Refresh(t)
  PROVE  TurnoverStep
<1> USE DEF dbVars, managerVars, poolVars, taskVars, exitVars
<1>0. /\ None \notin Pools /\ currentPool \in Pools \cup {None}
      /\ pc \in [Tasks -> Places]
  BY NoneIsNeither DEF TypeOK, Places
<1>1. /\ pc[t] \in Refreshing /\ pc[t] \notin {"using"} \cup Connecting
      /\ UNCHANGED <<held, stack, closing>> /\ pc'[t] \notin Connecting
      /\ \A u \in Tasks : u # t => pc'[u] = pc[u]
  BY <1>0 DEF Refresh, Fetch, FetchFails, RecreatePool, EndOldPool, Throws, Returns, Goto,
              Refreshing, Connecting
<1>2. PoolUsers' = PoolUsers
  BY <1>1, IdleUsersStay
<1>3. CASE UNCHANGED <<poolState, currentPool, ending>>
  BY <1>1, <1>2, <1>3 DEF TurnoverStep, Turnover!turnoverVars
<1>4. CASE RecreatePool(t)
  <2>1. /\ NewPool(fetched[t]) /\ fetched[t] \in Versions \cup {None}
        /\ pc[t] = "ending" /\ poolState[ending[t]] = "ended"
        /\ ending' = [ending EXCEPT ![t] = None]
    BY <1>4 DEF RecreatePool, TypeOK
  <2>2. /\ currentPool' \in Pools /\ poolState[currentPool'] = "unborn"
        /\ poolState' = [poolState EXCEPT ![currentPool'] = "open"]
    BY <2>1, NewPoolTypes
  <2>3. ending[t] # None
    BY <2>1 DEF EndingIsAPool
  <2>4. Turnover!Replace(t, currentPool')
    BY <1>1, <1>2, <2>1, <2>2, <2>3 DEF Turnover!Replace, Turnover!Open
  <2> QED BY <2>2, <2>4 DEF TurnoverStep, Turnover!Next
<1>5. CASE Fetch(t) /\ EndOldPool(t)
  <2>1. currentPool # None
    BY <1>0, <1>5 DEF Fetch, PoolsLast
  <2>2. \A u \in Tasks : ending[u] = None
    BY <1>5 DEF Fetch, OneRefreshAtATime, Refreshing, EndingIsAPool
  <2>3. ~Turnover!Uses(t)
    BY <1>1, NotInUse
  <2>4. /\ poolState[currentPool] = "open"
        /\ poolState' = [poolState EXCEPT ![currentPool] = "ending"]
        /\ ending' = [ending EXCEPT ![t] = currentPool] /\ UNCHANGED currentPool
    BY <1>5 DEF EndOldPool
  <2>5. Turnover!EndToReplace(t)
    BY <1>1, <1>2, <2>1, <2>2, <2>3, <2>4 DEF Turnover!EndToReplace, Turnover!End
  <2> QED BY <2>5 DEF TurnoverStep, Turnover!Next
<1>6. CASE (Fetch(t) /\ ~EndOldPool(t)) \/ FetchFails(t)
  BY <1>3, <1>6 DEF Fetch, FetchFails
<1> QED BY <1>4, <1>5, <1>6 DEF Refresh

\* The rest: a pool ends, the shutdown closes the last one, and what does not
\* touch a pool.
LEMMA StepIsTurnover == PoolInv /\ [Next]_vars => TurnoverStep
<1> SUFFICES ASSUME PoolInv, [Next]_vars PROVE TurnoverStep
  OBVIOUS
<1> USE DEF dbVars, managerVars, poolVars, taskVars, exitVars
<1>0. /\ TypeOK /\ InsideConnects /\ PoolsLast /\ HoldersUse /\ EndingIsAPool
      /\ OneRefreshAtATime
      /\ PoolError \in Tasks /\ None \notin Pools
      /\ pc \in [Tasks -> Places]
  BY NoneIsNeither DEF PoolInv, TypeOK, Places, Tasks
<1>1. UNCHANGED <<pc, stack, held>> => PoolUsers' = PoolUsers
  BY UsersStay DEF Users, TopPool
<1>2. CASE \E c \in Callers : Next /\ Step(c)
  BY <1>0, <1>2, CallIsTurnover DEF Next
<1>3. CASE \E t \in Tasks : Next /\ Refresh(t)
  BY <1>0, <1>3, RefreshIsTurnover DEF Next
<1>4. CASE OnPoolError
  <2>1. /\ UNCHANGED <<held, stack, poolState, currentPool, ending, closing>>
        /\ pc[PoolError] \notin {"using"} \cup Connecting /\ pc'[PoolError] \notin Connecting
        /\ \A u \in Tasks : u # PoolError => pc'[u] = pc[u]
    BY <1>0, <1>4 DEF OnPoolError, Goto, Connecting
  <2>2. PoolUsers' = PoolUsers
    BY <1>0, <2>1, IdleUsersStay
  <2> QED BY <2>1, <2>2 DEF TurnoverStep, Turnover!turnoverVars
<1>5. ASSUME NEW p \in Pools, PoolEnds(p)
      PROVE  TurnoverStep
  <2>1. /\ poolState[p] = "ending" /\ Users(p) = {}
        /\ poolState' = [poolState EXCEPT ![p] = "ended"]
        /\ UNCHANGED <<pc, stack, held, currentPool, ending, closing>>
    BY <1>5 DEF PoolEnds
  <2>2. Turnover!Ended(p)
    BY <1>1, <2>1 DEF Turnover!Ended, PoolUsers
  <2> QED BY <2>2 DEF TurnoverStep, Turnover!Next
<1>6. CASE ClosePool
  <2>1. UNCHANGED <<pc, stack, held, currentPool, ending>>
    BY <1>6 DEF ClosePool
  <2>2. CASE UNCHANGED <<poolState, closing>>
    BY <1>1, <2>1, <2>2 DEF TurnoverStep, Turnover!turnoverVars
  <2>3. CASE /\ currentPool # None /\ poolState[currentPool] = "open"
             /\ poolState' = [poolState EXCEPT ![currentPool] = "ending"]
             /\ closing' = closing \cup {currentPool}
    <3>1. Turnover!EndToClose
      BY <1>1, <2>1, <2>3 DEF Turnover!EndToClose, Turnover!End
    <3> QED BY <3>1 DEF TurnoverStep, Turnover!Next
  <2> QED BY <1>6, <2>2, <2>3 DEF ClosePool
<1>7. CASE PoolClosed
  <2>1. /\ UNCHANGED <<pc, stack, held, poolState, ending, closing>> /\ currentPool' = None
        /\ \E p \in closing : poolState[p] = "ended"
    BY <1>7 DEF PoolClosed
  <2>2. Turnover!Close
    BY <1>1, <2>1 DEF Turnover!Close
  <2> QED BY <2>2 DEF TurnoverStep, Turnover!Next
<1>8. CASE \/ Rotate \/ Publish \/ Signal \/ ForcedShutdown \/ UNCHANGED vars
           \/ \E c \in Callers : HangUp(c)
           \/ \E p \in Pools : StrayEnds(p) \/ IdleConnectionsExpire(p)
  <2>1. UNCHANGED <<pc, stack, held, poolState, currentPool, ending, closing>>
    BY <1>8 DEF Rotate, Publish, Signal, ForcedShutdown, HangUp, StrayEnds,
                IdleConnectionsExpire, vars
  <2> QED BY <1>1, <2>1 DEF TurnoverStep, Turnover!turnoverVars
<1> QED BY <1>2, <1>3, <1>4, <1>5, <1>6, <1>7, <1>8 DEF Next, Shutdown, PoolStep

\* A pool that ended gets no user: nobody joins one that is not open.
LEMMA EndedIsIdleNext ==
  ASSUME TypeOK, EndedIsIdle, TurnoverStep
  PROVE  EndedIsIdle'
<1>0. /\ poolState \in [Pools -> {"unborn", "open", "ending", "ended"}]
      /\ PoolUsers = [p \in Pools |-> Users(p)] /\ PoolUsers' = [p \in Pools |-> Users(p)']
  BY DEF TypeOK, PoolUsers
<1>1. SUFFICES ASSUME NEW p \in Pools, poolState'[p] = "ended" PROVE PoolUsers'[p] = {}
  BY <1>0 DEF EndedIsIdle
<1>2. poolState[p] = "ended" => PoolUsers[p] = {}
  BY <1>0 DEF EndedIsIdle
<1>3. CASE UNCHANGED Turnover!turnoverVars
  BY <1>1, <1>2, <1>3 DEF Turnover!turnoverVars
<1>4. CASE \E q \in Pools : Turnover!OpenFirst(q)
  BY <1>0, <1>1, <1>2, <1>4 DEF Turnover!OpenFirst, Turnover!Open
<1>5. CASE \E q \in Pools : Turnover!Ended(q)
  BY <1>0, <1>1, <1>2, <1>5 DEF Turnover!Ended
<1>6. CASE \E q \in Pools : \E c \in Callers : Turnover!Join(c, q)
  BY <1>0, <1>1, <1>2, <1>6 DEF Turnover!Join
<1>7. CASE \E q \in Pools : \E c \in Callers : Turnover!Leave(c, q)
  BY <1>0, <1>1, <1>2, <1>7 DEF Turnover!Leave
<1>8. CASE \E t \in Tasks : Turnover!EndToReplace(t)
  BY <1>0, <1>1, <1>2, <1>8 DEF Turnover!EndToReplace, Turnover!End
<1>9. CASE \E t \in Tasks : \E q \in Pools : Turnover!Replace(t, q)
  BY <1>0, <1>1, <1>2, <1>9 DEF Turnover!Replace, Turnover!Open
<1>10. CASE Turnover!EndToClose \/ Turnover!Close
  BY <1>0, <1>1, <1>2, <1>10 DEF Turnover!EndToClose, Turnover!End, Turnover!Close
<1> QED BY <1>3, <1>4, <1>5, <1>6, <1>7, <1>8, <1>9, <1>10 DEF TurnoverStep, Turnover!Next

\* The two ways to exit with code 0: no request has made a pool yet, or the end of
\* one was waited for.
LEMMA CleanExitNext ==
  ASSUME TypeOK, PoolsLast, HoldersUse, ClosedIsDrained, EndedIsIdle, Next
  PROVE  CleanExit'
<1> USE DEF managerVars, taskVars, exitVars
<1>1. None # 0 /\ exitCode = None /\ Running
  BY NoneIsNeither, BoundsAreNumbers DEF Versions, Next, Running
<1>2. CASE ClosePool
  <2>1. UNCHANGED <<pc, held, connections>> /\ Drained
    BY <1>2 DEF ClosePool
  <2>2. exitCode' = 0 => currentPool = None
    BY <1>1, <1>2 DEF ClosePool
  <2>3. currentPool = None => \A c \in Callers : held[c] = None
    BY <1>1 DEF PoolsLast, HoldersUse, Tasks
  <2> QED BY <2>1, <2>2, <2>3 DEF CleanExit, Drained, InFlight
<1>3. CASE PoolClosed
  <2>1. /\ UNCHANGED <<pc, held, connections, closing, poolState>> /\ connections = {}
        /\ \E p \in closing : poolState[p] = "ended"
    BY <1>3 DEF PoolClosed, poolVars, ClosedIsDrained, Drained
  <2>2. PICK p \in closing : poolState[p] = "ended"
    BY <2>1
  <2>3. p \in Pools /\ Users(p) = {}
    BY <2>2 DEF TypeOK, EndedIsIdle
  <2>4. \A c \in Callers : held[c] # p
    BY <2>3 DEF Users
  <2> QED BY <2>1, <2>2, <2>4 DEF CleanExit, InFlight
<1>4. CASE ForcedShutdown
  BY <1>4 DEF ForcedShutdown, CleanExit
<1>5. CASE Signal \/ \E c \in Callers : HangUp(c)
  BY <1>1, <1>5 DEF Signal, HangUp, CleanExit
<1>6. CASE ~Shutdown
  BY <1>1, <1>6, OnlyShutdownShuts DEF CleanExit
<1> QED BY <1>2, <1>3, <1>4, <1>5, <1>6 DEF Shutdown

(* ------------------------------ theorems ------------------------------ *)

LEMMA PoolInit == Init => PoolInv
<1> SUFFICES ASSUME Init PROVE PoolInv
  OBVIOUS
<1> USE DEF Init
<1>1. None # 0 /\ 0 \in Versions /\ Cardinality(Callers) \in Nat
  BY NoneIsNeither, BoundsAreNumbers, CallersAreFew DEF Versions
<1>2. TypeOK
  <2>1. /\ <<>> \in Seq(Frame) /\ 0 \in 0..Cardinality(Callers)
        /\ {"idle"} \subseteq Places
    BY <1>1 DEF Places
  <2>2. pc \in [Tasks -> Places] /\ stack \in [Tasks -> Seq(Frame)]
    BY <2>1
  <2>3. wraps \in [Pools -> 0..Cardinality(Callers)]
        /\ idle \in [Pools -> Nat] /\ strays \in [Pools -> Nat]
        /\ poolState \in [Pools -> {"unborn", "open", "ending", "ended"}]
        /\ password \in [Pools -> Versions \cup {None}]
    BY <2>1
  <2>4. /\ held \in [Tasks -> Pools \cup {None}] /\ ending \in [Tasks -> Pools \cup {None}]
        /\ fetched \in [Tasks -> Versions \cup {None}]
    OBVIOUS
  <2>5. /\ accepted \in Versions /\ published \in Versions
        /\ cachedSecret \in Versions \cup {None}
        /\ currentPool \in Pools \cup {None}
        /\ currentCredentials \in Versions \cup {None}
        /\ isRefreshing \in BOOLEAN
        /\ phase \in {"running", "draining"}
        /\ connections \subseteq Callers /\ closing \subseteq Pools
        /\ exitCode \in {None, 0, 1}
    BY <1>1
  <2> QED BY <2>2, <2>3, <2>4, <2>5 DEF TypeOK, Places
<1>3. WrapsAreCounted
  <2>1. Wrappers = {}
    BY DEF Wrappers, Tasks
  <2> QED BY <2>1, FS_EmptySet DEF WrapsAreCounted
<1>4. InsideConnects /\ PoolsLast /\ EndingIsAPool /\ HoldersUse
  BY DEF InsideConnects, PoolsLast, EndingIsAPool, HoldersUse, Tasks, Refreshing, Connecting
<1>5. ClosedIsDrained /\ CredentialsMatchPool /\ CleanExit
  BY <1>1 DEF ClosedIsDrained, CredentialsMatchPool, CleanExit
<1>6. EndedIsIdle
  BY DEF EndedIsIdle
<1>7. OneRefreshAtATime
  <2>1. \A t \in Tasks : pc[t] \notin Refreshing
    BY DEF Refreshing
  <2> QED BY <2>1 DEF OneRefreshAtATime
<1> QED BY <1>2, <1>3, <1>4, <1>5, <1>6, <1>7 DEF PoolInv

\* The pool manager keeps its invariant: currentCredentials are those of the
\* pool in use, the flag is set exactly while one task refreshes, a pool that
\* ended has no client out, though calls may stand in its queue, and an exit with
\* code 0 waited for the clients of the pool it closed.
THEOREM PoolInductive == Spec => []PoolInv
<1>1. PoolInv /\ [Next]_vars => PoolInv'
  <2> SUFFICES ASSUME PoolInv, [Next]_vars PROVE PoolInv'
    OBVIOUS
  <2>1. CASE Next
    <3>1. /\ TypeOK /\ WrapsAreCounted /\ InsideConnects /\ PoolsLast /\ EndingIsAPool
          /\ HoldersUse /\ ClosedIsDrained /\ EndedIsIdle
          /\ CredentialsMatchPool /\ OneRefreshAtATime
      BY DEF PoolInv
    <3>2. TypeOK' /\ WrapsAreCounted' /\ InsideConnects'
      BY <2>1, <3>1, TypeNext, InsideNext
    <3>3. PoolsLast' /\ EndingIsAPool' /\ HoldersUse' /\ ClosedIsDrained'
      BY <2>1, <3>1, PoolsLastNext, EndingNext, HoldersUseNext, ClosedIsDrainedNext
    <3>5. EndedIsIdle'
      BY <2>1, <3>1, StepIsTurnover, EndedIsIdleNext
    <3>4. CredentialsMatchPool' /\ OneRefreshAtATime' /\ CleanExit'
      BY <2>1, <3>1, CredentialsNext, RefreshersNext, CleanExitNext
    <3> QED BY <3>2, <3>3, <3>4, <3>5 DEF PoolInv
  <2>2. CASE UNCHANGED vars
    <3> USE <2>2 DEF PoolInv, vars, dbVars, managerVars, poolVars, taskVars, exitVars
    <3>1. TypeOK'
      BY DEF TypeOK
    <3>2. WrapsAreCounted' /\ InsideConnects'
      BY DEF WrapsAreCounted, Wrappers, InsideConnects
    <3>3. PoolsLast' /\ EndingIsAPool' /\ HoldersUse'
      BY DEF PoolsLast, Running, EndingIsAPool, HoldersUse
    <3>4. ClosedIsDrained' /\ EndedIsIdle'
      BY DEF ClosedIsDrained, Drained, EndedIsIdle, Users, TopPool
    <3>5. CredentialsMatchPool' /\ OneRefreshAtATime' /\ CleanExit'
      BY DEF CredentialsMatchPool, OneRefreshAtATime, CleanExit, InFlight
    <3> QED BY <3>1, <3>2, <3>3, <3>4, <3>5
  <2> QED BY <2>1, <2>2
<1> QED BY <1>1, PoolInit, PTL DEF Spec

\* A stale pool is never taken for one whose credentials are unchanged.
THEOREM CredentialsCorrect == Spec => []CredentialsMatchPool
<1>1. PoolInv => CredentialsMatchPool
  BY DEF PoolInv
<1> QED BY <1>1, PoolInductive, PTL

\* isRefreshing is set exactly while one task is inside of refreshCredentials.
THEOREM OneRefresh == Spec => []OneRefreshAtATime
<1>1. PoolInv => OneRefreshAtATime
  BY DEF PoolInv
<1> QED BY <1>1, PoolInductive, PTL

\* An exit with code 0 cuts off no request whose client still waits, and no
\* transaction of the pool that the shutdown closed.
THEOREM ExitIsClean == Spec => []CleanExit
<1>1. PoolInv => CleanExit
  BY DEF PoolInv
<1> QED BY <1>1, PoolInductive, PTL

\* The pool manager implements the abstract turnover of pools: no request gets a
\* client of a pool, or has one connected, after its end() was called, a task
\* that awaits an end() uses no pool, and a pool is replaced, or given up, only
\* when its last client is gone.
THEOREM TurnoverImplemented == Spec => TurnoverSpec
<1>1. Init => Turnover!Init
  <2> SUFFICES ASSUME Init PROVE Turnover!Init
    OBVIOUS
  <2>1. \A p \in Pools : Users(p) = {}
    BY NoneIsNeither DEF Init, Users, Connecting, Tasks
  <2>2. PoolUsers = [p \in Pools |-> {}]
    BY <2>1 DEF PoolUsers
  <2> QED BY <2>2 DEF Init, Turnover!Init
<1>2. PoolInv /\ [Next]_vars => [Turnover!Next]_(Turnover!turnoverVars)
  BY StepIsTurnover DEF TurnoverStep
<1> QED BY <1>1, <1>2, PoolInductive, PTL DEF Spec, TurnoverSpec, Turnover!Spec

(* ------------------- how many pools there are open -------------------- *)

\* What is counted is finite, before and after.
LEMMA CountsAreNumbers ==
  /\ IsFiniteSet(OpenPools) /\ IsFiniteSet(Initializing) /\ IsFiniteSet(Replacing)
  /\ Cardinality(OpenPools) \in Nat /\ Cardinality(Initializing) \in Nat
  /\ Cardinality(Replacing) \in Nat
  /\ IsFiniteSet(OpenPools') /\ IsFiniteSet(Initializing') /\ IsFiniteSet(Replacing')
  /\ Cardinality(OpenPools') \in Nat /\ Cardinality(Initializing') \in Nat
  /\ Cardinality(Replacing') \in Nat
<1>1. IsFiniteSet(Callers) /\ IsFiniteSet(Tasks) /\ IsFiniteSet(Pools)
  <2>1. IsFiniteSet(Callers) /\ 1 \in Int /\ MaxPools \in Int
    BY BoundsAreNumbers
  <2>2. IsFiniteSet(Tasks)
    BY <2>1, FS_AddElement DEF Tasks
  <2>3. IsFiniteSet(Pools)
    BY <2>1, FS_Interval DEF Pools
  <2> QED BY <2>1, <2>2, <2>3
<1>2. /\ OpenPools \subseteq Pools /\ OpenPools' \subseteq Pools
      /\ Initializing \subseteq Callers /\ Initializing' \subseteq Callers
      /\ Replacing \subseteq Tasks /\ Replacing' \subseteq Tasks
  BY DEF OpenPools, Initializing, Replacing
<1>3. /\ IsFiniteSet(OpenPools) /\ IsFiniteSet(Initializing) /\ IsFiniteSet(Replacing)
      /\ IsFiniteSet(OpenPools') /\ IsFiniteSet(Initializing') /\ IsFiniteSet(Replacing')
  BY <1>1, <1>2, FS_Subset
<1> QED BY <1>3, FS_CardinalityType

NoMorePools ==
  Cardinality(OpenPools') + Cardinality(Initializing') + Cardinality(Replacing')
    <= Cardinality(OpenPools) + Cardinality(Initializing) + Cardinality(Replacing)

\* A step that opens no pool, and after which no more callers and tasks are about
\* to.
LEMMA NothingOpens ==
  ASSUME OpenPools' \subseteq OpenPools, Initializing' \subseteq Initializing,
         Replacing' \subseteq Replacing
  PROVE  NoMorePools
<1>1. /\ Cardinality(OpenPools') <= Cardinality(OpenPools)
      /\ Cardinality(Initializing') <= Cardinality(Initializing)
      /\ Cardinality(Replacing') <= Cardinality(Replacing)
  BY CountsAreNumbers, FS_Subset
<1> QED BY <1>1, CountsAreNumbers DEF NoMorePools

\* A caller or a task opens the pool it was about to.
LEMMA OpensForOne ==
  ASSUME NEW p \in Pools, OpenPools' = OpenPools \cup {p},
         \/ /\ Replacing' = Replacing
            /\ \E c \in Initializing : Initializing' = Initializing \ {c}
         \/ /\ Initializing' = Initializing
            /\ \E t \in Replacing : Replacing' = Replacing \ {t}
  PROVE  NoMorePools
<1>1. Cardinality(OpenPools') <= Cardinality(OpenPools) + 1
  BY CountsAreNumbers, FS_AddElement
<1>2. CASE /\ Replacing' = Replacing
           /\ \E c \in Initializing : Initializing' = Initializing \ {c}
  <2>1. Cardinality(Initializing') = Cardinality(Initializing) - 1
    BY <1>2, CountsAreNumbers, FS_RemoveElement
  <2>2. Cardinality(Replacing') = Cardinality(Replacing)
    BY <1>2
  <2> QED BY <1>1, <2>1, <2>2, CountsAreNumbers DEF NoMorePools
<1>3. CASE /\ Initializing' = Initializing
           /\ \E t \in Replacing : Replacing' = Replacing \ {t}
  <2>1. Cardinality(Replacing') = Cardinality(Replacing) - 1
    BY <1>3, CountsAreNumbers, FS_RemoveElement
  <2>2. Cardinality(Initializing') = Cardinality(Initializing)
    BY <1>3
  <2> QED BY <1>1, <2>1, <2>2, CountsAreNumbers DEF NoMorePools
<1> QED BY <1>2, <1>3

\* A task that ends an open pool is about to open one.
LEMMA EndsOne ==
  ASSUME NEW p \in OpenPools, OpenPools' = OpenPools \ {p}, Initializing' = Initializing,
         NEW t, Replacing' = Replacing \cup {t}
  PROVE  NoMorePools
<1>1. Cardinality(OpenPools') = Cardinality(OpenPools) - 1
  BY CountsAreNumbers, FS_RemoveElement
<1>2. Cardinality(Replacing') <= Cardinality(Replacing) + 1
  BY CountsAreNumbers, FS_AddElement
<1>3. Cardinality(Initializing') = Cardinality(Initializing)
  OBVIOUS
<1> QED BY <1>1, <1>2, <1>3, CountsAreNumbers DEF NoMorePools

\* The pool that NewPool opens is one more.
LEMMA NewPoolOpens ==
  ASSUME TypeOK, NEW v \in Versions \cup {None}, NewPool(v)
  PROVE  \E p \in Pools : OpenPools' = OpenPools \cup {p}
<1>1. /\ currentPool' \in Pools
      /\ poolState' = [poolState EXCEPT ![currentPool'] = "open"]
      /\ poolState \in [Pools -> {"unborn", "open", "ending", "ended"}]
  BY NewPoolTypes DEF TypeOK
<1>2. OpenPools' = OpenPools \cup {currentPool'}
  BY <1>1 DEF OpenPools
<1> QED BY <1>1, <1>2

\* Once there is a pool, no step makes for more.
THEOREM NoPoolIsLeftOpen == Spec => RotationAddsNoPool
<1>1. PoolInv /\ [Next]_vars => [currentPool # None => NoMorePools]_vars
  <2> SUFFICES ASSUME PoolInv, Next, currentPool # None PROVE NoMorePools
    OBVIOUS
  <2> USE DEF dbVars, managerVars, poolVars, taskVars, exitVars
  <2>0. /\ TypeOK /\ \A c \in Callers : c \in Tasks
        /\ PoolError \notin Callers /\ PoolError \in Tasks
        /\ pc \in [Tasks -> Places] /\ currentPool \in Pools
        /\ poolState \in [Pools -> {"unborn", "open", "ending", "ended"}]
    BY PoolErrorIsNoCaller DEF PoolInv, TypeOK, Places, Tasks
  <2>1. ASSUME NEW c \in Callers, Step(c)
        PROVE  NoMorePools
    <3>1. CASE InitializePool(c)
      <4>1. \E p \in Pools : OpenPools' = OpenPools \cup {p}
        BY <2>0, <3>1, NewPoolOpens DEF InitializePool, TypeOK
      <4>2. /\ pc[c] = "loading" /\ pc' = [pc EXCEPT ![c] = "initialized"]
        BY <3>1 DEF InitializePool, Goto
      <4>3. /\ c \in Initializing /\ Initializing' = Initializing \ {c}
            /\ Replacing' = Replacing
        BY <2>0, <4>2 DEF Initializing, Replacing
      <4> QED BY <4>1, <4>3, OpensForOne
    <3>2. CASE ~InitializePool(c)
      <4>1. /\ UNCHANGED poolState /\ pc'[c] # "loading" /\ pc'[c] # "ending"
            /\ \A u \in Tasks : u # c => pc'[u] = pc[u]
        <5>1. CASE GetPool(c) \/ InitializeFails(c) \/ Initialized(c)
          BY <2>0, <5>1 DEF GetPool, InitializeFails, Initialized, Wrap, Goto
        <5>2. CASE Connect(c) \/ ConnectFails(c) \/ ConnectTooLate(c) \/ Retry(c)
          BY <2>0, <5>2, RequestedIsPlace
             DEF Connect, ConnectFails, ConnectTooLate, Retry, DropFrame, Goto
        <5>3. CASE Serve(c) \/ Connected(c) \/ AuthenticationFails(c) \/ Release(c)
          BY <2>0, <5>3 DEF Serve, Connected, Acquire, AuthenticationFails, Release, Goto
        <5>4. CASE Catch(c)
          BY <2>0, <5>4 DEF Catch, DropFrame, Goto
        <5> QED BY <2>1, <3>2, <5>1, <5>2, <5>3, <5>4 DEF Step
      <4>2. /\ OpenPools' = OpenPools /\ Initializing' \subseteq Initializing
            /\ Replacing' \subseteq Replacing
        BY <2>0, <4>1 DEF OpenPools, Initializing, Replacing
      <4> QED BY <4>2, NothingOpens
    <3> QED BY <3>1, <3>2
  <2>2. ASSUME NEW t \in Tasks, Refresh(t)
        PROVE  NoMorePools
    <3>1. CASE RecreatePool(t)
      <4>1. \E p \in Pools : OpenPools' = OpenPools \cup {p}
        BY <2>0, <3>1, NewPoolOpens DEF RecreatePool, TypeOK
      <4>2. /\ pc[t] = "ending" /\ pc'[t] \notin {"ending", "loading"}
            /\ \A u \in Tasks : u # t => pc'[u] = pc[u]
        BY <2>0, <3>1 DEF RecreatePool, Returns, Goto
      <4>3. /\ t \in Replacing /\ Replacing' = Replacing \ {t}
            /\ Initializing' = Initializing
        BY <2>0, <4>2 DEF Initializing, Replacing
      <4> QED BY <4>1, <4>3, OpensForOne
    <3>2. CASE Fetch(t) /\ EndOldPool(t)
      <4>1. /\ pc[t] = "fetching" /\ pc' = [pc EXCEPT ![t] = "ending"]
            /\ poolState[currentPool] = "open"
            /\ poolState' = [poolState EXCEPT ![currentPool] = "ending"]
        BY <3>2 DEF Fetch, EndOldPool, Goto
      <4>2. currentPool \in OpenPools /\ OpenPools' = OpenPools \ {currentPool}
        BY <2>0, <4>1 DEF OpenPools
      <4>3. Initializing' = Initializing /\ Replacing' = Replacing \cup {t}
        BY <2>0, <4>1 DEF Initializing, Replacing
      <4> QED BY <4>2, <4>3, EndsOne
    <3>3. CASE (Throws(t) \/ Returns(t)) /\ UNCHANGED poolState
      <4>1. pc'[t] \notin {"ending", "loading"} /\ \A u \in Tasks : u # t => pc'[u] = pc[u]
        BY <2>0, <3>3 DEF Throws, Returns, Goto
      <4>2. /\ OpenPools' = OpenPools /\ Initializing' \subseteq Initializing
            /\ Replacing' \subseteq Replacing
        BY <2>0, <3>3, <4>1 DEF OpenPools, Initializing, Replacing
      <4> QED BY <4>2, NothingOpens
    <3> QED BY <2>2, <3>1, <3>2, <3>3 DEF Refresh, Fetch, FetchFails
  <2>3. CASE OnPoolError
    <3>1. UNCHANGED poolState /\ pc' = [pc EXCEPT ![PoolError] = "fetching"]
      BY <2>3 DEF OnPoolError, Goto
    <3>2. /\ OpenPools' = OpenPools /\ Initializing' \subseteq Initializing
          /\ Replacing' \subseteq Replacing
      BY <2>0, <3>1 DEF OpenPools, Initializing, Replacing
    <3> QED BY <3>2, NothingOpens
  <2>4. CASE \/ Rotate \/ Publish \/ Shutdown
             \/ \E p \in Pools : PoolStep(p)
    <3>1. UNCHANGED pc /\ \A p \in Pools : poolState'[p] = "open" => poolState[p] = "open"
      BY <2>0, <2>4 DEF Rotate, Publish, Shutdown, Signal, HangUp, ClosePool, PoolClosed,
                        ForcedShutdown, PoolStep, PoolEnds, StrayEnds, IdleConnectionsExpire
    <3>2. /\ OpenPools' \subseteq OpenPools /\ Initializing' \subseteq Initializing
          /\ Replacing' \subseteq Replacing
      BY <3>1 DEF OpenPools, Initializing, Replacing
    <3> QED BY <3>2, NothingOpens
  <2> QED BY <2>1, <2>2, <2>3, <2>4 DEF Next
<1> QED BY <1>1, PoolInductive, PTL DEF Spec, RotationAddsNoPool, NoMorePools
========================================================================
