-------------------------- MODULE PoolTurnover --------------------------
(* What a manager that replaces its connection pool at run time promises:    *)
(* nobody becomes the user of a pool whose end was asked for, the task that  *)
(* waits for an end uses no pool itself, a pool ends once its users have     *)
(* left, and only then it is replaced, or given up for good.  So every wait  *)
(* is for users that wait for nobody, and no use is cut short.               *)
(*                                                                           *)
(* A user has a client of the pool, or one is being connected for it.  Who   *)
(* merely stands in line for one is no user: no end waits for it, and it     *)
(* never becomes a user of a pool that ends.  Pools may be opened behind     *)
(* each other's back: the promise is about every pool, not only the one in   *)
(* use.  DbPoolManager implements this specification.                        *)

CONSTANTS
  Callers,    \* who uses the pools
  Tasks,      \* who may replace one, callers too
  Pools,
  None

VARIABLES
  state,      \* of each pool: unborn, open, ending, ended
  users,      \* of each pool
  current,    \* the pool that is handed out, or None
  awaited,    \* by task, the pool whose end it awaits, to replace it
  closing     \* the pools whose end is awaited, to have none any more

turnoverVars == <<state, users, current, awaited, closing>>

Uses(t) == \E p \in Pools : t \in users[p]

Init ==
  /\ state = [p \in Pools |-> "unborn"]
  /\ users = [p \in Pools |-> {}]
  /\ current = None
  /\ awaited = [t \in Tasks |-> None]
  /\ closing = {}

Open(p) ==
  /\ state[p] = "unborn"
  /\ state' = [state EXCEPT ![p] = "open"]
  /\ current' = p

OpenFirst(p) == Open(p) /\ UNCHANGED <<users, awaited, closing>>

Join(c, p) ==
  /\ state[p] = "open" /\ ~Uses(c) /\ (c \in Tasks => awaited[c] = None)
  /\ users' = [users EXCEPT ![p] = @ \cup {c}]
  /\ UNCHANGED <<state, current, awaited, closing>>

Leave(c, p) ==
  /\ c \in users[p]
  /\ users' = [users EXCEPT ![p] = @ \ {c}]
  /\ UNCHANGED <<state, current, awaited, closing>>

End(p) ==
  /\ p # None /\ state[p] = "open"
  /\ state' = [state EXCEPT ![p] = "ending"]

EndToReplace(t) ==
  /\ End(current)
  /\ ~Uses(t) /\ \A u \in Tasks : awaited[u] = None
  /\ awaited' = [awaited EXCEPT ![t] = current]
  /\ UNCHANGED <<users, current, closing>>

EndToClose ==
  /\ End(current)
  /\ closing' = closing \cup {current}
  /\ UNCHANGED <<users, current, awaited>>

Ended(p) ==
  /\ state[p] = "ending" /\ users[p] = {}
  /\ state' = [state EXCEPT ![p] = "ended"]
  /\ UNCHANGED <<users, current, awaited, closing>>

Replace(t, p) ==
  /\ awaited[t] # None /\ state[awaited[t]] = "ended"
  /\ Open(p)
  /\ awaited' = [awaited EXCEPT ![t] = None]
  /\ UNCHANGED <<users, closing>>

Close ==
  /\ \E p \in closing : state[p] = "ended"
  /\ current' = None
  /\ UNCHANGED <<state, users, awaited, closing>>

Next ==
  \/ \E p \in Pools : OpenFirst(p) \/ Ended(p)
  \/ \E p \in Pools : \E c \in Callers : Join(c, p) \/ Leave(c, p)
  \/ \E t \in Tasks : EndToReplace(t) \/ \E p \in Pools : Replace(t, p)
  \/ EndToClose \/ Close

Spec == Init /\ [][Next]_turnoverVars
=========================================================================
