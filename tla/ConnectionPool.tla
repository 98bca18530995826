--------------------------- MODULE ConnectionPool ---------------------------
(***************************************************************************)
(* MySqlPool and RedisConnectionPool.  Threads of the servers borrow and   *)
(* return connections, a health worker checks idle ones and makes up for   *)
(* lost ones, and Close shuts the pool down.  Each critical section of     *)
(* mutex_ is one action; connecting, sanitising and checking a connection  *)
(* happen outside it.  live is the counter live_connections_, which is     *)
(* kept apart from where the connections are.                              *)
(*                                                                         *)
(* A thread may borrow while it holds a connection: GetFriendList of the   *)
(* chat node calls GetUser inside its loop over a result.  A connection is *)
(* dirty while it has an open transaction.                                 *)
(***************************************************************************)
EXTENDS Integers, FiniteSets

CONSTANTS
  Threads,    \* threads that use the pool
  HealthThread, \* the health thread
  Conns,      \* identities of connections
  PoolSize,   \* options_.pool_size
  Depth,      \* bound: connections one thread holds at a time
  Sanitizes,  \* the pool sanitises returned connections (MySqlPool)
  MaxFaults,  \* bound: failures of the backend
  EmptyHand   \* no connection in hand

ASSUME PoolLimits ==
  /\ PoolSize \in Nat \ {0} /\ Depth \in Nat \ {0} /\ MaxFaults \in Nat /\ Sanitizes \in BOOLEAN
  /\ IsFiniteSet(Threads) /\ IsFiniteSet(Conns)
  /\ HealthThread \notin Threads /\ EmptyHand \notin Conns

VARIABLES
  idle,     \* connections_
  live,     \* live_connections_
  stopped,  \* stopped_
  held,     \* connections a thread has borrowed
  dirty,    \* connections with an open transaction
  stage,    \* what a thread or the health worker is doing
  inHand,   \* the connection being sanitised, checked or discarded
  toCheck,  \* remaining rounds of CheckIdleConnections
  closer,   \* Close: "open", "joining", "closed"
  faults    \* failures so far

vars == <<idle, live, stopped, held, dirty, stage, inHand, toCheck, closer, faults>>

Actors == Threads \cup {HealthThread}
InHand == {inHand[a] : a \in Actors} \ {EmptyHand}
Existing == idle \cup InHand \cup UNION {held[t] : t \in Threads}

\* The constructor connects until the pool is full or an attempt fails.
Init ==
  /\ idle \in {S \in SUBSET Conns : Cardinality(S) <= PoolSize}
  /\ live = Cardinality(idle)
  /\ stopped = FALSE /\ dirty = {} /\ closer = "open" /\ toCheck = 0 /\ faults = 0
  /\ held = [t \in Threads |-> {}]
  /\ stage = [a \in Actors |-> IF a = HealthThread THEN "sleep" ELSE "run"]
  /\ inHand = [a \in Actors |-> EmptyHand]

Goto(a, s) == stage' = [stage EXCEPT ![a] = s]
Take(a, c) == inHand' = [inHand EXCEPT ![a] = c]
Drop(a) == Take(a, EmptyHand)

\* A call to the database or to Redis fails.
Fault == faults < MaxFaults /\ faults' = faults + 1

\* if (live_connections_ > 0) --live_connections_
Less == live' = IF live > 0 THEN live - 1 ELSE live

-----------------------------------------------------------------------------
(* Borrowing. *)

Request(t) ==
  /\ stage[t] = "run" /\ Cardinality(held[t]) < Depth
  /\ Goto(t, "wait")
  /\ UNCHANGED <<idle, live, stopped, held, dirty, inHand, toCheck, closer, faults>>

Borrow(t) ==
  /\ stage[t] = "wait" /\ ~stopped
  /\ \E c \in idle :
       /\ idle' = idle \ {c}
       /\ held' = [held EXCEPT ![t] = @ \cup {c}]
  /\ Goto(t, "run")
  /\ UNCHANGED <<live, stopped, dirty, inHand, toCheck, closer, faults>>

GiveUp_never(t) ==
  /\ stage[t] = "wait" /\ stopped
  /\ Goto(t, "run")
  /\ UNCHANGED <<idle, live, stopped, held, dirty, inHand, toCheck, closer, faults>>

\* The wait ends with the pool stopped, or with nothing idle within the time
\* limit; the caller gets nullptr.
GiveUp(t) ==
  /\ stage[t] = "wait" /\ (stopped \/ idle = {})
  /\ Goto(t, "run")
  /\ UNCHANGED <<idle, live, stopped, held, dirty, inHand, toCheck, closer, faults>>

\* The borrower leaves auto-commit mode, or ends the transaction; an exception
\* may also end its work with the transaction open.
Transact(t) ==
  /\ Sanitizes /\ stage[t] = "run"
  /\ \E c \in held[t] :
       dirty' = IF c \in dirty THEN dirty \ {c} ELSE dirty \cup {c}
  /\ UNCHANGED <<idle, live, stopped, held, stage, inHand, toCheck, closer, faults>>

-----------------------------------------------------------------------------
(* Returning. *)

\* returnConnection of MySqlPool begins with the sanitiser.
Return(t) ==
  /\ Sanitizes /\ stage[t] = "run"
  /\ \E c \in held[t] :
       /\ held' = [held EXCEPT ![t] = @ \ {c}]
       /\ Take(t, c)
  /\ Goto(t, "sanitize")
  /\ UNCHANGED <<idle, live, stopped, dirty, toCheck, closer, faults>>

\* Under the mutex: a stopped pool drops the connection.
Keep(c) ==
  \/ /\ stopped /\ Less /\ UNCHANGED idle
  \/ /\ ~stopped /\ idle' = idle \cup {c} /\ UNCHANGED live

\* ResetMysqlTransaction rolled an open transaction back.
Sanitized(t) ==
  /\ stage[t] = "sanitize"
  /\ dirty' = dirty \ {inHand[t]}
  /\ Keep(inHand[t])
  /\ Drop(t) /\ Goto(t, "run")
  /\ UNCHANGED <<stopped, held, toCheck, closer, faults>>

\* The sanitiser threw: the connection is destroyed, to be discarded next.
SanitizeFails(t) ==
  /\ stage[t] = "sanitize" /\ Fault
  /\ dirty' = dirty \ {inHand[t]}
  /\ Drop(t) /\ Goto(t, "discard")
  /\ UNCHANGED <<idle, live, stopped, held, toCheck, closer>>

\* returnConnection of RedisConnectionPool.
ReturnContext(t) ==
  /\ ~Sanitizes /\ stage[t] = "run"
  /\ \E c \in held[t] : held' = [held EXCEPT ![t] = @ \ {c}] /\ Keep(c)
  /\ UNCHANGED <<stopped, dirty, stage, inHand, toCheck, closer, faults>>

-----------------------------------------------------------------------------
(* Discarding and creating, by a returning thread or the health worker. *)

DiscardConnection_uncounted(a) ==
  /\ stage[a] = "discard"
  /\ Goto(a, IF a = HealthThread THEN "check" ELSE "create")
  /\ UNCHANGED <<idle, live, stopped, held, dirty, inHand, toCheck, closer, faults>>

\* The counter of DiscardConnection; the thread goes on to replace it, the
\* worker to its next check.
DiscardConnection(a) ==
  /\ stage[a] = "discard" /\ Less
  /\ Goto(a, IF a = HealthThread THEN "check" ELSE "create")
  /\ UNCHANGED <<idle, stopped, held, dirty, inHand, toCheck, closer, faults>>

\* CreateOneConnection was not possible: the end of the worker's round.
Failed(a) == IF a = HealthThread THEN "sleep" ELSE "run"

\* The first critical section of CreateOneConnection.
Reserve(a) ==
  /\ stage[a] = "create"
  /\ \/ /\ stopped \/ live >= PoolSize
        /\ Goto(a, Failed(a)) /\ UNCHANGED live
     \/ /\ ~stopped /\ live < PoolSize
        /\ live' = live + 1 /\ Goto(a, "connect")
  /\ UNCHANGED <<idle, stopped, held, dirty, inHand, toCheck, closer, faults>>

\* The factory connected; the worker tries for one more.
Connected(a) ==
  /\ stage[a] = "connect"
  /\ \/ /\ stopped
        /\ live' = live - 1 /\ Goto(a, Failed(a)) /\ UNCHANGED idle
     \/ /\ ~stopped
        /\ \E c \in Conns \ Existing : idle' = idle \cup {c}
        /\ Goto(a, IF a = HealthThread THEN "create" ELSE "run") /\ UNCHANGED live
  /\ UNCHANGED <<stopped, held, dirty, inHand, toCheck, closer, faults>>

ConnectFails_keepsSlot(a) ==
  /\ stage[a] = "connect" /\ Fault
  /\ Goto(a, Failed(a))
  /\ UNCHANGED <<idle, live, stopped, held, dirty, inHand, toCheck, closer>>

ConnectFails(a) ==
  /\ stage[a] = "connect" /\ Fault
  /\ live' = live - 1 /\ Goto(a, Failed(a))
  /\ UNCHANGED <<idle, stopped, held, dirty, inHand, toCheck, closer>>

-----------------------------------------------------------------------------
(* The health worker: wait, CheckIdleConnections, ReplenishConnections. *)

Wake_blind ==
  /\ stage[HealthThread] = "sleep"
  /\ Goto(HealthThread, "check") /\ toCheck' = Cardinality(idle)
  /\ UNCHANGED <<idle, live, stopped, held, dirty, inHand, closer, faults>>

Wake ==
  /\ stage[HealthThread] = "sleep"
  /\ \/ stopped /\ Goto(HealthThread, "done") /\ UNCHANGED toCheck
     \/ ~stopped /\ Goto(HealthThread, "check") /\ toCheck' = Cardinality(idle)
  /\ UNCHANGED <<idle, live, stopped, held, dirty, inHand, closer, faults>>

CheckNext ==
  /\ stage[HealthThread] = "check"
  /\ \/ /\ toCheck > 0 /\ ~stopped
        /\ \E c \in idle : idle' = idle \ {c} /\ Take(HealthThread, c)
        /\ toCheck' = toCheck - 1 /\ Goto(HealthThread, "ping")
     \/ /\ toCheck = 0 \/ stopped \/ idle = {}
        /\ Goto(HealthThread, "create") /\ UNCHANGED <<idle, inHand, toCheck>>
  /\ UNCHANGED <<live, stopped, held, dirty, closer, faults>>

CheckPassed ==
  /\ stage[HealthThread] = "ping"
  /\ Keep(inHand[HealthThread])
  /\ Drop(HealthThread) /\ Goto(HealthThread, "check")
  /\ UNCHANGED <<stopped, held, dirty, toCheck, closer, faults>>

CheckFailed ==
  /\ stage[HealthThread] = "ping" /\ Fault
  /\ Drop(HealthThread) /\ Goto(HealthThread, "discard")
  /\ UNCHANGED <<idle, live, stopped, held, dirty, toCheck, closer>>

-----------------------------------------------------------------------------
(* Close sets the flag, joins the worker and frees what is idle. *)

Stop ==
  /\ closer = "open" /\ closer' = "joining"
  /\ stopped' = TRUE
  /\ UNCHANGED <<idle, live, held, dirty, stage, inHand, toCheck, faults>>

ClearConnections ==
  /\ closer = "joining" /\ stage[HealthThread] = "done"
  /\ closer' = "closed"
  /\ idle' = {} /\ live' = live - Cardinality(idle)
  /\ UNCHANGED <<stopped, held, dirty, stage, inHand, toCheck, faults>>

-----------------------------------------------------------------------------
Thread(t) ==
  \/ Request(t) \/ Borrow(t) \/ GiveUp(t) \/ Transact(t)
  \/ Return(t) \/ Sanitized(t) \/ SanitizeFails(t) \/ ReturnContext(t)

Create(a) ==
  DiscardConnection(a) \/ Reserve(a) \/ Connected(a) \/ ConnectFails(a)

Health == Wake \/ CheckNext \/ CheckPassed \/ CheckFailed

Next ==
  \/ \E t \in Threads : Thread(t)
  \/ \E a \in Actors : Create(a)
  \/ Health \/ Stop \/ ClearConnections

Spec == Init /\ [][Next]_vars

-----------------------------------------------------------------------------
(* Safety. *)

Stages == {"run", "wait", "sanitize", "discard", "create", "connect",
           "sleep", "check", "ping", "done"}

\* Types; the counter stays between zero and the size of the pool, so it never
\* wraps around and the reservation in CreateOneConnection bounds the pool.
TypeOK ==
  /\ idle \subseteq Conns /\ dirty \subseteq Conns
  /\ live \in 0 .. PoolSize /\ stopped \in BOOLEAN
  /\ held \in [Threads -> SUBSET Conns]
  /\ stage \in [Actors -> Stages]
  /\ inHand \in [Actors -> Conns \cup {EmptyHand}]
  /\ toCheck \in 0 .. PoolSize
  /\ closer \in {"open", "joining", "closed"} /\ faults \in 0 .. MaxFaults

\* The slots of the pool that stand for no connection: one is being made, or
\* was destroyed and is still to be taken off the counter.
Reserved == {a \in Actors : stage[a] \in {"connect", "discard"}}

\* The counter counts exactly the connections that exist and those reserved or
\* about to be discarded: none is forgotten, so the pool does not shrink for
\* good, and none is counted twice, so it does not outgrow its size.
LiveIsAccurate == live = Cardinality(Existing) + Cardinality(Reserved)

\* A connection is in one place only: idle, borrowed by one thread, or in the
\* hands of one that sanitises or checks it.  No two threads use the same one,
\* and Close does not free one that is in use.
Exclusive ==
  /\ \A t \in Threads : held[t] \cap idle = {}
  /\ \A t, u \in Threads : t # u => held[t] \cap held[u] = {}
  /\ \A a \in Actors : inHand[a] # EmptyHand <=> stage[a] \in {"sanitize", "ping"}
  /\ \A a \in Actors : inHand[a] \notin idle /\ \A t \in Threads : inHand[a] \notin held[t]
  /\ \A a, b \in Actors : a # b /\ inHand[a] = inHand[b] => inHand[a] = EmptyHand

\* Only borrowed connections have an open transaction, and those that are being
\* sanitised: who borrows one does not find the transaction of another.
Clean ==
  /\ \A c \in dirty : \E t \in Threads : c \in held[t] \/ (c = inHand[t] /\ stage[t] = "sanitize")
  /\ ~Sanitizes => dirty = {}

-----------------------------------------------------------------------------
(* Liveness.  Waits time out, threads give back what they borrowed and go    *)
(* on with what they started, and the worker wakes up at its interval.       *)

Fairness ==
  /\ \A t \in Threads :
       /\ WF_vars(Borrow(t) \/ GiveUp(t))
       /\ WF_vars(Return(t) \/ ReturnContext(t) \/ Sanitized(t) \/ SanitizeFails(t))
  /\ \A a \in Actors : WF_vars(Create(a))
  /\ WF_vars(Health) /\ WF_vars(ClearConnections)

FairSpec == Spec /\ Fairness

\* A thread that asks for a connection gets one or nullptr, even when every
\* thread holds connections and waits for more.
BorrowEnds == \A t \in Threads : stage[t] = "wait" ~> stage[t] = "run"

\* When the backend recovers, so does the pool: in the end as many connections
\* exist as configured, unless it is stopped.
Recovered == Cardinality(Existing) = PoolSize \/ stopped
PoolRecovers == <>[]Recovered

\* Close returns: the worker sees the flag, whatever it was doing, and ends.
CloseReturns == stopped ~> closer = "closed"
=============================================================================
