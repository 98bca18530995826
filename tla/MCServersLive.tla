--------------------------- MODULE MCServersLive ---------------------------
(***************************************************************************)
(* What must eventually happen in the servers, for TLC: the executor, the  *)
(* pools of database connections and one of gRPC stubs, the gate's HTTP    *)
(* connections, a transfer and the avatars of the resource server.  They   *)
(* share no state, so a behaviour of the run is one of the part chosen at  *)
(* the start.  The database pools have their own variables; v1, v2, ...    *)
(* hold those of the other parts, in the order of their INSTANCE, and 0    *)
(* where a part has fewer.                                                 *)
(***************************************************************************)
EXTENDS ConnectionPool, Sequences

CONSTANTS x1, x2, c1, c2, a, Torn, None

VARIABLES chosen, v1, v2, v3, v4, v5, v6, v7, v8, v9, v10, v11, v12

slots == <<v1, v2, v3, v4, v5, v6, v7, v8, v9, v10, v11, v12>>
ten == <<v1, v2, v3, v4, v5, v6, v7, v8, v9, v10>>
five == <<v1, v2, v3, v4, v5>>

Executor == INSTANCE KeyedExecutor WITH
  Keys <- {1, 3}, Count <- 2, Capacity <- 2, MaxPosts <- 1, Posters <- 1,
  queue <- v1, stopping <- v2, at <- v3, due <- v4, owed <- v5, current <- v6, posted <- v7, finished <- v8,
  cancelled <- v9, stopper <- v10

\* The constants of the run are those of a MySQL pool; this is a Redis pool.
Redis == INSTANCE ConnectionPool WITH Sanitizes <- FALSE

StubQueue == INSTANCE StubPool WITH
  Threads <- {x1, x2, "t3"}, Stubs <- {"s1"}, D <- 2, MaxCalls <- 4,
  connections <- v1, b_stop <- v2, th <- v3, known <- v4, calls <- v5
Gate == INSTANCE GateHttp WITH
  Conns <- {c1, c2}, Contexts <- 1, Stubs <- 1, Deadline <- 1, RpcTime <- 1,
  Requests <- {[method |-> "POST", target |-> "/post_email", body |-> "ok"]},
  conn <- v1, queue <- v2, busy <- v3, next <- v4, free <- v5
Upload == INSTANCE ResourceUpload WITH
  Servers <- {x1, x2}, Peers <- {"p1"}, Ids <- {c1}, Keys <- {"k1"}, Chunks <- {a}, Original <- <<a>>,
  Quota <- 1, MaxParts <- 1, MaxFaults <- 1,
  row <- v1, file <- v2, event <- v3, claim <- v4, told <- v5, lock <- v6, user <- v7, used <- v8, job <- v9,
  sweep <- v10, late <- v11, faults <- v12
Avatar == INSTANCE AvatarUpdate WITH
  Servers <- {x1, x2}, Ids <- {c1, c2}, Sizes <- {"small"}, MaxFaults <- 1,
  row <- v1, files <- v2, partial <- v3, avatar <- v4, version <- v5, lock <- v6, put <- v7, sweep <- v8,
  used <- v9, faults <- v10

ASSUME
  /\ Executor!ExecutorConstants /\ Redis!PoolLimits /\ StubQueue!StubPoolConstants /\ Gate!GateConstants
  /\ Upload!UploadConstants /\ Avatar!AvatarConstants

Off11 == v11 = 0 /\ v12 = 0
Off6 == v6 = 0 /\ v7 = 0 /\ v8 = 0 /\ v9 = 0 /\ v10 = 0 /\ Off11
Off == v1 = 0 /\ v2 = 0 /\ v3 = 0 /\ v4 = 0 /\ v5 = 0 /\ Off6

PartInit ==
  \/ chosen \in {"pool", "lost", "redis"} /\ Init /\ Off
  \/ /\ Init /\ idle = {}
     /\ \/ chosen \in {"tasks", "timers"} /\ Executor!Init /\ Off11
        \/ chosen = "stubs" /\ StubQueue!Init /\ Off6
        \/ chosen = "gate" /\ Gate!Init /\ Off6
        \/ chosen = "upload" /\ Upload!Init
        \/ chosen = "avatar" /\ Avatar!Init /\ Off11

PartNext ==
  \/ chosen \in {"pool", "lost"} /\ Next /\ UNCHANGED <<chosen, slots>>
  \/ chosen = "redis" /\ Redis!Next /\ UNCHANGED <<chosen, slots>>
  \/ chosen \in {"tasks", "timers"} /\ Executor!Next /\ UNCHANGED <<chosen, v11, v12, vars>>
  \/ chosen = "stubs" /\ StubQueue!Next /\ UNCHANGED <<chosen, v6, v7, v8, v9, v10, v11, v12, vars>>
  \/ chosen = "gate" /\ Gate!Next /\ UNCHANGED <<chosen, v6, v7, v8, v9, v10, v11, v12, vars>>
  \/ chosen = "upload" /\ Upload!Next /\ UNCHANGED <<chosen, vars>>
  \/ chosen = "avatar" /\ Avatar!Next /\ UNCHANGED <<chosen, v11, v12, vars>>

-----------------------------------------------------------------------------
(* The fairness of the parts, as their modules state it, except that the     *)
(* strong fairness is weaker: of all that a sweep or a clock may do.         *)

ExecutorFair ==
  /\ \A s \in 1 .. 2 :
       /\ WF_ten(chosen \in {"tasks", "timers"} /\ Executor!Worker(s))
       /\ WF_ten(chosen \in {"tasks", "timers"} /\ Executor!notify_one(s))
  /\ WF_ten(chosen \in {"tasks", "timers"} /\ Executor!tell)
  /\ WF_ten(chosen \in {"tasks", "timers"} /\ Executor!join)

PoolFair ==
  /\ \A t \in Threads :
       /\ WF_vars(chosen \in {"pool", "lost"} /\ (Borrow(t) \/ GiveUp(t)))
       /\ WF_vars(chosen \in {"pool", "lost"} /\ (Return(t) \/ ReturnContext(t) \/ Sanitized(t) \/ SanitizeFails(t)))
  /\ \A t \in Actors : WF_vars(chosen \in {"pool", "lost"} /\ Create(t))
  /\ WF_vars(chosen \in {"pool", "lost"} /\ Health) /\ WF_vars(chosen \in {"pool", "lost"} /\ ClearConnections)

StubFair ==
  /\ WF_five(chosen = "stubs" /\ StubQueue!Tick)
  /\ \A t \in {x1, x2, "t3"} :
       /\ WF_five(chosen = "stubs" /\ StubQueue!Get_connection(t))
       /\ WF_five(chosen = "stubs" /\ StubQueue!Return_connection(t))

GateFair ==
  /\ WF_five(chosen = "gate" /\ Gate!Run(1))
  /\ \A c \in {c1, c2} :
       /\ WF_five(chosen = "gate" /\ Gate!Expire(c)) /\ WF_five(chosen = "gate" /\ Gate!GetConnection(c))
       /\ WF_five(chosen = "gate" /\ Gate!ReturnConnection(c, "RPC_ERROR"))

StorageFair ==
  \A s \in {x1, x2} :
    /\ WF_slots(\/ chosen = "upload" /\ Upload!Work(s)
                \/ chosen = "avatar" /\ Avatar!Put(s) /\ UNCHANGED <<v11, v12>>)
    /\ WF_slots(\/ chosen = "upload" /\ Upload!Maintain(s)
                \/ chosen = "avatar" /\ Avatar!Sweep(s) /\ UNCHANGED <<v11, v12>>)
    /\ SF_slots(\/ chosen = "upload" /\ (Upload!SweepClaim(s, c1) \/ Upload!SweepLook(s, c1))
                \/ chosen = "avatar" /\ (\E id \in {c1, c2} : Avatar!SweepLook(s, id)) /\ UNCHANGED <<v11, v12>>
                \/ chosen = "gate" /\ Gate!Tick /\ UNCHANGED <<v6, v7, v8, v9, v10, v11, v12>>)

PartSpec ==
  /\ PartInit /\ [][PartNext]_<<chosen, slots, vars>>
  /\ ExecutorFair /\ PoolFair /\ StubFair /\ GateFair /\ StorageFair
  /\ \A id \in {c1, c2} : WF_slots(chosen = "avatar" /\ Avatar!Expire(id) /\ UNCHANGED <<v11, v12>>)

-----------------------------------------------------------------------------
\* TaskSettles and TimerIsServed of KeyedExecutor, BorrowEnds of ConnectionPool,
\* CallEnds of StubPool, ConnectionEnds of GateHttp and PublishedIsAnnounced of
\* ResourceUpload, each for one key, shard, thread, connection or file.
Waiting ==
  \/ chosen = "tasks" /\ v7[1] >= 1            \* posted
  \/ chosen = "timers" /\ v4[2]               \* due, of the shard of the keys
  \/ chosen = "pool" /\ stage[x1] = "wait"
  \/ chosen = "stubs" /\ ~StubQueue!Is(x1, "out")
  \/ chosen = "gate" /\ ~Gate!Gone(c1)
  \/ chosen = "upload" /\ Upload!Published(c1)

Served ==
  \/ chosen = "tasks" /\ (v8[1] >= 1 \/ Executor!shard(1) \in v9)  \* finished, cancelled
  \/ chosen = "timers" /\ (v3[2] = "tick" \/ v2[2])                \* at, stopping
  \/ chosen = "pool" /\ stage[x1] = "run"
  \/ chosen = "stubs" /\ StubQueue!Is(x1, "out")
  \/ chosen = "gate" /\ Gate!Gone(c1)
  \/ chosen = "upload" /\ (v3[c1] = "delivered" \/ ~Upload!Published(c1) \/ v1[c1].expired)  \* event, row

\* Nobody waits for ever.  Executor: an accepted task runs or is discarded by a
\* stop, and its timer is served although tasks keep coming.  Pools: a thread
\* gets a connection or nullptr, and a stub or its deadline.  HttpConnection:
\* whatever a peer or a remote service does not send, a connection ends.
\* Maintenance: a published file is announced to its receiver's server.
WaitingEnds == Waiting ~> Served

\* StopReturns of KeyedExecutor, CloseReturns and the gist of PoolRecovers of
\* ConnectionPool, DeadIsReclaimed of ResourceUpload and UnusedIsReclaimed of
\* AvatarUpdate.
Leftover ==
  \/ chosen = "tasks" /\ v10.pc = "tell"       \* stopper
  \/ chosen = "pool" /\ stopped
  \/ chosen = "lost" /\ ~Recovered
  \/ chosen = "upload" /\ Upload!Dead(c1)
  \/ chosen = "avatar" /\ c1 \in v9 /\ v4 # c1  \* used, avatar

Cleared ==
  \/ chosen = "tasks" /\ v10.pc = "stopped"
  \/ chosen = "pool" /\ closer = "closed"
  \/ chosen = "lost" /\ Recovered
  \/ chosen = "upload" /\ \/ v1[c1].status = "none" /\ v2[c1] = None  \* row, file
                          \/ Upload!Published(c1) /\ ~v1[c1].expired
  \/ chosen = "avatar" /\ (v4 = c1 \/ (v1[c1] = Avatar!NoRow /\ v3[c1] = {}))  \* row, partial

\* The servers clean up after themselves.  stop() of the executor and Close of a
\* pool return; a connection that was lost is replaced, unless the pool stops;
\* and the maintenance of the resource server removes a transfer that was
\* cancelled or expired and an avatar that is no longer anybody's, row and
\* files, although requests for them race with it.
LeftoversGo == Leftover ~> Cleared
=============================================================================
