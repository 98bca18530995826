----------------------------- MODULE MCServers -----------------------------
(***************************************************************************)
(* What the servers run on, for TLC: the executor, the gate's HTTP         *)
(* connections and the clock of the text delivery.  They share no state,   *)
(* so a behaviour of the run is one of the part chosen at the start.  The  *)
(* executor has its own variables; v1, v2, ... hold those of the other     *)
(* parts, in the order of their INSTANCE, and 0 where a part has fewer.    *)
(***************************************************************************)
EXTENDS KeyedExecutor, TLC

CONSTANTS x1, x2, None

VARIABLES chosen, v1, v2, v3, v4, v5, v6, v7, v8, v9, v10, v11, v12

slots == <<v1, v2, v3, v4, v5, v6, v7, v8, v9, v10, v11, v12>>
from6 == <<v6, v7, v8, v9, v10, v11, v12>>

Get(target) == [method |-> "GET", target |-> target, body |-> None]
Post(target, body) == [method |-> "POST", target |-> target, body |-> body]

\* Every way a request can be routed, and one that occupies a thread.
Routes == INSTANCE GateHttp WITH
  Conns <- {x1, x2}, Contexts <- 2, Stubs <- 1, Deadline <- 1, RpcTime <- 1,
  Requests <-
    {Get("bad escape"), Get("/get_test"), Get("/x"), Post("/x", "ok"), Post("/post_email", "malformed"),
     Post("/post_email", "ok"), Post("/user_login", "ok"), Post("/user_login", "malformed"),
     Post("/user_register", "ok"), [method |-> "PUT", target |-> "/x", body |-> "ok"]},
  conn <- v1, queue <- v2, busy <- v3, next <- v4, free <- v5
Slow == INSTANCE GateHttp WITH
  Conns <- {x1, x2}, Contexts <- 1, Stubs <- 1, Deadline <- 3, RpcTime <- 2,
  Requests <- {Post("/post_email", "ok")},
  conn <- v1, queue <- v2, busy <- v3, next <- v4, free <- v5

\* A shard with several sessions and hardly any messages, and one session with
\* more messages than its window holds.
Turns == INSTANCE DeliveryClock WITH
  Sessions <- {1, 2, 3}, Messages <- {1}, To <- [m \in {1} |-> 3], Capacity <- 1, Scan <- 2, Queries <- 1,
  IdleMin <- 1, IdleMax <- 2, Base <- 1, MaxShift <- 1, MaxCount <- 2, MaxFaults <- 1,
  entry <- v1, open <- v2, next <- v3, idle <- v4, count <- v5, wait <- v6, row <- v7, cursor <- v8, loop <- v9,
  fire <- v10, quiet <- v11, faults <- v12
Window == INSTANCE DeliveryClock WITH
  Sessions <- {1, 2}, Messages <- {1, 2}, To <- [m \in {1, 2} |-> 1], Capacity <- 1, Scan <- 2, Queries <- 1,
  IdleMin <- 1, IdleMax <- 2, Base <- 2, MaxShift <- 1, MaxCount <- 2, MaxFaults <- 1,
  entry <- v1, open <- v2, next <- v3, idle <- v4, count <- v5, wait <- v6, row <- v7, cursor <- v8, loop <- v9,
  fire <- v10, quiet <- v11, faults <- v12

ASSUME
  /\ Routes!GateConstants /\ Slow!GateConstants /\ Turns!ClockConstants /\ Window!ClockConstants

Off6 == v6 = 0 /\ v7 = 0 /\ v8 = 0 /\ v9 = 0 /\ v10 = 0 /\ v11 = 0 /\ v12 = 0

PartInit ==
  /\ Init
  /\ \/ chosen = "executor" /\ v1 = 0 /\ v2 = 0 /\ v3 = 0 /\ v4 = 0 /\ v5 = 0 /\ Off6
     \/ chosen = "routes" /\ Routes!Init /\ Off6
     \/ chosen = "slow" /\ Slow!Init /\ Off6
     \/ chosen = "turns" /\ Turns!Init
     \/ chosen = "window" /\ Window!Init

PartNext ==
  \/ chosen = "executor" /\ Next /\ UNCHANGED <<chosen, slots>>
  \/ chosen = "routes" /\ Routes!Next /\ UNCHANGED <<chosen, from6, vars>>
  \/ chosen = "slow" /\ Slow!Next /\ UNCHANGED <<chosen, from6, vars>>
  \/ chosen = "turns" /\ Turns!Next /\ UNCHANGED <<chosen, vars>>
  \/ chosen = "window" /\ Window!Next /\ UNCHANGED <<chosen, vars>>

PartSpec == PartInit /\ [][PartNext]_<<chosen, slots, vars>>

Symmetry == Permutations({x1, x2})

\* GateHttp: a request that is taken up on an open socket is answered.
HandledIsAnswered == chosen = "routes" => Routes!HandledIsAnswered

\* GateHttp: a connection is not left reading for longer than its deadline and
\* the calls ahead of its timer.
SlowRequestIsClosed == chosen = "slow" => Slow!SlowRequestIsClosed

\* LogicSystem::Tick: a message that nobody acknowledges is sent again within
\* the longest back-off and the ticks it takes to look at the other sessions.
SilenceIsBounded ==
  (chosen = "turns" => Turns!SilenceIsBounded) /\ (chosen = "window" => Window!SilenceIsBounded)
============================================================================
