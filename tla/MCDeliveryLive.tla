--------------------------- MODULE MCDeliveryLive ---------------------------
(***************************************************************************)
(* What must eventually happen to a text message, for TLC: a sender and a  *)
(* receiver on one node, and a sender with one message to a friend and one *)
(* to a user who is not.  A behaviour of the run is one of the two         *)
(* instances of TextDelivery, the one chosen at the start.                 *)
(***************************************************************************)
EXTENDS Integers, Sequences

CONSTANTS n1, ann, bob, eve, a, b, sa, sb, m1, m2, NoSession, NoNode, NoMessage

VARIABLES chosen,
  id, via, acked, uip, phase, uid, step, usermgr, tracked, window, notifyq, wakeq,
  up, down, conn, client, store, shown, crashes

vars ==
  <<id, via, acked, uip, phase, uid, step, usermgr, tracked, window, notifyq, wakeq,
    up, down, conn, client, store, shown, crashes>>

Delivery == INSTANCE TextDelivery WITH
  Nodes <- {n1}, Users <- {ann, bob}, Devices <- {a, b}, Sessions <- {sa, sb}, Messages <- {m1},
  DeviceUser <- [d \in {a, b} |-> IF d = a THEN ann ELSE bob],
  SessionDevice <- [s \in {sa, sb} |-> IF s = sa THEN a ELSE b], SessionNode <- [s \in {sa, sb} |-> n1],
  Origin <- [m \in {m1} |-> a], Receiver <- [m \in {m1} |-> bob], Friends <- {<<ann, bob>>, <<bob, ann>>},
  Backlog <- << >>, Capacity <- 1, SendLimit <- 1, WriteLimit <- 1, MaxCrashes <- 0

Sending == INSTANCE TextDelivery WITH
  Nodes <- {n1}, Users <- {ann, bob, eve}, Devices <- {a}, Sessions <- {sa}, Messages <- {m1, m2},
  DeviceUser <- [d \in {a} |-> ann], SessionDevice <- [s \in {sa} |-> a], SessionNode <- [s \in {sa} |-> n1],
  Origin <- [m \in {m1, m2} |-> a], Receiver <- [m \in {m1, m2} |-> IF m = m1 THEN bob ELSE eve],
  Friends <- {<<ann, bob>>, <<bob, ann>>},
  Backlog <- << >>, Capacity <- 1, SendLimit <- 1, WriteLimit <- 1, MaxCrashes <- 0

ASSUME
  /\ Delivery!Topology /\ Delivery!NotToOneself /\ Delivery!Limits /\ Delivery!Distinct
  /\ Sending!Topology /\ Sending!NotToOneself /\ Sending!Limits /\ Sending!Distinct

Init ==
  \/ chosen = "delivery" /\ Delivery!Init
  \/ chosen = "sending" /\ Sending!Init

Next ==
  \/ chosen = "delivery" /\ Delivery!Next /\ UNCHANGED chosen
  \/ chosen = "sending" /\ Sending!Next /\ UNCHANGED chosen

-----------------------------------------------------------------------------
(* DeliveryFairness and OutboxFairness of TextDelivery, or less: the strong  *)
(* fairness is of one message and of any session that may take the step.     *)

FairReading ==
  /\ \A d \in {a, b} :
       WF_vars(chosen = "delivery" /\ (\/ Delivery!RecvLoginRsp(d) \/ Delivery!RecvError(d)
                                       \/ Delivery!RecvTextRsp(d, TRUE) \/ Delivery!RecvNotify(d)))
  /\ WF_vars(chosen = "sending" /\ (\/ Sending!RecvLoginRsp(a) \/ Sending!RecvError(a)
                                    \/ Sending!RecvTextRsp(a, TRUE) \/ Sending!RecvNotify(a)))
FairSettling ==
  /\ \A s \in {sa, sb} : WF_vars(chosen = "delivery" /\ Delivery!AckFailed(s))
  /\ WF_vars(chosen = "sending" /\ (Sending!TextUnavailable(sa) \/ Sending!TextRefused(sa)))
  /\ []<>(chosen = "sending" => Sending!Quiet(a))

FairRetrying ==
  /\ SF_vars(\/ chosen = "delivery" /\ \E s \in {sa, sb} : Delivery!TickDeliver(s, TRUE) /\ Delivery!Sends(s, m1)
             \/ chosen = "sending" /\ Sending!FlushOutbox(a, m1) /\ Sending!Writes(a) /\ Sending!Quiet(a))
  /\ SF_vars(\/ chosen = "delivery" /\ \E s \in {sa, sb} : Delivery!AckCommitted(s, TRUE)
             \/ chosen = "sending" /\ Sending!TextAccepted(sa) /\ Sending!CanSend(sa) /\ Head(up[sa]).msg = m1)
  /\ SF_vars(\/ chosen = "delivery" /\ \E d \in {a, b} : Delivery!RecvNotify(d) /\ Delivery!Writes(d)
             \/ chosen = "sending" /\ Sending!RecvTextRsp(a, TRUE) /\ store'[a][m1] # store[a][m1])

Spec == Init /\ [][Next]_<<chosen, vars>> /\ FairReading /\ FairSettling /\ FairRetrying

-----------------------------------------------------------------------------
\* DeliverPendingTextMessages: every committed message is acknowledged, and so
\* was stored by the receiver, provided the receiver ends up with a session
\* that stays: whatever wake-ups, queries, frames and sessions were lost before.
CommittedIsDelivered ==
  (/\ <>(chosen = "delivery" /\ id[m1] # 0)
   /\ <>[](chosen = "delivery" /\ Delivery!Online(sb)))
  => <>(m1 \in acked)

\* FlushOutbox: a message a client saved to its outbox is marked accepted there
\* in the end, if that client stays connected: replies that are lost or fail to
\* be saved are made up for by resending, and a message that is refused for
\* ever does not hold up the others.
OutboxDrains ==
  (/\ <>(chosen = "sending" /\ store[a][m1] = "pending")
   /\ <>[](chosen = "sending" /\ Sending!Online(sa)))
  => <>(store[a][m1] = "accepted")
=============================================================================
