---------------------------- MODULE TextDelivery ----------------------------
(***************************************************************************)
(* Text messages from the sender's outbox to the receiver's local store:   *)
(* the client (TcpMgr, MessageStore), the TCP sessions of the chat nodes   *)
(* (CSession, CServer, UserMgr), the handlers of LogicSystem, the wake-up  *)
(* of the node a receiver is on (ChatGrpcClient, ChatServiceImp) and the   *)
(* chat_message table.                                                     *)
(*                                                                         *)
(* A message stands for its key (sender_uid, client_message_id) together   *)
(* with the receiver and the content, which the key determines: ids are    *)
(* UUIDs made by the composing client.  Time is abstracted: a retry timer  *)
(* may have elapsed or not at any step, so a message that was sent before  *)
(* may or may not be due (DeliveryWindow models the timers themselves).    *)
(***************************************************************************)
EXTENDS Naturals, Sequences, FiniteSets

CONSTANTS
  Nodes,          \* chat nodes
  Users,
  Devices,        \* client installations, each with its own SQLite store
  Sessions,       \* TCP connections; an accepted socket gets a fresh UUID
  Messages,
  DeviceUser,     \* the account a device is signed in to
  SessionDevice,  \* the device that opens a connection
  SessionNode,    \* the node it opens it to
  Origin,         \* the device that composes a message
  Receiver,       \* the user a message is for
  Friends,        \* accepted friendships, as a set of ordered pairs
  Backlog,        \* rows committed earlier for receivers who were offline, by id
  Capacity,       \* DeliveryWindow::Capacity (32)
  SendLimit,      \* bound of a session's send queue (MAX_SENDQUE)
  WriteLimit,     \* bound of the client's socket buffer
  MaxCrashes,     \* bound on node crashes
  NoSession, NoNode, NoMessage

ASSUME Topology ==
  /\ DeviceUser \in [Devices -> Users]
  /\ SessionDevice \in [Sessions -> Devices]
  /\ SessionNode \in [Sessions -> Nodes]
  /\ Origin \in [Messages -> Devices]
  /\ Receiver \in [Messages -> Users]
  /\ Friends \subseteq Users \X Users
  /\ IsFiniteSet(Messages)
  /\ Backlog \in Seq(Messages)
  /\ \A i, j \in DOMAIN Backlog : Backlog[i] = Backlog[j] => i = j

\* MessageStore::save and TextMessageService::accept refuse the others.
ASSUME NotToOneself == \A m \in Messages : Receiver[m] # DeviceUser[Origin[m]]

ASSUME Limits ==
  /\ Capacity \in Nat \ {0}
  /\ SendLimit \in Nat \ {0}
  /\ WriteLimit \in Nat \ {0}
  /\ MaxCrashes \in Nat

ASSUME Distinct ==
  /\ NoSession \notin Sessions
  /\ NoNode \notin Nodes
  /\ NoMessage \notin Messages

SessionUser(s) == DeviceUser[SessionDevice[s]]
Sender(m) == DeviceUser[Origin[m]]

VARIABLES
  id,       \* chat_message.id of a committed message, 0 while there is no row
  via,      \* the session whose handler committed the row
  acked,    \* rows whose acknowledged_at is set
  uip,      \* Redis: the node a user last logged in to
  phase,    \* session: _b_close and membership in CServer::_sessions
  uid,      \* session: whether SetUserId has bound the user
  step,     \* session: where its LoginChatCallback is
  usermgr,  \* UserMgr::_uid_to_session of each node
  tracked,  \* sessions with an entry in LogicSystem::_delivery
  window,   \* keys of the entry's DeliveryWindow
  notifyq,  \* LogicSystem::_notifications: receivers to wake, per node
  wakeq,    \* WakeDelivery tasks posted to a session's shard
  up,       \* frames written by the client, not yet dealt with
  down,     \* frames in the session's send queue or on the wire
  conn,     \* device: its current connection
  client,   \* device: MessageStore not opened / opened / authenticated
  store,    \* device: state of each message in its MessageStore
  shown,    \* device: messages handed to the UI, in order
  crashes   \* crashes so far

dbvars      == <<id, via, acked>>
sessionvars == <<phase, uid, step, usermgr, uip>>
deliveryvars == <<tracked, window>>
queuevars   == <<notifyq, wakeq>>
clientvars  == <<conn, client, store, shown>>
vars == <<dbvars, sessionvars, deliveryvars, queuevars, up, down, clientvars, crashes>>

FrameTypes == {"login", "text", "ack", "loginRsp", "loginErr", "textRsp", "textErr", "notify"}
Frames == [type : FrameTypes, msg : Messages \cup {NoMessage}]
Frame(t, m) == [type |-> t, msg |-> m]

Elems(f) == {f[x] : x \in DOMAIN f}

\* 0 while there is no row.
BacklogId(m) ==
  IF m \in Elems(Backlog) THEN CHOOSE i \in DOMAIN Backlog : Backlog[i] = m ELSE 0

Init ==
  /\ id = [m \in Messages |-> BacklogId(m)]
  /\ via = [m \in Messages |-> NoSession]
  /\ acked = {}
  /\ uip = [u \in Users |-> NoNode]
  /\ phase = [s \in Sessions |-> "none"]
  /\ uid = [s \in Sessions |-> FALSE]
  /\ step = [s \in Sessions |-> "idle"]
  /\ usermgr = [n \in Nodes |-> [u \in Users |-> NoSession]]
  /\ tracked = {}
  /\ window = [s \in Sessions |-> {}]
  /\ notifyq = {}
  /\ wakeq = {}
  /\ up = [s \in Sessions |-> <<>>]
  /\ down = [s \in Sessions |-> <<>>]
  /\ conn = [d \in Devices |-> NoSession]
  /\ client = [d \in Devices |-> "closed"]
  /\ store = [d \in Devices |-> [m \in Messages |->
       IF m \in Elems(Backlog) /\ d = Origin[m] THEN "accepted" ELSE "absent"]]
  /\ shown = [d \in Devices |-> <<>>]
  /\ crashes = 0

-----------------------------------------------------------------------------
(* Sessions on a chat node. *)

\* CSession::Send refuses a frame when the session is closed or its queue full.
CanSend(s) == phase[s] = "open" /\ Len(down[s]) < SendLimit
Send(s, f) == IF CanSend(s) THEN [down EXCEPT ![s] = Append(@, f)] ELSE down

\* A shard runs one task of a session at a time: while its login callback is
\* under way no other frame, wake-up or tick of the session is.
Idle(s) == step[s] = "idle"

\* DealMsg drops the frames of a closed session.
Dealing(s, type) ==
  /\ phase[s] = "open" /\ Idle(s)
  /\ up[s] # <<>> /\ Head(up[s]).type = type

\* slot_tcp_connect: a fresh login closes the message store and drops what is
\* left of the old connection; the login frame is written once the transport
\* is up.
TcpConnect(d, s) ==
  /\ conn[d] = NoSession
  /\ conn' = [conn EXCEPT ![d] = s]
  /\ client' = [client EXCEPT ![d] = "closed"]
  /\ up' = [up EXCEPT ![s] = <<Frame("login", NoMessage)>>]

\* CServer::HandleAccept registers and starts the new session.
HandleAccept(s) ==
  /\ phase[s] = "none"
  /\ phase' = [phase EXCEPT ![s] = "open"]

Connect(s) ==
  /\ TcpConnect(SessionDevice[s], s) /\ HandleAccept(s)
  /\ UNCHANGED <<dbvars, uid, step, usermgr, uip, deliveryvars, queuevars, down,
                 store, shown, crashes>>

\* CSession::Close, from the network, a timer, a rejected frame or Stop:
\* first the flag, which makes DealMsg drop what is queued ...
Close(s) ==
  /\ phase[s] = "open"
  /\ phase' = [phase EXCEPT ![s] = "closing"]
  /\ up' = [up EXCEPT ![s] = <<>>]
  /\ UNCHANGED <<dbvars, uid, step, usermgr, uip, deliveryvars, queuevars, down,
                 clientvars, crashes>>

\* UserMgr::RmvUserSession: only if the map still names this session.
RmvUserSession(n, u, s) ==
  usermgr' = IF usermgr[n][u] = s THEN [usermgr EXCEPT ![n][u] = NoSession] ELSE usermgr

\* ... then CServer::ClearSession, which unmaps the user if the session has
\* one by now.
ClearSession(s) ==
  /\ phase[s] = "closing"
  /\ phase' = [phase EXCEPT ![s] = "cleared"]
  /\ IF uid[s] THEN RmvUserSession(SessionNode[s], SessionUser(s), s) ELSE UNCHANGED usermgr
  /\ UNCHANGED <<dbvars, uid, step, uip, deliveryvars, queuevars, up, down,
                 clientvars, crashes>>

-----------------------------------------------------------------------------
(* Delivery of the pending window. *)

\* GetPendingTextMessages: the first Capacity unacknowledged rows by id.
Unacked(u, acks) == {m \in Messages : id[m] # 0 /\ Receiver[m] = u /\ m \notin acks}
Pending(u, acks) ==
  {m \in Unacked(u, acks) :
     Cardinality({k \in Unacked(u, acks) : id[k] <= id[m]}) <= Capacity}

\* What one pass over the pending rows may send: in id order, every row that
\* is not in the window and those in it whose retry is due, until Send fails
\* for want of room.
Batches == UNION {[1 .. k -> Messages] : k \in 0 .. Capacity}
IsBatch_unordered(b, pending, sent, room) ==  \* mutation: no ORDER BY id
  /\ Len(b) <= room /\ Elems(b) \subseteq pending
  /\ \A i, j \in DOMAIN b : i < j => b[i] # b[j]
  /\ \A m \in pending \ (sent \cup Elems(b)) : Len(b) = room
IsBatch_neverAgain(b, pending, sent, room) ==  \* mutation: a sent row is never due
  /\ Len(b) <= room /\ Elems(b) \subseteq pending \ sent
  /\ \A i, j \in DOMAIN b : i < j => id[b[i]] < id[b[j]]
  /\ \A m \in pending \ (sent \cup Elems(b)) : Len(b) = room
IsBatch(b, pending, sent, room) ==
  /\ Len(b) <= room
  /\ Elems(b) \subseteq pending
  /\ \A i, j \in DOMAIN b : i < j => id[b[i]] < id[b[j]]
  /\ \A m \in pending \ (sent \cup Elems(b)) :
       Len(b) = room /\ (b # <<>> => id[m] > id[b[Len(b)]])

Notifications(b) == [i \in DOMAIN b |-> Frame("notify", b[i])]

\* DeliverPendingTextMessages on an open session; q is its send queue so far.
\* A failed query leaves the window alone.
DeliverPendingTextMessages(s, acks, q, queried) ==
  LET pending == Pending(SessionUser(s), acks) IN
  /\ tracked' = tracked \cup {s}
  /\ \/ /\ ~queried
        /\ window' = window
        /\ down' = [down EXCEPT ![s] = q]
     \/ /\ queried
        /\ \E b \in Batches :
             /\ IsBatch(b, pending, window[s] \cap pending, SendLimit - Len(q))
             /\ window' = [window EXCEPT ![s] = (@ \cap pending) \cup Elems(b)]
             /\ down' = [down EXCEPT ![s] = q \o Notifications(b)]

\* LogicSystem::Tick for one session of the shard: an entry whose session is
\* closed or is no longer its user's is erased, another is reconciled when due.
Current(s) == usermgr[SessionNode[s]][SessionUser(s)] = s

TickErase(s) ==
  /\ s \in tracked /\ Idle(s)
  /\ phase[s] # "open" \/ ~Current(s)
  /\ tracked' = tracked \ {s}
  /\ window' = [window EXCEPT ![s] = {}]
  /\ UNCHANGED <<dbvars, sessionvars, queuevars, up, down, clientvars, crashes>>

TickDeliver(s, queried) ==
  /\ s \in tracked /\ Idle(s)
  /\ phase[s] = "open" /\ Current(s)
  /\ DeliverPendingTextMessages(s, acked, down[s], queried)
  /\ UNCHANGED <<dbvars, sessionvars, queuevars, up, clientvars, crashes>>

\* The task WakeDelivery posts to the session's shard.
RunWake(s, queried) ==
  /\ s \in wakeq /\ Idle(s)
  /\ wakeq' = wakeq \ {s}
  /\ \/ /\ phase[s] = "open"
        /\ DeliverPendingTextMessages(s, acked, down[s], queried)
     \/ /\ phase[s] # "open"
        /\ UNCHANGED <<deliveryvars, down>>
  /\ UNCHANGED <<dbvars, sessionvars, notifyq, up, clientvars, crashes>>

-----------------------------------------------------------------------------
(* LoginChatCallback.  The shard runs it while other threads run Close. *)

\* The ticket, the node or the user's record is refused.
LoginReject(s) ==
  /\ Dealing(s, "login")
  /\ up' = [up EXCEPT ![s] = Tail(@)]
  /\ down' = Send(s, Frame("loginErr", NoMessage))
  /\ UNCHANGED <<dbvars, sessionvars, deliveryvars, queuevars, clientvars, crashes>>

\* The ticket is consumed and session->SetUserId(uid) binds the user.
LoginSetUserId(s) ==
  /\ Dealing(s, "login") /\ ~uid[s]
  /\ up' = [up EXCEPT ![s] = Tail(@)]
  /\ uid' = [uid EXCEPT ![s] = TRUE]
  /\ step' = [step EXCEPT ![s] = "uid"]
  /\ UNCHANGED <<dbvars, phase, usermgr, uip, deliveryvars, queuevars, down,
                 clientvars, crashes>>

\* Redis is told which node the user is on.
LoginSetNode(s) ==
  /\ step[s] = "uid"
  /\ uip' = [uip EXCEPT ![SessionUser(s)] = SessionNode[s]]
  /\ step' = [step EXCEPT ![s] = "node"]
  /\ UNCHANGED <<dbvars, phase, uid, usermgr, deliveryvars, queuevars, up, down,
                 clientvars, crashes>>

\* UserMgr::SetUserSession replaces whatever session the user had.
LoginSetUserSession(s) ==
  /\ step[s] = "node"
  /\ usermgr' = [usermgr EXCEPT ![SessionNode[s]][SessionUser(s)] = s]
  /\ step' = [step EXCEPT ![s] = "session"]
  /\ UNCHANGED <<dbvars, phase, uid, uip, deliveryvars, queuevars, up, down,
                 clientvars, crashes>>

\* The deferred reply, followed by the first delivery if Send took it.
LoginReply(s, queried) ==
  /\ step[s] = "session"
  /\ step' = [step EXCEPT ![s] = "idle"]
  /\ \/ /\ CanSend(s)
        /\ DeliverPendingTextMessages(s, acked,
             Append(down[s], Frame("loginRsp", NoMessage)), queried)
     \/ /\ ~CanSend(s)
        /\ UNCHANGED <<deliveryvars, down>>
  /\ UNCHANGED <<dbvars, phase, uid, usermgr, uip, queuevars, up, clientvars, crashes>>

-----------------------------------------------------------------------------
(* TextChatMsgCallback and the wake-up of the recipient. *)

\* A frame before login closes the session (AsyncReadBody, DealMsg).
Authorized(s, type) == Dealing(s, type) /\ uid[s]

\* PersistTextMessages inserts the row or finds it there.  The id is above
\* those the same session committed before it; rows of transactions that
\* commit concurrently may have ids on either side.  The bound leaves one id
\* above all others for every later commit.
Rows == {m \in Messages : id[m] # 0}
FreshIds(s) ==
  {i \in 1 .. Cardinality(Messages) + Cardinality(Rows) :
     i \in Nat \ {0} /\ \A k \in Rows : id[k] # i /\ (via[k] = s => i > id[k])}
PersistTextMessages_plainInsert(s, m) ==  \* mutation: no ON DUPLICATE KEY
  /\ id[m] = 0
  /\ \E i \in FreshIds(s) : id' = [id EXCEPT ![m] = i]
  /\ via' = [via EXCEPT ![m] = s]
PersistTextMessages(s, m) ==
  \/ /\ id[m] # 0
     /\ UNCHANGED <<id, via>>
  \/ /\ id[m] = 0
     /\ \E i \in FreshIds(s) : id' = [id EXCEPT ![m] = i]
     /\ via' = [via EXCEPT ![m] = s]

\* Committed: the reply says accepted, and a wake-up is posted unless the
\* notification queue is full.
TextAccepted(s) ==
  LET m == Head(up[s]).msg IN
  /\ Authorized(s, "text") /\ <<Sender(m), Receiver[m]>> \in Friends
  /\ PersistTextMessages(s, m)
  /\ notifyq' \in {notifyq, notifyq \cup {<<SessionNode[s], Receiver[m]>>}}
  /\ up' = [up EXCEPT ![s] = Tail(@)]
  /\ down' = Send(s, Frame("textRsp", m))
  /\ UNCHANGED <<acked, sessionvars, deliveryvars, wakeq, clientvars, crashes>>

TextUnavailable_accepted(s) ==  \* mutation: answers before the commit
  LET m == Head(up[s]).msg IN
  /\ Authorized(s, "text")
  /\ up' = [up EXCEPT ![s] = Tail(@)]
  /\ down' = Send(s, Frame("textRsp", m))
  /\ UNCHANGED <<dbvars, sessionvars, deliveryvars, queuevars, clientvars, crashes>>

\* Friendship or persistence is unavailable; a commit whose outcome was lost
\* may have taken effect.
TextUnavailable(s) ==
  LET m == Head(up[s]).msg IN
  /\ Authorized(s, "text") /\ <<Sender(m), Receiver[m]>> \in Friends
  /\ PersistTextMessages(s, m) \/ UNCHANGED <<id, via>>
  /\ up' = [up EXCEPT ![s] = Tail(@)]
  /\ down' = Send(s, Frame("textErr", m))
  /\ UNCHANGED <<acked, sessionvars, deliveryvars, queuevars, clientvars, crashes>>

\* Not friends: UidInvalid.
TextRefused(s) ==
  LET m == Head(up[s]).msg IN
  /\ Authorized(s, "text") /\ <<Sender(m), Receiver[m]>> \notin Friends
  /\ up' = [up EXCEPT ![s] = Tail(@)]
  /\ down' = Send(s, Frame("textErr", m))
  /\ UNCHANGED <<dbvars, sessionvars, deliveryvars, queuevars, clientvars, crashes>>

\* WakeDelivery(u) on node n: the task, or none if the session is closed or
\* the shard's queue is full.
WakeDelivery(n, u) ==
  LET s == usermgr[n][u] IN
  IF s # NoSession /\ phase[s] = "open"
    THEN wakeq' \in {wakeq, wakeq \cup {s}} ELSE UNCHANGED wakeq

\* NotifyRecipient: a session on this node, even a closed one, ends the
\* search; otherwise the node named in Redis is called, if it is another one
\* and the call gets through.
NotifyRecipient(n, u) ==
  /\ <<n, u>> \in notifyq
  /\ notifyq' = notifyq \ {<<n, u>>}
  /\ \/ /\ usermgr[n][u] # NoSession
        /\ WakeDelivery(n, u)
     \/ /\ usermgr[n][u] = NoSession /\ uip[u] \notin {n, NoNode}
        /\ WakeDelivery(uip[u], u)
     \/ /\ usermgr[n][u] = NoSession
        /\ UNCHANGED wakeq
  /\ UNCHANGED <<dbvars, sessionvars, deliveryvars, up, down, clientvars, crashes>>

-----------------------------------------------------------------------------
(* TextChatAckCallback. *)

\* AcknowledgeTextMessages updates the row only if it is the session's user's.
Acknowledged(s, m) ==
  IF id[m] # 0 /\ Receiver[m] = SessionUser(s) THEN acked \cup {m} ELSE acked

AckCommitted(s, queried) ==
  LET m == Head(up[s]).msg IN
  /\ Authorized(s, "ack")
  /\ acked' = Acknowledged(s, m)
  /\ up' = [up EXCEPT ![s] = Tail(@)]
  /\ DeliverPendingTextMessages(s, acked', down[s], queried)
  /\ UNCHANGED <<id, via, sessionvars, queuevars, clientvars, crashes>>

\* The transaction failed, or its outcome was lost: no delivery follows.
AckFailed(s) ==
  LET m == Head(up[s]).msg IN
  /\ Authorized(s, "ack")
  /\ acked' \in {acked, Acknowledged(s, m)}
  /\ up' = [up EXCEPT ![s] = Tail(@)]
  /\ UNCHANGED <<id, via, sessionvars, deliveryvars, queuevars, down, clientvars, crashes>>

-----------------------------------------------------------------------------
(* The client. *)

\* writeFrame: lost when the buffer is full or the peer is gone.
Write(s, f) ==
  IF phase[s] = "open" /\ Len(up[s]) < WriteLimit
    THEN [up EXCEPT ![s] = Append(@, f)] ELSE up

\* MessageStore::save, for one message: a row that is there stays as it is.
Save(d, m, state) ==
  store' = IF store[d][m] = "absent" THEN [store EXCEPT ![d][m] = state] ELSE store

\* enqueueText saves the message as pending, then flushOutbox sends it if the
\* client is authenticated.
EnqueueText(d, m) ==
  /\ Origin[m] = d /\ client[d] # "closed" /\ store[d][m] = "absent"
  /\ Save(d, m, "pending")
  /\ up' = IF client[d] = "online" THEN Write(conn[d], Frame("text", m)) ELSE up
  /\ UNCHANGED <<dbvars, sessionvars, deliveryvars, queuevars, down, conn, client,
                 shown, crashes>>

\* The outbox timer: a pending message whose backoff has elapsed is sent again
\* with its original id.
FlushOutbox(d, m) ==
  /\ client[d] = "online" /\ Origin[m] = d /\ store[d][m] = "pending"
  /\ up' = Write(conn[d], Frame("text", m))
  /\ UNCHANGED <<dbvars, sessionvars, deliveryvars, queuevars, down, clientvars, crashes>>

Receiving(d, type) ==
  /\ conn[d] # NoSession /\ down[conn[d]] # <<>>
  /\ Head(down[conn[d]]).type = type
  /\ down' = [down EXCEPT ![conn[d]] = Tail(@)]

\* The login reply opens the message store and starts the timers.
RecvLoginRsp(d) ==
  /\ Receiving(d, "loginRsp")
  /\ client' = [client EXCEPT ![d] = "online"]
  /\ UNCHANGED <<dbvars, sessionvars, deliveryvars, queuevars, up, conn, store, shown, crashes>>

\* Error replies change nothing: a refused login waits for the user, a refused
\* text stays pending.
RecvError(d) ==
  /\ Receiving(d, "loginErr") \/ Receiving(d, "textErr")
  /\ UNCHANGED <<dbvars, sessionvars, deliveryvars, queuevars, up, clientvars, crashes>>

\* MessageStore::accept updates the row it finds; when it cannot, the text
\* stays pending and is sent again.
RecvTextRsp(d, saved) ==
  LET m == Head(down[conn[d]]).msg IN
  /\ Receiving(d, "textRsp")
  /\ store' = IF saved /\ store[d][m] # "absent"
                THEN [store EXCEPT ![d][m] = "accepted"] ELSE store
  /\ UNCHANGED <<dbvars, sessionvars, deliveryvars, queuevars, up, conn, client, shown, crashes>>

RecvNotify_ackOnly(d) ==  \* mutation: acknowledges what it failed to save
  LET m == Head(down[conn[d]]).msg IN
  /\ Receiving(d, "notify")
  /\ up' = Write(conn[d], Frame("ack", m))
  /\ UNCHANGED <<dbvars, sessionvars, deliveryvars, queuevars, clientvars, crashes>>
RecvNotify_noDedup(d) ==  \* mutation: a redelivery is shown again
  LET m == Head(down[conn[d]]).msg IN
  /\ Receiving(d, "notify")
  /\ store' = [store EXCEPT ![d][m] = "received"]
  /\ shown' = [shown EXCEPT ![d] = Append(@, m)]
  /\ up' = Write(conn[d], Frame("ack", m))
  /\ UNCHANGED <<dbvars, sessionvars, deliveryvars, queuevars, conn, client, crashes>>

\* A delivered message is saved unless it is there already, shown if it is
\* new, and acknowledged either way.
RecvNotify(d) ==
  LET m == Head(down[conn[d]]).msg
      fresh == store[d][m] = "absent" IN
  /\ Receiving(d, "notify")
  /\ client[d] = "online" /\ Receiver[m] = DeviceUser[d]
  /\ Save(d, m, "received")
  /\ shown' = IF fresh THEN [shown EXCEPT ![d] = Append(@, m)] ELSE shown
  /\ up' = Write(conn[d], Frame("ack", m))
  /\ UNCHANGED <<dbvars, sessionvars, deliveryvars, queuevars, conn, client, crashes>>

\* The connection is lost or aborted: missed heartbeats, a network error, a
\* closed peer, a change of proxy, or a message that could not be saved.  What
\* was on the wire is gone; the server finds out later.
Disconnect(d) ==
  /\ conn[d] # NoSession
  /\ conn' = [conn EXCEPT ![d] = NoSession]
  /\ client' = [client EXCEPT ![d] = IF @ = "online" THEN "offline" ELSE @]
  /\ down' = [down EXCEPT ![conn[d]] = <<>>]
  /\ UNCHANGED <<dbvars, sessionvars, deliveryvars, queuevars, up, store, shown, crashes>>

-----------------------------------------------------------------------------
\* A chat process dies and is started again: its memory is gone, MySQL and
\* Redis are not.
Crash(n) ==
  LET here == {s \in Sessions : SessionNode[s] = n /\ phase[s] # "none"} IN
  /\ crashes < MaxCrashes
  /\ crashes' = crashes + 1
  /\ phase' = [s \in Sessions |-> IF s \in here THEN "cleared" ELSE phase[s]]
  /\ step' = [s \in Sessions |-> IF s \in here THEN "idle" ELSE step[s]]
  /\ usermgr' = [usermgr EXCEPT ![n] = [u \in Users |-> NoSession]]
  /\ tracked' = tracked \ here
  /\ window' = [s \in Sessions |-> IF s \in here THEN {} ELSE window[s]]
  /\ notifyq' = {q \in notifyq : q[1] # n}
  /\ wakeq' = wakeq \ here
  /\ up' = [s \in Sessions |-> IF s \in here THEN <<>> ELSE up[s]]
  /\ UNCHANGED <<dbvars, uid, uip, down, clientvars>>

SessionStep(s) ==
  \/ Connect(s) \/ Close(s) \/ ClearSession(s) \/ TickErase(s)
  \/ LoginReject(s) \/ LoginSetUserId(s) \/ LoginSetNode(s) \/ LoginSetUserSession(s)
  \/ TextAccepted(s) \/ TextUnavailable(s) \/ TextRefused(s) \/ AckFailed(s)
  \/ \E queried \in BOOLEAN :
       \/ TickDeliver(s, queried) \/ RunWake(s, queried)
       \/ LoginReply(s, queried) \/ AckCommitted(s, queried)

ClientStep(d) ==
  \/ RecvLoginRsp(d) \/ RecvError(d) \/ RecvNotify(d) \/ Disconnect(d)
  \/ \E saved \in BOOLEAN : RecvTextRsp(d, saved)
  \/ \E m \in Messages : EnqueueText(d, m) \/ FlushOutbox(d, m)

NodeStep(n) == Crash(n) \/ \E u \in Users : NotifyRecipient(n, u)

Next ==
  \/ \E s \in Sessions : SessionStep(s)
  \/ \E d \in Devices : ClientStep(d)
  \/ \E n \in Nodes : NodeStep(n)

Spec == Init /\ [][Next]_vars

-----------------------------------------------------------------------------
(* Properties. *)

\* Every variable has its type.
TypeOK ==
  /\ id \in [Messages -> Nat]
  /\ via \in [Messages -> Sessions \cup {NoSession}]
  /\ acked \subseteq Messages
  /\ uip \in [Users -> Nodes \cup {NoNode}]
  /\ phase \in [Sessions -> {"none", "open", "closing", "cleared"}]
  /\ uid \in [Sessions -> BOOLEAN]
  /\ step \in [Sessions -> {"idle", "uid", "node", "session"}]
  /\ usermgr \in [Nodes -> [Users -> Sessions \cup {NoSession}]]
  /\ tracked \subseteq Sessions
  /\ window \in [Sessions -> SUBSET Messages]
  /\ notifyq \subseteq Nodes \X Users
  /\ wakeq \subseteq Sessions
  /\ up \in [Sessions -> Seq(Frames)]
  /\ down \in [Sessions -> Seq(Frames)]
  /\ conn \in [Devices -> Sessions \cup {NoSession}]
  /\ client \in [Devices -> {"closed", "offline", "online"}]
  /\ store \in [Devices -> [Messages -> {"absent", "pending", "accepted", "received"}]]
  /\ shown \in [Devices -> Seq(Messages)]
  /\ crashes \in 0 .. MaxCrashes

\* What the sender's store calls accepted is committed: the reply of
\* TextChatMsgCallback is sent only after PersistTextMessages returned true.
AcceptedIsPersisted ==
  \A d \in Devices, m \in Messages : store[d][m] = "accepted" => id[m] # 0

\* A row is acknowledged only when a device of its receiver holds the message:
\* the client saves before it acknowledges, so a redelivery is never cut short.
AckedIsStored ==
  \A m \in acked : \E d \in Devices :
    DeviceUser[d] = Receiver[m] /\ store[d][m] = "received"

\* However often frames are repeated and sessions replaced, a device shows a
\* message at most once, and messages one session of a sender committed are
\* shown in the order of their rows.
ShownOnceInOrder ==
  \A d \in Devices : \A i, j \in DOMAIN shown[d] :
    i < j => /\ shown[d][i] # shown[d][j]
             /\ via[shown[d][i]] = via[shown[d][j]] => id[shown[d][i]] < id[shown[d][j]]

\* The promise of the message service: accepted once, shown once per device,
\* settled after being shown (module Mailbox).
Service == INSTANCE Mailbox WITH
             accepted <- Rows, settled <- acked
ServiceSpec == Service!Spec

-----------------------------------------------------------------------------
(* The inductive invariant behind AcceptedIsPersisted, AckedIsStored and     *)
(* ServiceSpec: what frames in flight and entries of a store vouch for.      *)

UpSound(s, f) ==
  /\ f.type \in {"login", "text", "ack"}
  /\ f.type = "text" => f.msg \in Messages /\ Origin[f.msg] = SessionDevice[s]
  /\ f.type = "ack" => f.msg \in Messages /\ store[SessionDevice[s]][f.msg] = "received"

DownSound(s, f) ==
  /\ f.type = "textRsp" =>
       f.msg \in Rows /\ Origin[f.msg] = SessionDevice[s]
  /\ f.type = "notify" => f.msg \in Rows /\ Receiver[f.msg] = SessionUser(s)

StoreSound(d, m) ==
  /\ store[d][m] \in {"pending", "accepted"} => Origin[m] = d
  /\ store[d][m] = "accepted" => m \in Rows
  /\ store[d][m] = "received" => m \in Rows /\ DeviceUser[d] = Receiver[m]
  /\ store[d][m] = "received" <=> m \in Elems(shown[d])

ConnSound(d) ==
  /\ conn[d] # NoSession => SessionDevice[conn[d]] = d
  /\ client[d] = "online" => conn[d] # NoSession

\* Every frame in flight and every entry of a store is backed by the state it
\* reports: a reply or a delivery by a committed row, an ACK by a saved message.
Soundness ==
  /\ \A s \in Sessions : \A i \in 1 .. Len(up[s]) : UpSound(s, up[s][i])
  /\ \A s \in Sessions : \A i \in 1 .. Len(down[s]) : DownSound(s, down[s][i])
  /\ \A d \in Devices : ConnSound(d) /\ \A m \in Messages : StoreSound(d, m)
  /\ acked \subseteq Rows
  /\ AckedIsStored

(* The inductive invariant behind ShownOnceInOrder: what a device has shown   *)
(* and what is on its way to it are in order together.                       *)

\* The session that committed m committed k before it, for the same user.
Before(k, m) ==
  /\ {k, m} \subseteq Rows /\ Receiver[k] = Receiver[m]
  /\ via[k] = via[m] /\ id[k] < id[m]

Carries(s, i, m) == down[s][i] = Frame("notify", m)
InFlight(s, m) == \E i \in 1 .. Len(down[s]) : Carries(s, i, m)

RowsDistinct == \A k, m \in Rows : id[k] = id[m] => k = m

\* A session that does not exist yet has nothing; a device has one that exists.
Unopened ==
  /\ \A s \in Sessions : phase[s] = "none" => down[s] = <<>> /\ window[s] = {}
  /\ \A d \in Devices : conn[d] # NoSession => phase[conn[d]] # "none"

\* What the window of a device's session takes for sent was shown there, or is
\* still on its way.
WindowIsSent ==
  \A s \in Sessions : conn[SessionDevice[s]] = s =>
    \A k \in window[s] : k \in Elems(shown[SessionDevice[s]]) \/ InFlight(s, k)

\* A message on its way has its predecessors ahead of it; or one is settled by
\* another device, and does not follow.
SentInOrder ==
  \A s \in Sessions : conn[SessionDevice[s]] = s =>
    \A i \in 1 .. Len(down[s]) : \A k, m \in Messages : Carries(s, i, m) /\ Before(k, m) =>
      \/ k \in Elems(shown[SessionDevice[s]])
      \/ \E j \in 1 .. i - 1 : Carries(s, j, k)
      \/ k \in acked /\ \A j \in i .. Len(down[s]) : ~Carries(s, j, k)

\* So has a message that was shown.
ShownInOrder ==
  \A d \in Devices : \A i \in 1 .. Len(shown[d]) : \A k \in Messages : Before(k, shown[d][i]) =>
    \/ \E j \in 1 .. i - 1 : shown[d][j] = k
    \/ /\ k \in acked /\ k \notin Elems(shown[d])
       /\ conn[d] # NoSession => ~InFlight(conn[d], k)

ShownOnce ==
  \A d \in Devices : \A i, j \in 1 .. Len(shown[d]) : shown[d][i] = shown[d][j] => i = j

Ordered == RowsDistinct /\ Unopened /\ WindowIsSent /\ SentInOrder /\ ShownInOrder /\ ShownOnce

-----------------------------------------------------------------------------
(* Liveness. *)

Sends(s, m) == Len(down'[s]) > Len(down[s]) /\ down'[s][Len(down'[s])] = Frame("notify", m)
Writes(d) == conn[d] # NoSession /\ up'[conn[d]] # up[conn[d]]
Quiet(d) == conn[d] # NoSession => up[conn[d]] = <<>> /\ down[conn[d]] = <<>>

\* The receiving side.  Tick visits every entry again, its query succeeds at
\* last, and a message still pending becomes due again and finds room (the
\* backoff is at most 40 seconds); the client reads its socket, and its writes
\* do not stay blocked for ever; the shard runs the queued ACKs, and one that
\* is repeated commits at last.
DeliveryFairness ==
  /\ \A s \in Sessions, m \in Messages : SF_vars(TickDeliver(s, TRUE) /\ Sends(s, m))
  /\ \A s \in Sessions : WF_vars(AckFailed(s)) /\ SF_vars(AckCommitted(s, TRUE))
  /\ \A d \in Devices :
       /\ WF_vars(RecvLoginRsp(d) \/ RecvError(d) \/ RecvTextRsp(d, TRUE) \/ RecvNotify(d))
       /\ SF_vars(RecvNotify(d) /\ Writes(d))

\* The sending side.  Between two runs of the outbox timer, seconds apart, a
\* connection is now and then idle; the timer finds it so, its writes get
\* through, the shard runs the queued texts, one that is repeated is committed and answered
\* at last, and the client reads and saves the answers.
OutboxFairness ==
  /\ \A d \in Devices :
       /\ []<>Quiet(d)
       /\ \A m \in Messages : SF_vars(FlushOutbox(d, m) /\ Writes(d) /\ Quiet(d))
       /\ WF_vars(RecvLoginRsp(d) \/ RecvError(d) \/ RecvTextRsp(d, TRUE) \/ RecvNotify(d))
       /\ \A m \in Messages :
            SF_vars(RecvTextRsp(d, TRUE) /\ store'[d][m] # store[d][m])
  /\ \A s \in Sessions :
       /\ WF_vars(TextUnavailable(s) \/ TextRefused(s))
       /\ \A m \in Messages :
            SF_vars(TextAccepted(s) /\ CanSend(s) /\ Head(up[s]).msg = m)

DeliverySpec == Spec /\ DeliveryFairness
OutboxSpec == Spec /\ OutboxFairness

\* A session over which the device and the node agree.
Online(s) ==
  /\ phase[s] = "open" /\ Current(s)
  /\ conn[SessionDevice[s]] = s /\ client[SessionDevice[s]] = "online"

\* Every committed message is acknowledged, and so was stored by the receiver,
\* provided the receiver ends up with a session that stays: whatever wake-ups,
\* queries, frames and sessions were lost before.
CommittedIsDelivered ==
  \A m \in Messages :
    (/\ <>(id[m] # 0)
     /\ <>[](\E s \in Sessions : SessionUser(s) = Receiver[m] /\ Online(s)))
    => <>(m \in acked)

\* A message a client saved to its outbox is marked accepted there in the end,
\* if that client stays connected and the users are friends: replies that are
\* lost or fail to be saved are made up for by resending.
OutboxDrains ==
  \A m \in Messages :
    (/\ <>(store[Origin[m]][m] = "pending")
     /\ <>[](\E s \in Sessions : SessionDevice[s] = Origin[m] /\ Online(s))
     /\ <<Sender(m), Receiver[m]>> \in Friends)
    => <>(store[Origin[m]][m] = "accepted")

-----------------------------------------------------------------------------
(* Two statements of the repository that the code does not live up to. *)

\* What the comment in TextChatMsgCallback, "A lost wakeup is covered by
\* reconciliation", and the architecture notes promise for every connected
\* receiver: an authenticated session that stays open on both sides is enough
\* for a committed message to be acknowledged.
ConnectedReceiverIsServed ==
  \A m \in Messages :
    (/\ <>(id[m] # 0)
     /\ <>[](\E s \in Sessions :
               /\ SessionUser(s) = Receiver[m] /\ phase[s] = "open" /\ uid[s]
               /\ conn[SessionDevice[s]] = s /\ client[SessionDevice[s]] = "online"))
    => <>(m \in acked)

\* What the comment on CServer::ClearSession says it does, "delete the session
\* by its id and remove the association of user and session": once it has run
\* and no login callback is under way, the node does not map the user to it.
ClearedIsUnmapped ==
  \A s \in Sessions : phase[s] = "cleared" /\ Idle(s) => ~Current(s)
=============================================================================
