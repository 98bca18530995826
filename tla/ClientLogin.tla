----------------------------- MODULE ClientLogin -----------------------------
(***************************************************************************)
(* A client signs in: the login page (LoginDialog) asks the gate, the      *)
(* status server (StatusServiceImpl) picks a chat node by the health keys  *)
(* the nodes publish (CServer) and stores a one-time ticket for it, the    *)
(* client (TcpMgr) connects to the node and presents the ticket, the node  *)
(* (LogicSystem::LoginChatCallback) consumes it.  Connections break, nodes *)
(* crash, tickets and health keys expire, and the client reconnects with   *)
(* a back-off timer.                                                       *)
(*                                                                         *)
(* One client is modelled.  Its connections are numbered; a login frame    *)
(* that has reached a node is processed even if the connection is gone.    *)
(***************************************************************************)
EXTENDS Integers, FiniteSets

CONSTANTS
  N,           \* chat nodes are 1 .. N, in the order of their names
  MaxTickets,  \* bound: tickets issued
  MaxConns,    \* bound: connections opened
  MaxFaults,   \* bound: crashes, lost connections, failed lookups
  None

LoginConstants == {N, MaxTickets, MaxConns, MaxFaults} \subseteq Nat /\ N > 0 /\ None \notin Nat

Nodes == 1 .. N
Tickets == 1 .. MaxTickets
Conns == 1 .. MaxConns

VARIABLES
  up,        \* the nodes that run
  health,    \* chat_health_<node>: the published number of sessions, or None
  cursor,    \* StatusServiceImpl::_round_robin_cursor, modulo what matters
  ticket,    \* chat_ticket_<t>: the node it is for, or None
  issued,    \* tickets issued so far
  sess,      \* sessions on the nodes, by connection: [node, state]
  tasks,     \* login frames that reached a node: [conn, ticket]
  used,      \* the connections a ticket has authenticated
  page,      \* "auth" (AuthWindow) or "chat" (ChatWindow)
  button,    \* the login button is enabled
  posts,     \* /user_login requests without an answer
  token,     \* LoginDialog::_token
  sock,      \* "closed", "connecting" or "open"
  conn,      \* number of the current connection
  host,      \* the node TcpMgr connects to
  payload,   \* TcpMgr::_login_payload: the ticket in it, or None
  emitted,   \* TcpMgr::_connect_result_emitted
  authed,    \* TcpMgr::_authenticated
  reconn,    \* TcpMgr::_reconnecting
  manual,    \* TcpMgr::_manual_disconnect
  retry,     \* _retry_timer is active
  reply,     \* the login reply on its way to the client, or None
  told,      \* the user was told to sign in again
  faults

server == <<up, health, cursor, ticket, issued, sess, tasks, used>>
dialog == <<page, button, posts, token>>
flags == <<emitted, authed, reconn, manual, retry>>
wire == <<sock, conn, host, payload, reply>>
vars == <<up, health, cursor, ticket, issued, sess, tasks, used, page, button, posts, token,
          sock, conn, host, payload, emitted, authed, reconn, manual, retry, reply, told, faults>>

NoSess == [node |-> None, state |-> "none"]

Init ==
  /\ up = Nodes /\ health = [n \in Nodes |-> 0] /\ cursor = 0
  /\ ticket = [t \in Tickets |-> None] /\ issued = 0
  /\ sess = [c \in Conns |-> NoSess] /\ tasks = {} /\ used = [t \in Tickets |-> {}]
  /\ page = "auth" /\ button = TRUE /\ posts = 0 /\ token = None
  /\ sock = "closed" /\ conn = 0 /\ host = None /\ payload = None /\ reply = None
  /\ emitted = FALSE /\ authed = FALSE /\ reconn = FALSE /\ manual = FALSE /\ retry = FALSE
  /\ told = FALSE /\ faults = 0

Fault == faults < MaxFaults /\ faults' = faults + 1

-----------------------------------------------------------------------------
(* The nodes' health keys. *)
Sessions(n) == {c \in Conns : sess[c].node = n /\ sess[c].state \in {"open", "authed"}}

PublishHealth(n) ==
  /\ n \in up /\ health[n] # Cardinality(Sessions(n))
  /\ health' = [health EXCEPT ![n] = Cardinality(Sessions(n))]
  /\ UNCHANGED <<up, cursor, ticket, issued, sess, tasks, used, dialog, wire, flags, told, faults>>

\* A node that does not publish any more loses its key.
HealthExpires(n) ==
  /\ n \notin up /\ health[n] # None
  /\ health' = [health EXCEPT ![n] = None]
  /\ UNCHANGED <<up, cursor, ticket, issued, sess, tasks, used, dialog, wire, flags, told, faults>>

\* A ticket lives for CHAT_TICKET_TTL_SECONDS.
TicketExpires(t) ==
  /\ ticket[t] # None
  /\ ticket' = [ticket EXCEPT ![t] = None]
  /\ UNCHANGED <<up, health, cursor, issued, sess, tasks, used, dialog, wire, flags, told, faults>>

EndedOn(n) == [c \in Conns |-> IF sess[c].node = n THEN [sess[c] EXCEPT !.state = "closed"] ELSE sess[c]]
Ended(c) == IF c = 0 THEN sess ELSE [sess EXCEPT ![c].state = "closed"]

Crash(n) ==
  /\ n \in up /\ Fault
  /\ up' = up \ {n} /\ tasks' = {k \in tasks : sess[k.conn].node # n}
  /\ sess' = EndedOn(n)
  /\ UNCHANGED <<health, cursor, ticket, issued, used, dialog, wire, flags, told>>

\* StartTimer publishes at once.  An orderly stop deletes the key (StopTimer).
Restart(n) ==
  /\ n \notin up /\ up' = up \cup {n} /\ health' = [health EXCEPT ![n] = 0]
  /\ UNCHANGED <<cursor, ticket, issued, sess, tasks, used, dialog, wire, flags, told, faults>>

StopTimer(n) ==
  /\ n \in up /\ Fault
  /\ up' = up \ {n} /\ tasks' = {k \in tasks : sess[k.conn].node # n}
  /\ sess' = EndedOn(n)
  /\ health' = [health EXCEPT ![n] = None]
  /\ UNCHANGED <<cursor, ticket, issued, used, dialog, wire, flags, told>>

-----------------------------------------------------------------------------
(* The login page, the gate and the status server. *)
LoginBtn ==
  /\ page = "auth" /\ button /\ posts < 2
  /\ button' = FALSE /\ posts' = posts + 1
  /\ UNCHANGED <<server, page, token, wire, flags, told, faults>>

\* selectLeastLoaded: round robin over the least loaded nodes, by name.
Healthy == {n \in Nodes : health[n] # None}
LeastLoaded == {n \in Healthy : \A m \in Healthy : health[n] <= health[m]}
Nth(S, k) == CHOOSE n \in S : Cardinality({m \in S : m < n}) = k
SelectLeastLoaded == Nth(LeastLoaded, cursor % Cardinality(LeastLoaded))

\* StatusServiceImpl::GetChatServer and insertToken.
GetChatServer ==
  /\ Healthy # {} /\ issued < MaxTickets
  /\ ticket' = [ticket EXCEPT ![issued + 1] = SelectLeastLoaded]
  /\ issued' = issued + 1 /\ cursor' = (cursor + 1) % N
  /\ UNCHANGED <<up, health, tasks, used>>

\* TcpMgr::slot_tcp_connect and beginConnection: whatever connection there is
\* is aborted, without a reconnect because the payload is cleared first.
TcpConnect(n) ==
  /\ host' = n /\ payload' = None /\ sock' = "connecting" /\ reply' = None /\ UNCHANGED conn
  /\ sess' = IF sock = "open" THEN Ended(conn) ELSE sess
  /\ emitted' = FALSE /\ authed' = FALSE /\ reconn' = FALSE /\ manual' = FALSE /\ retry' = FALSE

LoginAnswered ==
  /\ posts > 0 /\ page = "auth"
  /\ GetChatServer /\ token' = issued + 1 /\ TcpConnect(SelectLeastLoaded)
  /\ posts' = posts - 1
  /\ UNCHANGED <<page, button, told, faults>>

\* Wrong password, no healthy node, an unavailable service, no answer.
LoginRefused ==
  /\ posts > 0 /\ page = "auth"
  /\ posts' = posts - 1 /\ button' = TRUE
  /\ UNCHANGED <<server, page, token, wire, flags, told, faults>>

-----------------------------------------------------------------------------
(* TcpMgr: the connection. *)
Schedule(r) == retry' = (retry \/ (r /\ ~manual))

\* handleTransportReady: after a reconnect the payload goes out again, else
\* LoginDialog::slot_tcp_con_finish sends its token, which is remembered.
Connected ==
  /\ sock = "connecting" /\ host \in up /\ conn < MaxConns
  /\ sock' = "open" /\ conn' = conn + 1 /\ emitted' = TRUE
  /\ sess' = [sess EXCEPT ![conn + 1] = [node |-> host, state |-> "open"]]
  /\ payload' = IF reconn /\ payload # None THEN payload ELSE token
  /\ tasks' = tasks \cup {[conn |-> conn + 1, ticket |-> payload']}
  /\ UNCHANGED <<up, health, cursor, ticket, issued, used, dialog, host, reply, authed, reconn, manual, retry, told, faults>>

\* errorOccurred while connecting.
ConnectFails ==
  /\ sock = "connecting"
  /\ \/ host \notin up /\ UNCHANGED faults
     \/ host \in up /\ Fault
  /\ sock' = "closed" /\ Schedule(reconn)
  /\ emitted' = TRUE
  /\ button' = (button \/ (~reconn /\ ~emitted))
  /\ UNCHANGED <<server, page, posts, token, conn, host, payload, reply, authed, reconn, manual, told>>

\* The network breaks, or three heartbeats go unanswered and the client
\* aborts the socket.
ConnectionLost ==
  /\ sock = "open" /\ sess[conn].state # "closed" /\ Fault
  /\ sess' = Ended(conn)
  /\ UNCHANGED <<up, health, cursor, ticket, issued, tasks, used, dialog, wire, flags, told>>

\* The node closes a session that has not logged in by its deadline; a reply
\* it has sent arrives first.
LoginDeadline ==
  /\ sock = "open" /\ sess[conn].state = "open" /\ reply = None /\ \A k \in tasks : k.conn # conn
  /\ sess' = Ended(conn)
  /\ UNCHANGED <<up, health, cursor, ticket, issued, tasks, used, dialog, wire, flags, told, faults>>

\* errorOccurred and disconnected: with a payload the client reconnects.
Disconnected ==
  /\ sock = "open" /\ sess[conn].state = "closed"
  /\ sock' = "closed" /\ authed' = FALSE /\ reply' = None
  /\ reconn' = (reconn \/ (~manual /\ payload # None))
  /\ Schedule(reconn')
  /\ UNCHANGED <<server, dialog, conn, host, payload, emitted, manual, told, faults>>

\* Mutant: the timer fires and no connection is begun.
RetryTimeout_idle ==
  /\ retry /\ retry' = FALSE
  /\ UNCHANGED <<server, dialog, wire, emitted, authed, reconn, manual, told, faults>>

RetryTimeout ==
  /\ retry /\ retry' = FALSE
  /\ IF ~manual /\ reconn THEN sock' = "connecting" /\ emitted' = FALSE ELSE UNCHANGED <<sock, emitted>>
  /\ UNCHANGED <<server, dialog, conn, host, payload, reply, authed, reconn, manual, told, faults>>

\* slot_reconnect_for_proxy, from the settings page.
ReconnectForProxy ==
  /\ page = "chat" /\ payload # None /\ host # None /\ Fault
  /\ manual' = FALSE /\ reconn' = TRUE /\ authed' = FALSE /\ retry' = TRUE
  /\ sess' = IF sock = "open" THEN Ended(conn) ELSE sess
  /\ sock' = "closed" /\ reply' = None
  /\ UNCHANGED <<up, health, cursor, ticket, issued, tasks, used, dialog, conn, host, payload, emitted, told>>

-----------------------------------------------------------------------------
(* LogicSystem::LoginChatCallback on the node of the connection. *)
Reply(k, r) == reply' = IF k.conn = conn /\ sock = "open" /\ sess[conn].state # "closed" THEN r ELSE reply

\* Mutant: GET instead of GetDel.
LoginAccepted_get(k) ==
  LET n == sess[k.conn].node IN
  /\ ticket[k.ticket] = n
  /\ used' = [used EXCEPT ![k.ticket] = @ \cup {k.conn}]
  /\ sess' = [sess EXCEPT ![k.conn].state = IF @ = "open" THEN "authed" ELSE @]
  /\ tasks' = tasks \ {k} /\ Reply(k, "ok")
  /\ UNCHANGED <<up, health, cursor, ticket, issued, dialog, sock, conn, host, payload, flags, told, faults>>

\* GetDel finds the ticket, it is for this node, and the user's data load.
LoginAccepted(k) ==
  LET n == sess[k.conn].node IN
  /\ ticket[k.ticket] = n /\ ticket' = [ticket EXCEPT ![k.ticket] = None]
  /\ used' = [used EXCEPT ![k.ticket] = @ \cup {k.conn}]
  /\ sess' = [sess EXCEPT ![k.conn].state = IF @ = "open" THEN "authed" ELSE @]
  /\ tasks' = tasks \ {k} /\ Reply(k, "ok")
  /\ UNCHANGED <<up, health, cursor, issued, dialog, sock, conn, host, payload, flags, told, faults>>

\* Missing, for another node, or the user's data do not load: consumed.
LoginRejected(k) ==
  /\ \/ ticket[k.ticket] # sess[k.conn].node /\ UNCHANGED faults
     \/ ticket[k.ticket] = sess[k.conn].node /\ Fault
  /\ ticket' = [ticket EXCEPT ![k.ticket] = None]
  /\ tasks' = tasks \ {k} /\ Reply(k, "err")
  /\ UNCHANGED <<up, health, cursor, issued, sess, used, dialog, sock, conn, host, payload, flags, told>>

\* A frame the node had not read when the connection closed.
FrameLost(k) ==
  /\ sess[k.conn].state = "closed" /\ tasks' = tasks \ {k}
  /\ UNCHANGED <<up, health, cursor, ticket, issued, sess, used, dialog, wire, flags, told, faults>>

-----------------------------------------------------------------------------
(* The client's handler of ID_CHAT_LOGIN_RSP, and the windows. *)
LoginOk ==
  /\ reply = "ok" /\ sock = "open" /\ reply' = None
  /\ authed' = TRUE /\ reconn' = FALSE
  /\ IF reconn THEN UNCHANGED <<page, button, posts>>
     ELSE page' = "chat" /\ button' = TRUE /\ posts' = 0
  /\ UNCHANGED <<server, token, sock, conn, host, payload, emitted, manual, retry, told, faults>>

\* The local message store does not open.
StoreFails ==
  /\ reply = "ok" /\ sock = "open" /\ reply' = None /\ Fault
  /\ manual' = TRUE /\ authed' = FALSE /\ sock' = "closed" /\ sess' = Ended(conn)
  /\ button' = TRUE /\ told' = TRUE
  /\ UNCHANGED <<up, health, cursor, ticket, issued, tasks, used, page, posts, token, conn, host, payload, emitted, reconn, retry>>

LoginFailed ==
  /\ reply = "err" /\ sock = "open" /\ reply' = None
  /\ reconn' = FALSE /\ manual' = (manual \/ reconn) /\ told' = (told \/ reconn)
  /\ button' = TRUE
  /\ UNCHANGED <<server, page, posts, token, sock, conn, host, payload, emitted, authed, retry, faults>>

\* ClientCoordinator::showAuthentication, TcpMgr::slot_disconnect.
Logout ==
  /\ page = "chat" /\ page' = "auth" /\ button' = TRUE /\ told' = FALSE
  /\ sess' = IF sock = "open" THEN Ended(conn) ELSE sess
  /\ sock' = "closed" /\ host' = None /\ payload' = None /\ reply' = None /\ token' = None
  /\ manual' = TRUE /\ authed' = FALSE /\ reconn' = FALSE /\ retry' = FALSE /\ emitted' = FALSE
  /\ UNCHANGED <<up, health, cursor, ticket, issued, tasks, used, posts, conn, faults>>

-----------------------------------------------------------------------------
Next ==
  \/ \E n \in Nodes : PublishHealth(n) \/ HealthExpires(n) \/ Crash(n) \/ Restart(n) \/ StopTimer(n)
  \/ \E t \in Tickets : TicketExpires(t)
  \/ LoginBtn \/ LoginAnswered \/ LoginRefused
  \/ Connected \/ ConnectFails \/ ConnectionLost \/ LoginDeadline \/ Disconnected
  \/ RetryTimeout \/ ReconnectForProxy
  \/ \E k \in tasks : LoginAccepted(k) \/ LoginRejected(k) \/ FrameLost(k)
  \/ LoginOk \/ StoreFails \/ LoginFailed \/ Logout

Spec == Init /\ [][Next]_vars

\* Timers fire, sockets report, a running node processes what it has read, and
\* a node is restarted (compose.production.yaml).  A request to the gate ends:
\* Httpmgr sets no limit, but the gate closes its connections (GateHttp).
Fairness ==
  /\ \A n \in Nodes : WF_vars(Restart(n))
  /\ WF_vars(LoginAnswered \/ LoginRefused)
  /\ WF_vars(Connected \/ ConnectFails) /\ WF_vars(Disconnected) /\ WF_vars(LoginDeadline)
  /\ WF_vars(RetryTimeout) /\ WF_vars(LoginOk \/ StoreFails) /\ WF_vars(LoginFailed)
  /\ WF_vars(\E k \in tasks : LoginAccepted(k) \/ LoginRejected(k) \/ FrameLost(k))

FairSpec == Spec /\ Fairness

-----------------------------------------------------------------------------
\* The variables hold what their declarations say.
TypeOK ==
  /\ up \subseteq Nodes /\ health \in [Nodes -> 0 .. MaxConns \cup {None}]
  /\ ticket \in [Tickets -> Nodes \cup {None}] /\ conn \in 0 .. MaxConns
  /\ sock \in {"closed", "connecting", "open"} /\ reply \in {None, "ok", "err"}
  /\ (retry => reconn \/ manual) /\ (authed => sock = "open")

\* GetDel in LoginChatCallback: a ticket authenticates one session, although
\* the client sends it again on every reconnect and a frame of an earlier
\* connection may be processed late.
TicketIsOneTime == \A t \in Tickets : \A c, d \in used[t] : c = d

\* LoginDialog, TcpMgr: a login ends with an enabled button or with an
\* authenticated client, whatever breaks on the way.
LoginEnds == (page = "auth" /\ ~button) ~> (button \/ authed \/ page = "chat")

\* docs/deployment/xray-backup-entry.md: when the route is back the client
\* authenticates again by itself.
SessionIsRestored == ~(page = "chat" /\ told)
=============================================================================
