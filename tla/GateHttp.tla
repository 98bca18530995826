------------------------------ MODULE GateHttp ------------------------------
(***************************************************************************)
(* The gate's HTTP side: CServer accepts connections and spreads them over *)
(* the io_contexts of IOContextPool, each run by one thread; a connection  *)
(* is read, handled and answered by completion handlers of its context,    *)
(* beside its 30 s timer.  A handler runs on that thread to its end: one   *)
(* that calls VarifyServer or Status occupies the thread, and keeps the    *)
(* timers of the context's other connections waiting.                      *)
(*                                                                         *)
(* Asio as the code uses it: completion handlers of a context run in the   *)
(* order in which they became ready; closing a socket ends the read that   *)
(* is pending with an error but not one that is already complete; a timer  *)
(* that is cancelled after it became ready still runs as expired; a reply, *)
(* which is small, goes to the kernel when the write is started.           *)
(***************************************************************************)
EXTENDS Naturals, Sequences, FiniteSets

CONSTANTS
  Conns,     \* connections open at a time; one that is over may be opened anew
  Contexts,  \* number of io_contexts
  Stubs,     \* gRPC stubs of each peer
  Requests,  \* what clients send: [method, target, body]
  Deadline,  \* of a connection (30 s), in ticks
  RpcTime,   \* of a call (kInternalRpcTimeout, kVerificationRpcTimeout), in ticks
  None

GateConstants ==
  Contexts \in Nat \ {0} /\ Stubs \in Nat \ {0} /\ Deadline \in Nat /\ RpcTime \in Nat /\ None \notin Conns

VARIABLES
  conn,   \* connections
  queue,  \* completion handlers that are ready, by context
  busy,   \* the connection whose handler the context's thread is running, or None
  next,   \* _nextIOContext
  free    \* stubs in the pools, by peer

vars == <<conn, queue, busy, next, free>>

Peers == {"varify", "status"}
MaxAge == Deadline + RpcTime * Cardinality(Conns) + 1  \* ages beyond it are not told apart

\* at: where the connection is.  timer: off, armed, or ready in the queue.
\* taken: its handler was begun on an open socket.  A connection that is over
\* lives on, its work forgotten, until the timer's handler has run.
NoConn == [at |-> "none", ctx |-> 1, req |-> None, timer |-> "off", open |-> FALSE,
           age |-> 0, left |-> 0, taken |-> FALSE, reply |-> "none"]
Pools == [p \in Peers |-> Stubs]
Is(c, at) == conn[c].at = at
Gone(c) == Is(c, "none") \/ (Is(c, "over") /\ conn[c].timer = "off")

Init ==
  /\ conn = [c \in Conns |-> NoConn] /\ next = 1
  /\ queue = [x \in 1 .. Contexts |-> << >>] /\ busy = [x \in 1 .. Contexts |-> None]
  /\ free = Pools

GetIOContext == next' = (next % Contexts) + 1

AcceptUntimed(c) ==  \* the timer is not started
  /\ Gone(c) /\ GetIOContext
  /\ conn' = [conn EXCEPT ![c] = [NoConn EXCEPT !.at = "reading", !.ctx = next, !.open = TRUE]]
  /\ UNCHANGED <<queue, busy, free>>

\* do_accept and start().
Accept(c) ==
  /\ Gone(c) /\ GetIOContext
  /\ conn' = [conn EXCEPT ![c] =
       [NoConn EXCEPT !.at = "reading", !.ctx = next, !.open = TRUE, !.timer = "armed"]]
  /\ UNCHANGED <<queue, busy, free>>

AcceptFails == GetIOContext /\ UNCHANGED <<conn, queue, busy, free>>

Ready(c, what) == queue' = [queue EXCEPT ![conn[c].ctx] = Append(@, <<what, c>>)]

\* The whole request has been received, or the read has failed.
Arrives(c, q) ==
  /\ Is(c, "reading") /\ conn' = [conn EXCEPT ![c].at = "arrived", ![c].req = q]
  /\ Ready(c, "read") /\ UNCHANGED <<busy, next, free>>

ReadFails(c) ==
  /\ Is(c, "reading") /\ conn' = [conn EXCEPT ![c].at = "failed"]
  /\ Ready(c, "read") /\ UNCHANGED <<busy, next, free>>

Expire(c) ==
  /\ conn[c].timer = "armed" /\ conn[c].age >= Deadline
  /\ conn' = [conn EXCEPT ![c].timer = "ready"]
  /\ Ready(c, "timer") /\ UNCHANGED <<busy, next, free>>

-----------------------------------------------------------------------------
(* Completion handlers.  x is the context, c the connection at the head of *)
(* its queue, rest what remains of the queue.                              *)
Cancelled(t) == IF t = "armed" THEN "off" ELSE t  \* _deadline.cancel()
Ended(s) == [NoConn EXCEPT !.at = "over", !.ctx = s.ctx, !.timer = Cancelled(s.timer)]

\* CheckDeadline's handler.
TimedOut(x, c, rest) ==
  /\ conn' = [conn EXCEPT ![c].timer = "off", ![c].open = FALSE,
                          ![c].at = IF @ = "reading" THEN "failed" ELSE @]
  /\ queue' = [queue EXCEPT ![x] = IF Is(c, "reading") THEN Append(rest, <<"read", c>>) ELSE rest]
  /\ UNCHANGED busy

\* WriteResponse: the reply leaves at once unless the socket is closed.
Written(s, answer) == [s EXCEPT !.at = "writing", !.reply = IF s.open THEN answer ELSE "lost"]

PeerOf(q) == IF q.target = "/post_email" THEN "varify" ELSE "status"
hasStringFields(q) == q.body # "malformed"

\* A handler that answers without a call, and one that goes on to a call: the
\* call's deadline is fixed before it has a stub.
Reply(x, c, s, rest, answer) ==
  /\ conn' = [conn EXCEPT ![c] = Written(s, answer)]
  /\ queue' = [queue EXCEPT ![x] = Append(rest, <<"write", c>>)] /\ UNCHANGED busy

Call(x, c, s, rest) ==
  /\ conn' = [conn EXCEPT ![c] = [s EXCEPT !.at = "get", !.left = RpcTime]]
  /\ queue' = [queue EXCEPT ![x] = rest] /\ busy' = [busy EXCEPT ![x] = c]

GetVarifyCode(x, c, s, rest) == Call(x, c, s, rest)
GetChatServer(x, c, s, rest) == Call(x, c, s, rest)

\* The handler raises an exception.
Raise(x, c, rest) ==
  /\ conn' = [conn EXCEPT ![c] = Ended(@)]
  /\ queue' = [queue EXCEPT ![x] = rest] /\ UNCHANGED busy

post_email(x, c, s, rest) ==
  IF ~hasStringFields(s.req) THEN Reply(x, c, s, rest, "JSON_ERROR")
  ELSE GetVarifyCode(x, c, s, rest) \/ Raise(x, c, rest)

\* CheckPwd refuses, or MySQL is not there; or Status is asked.
user_login(x, c, s, rest) ==
  IF ~hasStringFields(s.req) THEN Reply(x, c, s, rest, "JSON_ERROR")
  ELSE \/ Reply(x, c, s, rest, "PasswdInvalid")
       \/ GetChatServer(x, c, s, rest)
       \/ Raise(x, c, rest)

HandleGet(x, c, s, rest) == Reply(x, c, s, rest, IF s.req.target = "/get_test" THEN "200" ELSE "404")

HandlePost(x, c, s, rest) ==
  CASE s.req.target = "/post_email" -> post_email(x, c, s, rest)
    [] s.req.target = "/user_login" -> user_login(x, c, s, rest)
    [] s.req.target \in {"/user_register", "/reset_pwd"} ->  \* module Accounts
         \/ \E a \in {"ok", "PasswdInvalid"} : Reply(x, c, s, rest, a)
         \/ Raise(x, c, rest)
    [] OTHER -> Reply(x, c, s, rest, "404")

HandleReq(x, c, rest) ==
  LET s == [conn[c] EXCEPT !.taken = conn[c].open] IN
  CASE s.req.method = "GET"  -> IF s.req.target = "bad escape" THEN Reply(x, c, s, rest, "400")
                                ELSE HandleGet(x, c, s, rest)
    [] s.req.method = "POST" -> HandlePost(x, c, s, rest)
    [] OTHER -> Reply(x, c, s, rest, "405")

\* The handler of async_read.
ReadDone(x, c, rest) ==
  IF Is(c, "failed")
  THEN /\ conn' = [conn EXCEPT ![c] = Ended(@)]
       /\ queue' = [queue EXCEPT ![x] = rest] /\ UNCHANGED busy
  ELSE HandleReq(x, c, rest)

\* The handler of async_write.
WriteDone(x, c, rest) ==
  /\ conn' = [conn EXCEPT ![c] = Ended(@)]
  /\ queue' = [queue EXCEPT ![x] = rest] /\ UNCHANGED busy

RunShared(x) ==  \* several threads run a context
  /\ queue[x] # << >> /\ UNCHANGED <<next, free>>
  /\ LET c == Head(queue[x])[2]
         rest == Tail(queue[x]) IN
     CASE Head(queue[x])[1] = "timer" -> TimedOut(x, c, rest)
       [] Head(queue[x])[1] = "read"  -> ReadDone(x, c, rest)
       [] Head(queue[x])[1] = "write" -> WriteDone(x, c, rest)

\* The context's thread runs the handler that has been ready longest.
Run(x) ==
  /\ busy[x] = None /\ queue[x] # << >> /\ UNCHANGED <<next, free>>
  /\ LET c == Head(queue[x])[2]
         rest == Tail(queue[x]) IN
     CASE Head(queue[x])[1] = "timer" -> TimedOut(x, c, rest)
       [] Head(queue[x])[1] = "read"  -> ReadDone(x, c, rest)
       [] Head(queue[x])[1] = "write" -> WriteDone(x, c, rest)

-----------------------------------------------------------------------------
(* GetVarifyCode and GetChatServer, within a handler.                      *)
GetConnection(c) ==
  LET p == PeerOf(conn[c].req) IN
  /\ Is(c, "get") /\ free[p] > 0
  /\ free' = [free EXCEPT ![p] = @ - 1] /\ conn' = [conn EXCEPT ![c].at = "calling"]
  /\ UNCHANGED <<queue, busy, next>>

ReturnLeaks(c, answer) ==  \* a failed call keeps its stub
  LET p == PeerOf(conn[c].req) IN
  /\ Is(c, "calling") /\ (conn[c].left = 0 => answer = "RPC_ERROR")
  /\ free' = [free EXCEPT ![p] = IF answer = "ok" THEN @ + 1 ELSE @]
  /\ conn' = [conn EXCEPT ![c] = Written(@, answer)]
  /\ busy' = [busy EXCEPT ![conn[c].ctx] = None]
  /\ Ready(c, "write") /\ UNCHANGED next

\* The call returns and the stub goes back; the handler ends with its reply.
\* At the deadline the call fails.
ReturnConnection(c, answer) ==
  LET p == PeerOf(conn[c].req) IN
  /\ Is(c, "calling") /\ (conn[c].left = 0 => answer = "RPC_ERROR")
  /\ free' = [free EXCEPT ![p] = @ + 1]
  /\ conn' = [conn EXCEPT ![c] = Written(@, answer)]
  /\ busy' = [busy EXCEPT ![conn[c].ctx] = None]
  /\ Ready(c, "write") /\ UNCHANGED next

\* Time passes.  What needs no waiting is taken to need no time.
Tick ==
  /\ \E c \in Conns : ~Gone(c)
  /\ \A x \in 1 .. Contexts : busy[x] = None => queue[x] = << >>
  /\ \A c \in Conns : /\ conn[c].timer = "armed" => conn[c].age < Deadline
                      /\ Is(c, "calling") => conn[c].left > 0
                      /\ Is(c, "get") => free[PeerOf(conn[c].req)] = 0
  /\ conn' = [c \in Conns |-> IF Gone(c) THEN conn[c] ELSE
       [conn[c] EXCEPT !.age = IF @ = MaxAge THEN @ ELSE @ + 1, !.left = IF @ = 0 THEN 0 ELSE @ - 1]]
  /\ UNCHANGED <<queue, busy, next, free>>

Next ==
  \/ \E c \in Conns : \/ Accept(c) \/ ReadFails(c) \/ Expire(c) \/ GetConnection(c)
                      \/ \E q \in Requests : Arrives(c, q)
                      \/ \E a \in {"ok", "RPC_ERROR"} : ReturnConnection(c, a)
  \/ AcceptFails \/ Tick
  \/ \E x \in 1 .. Contexts : Run(x)
Spec == Init /\ [][Next]_vars

\* Threads, timers and time go on (however busy the gate is, whence the strong
\* fairness of Tick).  Nothing is asked of clients or peers.
Fairness ==
  /\ SF_vars(Tick) /\ \A x \in 1 .. Contexts : WF_vars(Run(x))
  /\ \A c \in Conns : WF_vars(Expire(c)) /\ WF_vars(GetConnection(c)) /\ WF_vars(ReturnConnection(c, "RPC_ERROR"))
FairSpec == Spec /\ Fairness

-----------------------------------------------------------------------------
\* Connections, queues and pools are well formed; a thread runs the handler
\* of a connection of its own context.
TypeOK ==
  /\ conn \in [Conns -> [at : {"none", "reading", "arrived", "failed", "get", "calling", "writing", "over"},
                         ctx : 1 .. Contexts, req : Requests \cup {None}, timer : {"off", "armed", "ready"},
                         open : BOOLEAN, age : 0 .. MaxAge, left : 0 .. RpcTime, taken : BOOLEAN,
                         reply : {"none", "lost", "ok", "RPC_ERROR", "JSON_ERROR", "PasswdInvalid",
                                  "200", "400", "404", "405"}]]
  /\ free \in [Peers -> 0 .. Stubs] /\ next \in 1 .. Contexts
  /\ \A x \in 1 .. Contexts :
       /\ busy[x] # None => conn[busy[x]].at \in {"get", "calling"} /\ conn[busy[x]].ctx = x
       /\ \A i \in DOMAIN queue[x] : conn[queue[x][i][2]].ctx = x

\* A request that is taken up on an open socket is answered, even if its
\* handler outlasts the connection's deadline: the timer's handler cannot come
\* between HandleReq and WriteResponse, which run on the same thread.
HandledIsAnswered ==
  \A c \in Conns : conn[c].taken /\ Is(c, "writing") => conn[c].reply # "lost"

\* The deadline covers the reading of the request (HttpConnection.cpp:10): a
\* connection is not left reading for longer than its deadline and the calls
\* that the context's other connections can have ahead of its timer.  There
\* are as many stubs as threads; with fewer, a call can be overtaken at the
\* pool by those of other threads any number of times.
SlowRequestIsClosed ==
  \A c \in Conns : Is(c, "reading") =>
    conn[c].age <= Deadline
      + RpcTime * Cardinality({d \in Conns \ {c} : conn[d].ctx = conn[c].ctx /\ ~Is(d, "none")})

\* Every connection that is accepted ends, whatever clients and peers do.
ConnectionEnds == \A c \in Conns : ~Gone(c) ~> Gone(c)
=============================================================================
