------------------------------- MODULE Outbox -------------------------------
(***************************************************************************)
(* The client's message store (MessageStore, an SQLite database per        *)
(* account) and the outbox of TcpMgr on top of it: a message the user      *)
(* writes is a pending row until the server has accepted it; flushOutbox   *)
(* sends the rows that are due, at most Limit at a time, each with a delay *)
(* that doubles up to MaxDelay.  A notification's messages are saved in    *)
(* one transaction.  The process may be killed between any two statements. *)
(*                                                                         *)
(* A message is its id.  wait is next_attempt relative to the clock; of    *)
(* rows that are overdue only their order is kept.                         *)
(***************************************************************************)
EXTENDS Integers, Sequences, SequencesExt, FiniteSets, FiniteSetsExt

CONSTANTS
  Out, In, Peer,              \* messages written here, messages received, the friend of each
  Batches,                    \* notifications: sequences of received messages
  Limit, HistoryLimit,        \* rows of pending() (16) and of history() (200)
  Base, MaxDelay, MaxShift,   \* 5, 60 and 4 in attempted()
  MaxAttempts,                \* 5 in attempted()
  MaxFaults                   \* bound: kills, logouts, lost connections, failed statements

OutboxConstants ==
  /\ {Limit, HistoryLimit, Base, MaxDelay, MaxAttempts} \subseteq Nat \ {0} /\ {MaxShift, MaxFaults} \subseteq Nat
  /\ Base <= MaxDelay /\ Out \cap In = {} /\ Batches \subseteq Seq(In)

VARIABLES
  rows,      \* messages of the table, in the order of seq
  state, wait, attempts,
  tx,        \* the transaction of save(): what is left to insert, what was inserted
  up,        \* the store is open: the user is signed in
  online,    \* authenticated and connected
  clogged,   \* bytesToWrite() > 256 KiB
  fire,      \* the outbox timer's event is in the queue
  sent,      \* messages written to a socket at least once
  since,     \* seconds since a message was last sent, up to MaxDelay
  view,      \* what the chat with a friend shows
  faults

vars == <<rows, state, wait, attempts, tx, up, online, clogged, fire, sent, since, view, faults>>

Messages == Out \cup In
Peers == {Peer[m] : m \in Messages}
Fresh == -(Cardinality(Out) + 1)  \* next_attempt of a new row, which is 0
NoTx == [todo |-> << >>, done |-> << >>, open |-> FALSE]
Stored == ToSet(rows)

Init ==
  /\ rows = << >> /\ state = [m \in Messages |-> "none"]
  /\ wait = [m \in Out |-> Fresh] /\ attempts = [m \in Out |-> 0] /\ tx = NoTx
  /\ up = FALSE /\ online = FALSE /\ clogged = FALSE /\ fire = FALSE /\ sent = {}
  /\ since = [m \in Out |-> MaxDelay]
  /\ view = [p \in Peers |-> << >>] /\ faults = 0

-----------------------------------------------------------------------------
Position(rs, m) == CHOOSE i \in 1 .. Len(rs) : rs[i] = m
Due(rs, st) == {m \in Out \cap ToSet(rs) : st[m] = "pending" /\ wait[m] <= 0}

pendingOnce(rs, st) ==  \* a message that was sent is not selected again
  LET due == SetToSortSeq({m \in Due(rs, st) : attempts[m] = 0}, LAMBDA a, b : Position(rs, a) < Position(rs, b))
  IN SubSeq(due, 1, Min({Limit, Len(due)}))

\* pending(): the rows that are due, ORDER BY next_attempt,seq LIMIT.
pending(rs, st) ==
  LET First(a, b) == wait[a] < wait[b] \/ (wait[a] = wait[b] /\ Position(rs, a) < Position(rs, b))
      due == SetToSortSeq(Due(rs, st), First)
  IN SubSeq(due, 1, Min({Limit, Len(due)}))

Delay(n) == Min({MaxDelay, Base * 2 ^ Min({n, MaxShift})})

\* flushOutbox(): attempted() is an UPDATE of its own before the frame is
\* written; the loop ends when the socket is clogged.
flushOutbox(rs, st) ==
  LET batch == pending(rs, st) IN
  \E n \in 0 .. Len(batch) :
    LET out == {batch[i] : i \in 1 .. n} IN
    /\ IF ~online \/ clogged THEN n = 0 /\ UNCHANGED <<clogged, faults>>
       ELSE \/ n = Len(batch) /\ UNCHANGED <<clogged, faults>>
            \/ n < Len(batch) /\ faults < MaxFaults /\ faults' = faults + 1 /\ clogged' = TRUE
    /\ wait' = [m \in Out |-> IF m \in out THEN Delay(attempts[m]) ELSE wait[m]]
    /\ attempts' = [m \in Out |-> IF m \in out THEN Min({attempts[m] + 1, MaxAttempts}) ELSE attempts[m]]
    /\ sent' = sent \cup out
    /\ since' = [m \in Out |-> IF m \in out THEN 0 ELSE since[m]]

Idle == up /\ ~tx.open

\* The user sends a message: save() and flushOutbox().
enqueueText(m) ==
  /\ Idle /\ m \notin Stored
  /\ rows' = Append(rows, m) /\ state' = [state EXCEPT ![m] = "pending"]
  /\ view' = [view EXCEPT ![Peer[m]] = Append(@, m)]
  /\ flushOutbox(rows', state')
  /\ UNCHANGED <<tx, up, online, fire>>

outbox_timer ==
  /\ Idle /\ fire /\ fire' = FALSE
  /\ flushOutbox(rows, state)
  /\ UNCHANGED <<rows, state, tx, up, online, view>>

\* ID_TEXT_CHAT_MSG_RSP: accept() marks the row.
accept(m) ==
  /\ Idle /\ online /\ m \in sent /\ state[m] = "pending"
  /\ state' = [state EXCEPT ![m] = "accepted"]
  /\ UNCHANGED <<rows, wait, attempts, tx, up, online, clogged, fire, sent, since, view, faults>>

-----------------------------------------------------------------------------
(* save() of a notification, statement by statement.                       *)
saveBegin(b) ==
  /\ Idle /\ online /\ tx' = [todo |-> b, done |-> << >>, open |-> TRUE]
  /\ UNCHANGED <<rows, state, wait, attempts, up, online, clogged, fire, sent, since, view, faults>>

\* SELECT and INSERT; a message that is there already is passed over.
saveRow ==
  LET m == Head(tx.todo) IN
  /\ tx.open /\ tx.todo # << >>
  /\ tx' = [tx EXCEPT !.todo = Tail(@), !.done = IF m \in Stored \cup ToSet(@) THEN @ ELSE Append(@, m)]
  /\ UNCHANGED <<rows, state, wait, attempts, up, online, clogged, fire, sent, since, view, faults>>

\* commit; what was new is shown.
saveCommit ==
  /\ tx.open /\ tx.todo = << >> /\ tx' = NoTx
  /\ rows' = rows \o tx.done
  /\ state' = [m \in Messages |-> IF m \in ToSet(tx.done) THEN "received" ELSE state[m]]
  /\ view' = [p \in Peers |-> view[p] \o SelectSeq(tx.done, LAMBDA m : Peer[m] = p)]
  /\ UNCHANGED <<wait, attempts, up, online, clogged, fire, sent, since, faults>>

Fault == faults < MaxFaults /\ faults' = faults + 1

\* fail(): rollback; TcpMgr drops the connection for good.
saveFails ==
  /\ tx.open /\ Fault /\ tx' = NoTx /\ online' = FALSE /\ clogged' = FALSE
  /\ UNCHANGED <<rows, state, wait, attempts, up, fire, sent, since, view>>

-----------------------------------------------------------------------------
historyOldest(p) ==  \* ORDER BY seq
  LET with == SelectSeq(rows, LAMBDA m : Peer[m] = p) IN SubSeq(with, 1, Min({HistoryLimit, Len(with)}))

\* history(): the newest rows, oldest of them first.
history(p) ==
  LET with == SelectSeq(rows, LAMBDA m : Peer[m] = p)
  IN SubSeq(with, Max({1, Len(with) - HistoryLimit + 1}), Len(with))

\* The process is killed, or the user signs out (close()).
close ==
  /\ up /\ Fault /\ up' = FALSE /\ online' = FALSE /\ clogged' = FALSE /\ fire' = FALSE /\ tx' = NoTx
  /\ view' = [p \in Peers |-> << >>]
  /\ UNCHANGED <<rows, state, wait, attempts, sent, since>>

\* The login response: open(), history() of every friend, the timer starts.
open ==
  /\ ~up /\ up' = TRUE /\ online' = TRUE /\ view' = [p \in Peers |-> history(p)]
  /\ UNCHANGED <<rows, state, wait, attempts, tx, clogged, fire, sent, since, faults>>

\* The connection is lost; the store stays open.
disconnected ==
  /\ Idle /\ online /\ Fault /\ online' = FALSE /\ clogged' = FALSE
  /\ UNCHANGED <<rows, state, wait, attempts, tx, up, fire, sent, since, view>>

Drained ==
  /\ clogged /\ clogged' = FALSE
  /\ UNCHANGED <<rows, state, wait, attempts, tx, up, online, fire, sent, since, view, faults>>

\* A second passes.  An overdue row keeps its place among the overdue ones.
Tick ==
  LET w == [m \in Out |-> IF wait[m] = Fresh THEN Fresh ELSE wait[m] - 1]
      Overdue == {w[x] : x \in {y \in Out : w[y] <= 0 /\ w[y] # Fresh}}
  IN
  /\ ~tx.open /\ ~fire /\ fire' = (up /\ online)
  /\ wait' = [m \in Out |-> IF w[m] > 0 \/ w[m] = Fresh THEN w[m] ELSE -Cardinality({v \in Overdue : v > w[m]})]
  /\ since' = [m \in Out |-> Min({since[m] + 1, MaxDelay})]
  /\ UNCHANGED <<rows, state, attempts, tx, up, online, clogged, sent, view, faults>>

Next ==
  \/ \E m \in Out : enqueueText(m) \/ accept(m)
  \/ (\E b \in Batches : saveBegin(b)) \/ saveRow \/ saveCommit \/ saveFails
  \/ outbox_timer \/ close \/ open \/ disconnected \/ Drained \/ Tick
Spec == Init /\ [][Next]_vars

\* The event loop runs, the socket is written, time passes, and a user who
\* is signed out signs in again.
Fairness ==
  /\ WF_vars(outbox_timer) /\ WF_vars(saveRow) /\ WF_vars(saveCommit)
  /\ WF_vars(Drained) /\ SF_vars(Tick) /\ WF_vars(open)
FairSpec == Spec /\ Fairness

-----------------------------------------------------------------------------
\* The variables hold what their declarations say; a row is stored once.
TypeOK ==
  /\ rows \in Seq(Messages) /\ IsInjective(rows)
  /\ state \in [Messages -> {"none", "pending", "accepted", "received"}]
  /\ \A m \in Messages : state[m] = "none" <=> m \notin Stored
  /\ wait \in [Out -> Fresh .. MaxDelay] /\ attempts \in [Out -> 0 .. MaxAttempts]
  /\ tx \in [todo : Seq(In), done : Seq(In), open : BOOLEAN]
  /\ {up, online, clogged, fire} \subseteq BOOLEAN /\ sent \subseteq Out /\ online => up
  /\ since \in [Out -> 0 .. MaxDelay] /\ view \in [Peers -> Seq(Messages)]

\* TcpMgr's login handler, MessageStore::history: what a chat shows is what it
\* will show after a restart, as far as history() reaches.
RestartShowsTheSame ==
  Idle => \A p \in Peers :
    LET v == view[p] IN SubSeq(v, Max({1, Len(v) - HistoryLimit + 1}), Len(v)) = history(p)

\* TcpMgr::flushOutbox: a message that is not accepted is sent again and again
\* while there is a connection.
PendingIsRetried == \A m \in Out : (state[m] = "pending" /\ since[m] > 0) ~> (since[m] = 0 \/ state[m] = "accepted" \/ ~online)
=============================================================================
