---------------------------- MODULE DeliveryClock ----------------------------
(***************************************************************************)
(* When a chat node looks for undelivered messages: the timer of one       *)
(* executor shard (LogicSystem::Tick), which walks over the shard's        *)
(* sessions with a cursor and a budget, the back-off of an idle session,   *)
(* and the back-off of each message in a session's DeliveryWindow.  What   *)
(* is delivered is TextDelivery's subject; this module is about how soon.  *)
(*                                                                         *)
(* Time passes in steps of the timer's interval (100 ms).  next and wait   *)
(* are relative to the clock and stop at 0.                                *)
(***************************************************************************)
EXTENDS Integers, Sequences, SequencesExt, FiniteSets, FiniteSetsExt

CONSTANTS
  Sessions, Messages,        \* session ids of the shard; row ids
  To,                        \* the session of a message's receiver
  Capacity,                  \* DeliveryWindow::Capacity (32)
  Scan, Queries,             \* 128 and 4 in Tick
  IdleMin, IdleMax,          \* 1 and 30 seconds
  Base, MaxShift, MaxCount,  \* 5 seconds, 3 and 4 in DeliveryWindow::sent
  MaxFaults                  \* bound: failed queries and full send queues

ClockConstants ==
  /\ {Capacity, Scan, Queries, IdleMin, IdleMax, Base, MaxCount} \subseteq Nat \ {0} /\ {MaxShift, MaxFaults} \subseteq Nat
  /\ Sessions \subseteq Nat \ {0} /\ Messages \subseteq Nat /\ To \in [Messages -> Sessions] /\ IdleMin <= IdleMax

VARIABLES
  entry,       \* sessions in _delivery
  open,        \* sessions that are open and their user's current one
  next, idle,  \* DeliveryState of a session
  count, wait, \* Attempt of a message; count is 0 without one
  row,         \* a message's row: none, pending, acked
  cursor,
  loop,        \* the loop of Tick: scans and queries that are left
  fire,        \* the timer is due
  quiet,       \* time a message has been waiting since it was committed or last sent
  faults

vars == <<entry, open, next, idle, count, wait, row, cursor, loop, fire, quiet, faults>>

NoTick == [on |-> FALSE, scans |-> 0, queries |-> 0]

Init ==
  /\ entry = {} /\ open = {} /\ next = [s \in Sessions |-> 0] /\ idle = [s \in Sessions |-> IdleMin]
  /\ count = [m \in Messages |-> 0] /\ wait = [m \in Messages |-> 0] /\ row = [m \in Messages |-> "none"]
  /\ cursor = 0 /\ loop = NoTick /\ fire = FALSE
  /\ quiet = [m \in Messages |-> 0] /\ faults = 0

-----------------------------------------------------------------------------
\* GetPendingTextMessages: the oldest Capacity rows that are not acknowledged.
Pending(s) ==
  LET all == SetToSortSeq({m \in Messages : To[m] = s /\ row[m] = "pending"}, <)
  IN SubSeq(all, 1, Min({Capacity, Len(all)}))

delayUncapped(n) == Base * 2 ^ n  \* the shift is not bounded
delay(n) == Base * 2 ^ Min({n, MaxShift})

idleAfter(s, pending) == IF pending = << >> THEN Min({2 * idle[s], IdleMax}) ELSE IdleMin

\* DeliveryWindow::reconcile forgets what is not pending any more, due
\* chooses, sent notes the next attempt.
Deliver(s) ==
  LET pending == Pending(s)
      mine == {m \in Messages : To[m] = s}
      due == SelectSeq(pending, LAMBDA m : count[m] = 0 \/ wait[m] = 0)
  IN
  /\ entry' = entry \cup {s}
  /\ idle' = [idle EXCEPT ![s] = idleAfter(s, pending)] /\ next' = [next EXCEPT ![s] = idle'[s]]
  /\ \E n \in 0 .. Len(due) :
       LET out == {due[i] : i \in 1 .. n} IN
       /\ IF n = Len(due) THEN UNCHANGED faults ELSE faults < MaxFaults /\ faults' = faults + 1
       /\ count' = [m \in Messages |-> IF m \in out THEN Min({count[m] + 1, MaxCount})
                                       ELSE IF m \in mine \ ToSet(pending) THEN 0 ELSE count[m]]
       /\ wait' = [m \in Messages |-> IF m \in out THEN delay(count[m])
                                      ELSE IF m \in mine \ ToSet(pending) THEN 0 ELSE wait[m]]
       /\ quiet' = [m \in Messages |-> IF m \in out \/ (m \in mine /\ n < Len(due)) THEN 0 ELSE quiet[m]]

\* The query fails: the window is left alone.
DeliverFails(s) ==
  /\ faults < MaxFaults /\ faults' = faults + 1
  /\ entry' = entry \cup {s}
  /\ idle' = [idle EXCEPT ![s] = Min({2 * @, IdleMax})] /\ next' = [next EXCEPT ![s] = idle'[s]]
  /\ quiet' = [m \in Messages |-> IF To[m] = s THEN 0 ELSE quiet[m]]
  /\ UNCHANGED <<count, wait>>

DeliverPendingTextMessages(s) == Deliver(s) \/ DeliverFails(s)

\* The task of WakeDelivery, after a login among others.
Wake(s) ==
  /\ s \in open /\ ~loop.on /\ DeliverPendingTextMessages(s)
  /\ UNCHANGED <<open, row, cursor, loop, fire>>

-----------------------------------------------------------------------------
TickBegin ==
  /\ fire /\ ~loop.on /\ loop' = [on |-> TRUE, scans |-> Min({Cardinality(entry), Scan}), queries |-> Queries]
  /\ UNCHANGED <<entry, open, next, idle, count, wait, row, cursor, fire, quiet, faults>>

Erased(s) ==
  /\ entry' = entry \ {s} /\ idle' = [idle EXCEPT ![s] = IdleMin] /\ next' = [next EXCEPT ![s] = 0]
  /\ count' = [m \in Messages |-> IF To[m] = s THEN 0 ELSE count[m]]
  /\ wait' = [m \in Messages |-> IF To[m] = s THEN 0 ELSE wait[m]]

FollowingFirst == Min(entry)  \* the walk starts at the beginning each time

\* The first session after the cursor, or the first of all.
Following == LET later == {s \in entry : s > cursor} IN Min(IF later = {} THEN entry ELSE later)

Going == loop.on /\ loop.scans > 0 /\ entry # {} /\ loop.queries > 0

\* One turn of the loop.
TickStep ==
  LET s == Following IN
  /\ Going /\ cursor' = s
  /\ \/ /\ s \notin open /\ Erased(s) /\ loop' = [loop EXCEPT !.scans = @ - 1] /\ UNCHANGED <<quiet, faults>>
     \/ /\ s \in open /\ next[s] > 0 /\ loop' = [loop EXCEPT !.scans = @ - 1]
        /\ UNCHANGED <<entry, next, idle, count, wait, quiet, faults>>
     \/ /\ s \in open /\ next[s] = 0 /\ DeliverPendingTextMessages(s)
        /\ loop' = [loop EXCEPT !.scans = @ - 1, !.queries = @ - 1]
  /\ UNCHANGED <<open, row, fire>>

TickEnd ==
  /\ loop.on /\ ~Going /\ loop' = NoTick /\ fire' = FALSE
  /\ UNCHANGED <<entry, open, next, idle, count, wait, row, cursor, quiet, faults>>

-----------------------------------------------------------------------------
Login(s) ==
  /\ s \notin open \cup entry /\ open' = open \cup {s}
  /\ UNCHANGED <<entry, next, idle, count, wait, row, cursor, loop, fire, quiet, faults>>

\* The session is closed, or displaced by a login elsewhere.
Close(s) ==
  /\ s \in open /\ open' = open \ {s}
  /\ quiet' = [m \in Messages |-> IF To[m] = s THEN 0 ELSE quiet[m]]
  /\ UNCHANGED <<entry, next, idle, count, wait, row, cursor, loop, fire, faults>>

\* A message is committed; rows need not become visible in the order of ids.
Commit(m) ==
  /\ row[m] = "none" /\ row' = [row EXCEPT ![m] = "pending"]
  /\ UNCHANGED <<entry, open, next, idle, count, wait, cursor, loop, fire, quiet, faults>>

\* AcknowledgeTextMessages: any device of the receiver may have the message.
Acknowledge(m) ==
  /\ row[m] = "pending" /\ count[m] > 0 /\ row' = [row EXCEPT ![m] = "acked"] /\ quiet' = [quiet EXCEPT ![m] = 0]
  /\ UNCHANGED <<entry, open, next, idle, count, wait, cursor, loop, fire, faults>>

\* A message waits while it is among those a query would return and its
\* receiver has an entry.
Elapse ==
  LET Less(n) == IF n = 0 THEN 0 ELSE n - 1 IN
  /\ ~fire /\ fire' = TRUE
  /\ next' = [s \in Sessions |-> Less(next[s])] /\ wait' = [m \in Messages |-> Less(wait[m])]
  /\ quiet' = [m \in Messages |-> IF To[m] \in entry \cap open /\ m \in ToSet(Pending(To[m])) THEN quiet[m] + 1 ELSE 0]
  /\ UNCHANGED <<entry, open, idle, count, row, cursor, loop, faults>>

Next ==
  \/ \E s \in Sessions : Wake(s) \/ Login(s) \/ Close(s)
  \/ \E m \in Messages : Commit(m) \/ Acknowledge(m)
  \/ TickBegin \/ TickStep \/ TickEnd \/ Elapse
Spec == Init /\ [][Next]_vars

-----------------------------------------------------------------------------
\* The variables hold what their declarations say.
TypeOK ==
  /\ entry \subseteq Sessions /\ open \subseteq Sessions /\ cursor \in Sessions \cup {0}
  /\ next \in [Sessions -> 0 .. IdleMax] /\ idle \in [Sessions -> IdleMin .. IdleMax]
  /\ count \in [Messages -> 0 .. MaxCount] /\ wait \in [Messages -> Nat]
  /\ row \in [Messages -> {"none", "pending", "acked"}] /\ fire \in BOOLEAN
  /\ loop \in [on : BOOLEAN, scans : 0 .. Scan, queries : 0 .. Queries]
  /\ quiet \in [Messages -> Nat] /\ faults \in 0 .. MaxFaults

\* Ticks a due session waits at most for its turn.
Turns == (Cardinality(Sessions) - 1) \div Min({Scan, Queries})

\* LogicSystem::Tick, DeliveryWindow::sent: a message that nobody acknowledges
\* is sent, and sent again, within the longest back-off and a few ticks, even if
\* the wake-up for it was lost.
SilenceIsBounded ==
  \A m \in Messages : quiet[m] <= Max({IdleMax, Base * 2 ^ MaxShift}) + IdleMin + Turns + 1
=============================================================================
