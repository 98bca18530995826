--------------------------- MODULE KeyedExecutor ---------------------------
(***************************************************************************)
(* KeyedExecutor (src/common): bounded queues of tasks, one worker thread  *)
(* each, that the chat node's LogicSystem and the resource server run      *)
(* everything on.  A key's tasks go to one shard.  A worker sleeps on its  *)
(* condition variable until it is notified, its timer is due or it wakes   *)
(* spuriously; notify_one comes after the mutex has been released, as a    *)
(* step of its own.  A thread stops the executor, draining or cancelling.  *)
(*                                                                         *)
(* A task is its key and its number among the tasks accepted for the key.  *)
(* Clock::now() is a flag, due, that says whether it has reached next.     *)
(***************************************************************************)
EXTENDS Naturals, Sequences

CONSTANTS
  Keys, Count,  \* keys; number of shards
  Capacity,
  MaxPosts,     \* bound: tasks of a key that are numbered before the count starts anew
  Posters       \* bound: threads between a push and its notify_one

ASSUME ExecutorConstants ==
  Keys \subseteq Nat /\ Count \in Nat \ {0} /\ Capacity \in Nat \ {0} /\ MaxPosts \in Nat /\ Posters \in Nat

VARIABLES
  queue, stopping,
  at,        \* a worker: loop, asleep, tick, run, exit
  due,       \* Clock::now() >= next
  owed,      \* notify_one calls that are still to be made
  current,   \* the task a worker is running, or NoTask
  posted,    \* tasks accepted, by key
  finished,  \* tasks that have run to their end or thrown, by key
  cancelled, \* shards whose queue a stop has discarded
  stopper    \* where stop(drain) is: the shard to stop next, the shard to join next

vars == <<queue, stopping, at, due, owed, current, posted, finished, cancelled, stopper>>

Shards == 1 .. Count
Task(k, n) == [key |-> k, id |-> n]
Tasks == [key : Keys, id : Nat \ {0}]
NoTask == [key |-> 0, id |-> 0]

shardIdle(key) ==  \* the shard that has least to do
  CHOOSE s \in Shards : \A r \in Shards : Len(queue[s]) <= Len(queue[r])
shard(key) == (key % Count) + 1

Init ==
  /\ queue = [s \in Shards |-> << >>] /\ stopping = [s \in Shards |-> FALSE]
  /\ at = [s \in Shards |-> "loop"] /\ due = [s \in Shards |-> FALSE] /\ owed = [s \in Shards |-> 0]
  /\ current = [s \in Shards |-> NoTask]
  /\ posted = [k \in Keys |-> 0] /\ finished = [k \in Keys |-> 0]
  /\ cancelled = {} /\ stopper = [pc |-> "no", next |-> 1, drain |-> TRUE]

-----------------------------------------------------------------------------
\* post(); one that is refused changes nothing.
post(k) ==
  LET s == shard(k) IN
  /\ posted[k] < MaxPosts /\ owed[s] < Posters /\ ~stopping[s] /\ Len(queue[s]) < Capacity
  /\ queue' = [queue EXCEPT ![s] = Append(@, Task(k, posted[k] + 1))]
  /\ posted' = [posted EXCEPT ![k] = @ + 1] /\ owed' = [owed EXCEPT ![s] = @ + 1]
  /\ UNCHANGED <<stopping, at, due, current, finished, cancelled, stopper>>

\* When all tasks of a key have run, counting starts anew (so that posts can
\* go on for ever).
Renumber(k) ==
  /\ posted[k] = finished[k] /\ posted[k] > 0
  /\ posted' = [posted EXCEPT ![k] = 0] /\ finished' = [finished EXCEPT ![k] = 0]
  /\ UNCHANGED <<queue, stopping, at, due, owed, current, cancelled, stopper>>

notify_one(s) ==
  /\ owed[s] > 0 /\ owed' = [owed EXCEPT ![s] = @ - 1]
  /\ at' = [at EXCEPT ![s] = IF @ = "asleep" THEN "loop" ELSE @]
  /\ UNCHANGED <<queue, stopping, due, current, posted, finished, cancelled, stopper>>

\* A round of run(): what the worker does with the mutex held.
sleep(s) ==
  /\ at[s] = "loop" /\ ~stopping[s] /\ queue[s] = << >> /\ ~due[s]
  /\ at' = [at EXCEPT ![s] = "asleep"]
  /\ UNCHANGED <<queue, stopping, due, owed, current, posted, finished, cancelled, stopper>>

exitEarly(s) ==  \* the queue is not looked at
  /\ at[s] = "loop" /\ stopping[s]
  /\ at' = [at EXCEPT ![s] = "exit"]
  /\ UNCHANGED <<queue, stopping, due, owed, current, posted, finished, cancelled, stopper>>

exit(s) ==
  /\ at[s] = "loop" /\ stopping[s] /\ queue[s] = << >>
  /\ at' = [at EXCEPT ![s] = "exit"]
  /\ UNCHANGED <<queue, stopping, due, owed, current, posted, finished, cancelled, stopper>>

tick(s) ==
  /\ at[s] = "loop" /\ ~stopping[s] /\ due[s]
  /\ at' = [at EXCEPT ![s] = "tick"]
  /\ UNCHANGED <<queue, stopping, due, owed, current, posted, finished, cancelled, stopper>>

tickDone(s) ==
  /\ at[s] = "tick" /\ at' = [at EXCEPT ![s] = "loop"] /\ due' = [due EXCEPT ![s] = FALSE]
  /\ UNCHANGED <<queue, stopping, owed, current, posted, finished, cancelled, stopper>>

takeFirst(s) ==  \* tasks come before the timer
  /\ at[s] = "loop" /\ queue[s] # << >>
  /\ current' = [current EXCEPT ![s] = Head(queue[s])] /\ queue' = [queue EXCEPT ![s] = Tail(@)]
  /\ at' = [at EXCEPT ![s] = "run"]
  /\ UNCHANGED <<stopping, due, owed, posted, finished, cancelled, stopper>>

take(s) ==
  /\ at[s] = "loop" /\ queue[s] # << >> /\ (stopping[s] \/ ~due[s])
  /\ current' = [current EXCEPT ![s] = Head(queue[s])] /\ queue' = [queue EXCEPT ![s] = Tail(@)]
  /\ at' = [at EXCEPT ![s] = "run"]
  /\ UNCHANGED <<stopping, due, owed, posted, finished, cancelled, stopper>>

\* invoke(): the task returns or throws.
done(s) ==
  /\ at[s] = "run" /\ at' = [at EXCEPT ![s] = "loop"]
  /\ finished' = [finished EXCEPT ![current[s].key] = @ + 1] /\ current' = [current EXCEPT ![s] = NoTask]
  /\ UNCHANGED <<queue, stopping, due, owed, posted, cancelled, stopper>>

\* Time reaches next.  The interval is longer than a worker needs from the
\* end of a tick to the next round.
Due(s) ==
  /\ ~due[s] /\ at[s] \in {"asleep", "run"} /\ due' = [due EXCEPT ![s] = TRUE]
  /\ at' = [at EXCEPT ![s] = IF @ = "asleep" THEN "loop" ELSE @]
  /\ UNCHANGED <<queue, stopping, owed, current, posted, finished, cancelled, stopper>>

Spurious(s) ==
  /\ at[s] = "asleep" /\ at' = [at EXCEPT ![s] = "loop"]
  /\ UNCHANGED <<queue, stopping, due, owed, current, posted, finished, cancelled, stopper>>

-----------------------------------------------------------------------------
\* stop(drain), called from outside the workers: every shard is told, then
\* every thread is joined.
stop(drain) ==
  /\ stopper.pc = "no" /\ stopper' = [pc |-> "tell", next |-> 1, drain |-> drain]
  /\ UNCHANGED <<queue, stopping, at, due, owed, current, posted, finished, cancelled>>

tellSilently ==  \* no notify_one
  LET s == stopper.next IN
  /\ stopper.pc = "tell" /\ stopping' = [stopping EXCEPT ![s] = TRUE]
  /\ IF stopper.drain THEN UNCHANGED <<queue, cancelled>>
     ELSE queue' = [queue EXCEPT ![s] = << >>] /\ cancelled' = cancelled \cup {s}
  /\ stopper' = IF s = Count THEN [stopper EXCEPT !.pc = "join", !.next = 1] ELSE [stopper EXCEPT !.next = @ + 1]
  /\ UNCHANGED <<at, due, owed, current, posted, finished>>

tell ==
  LET s == stopper.next IN
  /\ stopper.pc = "tell" /\ stopping' = [stopping EXCEPT ![s] = TRUE] /\ owed' = [owed EXCEPT ![s] = @ + 1]
  /\ IF stopper.drain THEN UNCHANGED <<queue, cancelled>>
     ELSE queue' = [queue EXCEPT ![s] = << >>] /\ cancelled' = cancelled \cup {s}
  /\ stopper' = IF s = Count THEN [stopper EXCEPT !.pc = "join", !.next = 1] ELSE [stopper EXCEPT !.next = @ + 1]
  /\ UNCHANGED <<at, due, current, posted, finished>>

join ==
  LET s == stopper.next IN
  /\ stopper.pc = "join" /\ at[s] = "exit"
  /\ stopper' = IF s = Count THEN [stopper EXCEPT !.pc = "stopped"] ELSE [stopper EXCEPT !.next = @ + 1]
  /\ UNCHANGED <<queue, stopping, at, due, owed, current, posted, finished, cancelled>>

Worker(s) == sleep(s) \/ exit(s) \/ tick(s) \/ tickDone(s) \/ take(s) \/ done(s)

Next ==
  \/ \E k \in Keys : post(k) \/ Renumber(k)
  \/ \E s \in Shards : Worker(s) \/ notify_one(s) \/ Due(s) \/ Spurious(s)
  \/ (\E drain \in BOOLEAN : stop(drain)) \/ tell \/ join
Spec == Init /\ [][Next]_vars

\* Threads go on, tasks and ticks come to an end.  Neither spurious wake-ups
\* nor the timer is relied upon to wake a worker.
Fairness ==
  /\ \A s \in Shards : WF_vars(Worker(s)) /\ WF_vars(notify_one(s))
  /\ WF_vars(tell) /\ WF_vars(join)
FairSpec == Spec /\ Fairness

-----------------------------------------------------------------------------
\* Queues hold tasks and respect the capacity; workers, flags and counters are
\* well formed.
TypeOK ==
  /\ queue \in [Shards -> Seq(Tasks)] /\ \A s \in Shards : Len(queue[s]) <= Capacity
  /\ stopping \in [Shards -> BOOLEAN] /\ at \in [Shards -> {"loop", "asleep", "tick", "run", "exit"}]
  /\ due \in [Shards -> BOOLEAN] /\ owed \in [Shards -> Nat]
  /\ current \in [Shards -> Tasks \cup {NoTask}]
  /\ posted \in [Keys -> Nat] /\ finished \in [Keys -> Nat] /\ cancelled \subseteq Shards
  /\ stopper \in [pc : {"no", "tell", "join", "stopped"}, next : Shards, drain : BOOLEAN]

\* A key's tasks run one at a time and in the order in which they were
\* accepted: when one runs, exactly the ones before it have finished.
KeyOrder ==
  \A s \in Shards : at[s] = "run" => finished[current[s].key] = current[s].id - 1

\* A worker does not sleep beside work or through a stop unless somebody is
\* about to notify it.
NoLostWakeup ==
  \A s \in Shards : at[s] = "asleep" /\ (stopping[s] \/ queue[s] # << >>) => owed[s] > 0

\* Once stop() has returned nothing runs any more, every queue is empty, and a
\* stop that drains has run every task that any post accepted, those included
\* that were accepted while the shards before theirs were already stopping.
StopSettlesAll ==
  stopper.pc = "stopped" =>
    /\ \A s \in Shards : at[s] = "exit" /\ queue[s] = << >>
    /\ stopper.drain => \A k \in Keys : finished[k] = posted[k]

\* A tick is not starved by a queue that never runs dry: at most the task that
\* is running comes before it.
TimerIsServed == \A s \in Shards : due[s] ~> (at[s] = "tick" \/ stopping[s])

\* Every task that was accepted runs, unless a cancelling stop discards it.
TaskSettles ==
  \A k \in Keys : \A n \in 1 .. MaxPosts :
    posted[k] >= n ~> (finished[k] >= n \/ shard(k) \in cancelled)

\* stop() returns.
StopReturns == stopper.pc = "tell" ~> stopper.pc = "stopped"
=============================================================================
