------------------------ MODULE KeyedExecutor_proofs ------------------------
(***************************************************************************)
(* KeyOrder, NoLostWakeup and StopSettlesAll hold for any keys, number of  *)
(* shards, capacity and number of posts.                                   *)
(*                                                                         *)
(* The argument for KeyOrder: the tasks of a key that are accepted and not *)
(* finished are in one shard, the running one and then those in the queue, *)
(* in the order of their numbers (Ordered) and without a gap (Complete);   *)
(* so the first one in the queue is the successor of the last that has     *)
(* finished.  Complete only fails for a shard whose queue was discarded,   *)
(* which takes no more tasks.                                              *)
(*                                                                         *)
(* At the end, the other queues of the servers: an HTTP connection of the  *)
(* gate is answered once, in the thread of its context (GateHttp).         *)
(***************************************************************************)
EXTENDS KeyedExecutor, TLAPS

\* A running task is the next of its key; it belongs to the worker's shard.
Running ==
  \A s \in Shards :
    IF at[s] = "run"
    THEN /\ current[s] \in Tasks /\ shard(current[s].key) = s
         /\ current[s].id = finished[current[s].key] + 1 /\ current[s].id <= posted[current[s].key]
    ELSE current[s] = NoTask

\* A queued task has not run and comes after the one that is running.
Queued ==
  \A s \in Shards : \A i \in 1 .. Len(queue[s]) :
    /\ queue[s][i] \in Tasks /\ shard(queue[s][i].key) = s
    /\ queue[s][i].id > finished[queue[s][i].key] /\ queue[s][i].id <= posted[queue[s][i].key]
    /\ at[s] = "run" /\ current[s].key = queue[s][i].key => queue[s][i].id > current[s].id

Ordered ==
  \A s \in Shards : \A i, j \in 1 .. Len(queue[s]) :
    i < j /\ queue[s][i].key = queue[s][j].key => queue[s][i].id < queue[s][j].id

Complete ==
  \A k \in Keys : \A n \in Nat :
    finished[k] < n /\ n <= posted[k] =>
      \/ at[shard(k)] = "run" /\ current[shard(k)] = Task(k, n)
      \/ \E i \in 1 .. Len(queue[shard(k)]) : queue[shard(k)][i] = Task(k, n)
      \/ shard(k) \in cancelled

Counted == \A k \in Keys : finished[k] <= posted[k]

\* Where the stopping thread is, and what it has done.
Stopping ==
  /\ \A s \in Shards : at[s] = "exit" => stopping[s] /\ queue[s] = << >>
  /\ stopper.drain => cancelled = {}
  /\ stopper.pc = "no" => cancelled = {}
  /\ \A s \in cancelled : stopping[s] /\ queue[s] = << >>
  /\ stopper.pc = "tell" => \A s \in Shards : s < stopper.next => stopping[s]
  /\ stopper.pc \in {"join", "stopped"} => \A s \in Shards : stopping[s]
  /\ stopper.pc = "join" => \A s \in Shards : s < stopper.next => at[s] = "exit"
  /\ stopper.pc = "stopped" => \A s \in Shards : at[s] = "exit"

IInv == TypeOK /\ Running /\ Queued /\ Ordered /\ Complete /\ Counted /\ Stopping /\ NoLostWakeup

-----------------------------------------------------------------------------
\* A key has a shard (KeyedExecutor::shard).
LEMMA ShardOfKey == \A k \in Keys : shard(k) \in Shards
<1> SUFFICES ASSUME NEW k \in Keys PROVE shard(k) \in Shards
  BY Zenon
<1>1. k \in Nat /\ Count \in Nat /\ Count > 0
  BY ExecutorConstants
<1>2. k % Count \in 0 .. (Count - 1)
  BY <1>1
<1> QED
  BY <1>1, <1>2 DEF shard, Shards

\* The invariant holds initially.
LEMMA InitIInv == Init => IInv
<1> SUFFICES ASSUME Init PROVE IInv
  OBVIOUS
<1>0. Count \in Nat /\ Count > 0 /\ Capacity \in Nat
  BY ExecutorConstants
<1>1. TypeOK
  BY <1>0 DEF Init, TypeOK, Shards
<1>2. Running /\ Queued /\ Ordered /\ Counted
  BY <1>0 DEF Init, Running, Queued, Ordered, Counted
<1>3. Complete
  BY <1>0, ShardOfKey DEF Init, Complete
<1>4. Stopping /\ NoLostWakeup
  BY <1>0, Zenon DEF Init, Stopping, NoLostWakeup
<1> QED
  BY <1>1, <1>2, <1>3, <1>4, Zenon DEF IInv

Work == Running /\ Queued /\ Ordered /\ Complete /\ Counted

\* Steps that neither move a task nor begin or end one leave the tasks'
\* part of the invariant alone.
LEMMA WorkKept ==
  ASSUME TypeOK, Work, UNCHANGED <<queue, current, posted, finished, cancelled>>,
         \A s \in Shards : at'[s] = "run" <=> at[s] = "run"
  PROVE  Work'
<1>1. Running'
  BY Zenon DEF Work, Running
<1>2. Queued' /\ Ordered' /\ Counted'
  BY ZenonT(60) DEF Work, Queued, Ordered, Counted
<1>3. Complete'
  BY ShardOfKey, Zenon DEF Work, Complete
<1> QED
  BY <1>1, <1>2, <1>3, Zenon DEF Work

\* A worker going to sleep, leaving, ticking; the timer; wake-ups.
LEMMA WorkerStep ==
  ASSUME IInv, NEW s \in Shards,
         sleep(s) \/ exit(s) \/ tick(s) \/ tickDone(s) \/ Due(s) \/ Spurious(s) \/ notify_one(s)
  PROVE  IInv'
<1> USE DEF sleep, exit, tick, tickDone, Due, Spurious, notify_one
<1>0. TypeOK /\ Work /\ Stopping /\ NoLostWakeup
  BY Zenon DEF IInv, Work
<1>1. TypeOK'
  <2>1. at' \in [Shards -> {"loop", "asleep", "tick", "run", "exit"}]
    BY <1>0, ZenonT(60) DEF TypeOK
  <2>2. due' \in [Shards -> BOOLEAN]
    BY <1>0, Zenon DEF TypeOK
  <2>3. owed' \in [Shards -> Nat]
    BY <1>0 DEF TypeOK
  <2>4. UNCHANGED <<queue, stopping, current, posted, finished, cancelled, stopper>>
    BY Zenon
  <2> QED
    BY <1>0, <2>1, <2>2, <2>3, <2>4, Zenon DEF TypeOK
<1>2. Work'
  <2>1. \A r \in Shards : at'[r] = "run" <=> at[r] = "run"
    BY <1>0, ZenonT(60) DEF TypeOK
  <2> QED
    BY <1>0, <2>1, WorkKept, Zenon
<1>3. Stopping'
  BY <1>0 DEF TypeOK, Stopping
<1>4. NoLostWakeup'
  BY <1>0, ZenonT(60) DEF TypeOK, NoLostWakeup
<1> QED
  BY <1>1, <1>2, <1>3, <1>4, Zenon DEF IInv, Work

\* stop() begins, and its thread joins the workers.
LEMMA StopStep ==
  ASSUME IInv, (\E drain \in BOOLEAN : stop(drain)) \/ join
  PROVE  IInv'
<1>0. TypeOK /\ Work /\ Stopping /\ NoLostWakeup /\ Count \in Nat /\ Count > 0
  BY ExecutorConstants DEF IInv, Work
<1>1. UNCHANGED <<queue, stopping, at, due, owed, current, posted, finished, cancelled>>
  BY Zenon DEF stop, join
<1>2. stopper' \in [pc : {"no", "tell", "join", "stopped"}, next : Shards, drain : BOOLEAN]
  <2>1. CASE \E drain \in BOOLEAN : stop(drain)
    BY <1>0, <2>1 DEF stop, TypeOK, Shards
  <2>2. CASE join /\ stopper.next = Count
    <3>1. stopper' = [stopper EXCEPT !.pc = "stopped"]
      BY <2>2, Zenon DEF join
    <3> QED
      BY <1>0, <3>1, Zenon DEF TypeOK
  <2>3. CASE join /\ stopper.next # Count
    <3>1. stopper' = [stopper EXCEPT !.next = stopper.next + 1]
      BY <2>3, Zenon DEF join
    <3>2. stopper.next + 1 \in Shards
      BY <1>0, <2>3, SMTT(60) DEF TypeOK, Shards
    <3> QED
      BY <1>0, <3>1, <3>2, Zenon DEF TypeOK
  <2> QED
    BY <2>1, <2>2, <2>3, Zenon
<1>3. TypeOK'
  BY <1>0, <1>1, <1>2, Zenon DEF TypeOK
<1>4. Work'
  BY <1>0, <1>1, WorkKept, Zenon
<1>5. Stopping'
  <2>1. CASE \E drain \in BOOLEAN : stop(drain)
    BY <1>0, <1>1, <2>1 DEF stop, Stopping, TypeOK, Shards
  <2>2. CASE join /\ stopper.next = Count
    <3>1. stopper' = [stopper EXCEPT !.pc = "stopped"] /\ stopper.pc = "join" /\ at[Count] = "exit"
      BY <2>2, Zenon DEF join
    <3>2. stopper'.pc = "stopped" /\ stopper'.drain = stopper.drain
      BY <1>0, <3>1, Zenon DEF TypeOK
    <3>3. \A s \in Shards : at[s] = "exit"
      BY <1>0, <2>2, <3>1 DEF Stopping, Shards
    <3> QED
      BY <1>0, <1>1, <3>1, <3>2, <3>3, Zenon DEF Stopping
  <2>3. CASE join /\ stopper.next # Count
    <3>1. stopper' = [stopper EXCEPT !.next = stopper.next + 1] /\ stopper.pc = "join" /\ at[stopper.next] = "exit"
      BY <2>3, Zenon DEF join
    <3>2. stopper'.pc = "join" /\ stopper'.drain = stopper.drain /\ stopper'.next = stopper.next + 1
      BY <1>0, <3>1, Zenon DEF TypeOK
    <3>3. \A s \in Shards : s < stopper.next + 1 => at[s] = "exit"
      <4>1. stopper.next \in Shards /\ \A s \in Shards : s < stopper.next => at[s] = "exit"
        BY <1>0, <3>1, Zenon DEF Stopping, TypeOK
      <4> QED
        BY <1>0, <3>1, <4>1 DEF Shards
    <3> QED
      BY <1>0, <1>1, <3>1, <3>2, <3>3, Zenon DEF Stopping
  <2> QED
    BY <2>1, <2>2, <2>3, Zenon
<1>6. NoLostWakeup'
  BY <1>0, <1>1, Zenon DEF NoLostWakeup
<1> QED
  BY <1>3, <1>4, <1>5, <1>6, Zenon DEF IInv, Work

\* stop() tells a shard, and discards its queue or not.
LEMMA TellStep ==
  ASSUME IInv, tell
  PROVE  IInv'
<1>0. TypeOK /\ Work /\ Stopping /\ NoLostWakeup /\ Count \in Nat /\ Count > 0 /\ Capacity \in Nat
  BY ExecutorConstants DEF IInv, Work
<1> DEFINE s == stopper.next
<1>1. s \in Shards
  BY <1>0, Zenon DEF TypeOK
<1>2. /\ stopping' = [stopping EXCEPT ![s] = TRUE] /\ owed' = [owed EXCEPT ![s] = @ + 1]
      /\ stopper.pc = "tell" /\ UNCHANGED <<at, due, current, posted, finished>>
      /\ stopper' = IF s = Count THEN [stopper EXCEPT !.pc = "join", !.next = 1] ELSE [stopper EXCEPT !.next = @ + 1]
  BY Zenon DEF tell
<1>3. IF stopper.drain THEN UNCHANGED <<queue, cancelled>>
      ELSE queue' = [queue EXCEPT ![s] = << >>] /\ cancelled' = cancelled \cup {s}
  BY Zenon DEF tell
<1>4. /\ stopper' \in [pc : {"no", "tell", "join", "stopped"}, next : Shards, drain : BOOLEAN]
      /\ stopper'.drain = stopper.drain
      /\ \/ s = Count /\ stopper'.pc = "join" /\ stopper'.next = 1
         \/ s # Count /\ stopper'.pc = "tell" /\ stopper'.next = s + 1
  <2>1. CASE s = Count
    <3>1. stopper' = [stopper EXCEPT !.pc = "join", !.next = 1]
      BY <1>2, <2>1, Zenon
    <3>2. 1 \in Shards
      BY <1>0 DEF Shards
    <3> QED
      BY <1>0, <2>1, <3>1, <3>2, Zenon DEF TypeOK
  <2>2. CASE s # Count
    <3>1. stopper' = [stopper EXCEPT !.next = s + 1]
      BY <1>2, <2>2, Zenon
    <3>2. s + 1 \in Shards
      BY <1>0, <1>1, <2>2 DEF Shards
    <3> QED
      BY <1>0, <1>2, <2>2, <3>1, <3>2, Zenon DEF TypeOK
  <2> QED
    BY <2>1, <2>2, Zenon
<1>5. queue' \in [Shards -> Seq(Tasks)] /\ (\A r \in Shards : Len(queue'[r]) <= Capacity) /\ cancelled' \subseteq Shards
  <2>1. CASE stopper.drain
    BY <1>0, <1>3, <2>1, Zenon DEF TypeOK
  <2>2. CASE ~stopper.drain
    <3>1. queue' = [queue EXCEPT ![s] = << >>] /\ cancelled' = cancelled \cup {s}
      BY <1>3, <2>2, Zenon
    <3> QED
      BY <1>0, <1>1, <3>1 DEF TypeOK
  <2> QED
    BY <2>1, <2>2, Zenon
<1>6. TypeOK'
  <2>1. stopping' \in [Shards -> BOOLEAN]
    BY <1>0, <1>1, <1>2, Zenon DEF TypeOK
  <2>2. owed' \in [Shards -> Nat]
    BY <1>0, <1>1, <1>2 DEF TypeOK
  <2> QED
    BY <1>0, <1>2, <1>4, <1>5, <2>1, <2>2, Zenon DEF TypeOK
<1>7. Work'
  <2>1. Running' /\ Counted'
    BY <1>0, <1>2, Zenon DEF Work, Running, Counted
  <2>2. CASE UNCHANGED <<queue, cancelled>>
    BY <1>0, <1>2, <2>2, WorkKept, Zenon
  <2>3. CASE queue' = [queue EXCEPT ![s] = << >>] /\ cancelled' = cancelled \cup {s}
    <3>1. \A r \in Shards : queue'[r] = IF r = s THEN << >> ELSE queue[r]
      BY <1>0, <1>1, <2>3, Zenon DEF TypeOK
    <3>2. Queued' /\ Ordered'
      BY <1>0, <1>2, <3>1, SMTT(60) DEF Work, Queued, Ordered
    <3>3. Complete'
      BY <1>0, <1>2, <2>3, <3>1, ShardOfKey, ZenonT(60) DEF Work, Complete
    <3> QED
      BY <2>1, <3>2, <3>3, Zenon DEF Work
  <2> QED
    BY <1>3, <2>2, <2>3, Zenon
<1>8. Stopping'
  <2>1. \A r \in Shards : stopping'[r] <=> (r = s \/ stopping[r])
    BY <1>0, <1>1, <1>2, Zenon DEF TypeOK
  <2>2. \A r \in Shards : queue[r] = << >> => queue'[r] = << >>
    BY <1>0, <1>1, <1>3, Zenon DEF TypeOK
  <2>3. (stopper.drain => cancelled' = {}) /\ \A r \in cancelled' : stopping'[r] /\ queue'[r] = << >>
    <3>1. CASE stopper.drain
      BY <1>0, <1>3, <2>1, <3>1, Zenon DEF Stopping, TypeOK
    <3>2. CASE ~stopper.drain
      <4>1. cancelled' = cancelled \cup {s} /\ queue' = [queue EXCEPT ![s] = << >>]
        BY <1>3, <3>2, Zenon
      <4>2. queue'[s] = << >>
        BY <1>0, <1>1, <4>1, Zenon DEF TypeOK
      <4> QED
        BY <1>0, <1>1, <2>1, <2>2, <3>2, <4>1, <4>2, ZenonT(60) DEF Stopping, TypeOK
    <3> QED
      BY <3>1, <3>2, Zenon
  <2>4. \A r \in Shards : r < s + 1 => stopping'[r]
    BY <1>0, <1>1, <1>2, <2>1 DEF Stopping, Shards
  <2>5. CASE s = Count
    <3>1. \A r \in Shards : stopping'[r]
      BY <1>0, <2>4, <2>5 DEF Shards
    <3> QED
      BY <1>0, <1>2, <1>4, <2>1, <2>2, <2>3, <2>5, <3>1 DEF Stopping, Shards
  <2>6. CASE s # Count
    BY <1>0, <1>2, <1>4, <2>1, <2>2, <2>3, <2>4, <2>6, Zenon DEF Stopping
  <2> QED
    BY <2>5, <2>6, Zenon
<1>9. NoLostWakeup'
  BY <1>0, <1>1, <1>2, <1>3 DEF NoLostWakeup, TypeOK
<1> QED
  BY <1>6, <1>7, <1>8, <1>9, Zenon DEF IInv, Work

\* A task is accepted.
LEMMA PostStep ==
  ASSUME IInv, NEW k \in Keys, post(k)
  PROVE  IInv'
<1>0. TypeOK /\ Work /\ Stopping /\ NoLostWakeup /\ Capacity \in Nat
  BY ExecutorConstants, Zenon DEF IInv, Work
<1> DEFINE s == shard(k)
           t == Task(k, posted[k] + 1)
<1>1. s \in Shards /\ posted[k] \in Nat /\ finished[k] \in Nat
  BY <1>0, ShardOfKey, Zenon DEF TypeOK
<1>2. /\ ~stopping[s] /\ Len(queue[s]) < Capacity
      /\ queue' = [queue EXCEPT ![s] = Append(queue[s], t)]
      /\ posted' = [posted EXCEPT ![k] = posted[k] + 1] /\ owed' = [owed EXCEPT ![s] = owed[s] + 1]
      /\ UNCHANGED <<stopping, at, due, current, finished, cancelled, stopper>>
  BY Zenon DEF post
<1>3. t \in Tasks /\ t.key = k /\ t.id = posted[k] + 1
  BY <1>1 DEF Tasks, Task
<1>4. /\ \A r \in Shards : r # s => queue'[r] = queue[r]
      /\ queue'[s] = Append(queue[s], t) /\ queue[s] \in Seq(Tasks)
  BY <1>0, <1>1, <1>2, Zenon DEF TypeOK
<1>5. /\ Len(queue'[s]) = Len(queue[s]) + 1 /\ queue'[s][Len(queue[s]) + 1] = t /\ Len(queue[s]) \in Nat
      /\ \A i \in 1 .. Len(queue[s]) : queue'[s][i] = queue[s][i]
  BY <1>3, <1>4
<1>6. posted'[k] = posted[k] + 1 /\ \A j \in Keys : j # k => posted'[j] = posted[j]
  BY <1>0, <1>2, Zenon DEF TypeOK
<1>7. TypeOK'
  <2>1. queue' \in [Shards -> Seq(Tasks)]
    BY <1>0, <1>1, <1>2, <1>3 DEF TypeOK
  <2>2. \A r \in Shards : Len(queue'[r]) <= Capacity
    BY <1>0, <1>2, <1>4, <1>5 DEF TypeOK
  <2>3. posted' \in [Keys -> Nat] /\ owed' \in [Shards -> Nat]
    BY <1>0, <1>1, <1>2, SMTT(60) DEF TypeOK
  <2> QED
    BY <1>0, <1>2, <2>1, <2>2, <2>3, Zenon DEF TypeOK
<1>8. Running'
  <2>1. \A j \in Keys : \A n \in Nat : n <= posted[j] => n <= posted'[j]
    <3> SUFFICES ASSUME NEW j \in Keys, NEW n \in Nat, n <= posted[j] PROVE n <= posted'[j]
      OBVIOUS
    <3>1. CASE j = k
      BY <1>1, <1>6, <3>1
    <3>2. CASE j # k
      BY <1>6, <3>2, Zenon
    <3> QED
      BY <3>1, <3>2, Zenon
  <2>2. \A r \in Shards : at[r] = "run" =>
          current[r] \in Tasks /\ current[r].key \in Keys /\ current[r].id \in Nat
    BY <1>0, Zenon DEF Work, Running, Tasks
  <2> QED
    BY <1>0, <1>2, <2>1, <2>2, Zenon DEF Work, Running
<1>9. Counted'
  BY <1>0, <1>1, <1>2, <1>6 DEF Work, Counted, TypeOK
<1>10. Queued'
  <2> SUFFICES ASSUME NEW r \in Shards, NEW i \in 1 .. Len(queue'[r])
               PROVE  /\ queue'[r][i] \in Tasks /\ shard(queue'[r][i].key) = r
                      /\ queue'[r][i].id > finished[queue'[r][i].key]
                      /\ queue'[r][i].id <= posted'[queue'[r][i].key]
                      /\ at[r] = "run" /\ current[r].key = queue'[r][i].key => queue'[r][i].id > current[r].id
    BY <1>2, ZenonT(60) DEF Queued
  <2>1. CASE r = s /\ i = Len(queue[s]) + 1
    <3>1. queue'[r][i] = t
      BY <1>5, <2>1, Zenon
    <3>2. at[r] = "run" /\ current[r].key = k => current[r].id <= posted[k] /\ current[r].id \in Nat
      BY <1>0, Zenon DEF Work, Running, Tasks
    <3> QED
      BY <1>0, <1>1, <1>3, <1>6, <2>1, <3>1, <3>2 DEF Work, Counted
  <2>2. CASE ~(r = s /\ i = Len(queue[s]) + 1)
    <3>1. i \in 1 .. Len(queue[r]) /\ queue'[r][i] = queue[r][i]
      <4>1. CASE r # s
        BY <1>4, <4>1, Zenon
      <4>2. CASE r = s
        <5>1. i \in 1 .. Len(queue[s])
          BY <1>5, <2>2, <4>2
        <5> QED
          BY <1>5, <4>2, <5>1, Zenon
      <4> QED
        BY <4>1, <4>2, Zenon
    <3>2. /\ queue[r][i] \in Tasks /\ shard(queue[r][i].key) = r
          /\ queue[r][i].id > finished[queue[r][i].key] /\ queue[r][i].id <= posted[queue[r][i].key]
          /\ at[r] = "run" /\ current[r].key = queue[r][i].key => queue[r][i].id > current[r].id
      BY <1>0, <3>1, Zenon DEF Work, Queued
    <3>3. queue[r][i].key \in Keys /\ queue[r][i].id \in Nat
      BY <3>2, Zenon DEF Tasks
    <3>4. queue[r][i].id <= posted'[queue[r][i].key]
      BY <1>1, <1>6, <3>2, <3>3, SMTT(60)
    <3> QED
      BY <3>1, <3>2, <3>4, Zenon
  <2> QED
    BY <2>1, <2>2, SMTT(30)
<1>11. Ordered'
  <2> SUFFICES ASSUME NEW r \in Shards, NEW i \in 1 .. Len(queue'[r]), NEW j \in 1 .. Len(queue'[r]),
                      i < j, queue'[r][i].key = queue'[r][j].key
               PROVE  queue'[r][i].id < queue'[r][j].id
    BY Zenon DEF Ordered
  <2>1. CASE r = s /\ j = Len(queue[s]) + 1
    <3>1. queue'[r][j] = t /\ i \in 1 .. Len(queue[r]) /\ queue'[r][i] = queue[r][i]
      BY <1>4, <1>5, <2>1
    <3> QED
      BY <1>0, <1>1, <1>3, <3>1, SMTT(60) DEF Work, Queued, Tasks
  <2>2. CASE ~(r = s /\ j = Len(queue[s]) + 1)
    <3>1. /\ i \in 1 .. Len(queue[r]) /\ queue'[r][i] = queue[r][i]
          /\ j \in 1 .. Len(queue[r]) /\ queue'[r][j] = queue[r][j]
      <4>1. CASE r # s
        BY <1>4, <4>1, Zenon
      <4>2. CASE r = s
        <5>1. i \in 1 .. Len(queue[s]) /\ j \in 1 .. Len(queue[s])
          BY <1>5, <2>2, <4>2
        <5> QED
          BY <1>5, <4>2, <5>1, Zenon
      <4> QED
        BY <4>1, <4>2, Zenon
    <3> QED
      BY <1>0, <3>1, Zenon DEF Work, Ordered
  <2> QED
    BY <2>1, <2>2, Zenon
<1>12. Complete'
  <2> SUFFICES ASSUME NEW j \in Keys, NEW n \in Nat, finished[j] < n, n <= posted'[j]
               PROVE  \/ at[shard(j)] = "run" /\ current[shard(j)] = Task(j, n)
                      \/ \E i \in 1 .. Len(queue'[shard(j)]) : queue'[shard(j)][i] = Task(j, n)
                      \/ shard(j) \in cancelled
    BY <1>2, Zenon DEF Complete
  <2>1. CASE j = k /\ n = posted[k] + 1
    BY <1>5, <2>1
  <2>2. CASE ~(j = k /\ n = posted[k] + 1)
    <3>1. n <= posted[j]
      BY <1>1, <1>6, <2>2
    <3>2. \/ at[shard(j)] = "run" /\ current[shard(j)] = Task(j, n)
          \/ \E i \in 1 .. Len(queue[shard(j)]) : queue[shard(j)][i] = Task(j, n)
          \/ shard(j) \in cancelled
      BY <1>0, <3>1, Zenon DEF Work, Complete
    <3>3. \A i \in 1 .. Len(queue[shard(j)]) :
            i \in 1 .. Len(queue'[shard(j)]) /\ queue'[shard(j)][i] = queue[shard(j)][i]
      <4>1. CASE shard(j) # s
        BY <1>4, <4>1, ShardOfKey, Zenon
      <4>2. CASE shard(j) = s
        BY <1>5, <4>2, SMTT(60)
      <4> QED
        BY <4>1, <4>2, Zenon
    <3> QED
      BY <3>2, <3>3, Zenon
  <2> QED
    BY <2>1, <2>2, Zenon
<1>13. Stopping'
  BY <1>0, <1>1, <1>2, <1>4 DEF Stopping
<1>14. NoLostWakeup'
  BY <1>0, <1>1, <1>2, <1>4, SMTT(60) DEF NoLostWakeup, TypeOK
<1> QED
  BY <1>7, <1>8, <1>9, <1>10, <1>11, <1>12, <1>13, <1>14, Zenon DEF IInv, Work

\* Counting of a key starts anew.
LEMMA RenumberStep ==
  ASSUME IInv, NEW k \in Keys, Renumber(k)
  PROVE  IInv'
<1>0. TypeOK /\ Work /\ Stopping /\ NoLostWakeup
  BY Zenon DEF IInv, Work
<1>1. /\ posted[k] = finished[k] /\ posted' = [posted EXCEPT ![k] = 0] /\ finished' = [finished EXCEPT ![k] = 0]
      /\ UNCHANGED <<queue, stopping, at, due, owed, current, cancelled, stopper>>
  BY Zenon DEF Renumber
<1>2. \A j \in Keys : /\ posted[j] \in Nat /\ finished[j] \in Nat
                      /\ j # k => posted'[j] = posted[j] /\ finished'[j] = finished[j]
  BY <1>0, <1>1, Zenon DEF TypeOK
<1>3. posted'[k] = 0 /\ finished'[k] = 0
  BY <1>0, <1>1, Zenon DEF TypeOK
<1>4. TypeOK'
  <2>1. posted' \in [Keys -> Nat] /\ finished' \in [Keys -> Nat]
    BY <1>0, <1>1, Zenon DEF TypeOK
  <2> QED
    BY <1>0, <1>1, <2>1, Zenon DEF TypeOK
<1>5. Running'
  <2>1. \A s \in Shards : at[s] = "run" => current[s] \in Tasks /\ current[s].key # k
    BY <1>0, <1>1, <1>2 DEF Work, Running, Tasks
  <2>2. \A s \in Shards : at[s] = "run" => current[s].key \in Keys
    BY <2>1, Zenon DEF Tasks
  <2> QED
    BY <1>0, <1>1, <1>2, <2>1, <2>2 DEF Work, Running
<1>6. Queued'
  <2>1. \A s \in Shards : \A i \in 1 .. Len(queue[s]) :
          queue[s][i] \in Tasks /\ queue[s][i].key # k /\ queue[s][i].key \in Keys
    BY <1>0, <1>1, <1>2 DEF Work, Queued, Tasks
  <2> QED
    BY <1>0, <1>1, <1>2, <2>1 DEF Work, Queued
<1>7. Ordered' /\ Counted'
  BY <1>0, <1>1, <1>2, <1>3 DEF Work, Ordered, Counted
<1>8. Complete'
  BY <1>0, <1>1, <1>2, <1>3 DEF Work, Complete
<1>9. Stopping' /\ NoLostWakeup'
  BY <1>0, <1>1, Zenon DEF Stopping, NoLostWakeup
<1> QED
  BY <1>4, <1>5, <1>6, <1>7, <1>8, <1>9, Zenon DEF IInv, Work

\* A worker takes the first task of its queue: the next of its key.
LEMMA TakeStep ==
  ASSUME IInv, NEW s \in Shards, take(s)
  PROVE  IInv'
<1>0. TypeOK /\ Work /\ Stopping /\ NoLostWakeup /\ Capacity \in Nat
  BY ExecutorConstants, Zenon DEF IInv, Work
<1> DEFINE q == queue[s]
           h == Head(queue[s])
<1>1. /\ at[s] = "loop" /\ q # << >>
      /\ current' = [current EXCEPT ![s] = h] /\ queue' = [queue EXCEPT ![s] = Tail(q)]
      /\ at' = [at EXCEPT ![s] = "run"]
      /\ UNCHANGED <<stopping, due, owed, posted, finished, cancelled, stopper>>
  BY Zenon DEF take
<1>2. q \in Seq(Tasks) /\ Len(q) \in Nat /\ Len(q) > 0 /\ Len(q) <= Capacity /\ h = q[1] /\ 1 \in 1 .. Len(q)
  BY <1>0, <1>1 DEF TypeOK
<1>3. /\ Tail(q) \in Seq(Tasks) /\ Len(Tail(q)) = Len(q) - 1
      /\ \A i \in 1 .. Len(q) - 1 : Tail(q)[i] = q[i + 1]
  BY <1>2
<1>4. /\ h \in Tasks /\ h.key \in Keys /\ h.id \in Nat /\ shard(h.key) = s
      /\ h.id > finished[h.key] /\ h.id <= posted[h.key]
      /\ finished[h.key] \in Nat /\ posted[h.key] \in Nat
  <2>1. h \in Tasks /\ shard(h.key) = s /\ h.id > finished[h.key] /\ h.id <= posted[h.key]
    BY <1>0, <1>2, Zenon DEF Work, Queued
  <2>2. h.key \in Keys /\ h.id \in Nat
    BY <2>1, Zenon DEF Tasks
  <2> QED
    BY <1>0, <2>1, <2>2, Zenon DEF TypeOK
<1>5. h.id = finished[h.key] + 1
  <2> SUFFICES ASSUME h.id # finished[h.key] + 1 PROVE FALSE
    OBVIOUS
  <2>0. s \notin cancelled
    BY <1>0, <1>1, Zenon DEF Stopping
  <2> DEFINE n == finished[h.key] + 1
  <2>1. n \in Nat /\ finished[h.key] < n /\ n <= posted[h.key] /\ n < h.id
    BY <1>4, SMTT(30)
  <2>2. PICK i \in 1 .. Len(q) : q[i] = Task(h.key, n)
    BY <1>0, <1>1, <1>4, <2>0, <2>1, Zenon DEF Work, Complete
  <2>3. q[i].key = h.key /\ q[i].id = n
    BY <2>2 DEF Task
  <2>4. CASE i = 1
    BY <1>2, <1>4, <2>1, <2>3, <2>4, Zenon
  <2>5. CASE i > 1
    <3>1. q[1].id < q[i].id
      BY <1>0, <1>2, <2>3, <2>5, Zenon DEF Work, Ordered
    <3> QED
      BY <1>2, <1>4, <2>1, <2>3, <3>1
  <2> QED
    BY <1>2, <2>4, <2>5
<1>6. /\ \A r \in Shards : r # s => queue'[r] = queue[r] /\ current'[r] = current[r] /\ at'[r] = at[r]
      /\ queue'[s] = Tail(q) /\ current'[s] = h /\ at'[s] = "run"
  BY <1>0, <1>1, Zenon DEF TypeOK
<1>7. Len(queue'[s]) = Len(q) - 1 /\ \A i \in 1 .. Len(q) - 1 : queue'[s][i] = q[i + 1]
  BY <1>3, <1>6, Zenon
<1>8. TypeOK'
  <2>1. queue' \in [Shards -> Seq(Tasks)]
    BY <1>0, <1>1, <1>3, Zenon DEF TypeOK
  <2>2. \A r \in Shards : Len(queue'[r]) <= Capacity
    <3>1. Len(queue'[s]) <= Capacity
      BY <1>0, <1>2, <1>7
    <3>2. \A r \in Shards : r # s => Len(queue'[r]) <= Capacity
      BY <1>0, <1>6, Zenon DEF TypeOK
    <3> QED
      BY <3>1, <3>2, Zenon
  <2>3. current' \in [Shards -> Tasks \cup {NoTask}]
    BY <1>0, <1>1, <1>4, Zenon DEF TypeOK
  <2>4. at' \in [Shards -> {"loop", "asleep", "tick", "run", "exit"}]
    BY <1>0, <1>1, ZenonT(60) DEF TypeOK
  <2> QED
    BY <1>0, <1>1, <2>1, <2>2, <2>3, <2>4, Zenon DEF TypeOK
<1>9. Running'
  BY <1>0, <1>1, <1>4, <1>5, <1>6, ZenonT(60) DEF Work, Running
<1>10. Queued'
  <2> SUFFICES ASSUME NEW r \in Shards, NEW i \in 1 .. Len(queue'[r])
               PROVE  /\ queue'[r][i] \in Tasks /\ shard(queue'[r][i].key) = r
                      /\ queue'[r][i].id > finished[queue'[r][i].key]
                      /\ queue'[r][i].id <= posted[queue'[r][i].key]
                      /\ at'[r] = "run" /\ current'[r].key = queue'[r][i].key => queue'[r][i].id > current'[r].id
    BY <1>1, Zenon DEF Queued
  <2>1. CASE r # s
    BY <1>0, <1>6, <2>1, Zenon DEF Work, Queued
  <2>2. CASE r = s
    <3>1. i + 1 \in 1 .. Len(q) /\ queue'[r][i] = q[i + 1] /\ 1 < i + 1
      BY <1>2, <1>7, <2>2
    <3>2. /\ q[i + 1] \in Tasks /\ shard(q[i + 1].key) = s
          /\ q[i + 1].id > finished[q[i + 1].key] /\ q[i + 1].id <= posted[q[i + 1].key]
      BY <1>0, <3>1, Zenon DEF Work, Queued
    <3>3. h.key = q[i + 1].key => q[i + 1].id > h.id
      <4>1. q[i + 1].id \in Nat
        BY <3>2, Zenon DEF Tasks
      <4>2. q[1].key = q[i + 1].key => q[1].id < q[i + 1].id
        BY <1>0, <1>2, <3>1, Zenon DEF Work, Ordered
      <4> QED
        BY <1>2, <1>4, <4>1, <4>2, Zenon
    <3> QED
      BY <1>6, <2>2, <3>1, <3>2, <3>3, Zenon
  <2> QED
    BY <2>1, <2>2, SMTT(30)
<1>11. Ordered'
  <2> SUFFICES ASSUME NEW r \in Shards, NEW i \in 1 .. Len(queue'[r]), NEW j \in 1 .. Len(queue'[r]),
                      i < j, queue'[r][i].key = queue'[r][j].key
               PROVE  queue'[r][i].id < queue'[r][j].id
    BY Zenon DEF Ordered
  <2>1. CASE r # s
    BY <1>0, <1>6, <2>1, Zenon DEF Work, Ordered
  <2>2. CASE r = s
    <3>1. /\ i + 1 \in 1 .. Len(q) /\ queue'[r][i] = q[i + 1]
          /\ j + 1 \in 1 .. Len(q) /\ queue'[r][j] = q[j + 1] /\ i + 1 < j + 1
      BY <1>2, <1>7, <2>2, SMTT(60)
    <3> QED
      BY <1>0, <3>1, Zenon DEF Work, Ordered
  <2> QED
    BY <2>1, <2>2, Zenon
<1>12. Complete'
  <2> SUFFICES ASSUME NEW k \in Keys, NEW n \in Nat, finished[k] < n, n <= posted[k]
               PROVE  \/ at'[shard(k)] = "run" /\ current'[shard(k)] = Task(k, n)
                      \/ \E i \in 1 .. Len(queue'[shard(k)]) : queue'[shard(k)][i] = Task(k, n)
                      \/ shard(k) \in cancelled
    BY <1>1, Zenon DEF Complete
  <2>0. \/ at[shard(k)] = "run" /\ current[shard(k)] = Task(k, n)
        \/ \E i \in 1 .. Len(queue[shard(k)]) : queue[shard(k)][i] = Task(k, n)
        \/ shard(k) \in cancelled
    BY <1>0, Zenon DEF Work, Complete
  <2>1. CASE shard(k) # s
    BY <1>6, <2>0, <2>1, ShardOfKey, Zenon
  <2>2. CASE shard(k) = s /\ s \notin cancelled
    <3>1. PICK i \in 1 .. Len(q) : q[i] = Task(k, n)
      BY <1>1, <2>0, <2>2, Zenon
    <3>2. CASE i = 1
      BY <1>2, <1>6, <2>2, <3>1, <3>2, Zenon
    <3>3. CASE i # 1
      <4>1. i - 1 \in 1 .. Len(Tail(q)) /\ Tail(q)[i - 1] = q[i]
        BY <1>2, <1>3, <3>3
      <4> QED
        BY <1>6, <2>2, <3>1, <4>1, Zenon
    <3> QED
      BY <3>2, <3>3, Zenon
  <2> QED
    BY <2>1, <2>2, Zenon
<1>13. Counted' /\ Stopping'
  <2>1. s \notin cancelled
    BY <1>0, <1>1, Zenon DEF Stopping
  <2>2. Counted'
    BY <1>0, <1>1, Zenon DEF Work, Counted
  <2>3. \A r \in Shards : (at'[r] = "exit" => at[r] = "exit" /\ r # s) /\ (at[r] = "exit" => at'[r] = "exit")
    BY <1>1, <1>6, Zenon
  <2> QED
    BY <1>0, <1>1, <1>6, <2>1, <2>2, <2>3 DEF Stopping, TypeOK
<1>14. NoLostWakeup'
  BY <1>0, <1>1, <1>6, Zenon DEF NoLostWakeup
<1> QED
  BY <1>8, <1>9, <1>10, <1>11, <1>12, <1>13, <1>14, Zenon DEF IInv, Work

\* A task ends: the next of its key is the first that is left.
LEMMA DoneStep ==
  ASSUME IInv, NEW s \in Shards, done(s)
  PROVE  IInv'
<1>0. TypeOK /\ Work /\ Stopping /\ NoLostWakeup
  BY Zenon DEF IInv, Work
<1> DEFINE k == current[s].key
           c == current[s]
<1>1. /\ at[s] = "run" /\ at' = [at EXCEPT ![s] = "loop"]
      /\ finished' = [finished EXCEPT ![k] = @ + 1] /\ current' = [current EXCEPT ![s] = NoTask]
      /\ UNCHANGED <<queue, stopping, due, owed, posted, cancelled, stopper>>
  BY Zenon DEF done
<1>2. /\ c \in Tasks /\ shard(k) = s /\ c.id = finished[k] + 1 /\ c.id <= posted[k]
      /\ k \in Keys /\ c.id \in Nat /\ finished[k] \in Nat /\ posted[k] \in Nat
  <2>1. c \in Tasks /\ shard(k) = s /\ c.id = finished[k] + 1 /\ c.id <= posted[k]
    BY <1>0, <1>1, Zenon DEF Work, Running
  <2>2. k \in Keys /\ c.id \in Nat
    BY <2>1, Zenon DEF Tasks
  <2> QED
    BY <1>0, <2>1, <2>2, Zenon DEF TypeOK
<1>3. /\ finished'[k] = finished[k] + 1
      /\ \A j \in Keys : j # k => finished'[j] = finished[j]
      /\ current'[s] = NoTask /\ at'[s] = "loop"
      /\ \A r \in Shards : r # s => current'[r] = current[r] /\ at'[r] = at[r]
  BY <1>0, <1>1, <1>2, Zenon DEF TypeOK
<1>4. TypeOK'
  <2>1. finished' \in [Keys -> Nat]
    BY <1>0, <1>1, <1>2, Zenon DEF TypeOK
  <2>2. current' \in [Shards -> Tasks \cup {NoTask}]
    BY <1>0, <1>1, Zenon DEF TypeOK
  <2>3. at' \in [Shards -> {"loop", "asleep", "tick", "run", "exit"}]
    BY <1>0, <1>1, Zenon DEF TypeOK
  <2> QED
    BY <1>0, <1>1, <2>1, <2>2, <2>3, Zenon DEF TypeOK
<1>5. Running'
  <2> SUFFICES ASSUME NEW r \in Shards
               PROVE  IF at'[r] = "run"
                      THEN /\ current'[r] \in Tasks /\ shard(current'[r].key) = r
                           /\ current'[r].id = finished'[current'[r].key] + 1
                           /\ current'[r].id <= posted[current'[r].key]
                      ELSE current'[r] = NoTask
    BY <1>1, Zenon DEF Running
  <2>1. CASE r = s
    BY <1>3, <2>1, Zenon
  <2>2. CASE r # s /\ at[r] = "run"
    <3>1. /\ current[r] \in Tasks /\ shard(current[r].key) = r
          /\ current[r].id = finished[current[r].key] + 1 /\ current[r].id <= posted[current[r].key]
      BY <1>0, <2>2, Zenon DEF Work, Running
    <3>2. current[r].key \in Keys /\ current[r].key # k
      BY <1>2, <2>2, <3>1, Zenon DEF Tasks
    <3> QED
      BY <1>3, <2>2, <3>1, <3>2, Zenon
  <2>3. CASE r # s /\ at[r] # "run"
    BY <1>0, <1>3, <2>3, Zenon DEF Work, Running
  <2> QED
    BY <2>1, <2>2, <2>3, SMTT(30)
<1>6. Queued'
  <2> SUFFICES ASSUME NEW r \in Shards, NEW i \in 1 .. Len(queue[r])
               PROVE  /\ queue[r][i] \in Tasks /\ shard(queue[r][i].key) = r
                      /\ queue[r][i].id > finished'[queue[r][i].key]
                      /\ queue[r][i].id <= posted[queue[r][i].key]
                      /\ at'[r] = "run" /\ current'[r].key = queue[r][i].key => queue[r][i].id > current'[r].id
    BY <1>1 DEF Queued
  <2> DEFINE t == queue[r][i]
  <2>1. /\ t \in Tasks /\ shard(t.key) = r /\ t.id > finished[t.key] /\ t.id <= posted[t.key]
        /\ at[r] = "run" /\ current[r].key = t.key => t.id > current[r].id
    BY <1>0, Zenon DEF Work, Queued
  <2>2. t.key \in Keys /\ t.id \in Nat
    BY <2>1, Zenon DEF Tasks
  <2>3. t.id > finished'[t.key]
    <3>1. CASE t.key = k
      BY <1>1, <1>2, <1>3, <2>1, <2>2, <3>1
    <3>2. CASE t.key # k
      BY <1>3, <2>1, <2>2, <3>2, Zenon
    <3> QED
      BY <3>1, <3>2, Zenon
  <2>4. at'[r] = "run" => r # s
    BY <1>3, Zenon
  <2> QED
    BY <1>3, <2>1, <2>3, <2>4, Zenon
<1>7. Ordered' /\ Counted'
  <2>1. Ordered'
    BY <1>0, <1>1, Zenon DEF Work, Ordered
  <2>2. Counted'
    BY <1>0, <1>1, <1>2, <1>3, Zenon DEF Work, Counted
  <2> QED
    BY <2>1, <2>2, Zenon
<1>8. Complete'
  <2> SUFFICES ASSUME NEW j \in Keys, NEW n \in Nat, finished'[j] < n, n <= posted[j]
               PROVE  \/ at'[shard(j)] = "run" /\ current'[shard(j)] = Task(j, n)
                      \/ \E i \in 1 .. Len(queue[shard(j)]) : queue[shard(j)][i] = Task(j, n)
                      \/ shard(j) \in cancelled
    BY <1>1, Zenon DEF Complete
  <2>1. finished[j] < n
    <3>1. CASE j = k
      BY <1>2, <1>3, <3>1, SMTT(30)
    <3>2. CASE j # k
      BY <1>3, <3>2, Zenon
    <3> QED
      BY <3>1, <3>2, Zenon
  <2>2. \/ at[shard(j)] = "run" /\ current[shard(j)] = Task(j, n)
        \/ \E i \in 1 .. Len(queue[shard(j)]) : queue[shard(j)][i] = Task(j, n)
        \/ shard(j) \in cancelled
    BY <1>0, <2>1, SMTT(30) DEF Work, Complete
  <2>3. ASSUME shard(j) = s, current[s] = Task(j, n) PROVE FALSE
    <3>1. j = k /\ n = c.id
      BY <2>3 DEF Task
    <3> QED
      BY <1>2, <1>3, <3>1
  <2> QED
    BY <1>3, <2>2, <2>3, ShardOfKey, Zenon
<1>9. Stopping' /\ NoLostWakeup'
  BY <1>0, <1>1, <1>3, ZenonT(60) DEF Stopping, NoLostWakeup, TypeOK
<1> QED
  BY <1>4, <1>5, <1>6, <1>7, <1>8, <1>9, Zenon DEF IInv, Work

\* Every step keeps the invariant.
LEMMA NextIInv == IInv /\ [Next]_vars => IInv'
<1> SUFFICES ASSUME IInv, [Next]_vars PROVE IInv'
  OBVIOUS
<1>1. ASSUME NEW k \in Keys, post(k) PROVE IInv'
  BY <1>1, PostStep, Zenon
<1>2. ASSUME NEW k \in Keys, Renumber(k) PROVE IInv'
  BY <1>2, RenumberStep, Zenon
<1>3. ASSUME NEW s \in Shards, take(s) PROVE IInv'
  BY <1>3, TakeStep, Zenon
<1>4. ASSUME NEW s \in Shards, done(s) PROVE IInv'
  BY <1>4, DoneStep, Zenon
<1>5. ASSUME tell PROVE IInv'
  BY <1>5, TellStep, SMTT(30)
<1>6. CASE UNCHANGED vars
  BY <1>6, ZenonT(60) DEF vars, IInv, TypeOK, Running, Queued, Ordered, Complete, Counted, Stopping, NoLostWakeup
<1> QED
  BY <1>1, <1>2, <1>3, <1>4, <1>5, <1>6, WorkerStep, StopStep, Zenon DEF Next, Worker

\* IInv is an invariant.
LEMMA Inductive == Spec => []IInv
  BY InitIInv, NextIInv, PTL DEF Spec

\* For any keys, shards and capacity: a key's tasks run one at a time and in
\* the order in which post() accepted them.
THEOREM OrderOfKeys == Spec => []KeyOrder
<1>1. IInv => KeyOrder
  <2> SUFFICES ASSUME IInv, NEW s \in Shards, at[s] = "run" PROVE finished[current[s].key] = current[s].id - 1
    BY Zenon DEF KeyOrder
  <2>1. current[s] \in Tasks /\ current[s].id = finished[current[s].key] + 1
    BY Zenon DEF IInv, Running
  <2>2. finished[current[s].key] \in Nat
    BY <2>1, Zenon DEF IInv, TypeOK, Tasks
  <2> QED
    BY <2>1, <2>2
<1> QED
  BY <1>1, Inductive, PTL

\* A worker never sleeps beside work or through a stop without a notify_one on
\* its way, although notify_one is called after the mutex is released.
THEOREM WakeupIsNeverLost == Spec => []NoLostWakeup
<1>1. IInv => NoLostWakeup
  BY Zenon DEF IInv
<1> QED
  BY <1>1, Inductive, PTL

\* When stop() has returned, nothing runs, nothing is queued, and after a stop
\* that drains every accepted task has run.
THEOREM StopIsComplete == Spec => []StopSettlesAll
<1>1. IInv => StopSettlesAll
  <2> SUFFICES ASSUME IInv, stopper.pc = "stopped"
               PROVE  /\ \A s \in Shards : at[s] = "exit" /\ queue[s] = << >>
                      /\ stopper.drain => \A k \in Keys : finished[k] = posted[k]
    BY Zenon DEF StopSettlesAll
  <2>1. \A s \in Shards : at[s] = "exit" /\ queue[s] = << >>
    BY Zenon DEF IInv, Stopping
  <2>2. ASSUME stopper.drain, NEW k \in Keys PROVE finished[k] = posted[k]
    <3>1. finished[k] \in Nat /\ posted[k] \in Nat /\ finished[k] <= posted[k]
      BY Zenon DEF IInv, TypeOK, Counted
    <3>2. cancelled = {}
      BY <2>2, Zenon DEF IInv, Stopping
    <3>3. shard(k) \in Shards /\ at[shard(k)] = "exit" /\ Len(queue[shard(k)]) = 0
      BY <2>1, ShardOfKey
    <3>4. ~(finished[k] < posted[k])
      BY <3>1, <3>2, <3>3 DEF IInv, Complete
    <3> QED
      BY <3>1, <3>4
  <2> QED
    BY <2>1, <2>2, Zenon
<1> QED
  BY <1>1, Inductive, PTL

-----------------------------------------------------------------------------
(* The gate's threads, which also run one handler at a time: GateHttp, with *)
(* constants and variables of its own.                                      *)

CONSTANTS Conns, Contexts, Stubs, Requests, Deadline, RpcTime, None

VARIABLES conn, ready, busy, next, free

Gate == INSTANCE GateHttp WITH queue <- ready

Replies == {"none", "lost", "ok", "RPC_ERROR", "JSON_ERROR", "PasswdInvalid", "200", "400", "404", "405"}
Connections ==
  [at : {"none", "reading", "arrived", "failed", "get", "calling", "writing", "over"}, ctx : 1 .. Contexts,
   req : Requests \cup {None}, timer : {"off", "armed", "ready"}, open : BOOLEAN, age : Nat, left : Nat,
   taken : BOOLEAN, reply : Replies]
Completions == {"read", "write", "timer"} \X Conns

\* e is in the queue q, where nothing is twice.
In(q, e) == \E i \in 1 .. Len(q) : q[i] = e
Once(q) == q \in Seq(Completions) /\ \A i, j \in 1 .. Len(q) : q[i] = q[j] => i = j

\* A connection s may have the completion e in the queue of the context x.
May(s, x, e) ==
  /\ s.ctx = x
  /\ e[1] = "read" => s.at \in {"arrived", "failed"}
  /\ e[1] = "write" => s.at = "writing"
  /\ e[1] = "timer" => s.timer = "ready"

\* A call occupies the thread of the connection's context, and only then can a
\* request that was taken up still wait for its reply.  There is no timer
\* before there is a connection.
Serves(c, s, b) ==
  /\ s.at \in {"get", "calling"} => b[s.ctx] = c /\ (s.taken => s.open)
  /\ s.taken /\ s.at = "writing" => s.reply # "lost"
  /\ s.at = "none" => s.timer = "off"

Shapes ==
  /\ conn \in [Conns -> Connections] /\ busy \in [1 .. Contexts -> Conns \cup {None}] /\ next \in 1 .. Contexts
  /\ DOMAIN ready = 1 .. Contexts /\ \A x \in 1 .. Contexts : Once(ready[x])
Entered == \A x \in 1 .. Contexts : \A e \in Completions : In(ready[x], e) => May(conn[e[2]], x, e)
Served == \A c \in Conns : Serves(c, conn[c], busy)
GInv == Shapes /\ Entered /\ Served

\* After a step that makes the connection c to s, the queues hold what suits it.
Suits(c, s) ==
  /\ DOMAIN ready' = 1 .. Contexts /\ \A x \in 1 .. Contexts : Once(ready'[x])
  /\ \A x \in 1 .. Contexts : \A e \in Completions :
       In(ready'[x], e) => (In(ready[x], e) /\ e[2] # c) \/ (e[2] = c /\ May(s, x, e))

\* A completion joins a queue.
LEMMA Joined ==
  ASSUME NEW q, Once(q), NEW e \in Completions, ~In(q, e)
  PROVE  Once(Append(q, e)) /\ \A d : In(Append(q, e), d) => In(q, d) \/ d = e
  <1>1. q \in Seq(Completions) /\ Len(q) \in Nat BY DEF Once
  <1> DEFINE r == Append(q, e)
  <1>2. r \in Seq(Completions) BY <1>1
  <1>3. Len(r) = Len(q) + 1 /\ r[Len(q) + 1] = e /\ \A i \in 1 .. Len(q) : r[i] = q[i] BY <1>1
  <1>4. \A i \in 1 .. Len(r) : i \in 1 .. Len(q) \/ i = Len(q) + 1 BY <1>1, <1>3
  <1> HIDE DEF r
  <1>5. \A i, j \in 1 .. Len(r) : r[i] = r[j] => i = j BY <1>3, <1>4, Zenon DEF Once, In
  <1>6. \A d : In(r, d) => In(q, d) \/ d = e BY <1>3, <1>4, Zenon DEF In
  <1> QED BY <1>2, <1>5, <1>6, Zenon DEF Once, r

\* The first one leaves.
LEMMA Left ==
  ASSUME NEW q, Once(q), q # << >>
  PROVE  /\ Head(q) \in Completions /\ In(q, Head(q)) /\ Once(Tail(q))
         /\ \A d : In(Tail(q), d) => In(q, d) /\ d # Head(q)
  <1>1. q \in Seq(Completions) /\ Len(q) \in Nat /\ Len(q) > 0 BY DEF Once
  <1> DEFINE r == Tail(q)
  <1>2. r \in Seq(Completions) BY <1>1
  <1>3. Len(r) = Len(q) - 1 /\ \A i \in 1 .. Len(r) : r[i] = q[i + 1] BY <1>1
  <1>4. Head(q) = q[1] /\ q[1] \in Completions /\ 1 \in 1 .. Len(q) BY <1>1
  <1>5. \A i \in 1 .. Len(r) : i + 1 \in 1 .. Len(q) /\ i + 1 # 1 BY <1>1, <1>3
  <1>6. \A i, j \in 1 .. Len(r) : i + 1 = j + 1 => i = j OBVIOUS
  <1> HIDE DEF r
  <1>7. \A i, j \in 1 .. Len(r) : r[i] = r[j] => i = j BY <1>3, <1>5, <1>6, ZenonT(60) DEF Once
  <1>8. ASSUME NEW d, In(r, d) PROVE In(q, d) /\ d # q[1]
    <2>1. PICK i \in 1 .. Len(r) : r[i] = d BY <1>8, Zenon DEF In
    <2>2. q[i + 1] = d /\ i + 1 \in 1 .. Len(q) /\ i + 1 # 1 BY <1>3, <1>5, <2>1, Zenon
    <2> QED BY <1>4, <2>2, Zenon DEF In, Once
  <1> QED BY <1>2, <1>4, <1>7, <1>8, Zenon DEF Once, In, r

\* One connection becomes s; its completions suit it, and no thread is taken
\* from another connection's call.
LEMMA Becomes ==
  ASSUME GInv, NEW c \in Conns, NEW s \in Connections, conn' = [conn EXCEPT ![c] = s], next' \in 1 .. Contexts,
         Suits(c, s), busy' \in [1 .. Contexts -> Conns \cup {None}],
         \A d \in Conns \ {c} : Serves(d, conn[d], busy'), Serves(c, s, busy')
  PROVE  GInv'
  <1>1. conn \in [Conns -> Connections] BY Zenon DEF GInv, Shapes
  <1>2. conn' \in [Conns -> Connections] /\ conn'[c] = s /\ \A d \in Conns : d # c => conn'[d] = conn[d] BY <1>1, Zenon
  <1>3. DOMAIN ready' = 1 .. Contexts /\ \A x \in 1 .. Contexts : Once(ready[x])' BY Zenon DEF Suits, Once, Completions
  <1>4. Shapes' BY <1>2, <1>3, Zenon DEF Shapes, Connections
  <1>5. \A e \in Completions : e[2] \in Conns BY Zenon DEF Completions
  <1>6. ASSUME NEW x \in 1 .. Contexts, NEW e \in Completions, In(ready'[x], e) PROVE May(conn'[e[2]], x, e)
    <2>1. CASE e[2] = c BY <1>2, <1>6, <2>1, Zenon DEF Suits
    <2>2. CASE e[2] # c BY <1>2, <1>5, <1>6, <2>2, Zenon DEF Suits, GInv, Entered
    <2> QED BY <2>1, <2>2, Zenon
  <1>7. Entered' BY <1>6, Zenon DEF Entered, In, May, Completions
  <1>8. \A d \in Conns : Serves(d, conn'[d], busy') BY <1>2, Zenon
  <1>9. Served' BY <1>8, Zenon DEF Served, Serves
  <1> QED BY <1>4, <1>7, <1>9, Zenon DEF GInv

\* The queue of the context x becomes q, in which the completions of c suit s.
LEMMA QueueSet ==
  ASSUME GInv, NEW c \in Conns, NEW s, NEW x \in 1 .. Contexts, conn[c].ctx = x, NEW q, Once(q), ready' = [ready EXCEPT ![x] = q],
         \A e \in Completions : In(q, e) => (In(ready[x], e) /\ e[2] # c) \/ (e[2] = c /\ May(s, x, e))
  PROVE  Suits(c, s)
  <1>1. DOMAIN ready = 1 .. Contexts /\ \A y \in 1 .. Contexts : Once(ready[y]) BY Zenon DEF GInv, Shapes
  <1>2. DOMAIN ready' = 1 .. Contexts /\ ready'[x] = q /\ \A y \in 1 .. Contexts : y # x => ready'[y] = ready[y]
    BY <1>1, Zenon
  <1>3. ASSUME NEW y \in 1 .. Contexts, NEW e \in Completions, In(ready'[y], e)
        PROVE  (In(ready[y], e) /\ e[2] # c) \/ (e[2] = c /\ May(s, y, e))
    <2>1. CASE y = x BY <1>2, <1>3, <2>1, Zenon
    <2>2. CASE y # x
      <3>1. In(ready[y], e) BY <1>2, <1>3, <2>2, Zenon
      <3>2. May(conn[e[2]], y, e) BY <3>1, Zenon DEF GInv, Entered
      <3> QED BY <2>2, <3>1, <3>2, Zenon DEF May
    <2> QED BY <2>1, <2>2, Zenon
  <1>4. \A y \in 1 .. Contexts : Once(ready'[y]) BY <1>1, <1>2, Zenon
  <1> QED BY <1>2, <1>3, <1>4, Zenon DEF Suits

\* A completion of c that becomes ready; it was not.
LEMMA Enqueued ==
  ASSUME GInv, NEW c \in Conns, NEW what \in {"read", "write", "timer"}, Gate!Ready(c, what), NEW s, s.ctx = conn[c].ctx,
         May(s, conn[c].ctx, <<what, c>>), ~May(conn[c], conn[c].ctx, <<what, c>>),
         \A e \in Completions : May(conn[c], conn[c].ctx, e) => May(s, conn[c].ctx, e)
  PROVE  Suits(c, s)
  <1> DEFINE x == conn[c].ctx
             n == <<what, c>>
  <1>1. n \in Completions /\ n[2] = c BY Zenon DEF Completions
  <1>2. x \in 1 .. Contexts
    <2>1. conn[c] \in Connections BY Zenon DEF GInv, Shapes
    <2> QED BY <2>1, Zenon DEF Connections
  <1>3. ready' = [ready EXCEPT ![x] = Append(ready[x], n)] BY Zenon DEF Gate!Ready
  <1>4. Once(ready[x]) BY <1>2, Zenon DEF GInv, Shapes
  <1> HIDE DEF n
  <1>5. ~In(ready[x], n) BY <1>1, <1>2, Zenon DEF GInv, Entered, n
  <1>6. Once(Append(ready[x], n)) /\ \A d : In(Append(ready[x], n), d) => In(ready[x], d) \/ d = n
    BY <1>1, <1>4, <1>5, Joined, Zenon
  <1>7. ASSUME NEW e \in Completions, In(Append(ready[x], n), e)
        PROVE  (In(ready[x], e) /\ e[2] # c) \/ (e[2] = c /\ May(s, x, e))
    <2>1. CASE e = n BY <1>1, <2>1, Zenon DEF n
    <2>2. CASE In(ready[x], e)
      <3>1. May(conn[e[2]], x, e) BY <1>2, <2>2, Zenon DEF GInv, Entered
      <3> QED BY <2>2, <3>1, Zenon
    <2> QED BY <1>6, <1>7, <2>1, <2>2, Zenon
  <1> DEFINE q == Append(ready[x], n)
  <1>8. /\ Once(q) /\ ready' = [ready EXCEPT ![x] = q]
        /\ \A e \in Completions : In(q, e) => (In(ready[x], e) /\ e[2] # c) \/ (e[2] = c /\ May(s, x, e))
    BY <1>3, <1>6, <1>7, Zenon
  <1> HIDE DEF q
  <1> QED BY <1>2, <1>8, QueueSet, Zenon

\* What a completion is.
LEMMA Completion ==
  ASSUME NEW e \in Completions
  PROVE  e = <<e[1], e[2]>> /\ e[1] \in {"read", "write", "timer"} /\ e[2] \in Conns
  BY DEF Completions

\* A step on the context x takes <<what, c>> from its queue and makes c to a
\* connection s that its other completions suit; another one may join.
Advances(x, what, c) ==
  \A s : (\A w \in {"read", "write", "timer"} \ {what} : May(conn[c], x, <<w, c>>) => May(s, x, <<w, c>>)) =>
    /\ ready' = [ready EXCEPT ![x] = Tail(ready[x])] => Suits(c, s)
    /\ \A w \in {"read", "write", "timer"} :
         /\ May(s, x, <<w, c>>) /\ (w = what \/ ~May(conn[c], x, <<w, c>>))
         /\ ready' = [ready EXCEPT ![x] = Append(Tail(ready[x]), <<w, c>>)]
         => Suits(c, s)

\* The first completion of a queue is of a connection of that context.
First(x, what, c) ==
  /\ c \in Conns /\ conn[c].ctx = x /\ what \in {"read", "write", "timer"} /\ May(conn[c], x, <<what, c>>)
  /\ Advances(x, what, c)

\* Whatever Run takes from the queue of a context is a completion of one of its
\* connections, and taking it leaves the other completions where they belong.
LEMMA Handled ==
  ASSUME GInv, NEW x \in 1 .. Contexts, ready[x] # << >>, NEW what, NEW c, what = Head(ready[x])[1], c = Head(ready[x])[2]
  PROVE  First(x, what, c)
  <1> DEFINE q == ready[x]
             r == Tail(q)
  <1>1. Once(q) BY Zenon DEF GInv, Shapes
  <1>2. /\ Head(q) \in Completions /\ In(q, Head(q)) /\ Once(r)
        /\ \A d : In(r, d) => In(q, d) /\ d # Head(q)
    BY <1>1, Left, Zenon
  <1>3. Head(q) = <<what, c>> /\ c \in Conns /\ what \in {"read", "write", "timer"} BY <1>2, Completion, Zenon
  <1>4. <<what, c>>[2] = c OBVIOUS
  <1>5. May(conn[c], x, <<what, c>>) BY <1>2, <1>3, <1>4, Zenon DEF GInv, Entered
  <1>6. conn[c].ctx = x BY <1>5, Zenon DEF May
  <1>7. ASSUME NEW s, \A w \in {"read", "write", "timer"} \ {what} : May(conn[c], x, <<w, c>>) => May(s, x, <<w, c>>)
        PROVE  /\ ready' = [ready EXCEPT ![x] = Tail(ready[x])] => Suits(c, s)
               /\ \A w \in {"read", "write", "timer"} :
                    /\ May(s, x, <<w, c>>) /\ (w = what \/ ~May(conn[c], x, <<w, c>>))
                    /\ ready' = [ready EXCEPT ![x] = Append(Tail(ready[x]), <<w, c>>)]
                    => Suits(c, s)
    <2>1. ASSUME NEW e \in Completions, In(r, e)
          PROVE  (In(q, e) /\ e[2] # c) \/ (e[2] = c /\ May(s, x, e))
      <3>1. In(q, e) /\ e # <<what, c>> BY <1>2, <1>3, <2>1, Zenon
      <3>2. CASE e[2] = c
        <4>1. e = <<e[1], c>> /\ e[1] \in {"read", "write", "timer"} \ {what} BY <3>1, <3>2, Completion, Zenon
        <4>2. May(conn[c], x, e) BY <3>1, <3>2, Zenon DEF GInv, Entered
        <4> QED BY <1>7, <3>2, <4>1, <4>2, Zenon
      <3> QED BY <3>1, <3>2, Zenon
    <2> HIDE DEF r
    <2>2. ready' = [ready EXCEPT ![x] = r] => Suits(c, s) BY <1>2, <1>3, <1>6, <2>1, QueueSet, Zenon
    <2>3. ASSUME NEW w \in {"read", "write", "timer"}, May(s, x, <<w, c>>), w = what \/ ~May(conn[c], x, <<w, c>>),
                 ready' = [ready EXCEPT ![x] = Append(r, <<w, c>>)]
          PROVE  Suits(c, s)
      <3> DEFINE n == <<w, c>>
                 a == Append(r, n)
      <3>1. n \in Completions /\ n[2] = c BY <1>3, Zenon DEF Completions
      <3>2. ~In(r, n)
        <4>1. CASE w = what BY <1>2, <1>3, <4>1, Zenon
        <4>2. CASE w # what BY <1>2, <2>3, <3>1, <4>2, Zenon DEF GInv, Entered
        <4> QED BY <4>1, <4>2, Zenon
      <3>3. ready' = [ready EXCEPT ![x] = a] /\ May(s, x, n) BY <2>3, Zenon
      <3> HIDE DEF n
      <3>4. Once(a) /\ \A d : In(a, d) => In(r, d) \/ d = n BY <1>2, <3>1, <3>2, Joined, Zenon
      <3>5. \A e \in Completions : In(a, e) => (In(q, e) /\ e[2] # c) \/ (e[2] = c /\ May(s, x, e))
        BY <2>1, <3>1, <3>3, <3>4, Zenon
      <3> HIDE DEF a
      <3> QED BY <1>3, <1>6, <3>3, <3>4, <3>5, QueueSet, Zenon
    <2> QED BY <2>2, <2>3, Zenon DEF r
  <1>8. Advances(x, what, c) BY <1>7, Zenon DEF Advances
  <1> QED BY <1>3, <1>5, <1>6, <1>8, Zenon DEF First

\* A thread is taken from nobody's call.
LEMMA StillServed ==
  ASSUME Gate!GateConstants, GInv, NEW c \in Conns, NEW x \in 1 .. Contexts, NEW b,
         busy' = busy \/ (busy' = [busy EXCEPT ![x] = b] /\ busy[x] \in {None, c})
  PROVE  \A d \in Conns \ {c} : Serves(d, conn[d], busy')
  <1>1. busy \in [1 .. Contexts -> Conns \cup {None}] /\ None \notin Conns /\ conn \in [Conns -> Connections]
    BY Zenon DEF GInv, Shapes, Gate!GateConstants
  <1> SUFFICES ASSUME NEW d \in Conns \ {c} PROVE Serves(d, conn[d], busy') OBVIOUS
  <1>2. Serves(d, conn[d], busy) BY Zenon DEF GInv, Served
  <1>3. conn[d].ctx \in 1 .. Contexts
    <2>1. conn[d] \in Connections BY <1>1, Zenon
    <2> QED BY <2>1, Zenon DEF Connections
  <1>4. conn[d].at \in {"get", "calling"} => busy'[conn[d].ctx] = busy[conn[d].ctx]
    <2>1. CASE conn[d].ctx = x BY <1>1, <1>2, <2>1, Zenon DEF Serves
    <2>2. CASE conn[d].ctx # x BY <1>1, <1>3, <2>2, Zenon
    <2> QED BY <2>1, <2>2, Zenon
  <1> QED BY <1>2, <1>4, Zenon DEF Serves

\* A connection that is not accepted yet, or is released, has the shape of one.
LEMMA NoConnection ==
  ASSUME Gate!GateConstants PROVE Gate!NoConn \in Connections /\ Gate!NoConn.at = "none" /\ Gate!NoConn.taken = FALSE
  <1>1. 1 \in 1 .. Contexts /\ 0 \in Nat BY DEF Gate!GateConstants
  <1> QED BY <1>1, Zenon DEF Gate!NoConn, Connections, Replies

\* Steps of the network, the timers and the calls.
LEMMA OutsideSteps ==
  ASSUME Gate!GateConstants, GInv, NEW c \in Conns,
         \/ Gate!Accept(c) \/ Gate!ReadFails(c) \/ Gate!Expire(c) \/ Gate!GetConnection(c)
         \/ \E q \in Requests : Gate!Arrives(c, q)
         \/ \E a \in {"ok", "RPC_ERROR"} : Gate!ReturnConnection(c, a)
  PROVE  GInv'
  <1>1. /\ conn \in [Conns -> Connections] /\ busy \in [1 .. Contexts -> Conns \cup {None}] /\ next \in 1 .. Contexts
        /\ DOMAIN ready = 1 .. Contexts /\ \A x \in 1 .. Contexts : Once(ready[x])
    BY Zenon DEF GInv, Shapes
  <1> DEFINE o == conn[c]
             x == o.ctx
  <1>2. o \in Connections /\ Serves(c, o, busy) BY <1>1, Zenon DEF GInv, Served
  <1>3. x \in 1 .. Contexts BY <1>2, Zenon DEF Connections
  <1>4. CASE Gate!Accept(c)
    <2> DEFINE s == [Gate!NoConn EXCEPT !.at = "reading", !.ctx = next, !.open = TRUE, !.timer = "armed"]
    <2>1. /\ Gate!Gone(c) /\ conn' = [conn EXCEPT ![c] = s] /\ next' = (next % Contexts) + 1
          /\ ready' = ready /\ busy' = busy
      BY <1>4, Zenon DEF Gate!Accept, Gate!GetIOContext
    <2>2. s \in Connections /\ s.at = "reading"
      <3>1. Gate!NoConn \in Connections BY NoConnection, Zenon
      <3> QED BY <1>1, <3>1, Zenon DEF Connections
    <2> HIDE DEF s
    <2>3. next' \in 1 .. Contexts BY <1>1, <2>1 DEF Gate!GateConstants
    <2>4. Serves(c, s, busy') BY <2>2, Zenon DEF Serves
    <2>5. \A d \in Conns \ {c} : Serves(d, conn[d], busy') BY <2>1, Zenon DEF GInv, Served
    <2>6. ASSUME NEW e \in Completions, e[2] = c, NEW y \in 1 .. Contexts PROVE ~In(ready[y], e)
      <3>1. ~May(o, y, e)
        <4>1. e[1] \in {"read", "write", "timer"} BY Completion, Zenon
        <4>2. o.at = "none" \/ (o.at = "over" /\ o.timer = "off") BY <2>1, Zenon DEF Gate!Gone, Gate!Is
        <4>3. o.at = "none" => o.timer = "off" BY <1>2, Zenon DEF Serves
        <4> QED BY <4>1, <4>2, <4>3, Zenon DEF May
      <3> QED BY <2>6, <3>1, Zenon DEF GInv, Entered
    <2>7. Suits(c, s) BY <1>1, <2>1, <2>6, Zenon DEF Suits
    <2>8. busy' \in [1 .. Contexts -> Conns \cup {None}] BY <1>1, <2>1, Zenon
    <2> QED BY <2>1, <2>2, <2>3, <2>4, <2>5, <2>7, <2>8, Becomes, Zenon
  <1>5. CASE Gate!ReadFails(c) \/ \E q \in Requests : Gate!Arrives(c, q)
    <2>1. PICK s \in Connections :
            /\ o.at = "reading" /\ s.at \in {"arrived", "failed"} /\ s.ctx = x /\ s.timer = o.timer
            /\ conn' = [conn EXCEPT ![c] = s]
      <3>1. CASE Gate!ReadFails(c)
        <4> DEFINE s == [o EXCEPT !.at = "failed"]
        <4>1. s \in Connections /\ s.at = "failed" /\ s.ctx = x /\ s.timer = o.timer BY <1>2, Zenon DEF Connections
        <4>2. o.at = "reading" /\ conn' = [conn EXCEPT ![c] = s] BY <3>1, Zenon DEF Gate!ReadFails, Gate!Is
        <4> HIDE DEF s
        <4> QED BY <4>1, <4>2, Zenon
      <3>2. ASSUME NEW q \in Requests, Gate!Arrives(c, q)
            PROVE  \E s \in Connections :
                     /\ o.at = "reading" /\ s.at \in {"arrived", "failed"} /\ s.ctx = x /\ s.timer = o.timer
                     /\ conn' = [conn EXCEPT ![c] = s]
        <4> DEFINE s == [o EXCEPT !.at = "arrived", !.req = q]
        <4>1. s \in Connections /\ s.at = "arrived" /\ s.ctx = x /\ s.timer = o.timer BY <1>2, Zenon DEF Connections
        <4>2. o.at = "reading" BY <3>2, Zenon DEF Gate!Arrives, Gate!Is
        <4>3. conn' = [conn EXCEPT ![c] = s] BY <1>1, <3>2, Zenon DEF Gate!Arrives
        <4> HIDE DEF s
        <4> QED BY <4>1, <4>2, <4>3, Zenon
      <3> QED BY <1>5, <3>1, <3>2, Zenon
    <2>2. Gate!Ready(c, "read") /\ busy' = busy /\ next' = next BY <1>5, Zenon DEF Gate!ReadFails, Gate!Arrives
    <2>3. May(s, x, <<"read", c>>) /\ ~May(o, x, <<"read", c>>) BY <2>1, Zenon DEF May
    <2>4. \A e \in Completions : May(o, x, e) => May(s, x, e) BY <2>1, Completion, Zenon DEF May
    <2>5. Suits(c, s) BY <2>1, <2>2, <2>3, <2>4, Enqueued, Zenon
    <2>6. Serves(c, s, busy') BY <2>1, Zenon DEF Serves
    <2>7. \A d \in Conns \ {c} : Serves(d, conn[d], busy') BY <2>2, Zenon DEF GInv, Served
    <2>8. busy' \in [1 .. Contexts -> Conns \cup {None}] /\ next' \in 1 .. Contexts BY <1>1, <2>2, Zenon
    <2> QED BY <2>1, <2>5, <2>6, <2>7, <2>8, Becomes, Zenon
  <1>6. CASE Gate!Expire(c)
    <2> DEFINE s == [o EXCEPT !.timer = "ready"]
    <2>1. o.timer = "armed" /\ conn' = [conn EXCEPT ![c] = s] /\ Gate!Ready(c, "timer") /\ busy' = busy /\ next' = next
      BY <1>6, Zenon DEF Gate!Expire
    <2>2. /\ s \in Connections /\ s.at = o.at /\ s.ctx = x /\ s.timer = "ready" /\ s.open = o.open /\ s.taken = o.taken
          /\ s.reply = o.reply
      BY <1>2, Zenon DEF Connections
    <2> HIDE DEF s
    <2>3. May(s, x, <<"timer", c>>) /\ ~May(o, x, <<"timer", c>>) BY <2>1, <2>2, Zenon DEF May
    <2>4. \A e \in Completions : May(o, x, e) => May(s, x, e) BY <2>1, <2>2, Zenon DEF May
    <2>5. Suits(c, s) BY <2>1, <2>2, <2>3, <2>4, Enqueued, Zenon
    <2>6. Serves(c, s, busy') BY <1>2, <2>1, <2>2, Zenon DEF Serves
    <2>7. \A d \in Conns \ {c} : Serves(d, conn[d], busy') BY <2>1, Zenon DEF GInv, Served
    <2>8. busy' \in [1 .. Contexts -> Conns \cup {None}] /\ next' \in 1 .. Contexts BY <1>1, <2>1, Zenon
    <2> QED BY <2>1, <2>2, <2>5, <2>6, <2>7, <2>8, Becomes, ZenonT(60)
  <1>7. CASE Gate!GetConnection(c)
    <2> DEFINE s == [o EXCEPT !.at = "calling"]
    <2>1. o.at = "get" /\ conn' = [conn EXCEPT ![c] = s] /\ ready' = ready /\ busy' = busy /\ next' = next
      BY <1>7, Zenon DEF Gate!GetConnection, Gate!Is
    <2>2. /\ s \in Connections /\ s.at = "calling" /\ s.ctx = x /\ s.timer = o.timer /\ s.open = o.open /\ s.taken = o.taken
      BY <1>2, Zenon DEF Connections
    <2> HIDE DEF s
    <2>3. \A y \in 1 .. Contexts : \A e \in Completions : May(o, y, e) => May(s, y, e) BY <2>1, <2>2, Zenon DEF May
    <2>4. ASSUME NEW y \in 1 .. Contexts, NEW e \in Completions, In(ready[y], e), e[2] = c PROVE May(s, y, e)
      BY <2>3, <2>4, Zenon DEF GInv, Entered
    <2>5. Suits(c, s) BY <1>1, <2>1, <2>4, Zenon DEF Suits
    <2>6. Serves(c, s, busy') BY <1>2, <2>1, <2>2, Zenon DEF Serves
    <2>7. \A d \in Conns \ {c} : Serves(d, conn[d], busy') BY <2>1, Zenon DEF GInv, Served
    <2>8. busy' \in [1 .. Contexts -> Conns \cup {None}] /\ next' \in 1 .. Contexts BY <1>1, <2>1, Zenon
    <2> QED BY <2>1, <2>2, <2>5, <2>6, <2>7, <2>8, Becomes, Zenon
  <1>8. ASSUME NEW a \in {"ok", "RPC_ERROR"}, Gate!ReturnConnection(c, a) PROVE GInv'
    <2> DEFINE s == [o EXCEPT !.at = "writing", !.reply = IF o.open THEN a ELSE "lost"]
    <2>1. /\ o.at = "calling" /\ conn' = [conn EXCEPT ![c] = s] /\ busy' = [busy EXCEPT ![x] = None]
          /\ Gate!Ready(c, "write") /\ next' = next
      BY <1>8, Zenon DEF Gate!ReturnConnection, Gate!Is, Gate!Written
    <2>2. /\ s \in Connections /\ s.at = "writing" /\ s.ctx = x /\ s.timer = o.timer /\ s.open = o.open /\ s.taken = o.taken
          /\ (o.open => s.reply # "lost")
      BY <1>2, ZenonT(60) DEF Connections, Replies
    <2> HIDE DEF s
    <2>3. May(s, x, <<"write", c>>) /\ ~May(o, x, <<"write", c>>) BY <2>1, <2>2, Zenon DEF May
    <2>4. \A e \in Completions : May(o, x, e) => May(s, x, e) BY <2>1, <2>2, Zenon DEF May
    <2>5. Suits(c, s) BY <2>2, <2>1, <2>3, <2>4, Enqueued, Zenon
    <2>6. busy[x] = c /\ (o.taken => o.open) BY <1>2, <2>1, Zenon DEF Serves
    <2>7. Serves(c, s, busy') BY <2>2, <2>6, Zenon DEF Serves
    <2>8. \A d \in Conns \ {c} : Serves(d, conn[d], busy') BY <1>3, <2>1, <2>6, StillServed, Zenon
    <2>9. busy' \in [1 .. Contexts -> Conns \cup {None}] /\ next' \in 1 .. Contexts BY <1>1, <2>1, Zenon
    <2> QED BY <2>1, <2>2, <2>5, <2>7, <2>8, <2>9, Becomes, Zenon
  <1> QED BY <1>4, <1>5, <1>6, <1>7, <1>8, Zenon

\* Time passes, and a connection that could not be accepted.
LEMMA TimeSteps ==
  ASSUME Gate!GateConstants, GInv, Gate!AcceptFails \/ Gate!Tick PROVE GInv'
  <1>1. /\ conn \in [Conns -> Connections] /\ busy \in [1 .. Contexts -> Conns \cup {None}] /\ next \in 1 .. Contexts
        /\ DOMAIN ready = 1 .. Contexts /\ \A x \in 1 .. Contexts : Once(ready[x])
    BY Zenon DEF GInv, Shapes
  <1>2. ready' = ready /\ busy' = busy /\ (next' = next \/ next' = (next % Contexts) + 1)
    BY Zenon DEF Gate!AcceptFails, Gate!Tick, Gate!GetIOContext
  <1>3. next' \in 1 .. Contexts BY <1>1, <1>2 DEF Gate!GateConstants
  <1>4. /\ conn' \in [Conns -> Connections]
        /\ \A c \in Conns : /\ conn'[c].at = conn[c].at /\ conn'[c].ctx = conn[c].ctx /\ conn'[c].timer = conn[c].timer
                            /\ conn'[c].open = conn[c].open /\ conn'[c].taken = conn[c].taken /\ conn'[c].reply = conn[c].reply
    <2>1. CASE Gate!AcceptFails BY <1>1, <2>1, Zenon DEF Gate!AcceptFails
    <2>2. CASE Gate!Tick
      <3> DEFINE aged(o) == [o EXCEPT !.age = IF @ = Gate!MaxAge THEN @ ELSE @ + 1, !.left = IF @ = 0 THEN 0 ELSE @ - 1]
      <3>1. conn' = [c \in Conns |-> IF Gate!Gone(c) THEN conn[c] ELSE aged(conn[c])] BY <2>2, Zenon DEF Gate!Tick
      <3>2. ASSUME NEW o \in Connections
            PROVE  /\ aged(o) \in Connections /\ aged(o).at = o.at /\ aged(o).ctx = o.ctx /\ aged(o).timer = o.timer
                   /\ aged(o).open = o.open /\ aged(o).taken = o.taken /\ aged(o).reply = o.reply
        <4> DEFINE a == IF o.age = Gate!MaxAge THEN o.age ELSE o.age + 1
                   l == IF o.left = 0 THEN 0 ELSE o.left - 1
        <4>1. o.age \in Nat /\ o.left \in Nat BY Zenon DEF Connections
        <4>2. a \in Nat /\ l \in Nat BY <4>1
        <4>3. aged(o) = [o EXCEPT !.age = a, !.left = l] BY Zenon
        <4> HIDE DEF a, l, aged
        <4> QED BY <4>2, <4>3, Zenon DEF Connections
      <3> HIDE DEF aged
      <3>3. \A c \in Conns : conn[c] \in Connections /\ (conn'[c] = conn[c] \/ conn'[c] = aged(conn[c])) BY <1>1, <3>1, Zenon
      <3>4. conn' \in [Conns -> Connections] BY <3>1, <3>2, <3>3, Zenon
      <3>5. ASSUME NEW c \in Conns
            PROVE  /\ conn'[c].at = conn[c].at /\ conn'[c].ctx = conn[c].ctx /\ conn'[c].timer = conn[c].timer
                   /\ conn'[c].open = conn[c].open /\ conn'[c].taken = conn[c].taken /\ conn'[c].reply = conn[c].reply
        <4>1. CASE conn'[c] = conn[c] BY <4>1, Zenon
        <4>2. CASE conn'[c] = aged(conn[c]) BY <3>2, <3>3, <4>2, ZenonT(60)
        <4> QED BY <3>3, <4>1, <4>2, Zenon
      <3> QED BY <3>4, <3>5, Zenon
    <2> QED BY <2>1, <2>2, Zenon
  <1>5. Shapes'
    <2>1. \A x \in 1 .. Contexts : Once(ready[x])' BY <1>1, <1>2, Zenon DEF Once, Completions
    <2> QED BY <1>1, <1>2, <1>3, <1>4, <2>1, Zenon DEF Shapes, Connections
  <1>6. ASSUME NEW x \in 1 .. Contexts, NEW e \in Completions, In(ready'[x], e) PROVE May(conn'[e[2]], x, e)
    <2>1. e[2] \in Conns BY Completion, Zenon
    <2>2. May(conn[e[2]], x, e) BY <1>2, <1>6, Zenon DEF GInv, Entered
    <2> QED BY <1>4, <2>1, <2>2, Zenon DEF May
  <1>7. Entered' BY <1>6, Zenon DEF Entered, In, May, Completions
  <1>8. ASSUME NEW c \in Conns PROVE Serves(c, conn'[c], busy')
    <2>1. Serves(c, conn[c], busy) BY Zenon DEF GInv, Served
    <2> QED BY <1>2, <1>4, <2>1, Zenon DEF Serves
  <1>9. Served' BY <1>8, Zenon DEF Served, Serves
  <1> QED BY <1>5, <1>7, <1>9, Zenon DEF GInv

\* The handler of a read: a request that is taken up on an open socket is
\* answered, put into a call, or given up together with the connection.
LEMMA Requested ==
  ASSUME NEW x, NEW c, NEW rest, Gate!HandleReq(x, c, rest)
  PROVE  LET s == [conn[c] EXCEPT !.taken = conn[c].open] IN
         \/ \E a \in Replies \ {"lost"} : Gate!Reply(x, c, s, rest, a)
         \/ Gate!Call(x, c, s, rest) \/ Gate!Raise(x, c, rest)
  <1> DEFINE s == [conn[c] EXCEPT !.taken = conn[c].open]
  <1>1. {"ok", "RPC_ERROR", "JSON_ERROR", "PasswdInvalid", "200", "400", "404", "405"} \subseteq Replies \ {"lost"} BY Zenon DEF Replies
  <1>2. Gate!HandleGet(x, c, s, rest) => \E a \in Replies \ {"lost"} : Gate!Reply(x, c, s, rest, a)
    BY <1>1, Zenon DEF Gate!HandleGet
  <1>3. Gate!HandlePost(x, c, s, rest) => \/ \E a \in Replies \ {"lost"} : Gate!Reply(x, c, s, rest, a)
                                         \/ Gate!Call(x, c, s, rest) \/ Gate!Raise(x, c, rest)
    BY <1>1, Zenon DEF Gate!HandlePost, Gate!post_email, Gate!user_login, Gate!GetVarifyCode, Gate!GetChatServer
  <1> QED BY <1>1, <1>2, <1>3, Zenon DEF Gate!HandleReq

\* What becomes of a connection that ends.
LEMMA Over ==
  ASSUME Gate!GateConstants, NEW o \in Connections
  PROVE  /\ Gate!Ended(o) \in Connections /\ Gate!Ended(o).at = "over" /\ Gate!Ended(o).ctx = o.ctx /\ Gate!Ended(o).taken = FALSE
         /\ o.timer = "ready" => Gate!Ended(o).timer = "ready"
  <1>1. Gate!NoConn \in Connections /\ Gate!NoConn.taken = FALSE BY NoConnection, Zenon
  <1>2. o.ctx \in 1 .. Contexts /\ o.timer \in {"off", "armed", "ready"} BY Zenon DEF Connections
  <1>3. Gate!Cancelled(o.timer) \in {"off", "armed", "ready"} /\ (o.timer = "ready" => Gate!Cancelled(o.timer) = "ready")
    BY <1>2, Zenon DEF Gate!Cancelled
  <1> HIDE DEF Gate!NoConn, Gate!Cancelled
  <1> QED BY <1>1, <1>2, <1>3, ZenonT(60) DEF Gate!Ended, Connections

\* The context's thread runs the handler of the first completion.
LEMMA RunStep ==
  ASSUME Gate!GateConstants, GInv, NEW x \in 1 .. Contexts, Gate!Run(x) PROVE GInv'
  <1> DEFINE what == Head(ready[x])[1]
             c == Head(ready[x])[2]
             rest == Tail(ready[x])
             o == conn[c]
  <1>1. busy[x] = None /\ ready[x] # << >> /\ next' = next BY Zenon DEF Gate!Run
  <1>2. what = Head(ready[x])[1] /\ c = Head(ready[x])[2] /\ rest = Tail(ready[x]) OBVIOUS
  <1>3. /\ what = "timer" => Gate!TimedOut(x, c, rest)
        /\ what = "read" => Gate!ReadDone(x, c, rest)
        /\ what = "write" => Gate!WriteDone(x, c, rest)
    BY Zenon DEF Gate!Run
  <1> HIDE DEF what, c, rest
  <1>4. First(x, what, c) BY <1>1, <1>2, Handled, Zenon
  <1>5. c \in Conns /\ o.ctx = x /\ what \in {"read", "write", "timer"} /\ May(o, x, <<what, c>>) BY <1>4, Zenon DEF First
  <1>6. \A s : (\A w \in {"read", "write", "timer"} \ {what} : May(o, x, <<w, c>>) => May(s, x, <<w, c>>)) =>
          /\ ready' = [ready EXCEPT ![x] = rest] => Suits(c, s)
          /\ \A w \in {"read", "write", "timer"} :
               /\ May(s, x, <<w, c>>) /\ (w = what \/ ~May(o, x, <<w, c>>))
               /\ ready' = [ready EXCEPT ![x] = Append(rest, <<w, c>>)]
               => Suits(c, s)
    BY <1>4, <1>2, Zenon DEF First, Advances
  <1>7. /\ conn \in [Conns -> Connections] /\ busy \in [1 .. Contexts -> Conns \cup {None}] /\ next' \in 1 .. Contexts
        /\ o \in Connections /\ Serves(c, o, busy) /\ None \notin Conns
    BY <1>1, <1>5, Zenon DEF GInv, Shapes, Served, Gate!GateConstants
  <1>8. o.at \notin {"get", "calling"} BY <1>1, <1>5, <1>7, Zenon DEF Serves
  <1>9. busy' = busy => /\ busy' \in [1 .. Contexts -> Conns \cup {None}] /\ \A d \in Conns \ {c} : Serves(d, conn[d], busy')
    BY <1>7, Zenon DEF GInv, Served
  <1>10. ASSUME conn' = [conn EXCEPT ![c] = Gate!Ended(o)], ready' = [ready EXCEPT ![x] = rest], busy' = busy, what \in {"read", "write"}
        PROVE  GInv'
    <2> DEFINE s == Gate!Ended(o)
    <2>1. s \in Connections /\ s.at = "over" /\ s.ctx = x /\ s.taken = FALSE /\ (o.timer = "ready" => s.timer = "ready")
      BY <1>5, <1>7, Over, Zenon
    <2> HIDE DEF s
    <2>2. \A w \in {"read", "write", "timer"} \ {what} : May(o, x, <<w, c>>) => May(s, x, <<w, c>>)
      BY <1>5, <1>10, <2>1, Zenon DEF May
    <2>3. Suits(c, s) BY <1>6, <1>10, <2>2, Zenon
    <2>4. Serves(c, s, busy') BY <2>1, Zenon DEF Serves
    <2>5. conn' = [conn EXCEPT ![c] = s] BY <1>10, Zenon DEF s
    <2> QED BY <1>5, <1>7, <1>9, <1>10, <2>1, <2>3, <2>4, <2>5, Becomes, Zenon
  <1>11. CASE what = "timer"
    <2> DEFINE s == [o EXCEPT !.timer = "off", !.open = FALSE, !.at = IF o.at = "reading" THEN "failed" ELSE o.at]
    <2>1. /\ conn' = [conn EXCEPT ![c] = s] /\ busy' = busy
          /\ ready' = [ready EXCEPT ![x] = IF o.at = "reading" THEN Append(rest, <<"read", c>>) ELSE rest]
      BY <1>3, <1>7, <1>11, ZenonT(60) DEF Gate!TimedOut, Gate!Is
    <2>2. /\ s \in Connections /\ s.ctx = o.ctx /\ s.taken = o.taken /\ s.reply = o.reply /\ s.timer = "off"
          /\ s.at = IF o.at = "reading" THEN "failed" ELSE o.at
      BY <1>7, Zenon DEF Connections
    <2> HIDE DEF s
    <2>3. \A w \in {"read", "write", "timer"} \ {what} : May(o, x, <<w, c>>) => May(s, x, <<w, c>>)
      BY <1>5, <1>11, <2>2, Zenon DEF May
    <2>4. Suits(c, s)
      <3>1. CASE o.at = "reading"
        <4>1. May(s, x, <<"read", c>>) /\ ~May(o, x, <<"read", c>>) BY <1>5, <2>2, <3>1, Zenon DEF May
        <4> QED BY <1>6, <2>1, <2>3, <3>1, <4>1, Zenon
      <3>2. CASE o.at # "reading" BY <1>6, <2>1, <2>3, <3>2, Zenon
      <3> QED BY <3>1, <3>2, Zenon
    <2>5. Serves(c, s, busy') BY <1>7, <1>8, <2>1, <2>2, Zenon DEF Serves
    <2> QED BY <1>5, <1>7, <1>9, <2>1, <2>2, <2>4, <2>5, Becomes, Zenon
  <1>12. CASE what = "write" BY <1>3, <1>10, <1>12, Zenon DEF Gate!WriteDone
  <1>13. CASE what = "read"
    <2> DEFINE t == [o EXCEPT !.taken = o.open]
    <2>1. CASE o.at = "failed" BY <1>3, <1>10, <1>13, <2>1, Zenon DEF Gate!ReadDone, Gate!Is
    <2>2. CASE o.at # "failed"
      <3>1. Gate!HandleReq(x, c, rest) BY <1>3, <1>13, <2>2, Zenon DEF Gate!ReadDone, Gate!Is
      <3>2. \/ \E a \in Replies \ {"lost"} : Gate!Reply(x, c, t, rest, a)
            \/ Gate!Call(x, c, t, rest) \/ Gate!Raise(x, c, rest)
        BY <3>1, Requested, Zenon
      <3>3. /\ t \in Connections /\ t.ctx = x /\ t.taken = o.open /\ t.open = o.open /\ t.timer = o.timer /\ t.at = o.at
        BY <1>5, <1>7, Zenon DEF Connections
      <3>4. o.at = "arrived" BY <1>5, <1>13, <2>2, Zenon DEF May
      <3> HIDE DEF t
      <3>5. CASE Gate!Raise(x, c, rest) BY <1>10, <1>13, <3>5, Zenon DEF Gate!Raise
      <3>6. ASSUME NEW a \in Replies \ {"lost"}, Gate!Reply(x, c, t, rest, a) PROVE GInv'
        <4> DEFINE s == [t EXCEPT !.at = "writing", !.reply = IF t.open THEN a ELSE "lost"]
        <4>1. /\ conn' = [conn EXCEPT ![c] = s] /\ busy' = busy /\ ready' = [ready EXCEPT ![x] = Append(rest, <<"write", c>>)]
          BY <3>6, Zenon DEF Gate!Reply, Gate!Written
        <4>2. (IF t.open THEN a ELSE "lost") \in Replies BY Zenon DEF Replies
        <4>3. /\ s \in Connections /\ s.at = "writing" /\ s.ctx = x /\ s.timer = o.timer /\ s.taken = o.open
              /\ s.reply = IF t.open THEN a ELSE "lost"
          BY <3>3, <4>2, Zenon DEF Connections
        <4> HIDE DEF s
        <4>4. \A w \in {"read", "write", "timer"} \ {what} : May(o, x, <<w, c>>) => May(s, x, <<w, c>>)
          BY <1>5, <1>13, <4>3, Zenon DEF May
        <4>5. May(s, x, <<"write", c>>) /\ ~May(o, x, <<"write", c>>) BY <3>4, <4>3, Zenon DEF May
        <4>6. Suits(c, s) BY <1>6, <4>1, <4>4, <4>5, Zenon
        <4>7. Serves(c, s, busy') BY <3>3, <4>3, Zenon DEF Serves
        <4> QED BY <1>5, <1>7, <1>9, <4>1, <4>3, <4>6, <4>7, Becomes, Zenon
      <3>7. CASE Gate!Call(x, c, t, rest)
        <4> DEFINE s == [t EXCEPT !.at = "get", !.left = RpcTime]
        <4>1. /\ conn' = [conn EXCEPT ![c] = s] /\ busy' = [busy EXCEPT ![x] = c] /\ ready' = [ready EXCEPT ![x] = rest]
          BY <3>7, Zenon DEF Gate!Call
        <4>2. RpcTime \in Nat BY Zenon DEF Gate!GateConstants
        <4>3. /\ s \in Connections /\ s.at = "get" /\ s.ctx = x /\ s.timer = o.timer /\ s.taken = o.open /\ s.open = o.open
          BY <3>3, <4>2, Zenon DEF Connections
        <4> HIDE DEF s
        <4>4. \A w \in {"read", "write", "timer"} \ {what} : May(o, x, <<w, c>>) => May(s, x, <<w, c>>)
          BY <1>13, <3>4, <4>3, Zenon DEF May
        <4>5. Suits(c, s) BY <1>6, <4>1, <4>4, Zenon
        <4>6. busy' \in [1 .. Contexts -> Conns \cup {None}] /\ busy'[x] = c BY <1>5, <1>7, <4>1, Zenon
        <4>7. Serves(c, s, busy') BY <4>3, <4>6, Zenon DEF Serves
        <4>8. \A d \in Conns \ {c} : Serves(d, conn[d], busy') BY <1>1, <1>5, <4>1, StillServed, Zenon
        <4> QED BY <1>5, <1>7, <4>1, <4>3, <4>5, <4>6, <4>7, <4>8, Becomes, Zenon
      <3> QED BY <3>2, <3>5, <3>6, <3>7, Zenon
    <2> QED BY <2>1, <2>2, Zenon
  <1> QED BY <1>5, <1>11, <1>12, <1>13, Zenon

\* HandledIsAnswered of GateHttp: the timer of a connection cannot close its
\* socket between HandleReq and WriteResponse, for any number of contexts,
\* connections and stubs.
THEOREM RequestAnswered ==
  ASSUME Gate!GateConstants PROVE Gate!Spec => []Gate!HandledIsAnswered
  <1>1. Gate!Init => GInv
    <2> SUFFICES ASSUME Gate!Init PROVE GInv OBVIOUS
    <2>1. Gate!NoConn \in Connections /\ Gate!NoConn.at = "none" /\ Gate!NoConn.taken = FALSE /\ Gate!NoConn.timer = "off"
      BY NoConnection, Zenon DEF Gate!NoConn
    <2> HIDE DEF Gate!NoConn
    <2>2. conn \in [Conns -> Connections] /\ busy \in [1 .. Contexts -> Conns \cup {None}] /\ \A c \in Conns : conn[c] = Gate!NoConn
      BY <2>1, Zenon DEF Gate!Init
    <2>3. next \in 1 .. Contexts BY DEF Gate!Init, Gate!GateConstants
    <2>4. DOMAIN ready = 1 .. Contexts /\ \A x \in 1 .. Contexts : ready[x] = << >> BY Zenon DEF Gate!Init
    <2>5. Once(<< >>) /\ \A e : ~In(<< >>, e) BY DEF Once, In
    <2>6. Shapes /\ Entered BY <2>2, <2>3, <2>4, <2>5, Zenon DEF Shapes, Entered
    <2>7. Served BY <2>1, <2>2, Zenon DEF Served, Serves
    <2> QED BY <2>6, <2>7, Zenon DEF GInv
  <1>2. GInv /\ [Gate!Next]_Gate!vars => GInv'
    <2> SUFFICES ASSUME GInv, [Gate!Next]_Gate!vars PROVE GInv' OBVIOUS
    <2>1. CASE UNCHANGED Gate!vars
      <3>1. conn' = conn /\ ready' = ready /\ busy' = busy /\ next' = next BY <2>1, Zenon DEF Gate!vars
      <3>2. Shapes' BY <3>1, Zenon DEF GInv, Shapes, Once, Completions, Connections
      <3>3. Entered' BY <3>1, ZenonT(60) DEF GInv, Entered, In, May, Completions
      <3>4. Served' BY <3>1, Zenon DEF GInv, Served, Serves
      <3> QED BY <3>2, <3>3, <3>4, Zenon DEF GInv
    <2> QED BY <2>1, OutsideSteps, TimeSteps, RunStep, Zenon DEF Gate!Next
  <1>3. GInv => Gate!HandledIsAnswered BY Zenon DEF GInv, Served, Serves, Gate!HandledIsAnswered, Gate!Is
  <1> QED BY <1>1, <1>2, <1>3, PTL DEF Gate!Spec
=============================================================================
