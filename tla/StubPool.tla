------------------------------ MODULE StubPool ------------------------------
(***************************************************************************)
(* The pools of gRPC stubs (ChatConPool, StatusConPool and RPConPool, which *)
(* have the same code) and the calls made through them.  A call fixes its  *)
(* deadline first, then waits on the pool's condition variable for a stub, *)
(* without a limit of its own; wake-ups can be spurious, and a thread that *)
(* has just arrived can take the stub a woken one was woken for.           *)
(***************************************************************************)
EXTENDS Naturals, Sequences, FiniteSets, SequencesExt

CONSTANTS
  Threads, Stubs,
  D,         \* the deadline, in ticks (kInternalRpcTimeout)
  MaxCalls,  \* bound: calls made
  None

StubPoolConstants == IsFiniteSet(Stubs) /\ Stubs # {} /\ D \in Nat /\ MaxCalls \in Nat

VARIABLES
  connections,  \* connections_
  b_stop,
  th,           \* a thread: where it is, its stub, ticks to its deadline
  known,        \* whether the peer's name has a pool (_pools.find)
  calls

vars == <<connections, b_stop, th, known, calls>>

Out == [at |-> "out", stub |-> None, left |-> 0]
Is(t, at) == th[t].at = at
Asleep == {t \in Threads : Is(t, "asleep")}

\* One pool of stubs for every peer that the configuration names.
Init ==
  /\ connections = SetToSeq(Stubs) /\ b_stop = FALSE
  /\ th = [t \in Threads |-> Out] /\ known \in BOOLEAN /\ calls = 0

\* NotifyTextChatMsg and its siblings, up to Get_connection().
Begin(t) ==
  /\ Is(t, "out") /\ calls < MaxCalls /\ calls' = calls + 1
  /\ th' = [th EXCEPT ![t] = IF known THEN [Out EXCEPT !.at = "get", !.left = D] ELSE Out]
  /\ UNCHANGED <<connections, b_stop, known>>

\* Get_connection() with the mutex held, on arrival and after each wake-up.
Get_connection(t) ==
  /\ th[t].at \in {"get", "woken"} /\ UNCHANGED <<b_stop, known, calls>>
  /\ \/ b_stop /\ th' = [th EXCEPT ![t] = Out] /\ UNCHANGED connections
     \/ /\ ~b_stop /\ connections # << >> /\ connections' = Tail(connections)
        /\ th' = [th EXCEPT ![t].at = "calling", ![t].stub = Head(connections)]
     \/ /\ ~b_stop /\ connections = << >>
        /\ th' = [th EXCEPT ![t].at = "asleep"] /\ UNCHANGED connections

Spurious(t) ==
  /\ Is(t, "asleep") /\ th' = [th EXCEPT ![t].at = "woken"]
  /\ UNCHANGED <<connections, b_stop, known, calls>>

ReturnKept(t) ==  \* only a successful call returns its stub
  /\ Is(t, "calling") /\ UNCHANGED <<b_stop, known, calls>>
  /\ \/ b_stop /\ UNCHANGED connections /\ th' = [th EXCEPT ![t] = Out]
     \/ ~b_stop /\ th[t].left = 0 /\ UNCHANGED connections /\ th' = [th EXCEPT ![t] = Out]
     \/ /\ ~b_stop /\ th[t].left > 0 /\ connections' = Append(connections, th[t].stub)
        /\ IF Asleep = {} THEN th' = [th EXCEPT ![t] = Out]
           ELSE \E w \in Asleep : th' = [th EXCEPT ![t] = Out, ![w].at = "woken"]

\* The call has returned, answered or not; the stub goes back.
Return_connection(t) ==
  /\ Is(t, "calling") /\ UNCHANGED <<b_stop, known, calls>>
  /\ \/ b_stop /\ UNCHANGED connections /\ th' = [th EXCEPT ![t] = Out]
     \/ /\ ~b_stop /\ connections' = Append(connections, th[t].stub)
        /\ IF Asleep = {} THEN th' = [th EXCEPT ![t] = Out]
           ELSE \E w \in Asleep : th' = [th EXCEPT ![t] = Out, ![w].at = "woken"]

\* The destructor: Close() and the queue emptied under the mutex.
Destroy ==
  /\ ~b_stop /\ b_stop' = TRUE /\ connections' = << >>
  /\ th' = [t \in Threads |-> IF Is(t, "asleep") THEN [th[t] EXCEPT !.at = "woken"] ELSE th[t]]
  /\ UNCHANGED <<known, calls>>

\* Time passes; a call is over at its deadline.
Tick ==
  /\ \E t \in Threads : ~Is(t, "out")
  /\ \A t \in Threads : Is(t, "calling") => th[t].left > 0
  /\ th' = [t \in Threads |-> IF Is(t, "out") THEN th[t] ELSE
       [th[t] EXCEPT !.left = IF @ = 0 THEN 0 ELSE @ - 1]]
  /\ UNCHANGED <<connections, b_stop, known, calls>>

Next == \/ \E t \in Threads : Begin(t) \/ Get_connection(t) \/ Spurious(t) \/ Return_connection(t)
        \/ Destroy \/ Tick
Spec == Init /\ [][Next]_vars

\* Threads and time go on.  Spurious wake-ups and the end of the process are
\* not relied upon.
Fairness == WF_vars(Tick) /\ \A t \in Threads : WF_vars(Get_connection(t)) /\ WF_vars(Return_connection(t))
FairSpec == Spec /\ Fairness

-----------------------------------------------------------------------------
\* Threads, stubs and times are well formed.
TypeOK ==
  /\ connections \in Seq(Stubs) /\ b_stop \in BOOLEAN /\ known \in BOOLEAN /\ calls \in 0 .. MaxCalls
  /\ th \in [Threads -> [at : {"out", "get", "asleep", "woken", "calling"}, stub : Stubs \cup {None},
                         left : 0 .. D]]

\* A call that begins ends, with an answer or an error, however many calls
\* share the stubs and although the peer may answer none of them.
CallEnds == \A t \in Threads : ~Is(t, "out") ~> Is(t, "out")
=============================================================================
