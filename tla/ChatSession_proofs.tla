------------------------- MODULE ChatSession_proofs -------------------------
(***************************************************************************)
(* Proofs about ChatSession, for every set of frames, their lengths and    *)
(* every limit.  IInv is inductive; its parts are kept apart because a     *)
(* step disturbs either the writes or the deadlines, rarely both.          *)
(*                                                                         *)
(* At the end, what requests on those sessions rely on: friendship is      *)
(* mutual (Friendship), and a profile that is found is that of the user    *)
(* searched for (ProfileCache).                                            *)
(***************************************************************************)
EXTENDS ChatSession, TLAPS

\* The write chain and the order of frames hold together, and the session is
\* under a deadline until it closes.
IInv ==
  /\ TypeOK /\ OneWriteChain /\ FramesInOrder
  /\ TornDownIsQuiet /\ DeadlinePending
  /\ ~accepted => Init
  /\ reading = "body" => reads < MaxReads
  /\ posted["Teardown"] > 0 => closed
  /\ posted["Authenticated"] > 0 => uid

-----------------------------------------------------------------------------
(* Posting and timers. *)

\* Posting adds one handler of its kind and leaves the others.
LEMMA PostFacts ==
  ASSUME NEW p \in [Handlers -> Nat], NEW h \in Handlers
  PROVE  /\ Post(p, h) \in [Handlers -> Nat]
         /\ Post(p, h)[h] = p[h] + 1
         /\ \A g \in Handlers : g # h => Post(p, h)[g] = p[g]
  BY DEF Post

\* Running a waiting handler removes it and leaves the others.
LEMMA RanFacts ==
  ASSUME posted \in [Handlers -> Nat], NEW h \in Handlers, Run(h)
  PROVE  /\ Ran(h) \in [Handlers -> Nat]
         /\ Ran(h)[h] = posted[h] - 1
         /\ \A g \in Handlers : g # h => Ran(h)[g] = posted[g]
  BY DEF Run, Ran

\* Close sets the flag and posts at most its own lambda.
LEMMA CloseFacts ==
  ASSUME NEW p \in [Handlers -> Nat], Close(p)
  PROVE  /\ closed' = TRUE
         /\ posted' \in [Handlers -> Nat]
         /\ \A h \in Handlers : h # "Teardown" => posted'[h] = p[h]
  <1>1. "Teardown" \in Handlers BY Zenon DEF Handlers
  <1>2. closed' = TRUE BY Zenon DEF Close
  <1>3. posted' = p \/ posted' = Post(p, "Teardown") BY Zenon DEF Close
  <1> QED BY <1>1, <1>2, <1>3, PostFacts

\* Arming and cancelling keep the type of a timer.
LEMMA TimerFacts ==
  ASSUME NEW t \in Timer
  PROVE  /\ Arm(t) \in Timer /\ Arm(t).armed = TRUE /\ Arm(t).due = t.due
         /\ Cancel(t) \in Timer /\ Cancel(t).armed = FALSE /\ Cancel(t).due = t.due
  BY Zenon DEF Timer, Arm, Cancel

\* The first frame of a queue moves to the end of what was written.
LEMMA MoveHead ==
  ASSUME NEW w \in Seq(Frames), NEW q \in Seq(Frames), q # <<>>
  PROVE  /\ Head(q) \in Frames /\ Tail(q) \in Seq(Frames) /\ Len(Tail(q)) = Len(q) - 1
         /\ Append(w, Head(q)) \in Seq(Frames)
         /\ Append(w, Head(q)) \o Tail(q) = w \o q
  OBVIOUS

\* A frame appended to the queue is appended to the whole.
LEMMA AppendFrame ==
  ASSUME NEW w \in Seq(Frames), NEW q \in Seq(Frames), NEW f \in Frames
  PROVE  /\ Append(q, f) \in Seq(Frames) /\ Len(Append(q, f)) = Len(q) + 1
         /\ Append(q, f) # <<>>
         /\ w \o Append(q, f) = Append(w \o q, f)
  OBVIOUS

-----------------------------------------------------------------------------
(* Types. *)

\* The session starts well typed.
LEMMA TypeInit == Init => TypeOK
  <1> SUFFICES ASSUME Init PROVE TypeOK OBVIOUS
  <1>1. /\ accepted \in BOOLEAN /\ closed \in BOOLEAN /\ listed \in BOOLEAN
        /\ uid \in BOOLEAN /\ login \in BOOLEAN
    BY Zenon DEF Init
  <1>2. posted \in [Handlers -> Nat] BY Zenon DEF Init
  <1>3. authTimer \in Timer /\ idleTimer \in Timer BY Zenon DEF Init, Timer, Off
  <1>4. /\ sendq \in Seq(Frames) /\ Len(sendq) <= MaxSendQue
        /\ queued \in Seq(Frames) /\ written \in Seq(Frames)
    BY Sizes DEF Init
  <1>5. /\ sendBytes \in Int /\ sendBytes <= SendByteLimit
        /\ writing \in Nat /\ reads \in 0 .. MaxReads
    BY Sizes DEF Init
  <1>6. socket \in {"open", "closed"} /\ reading \in {"none", "head", "body"} BY Zenon DEF Init
  <1> QED BY <1>1, <1>2, <1>3, <1>4, <1>5, <1>6, Zenon DEF TypeOK

\* Steps that close the session, through whatever they posted before.
LEMMA TypeClose ==
  ASSUME TypeOK, NEW p \in [Handlers -> Nat], Close(p)
  PROVE  closed' \in BOOLEAN /\ posted' \in [Handlers -> Nat]
  BY CloseFacts, Zenon

\* The posted lambdas (StartOnExecutor, StartWrite, Close, the timer lambdas)
\* keep the types.
LEMMA TypeStrand ==
  ASSUME TypeOK, Strand
  PROVE  TypeOK'
  <1>0. Handlers = {"Start", "StartWrite", "Teardown", "Authenticated", "Touch"} BY Zenon DEF Handlers
  <1>p. posted \in [Handlers -> Nat] BY Zenon DEF TypeOK
  <1>t. authTimer \in Timer /\ idleTimer \in Timer BY Zenon DEF TypeOK
  <1>1. CASE Teardown
    <2>1. posted' \in [Handlers -> Nat] BY <1>0, <1>1, <1>p, RanFacts, Zenon DEF Teardown
    <2>2. authTimer' \in Timer /\ idleTimer' \in Timer BY <1>1, <1>t, TimerFacts, Zenon DEF Teardown
    <2> QED BY <1>1, <2>1, <2>2, Zenon DEF Teardown, TypeOK, sends
  <1>2. CASE Authenticated
    <2>1. posted' \in [Handlers -> Nat] BY <1>0, <1>2, <1>p, RanFacts, Zenon DEF Authenticated
    <2>2. authTimer' \in Timer /\ idleTimer' \in Timer
      BY <1>2, <1>t, TimerFacts, Zenon DEF Authenticated, timers
    <2> QED BY <1>2, <2>1, <2>2, Zenon DEF Authenticated, TypeOK, sends
  <1>3. CASE Touch
    <2>1. posted' \in [Handlers -> Nat] BY <1>0, <1>3, <1>p, RanFacts, Zenon DEF Touch
    <2>2. idleTimer' \in Timer BY <1>3, <1>t, TimerFacts, Zenon DEF Touch
    <2> QED BY <1>3, <2>1, <2>2, Zenon DEF Touch, TypeOK, sends
  <1>4. CASE AuthTimeout
    <2>1. closed' \in BOOLEAN /\ posted' \in [Handlers -> Nat]
      <3>1. closed \in BOOLEAN BY Zenon DEF TypeOK
      <3>2. (closed' = closed /\ posted' = posted) \/ Close(posted) BY <1>4, Zenon DEF AuthTimeout
      <3> QED BY <1>p, <3>1, <3>2, TypeClose, Zenon
    <2>2. authTimer' \in Timer BY <1>4, <1>t, Zenon DEF AuthTimeout, Timer
    <2> QED BY <1>4, <2>1, <2>2, Zenon DEF AuthTimeout, TypeOK, sends
  <1>5. CASE IdleTimeout
    <2>1. closed' \in BOOLEAN /\ posted' \in [Handlers -> Nat]
      BY <1>5, <1>p, TypeClose, Zenon DEF IdleTimeout
    <2>2. idleTimer' \in Timer BY <1>5, <1>t, Zenon DEF IdleTimeout, Timer
    <2> QED BY <1>5, <2>1, <2>2, Zenon DEF IdleTimeout, TypeOK, sends
  <1>6. CASE StartWrite
    <2>1. posted' \in [Handlers -> Nat] BY <1>0, <1>6, <1>p, RanFacts, Zenon DEF StartWrite
    <2>2. writing' \in Nat BY <1>6 DEF StartWrite, TypeOK
    <2> QED BY <1>6, <2>1, <2>2, Zenon DEF StartWrite, TypeOK, timers
  <1>7. CASE StartOnExecutor
    <2>1. posted' \in [Handlers -> Nat] BY <1>0, <1>7, <1>p, RanFacts, Zenon DEF StartOnExecutor
    <2>2. authTimer' = Arm(authTimer) \/ authTimer' = authTimer BY <1>7, Zenon DEF StartOnExecutor
    <2>3. authTimer' \in Timer BY <1>t, <2>2, TimerFacts, Zenon
    <2>4. reading' = "head" \/ reading' = reading BY <1>7, Zenon DEF StartOnExecutor
    <2> QED BY <1>7, <2>1, <2>3, <2>4, Zenon DEF StartOnExecutor, TypeOK, sends
  <1> QED BY <1>1, <1>2, <1>3, <1>4, <1>5, <1>6, <1>7, Zenon DEF Strand

\* The read and write completions keep the types.
LEMMA TypeNetwork ==
  ASSUME IInv, Network
  PROVE  TypeOK'
  <1>0. TypeOK BY Zenon DEF IInv
  <1>p. posted \in [Handlers -> Nat] BY <1>0, Zenon DEF TypeOK
  <1>c. closed \in BOOLEAN BY <1>0, Zenon DEF TypeOK
  <1>1. CASE ReadFailed
    <2>1. closed' \in BOOLEAN /\ posted' \in [Handlers -> Nat]
      BY <1>0, <1>1, <1>p, TypeClose, Zenon DEF ReadFailed
    <2> QED BY <1>0, <1>1, <2>1, Zenon DEF ReadFailed, TypeOK, sends, timers
  <1>2. CASE HandleWrite
    <2>1. sendq # <<>> BY <1>2, <1>0 DEF HandleWrite, IInv, OneWriteChain, TypeOK, Handlers
    <2>2. /\ sendq' \in Seq(Frames) /\ Len(sendq') <= MaxSendQue
          /\ written' \in Seq(Frames) /\ Head(sendq) \in Frames
      BY <1>0, <1>2, <2>1, MoveHead, Sizes DEF HandleWrite, TypeOK
    <2>3. sendBytes' \in Int /\ sendBytes' <= SendByteLimit
      <3>1. sendBytes \in Int /\ sendBytes <= SendByteLimit BY <1>0, Zenon DEF TypeOK
      <3>2. sendBytes' = sendBytes - (Bytes[Head(sendq)] + HeadLen) BY <1>2, Zenon DEF HandleWrite
      <3>3. Bytes[Head(sendq)] \in Nat /\ HeadLen \in Nat /\ SendByteLimit \in Nat BY <2>2, Sizes, Zenon
      <3> QED BY <3>1, <3>2, <3>3
    <2>4. writing' \in Nat BY <1>0, <1>2 DEF HandleWrite, TypeOK
    <2> QED BY <1>0, <1>2, <2>2, <2>3, <2>4, Zenon DEF HandleWrite, TypeOK, timers
  <1>3. CASE WriteFailed
    <2>1. closed' \in BOOLEAN /\ posted' \in [Handlers -> Nat]
      BY <1>0, <1>3, <1>p, TypeClose, Zenon DEF WriteFailed
    <2>2. writing' \in Nat BY <1>0, <1>3 DEF WriteFailed, TypeOK
    <2> QED BY <1>0, <1>3, <2>1, <2>2, Zenon DEF WriteFailed, TypeOK, timers
  <1>4. ASSUME NEW allowed \in BOOLEAN, ReadHead(allowed) PROVE TypeOK'
    <2>1. (closed' = closed /\ posted' = posted) \/ Close(posted) BY <1>4, Zenon DEF ReadHead
    <2>2. closed' \in BOOLEAN /\ posted' \in [Handlers -> Nat]
      BY <1>0, <1>p, <1>c, <2>1, TypeClose, Zenon
    <2>3. reading' \in {"none", "head", "body"} BY <1>4, Zenon DEF ReadHead
    <2> QED BY <1>0, <1>4, <2>2, <2>3, Zenon DEF ReadHead, TypeOK, sends, timers
  <1>5. ASSUME NEW isLogin \in BOOLEAN, NEW room \in BOOLEAN, ReadBody(isLogin, room)
        PROVE  TypeOK'
    <2>0. Post(posted, "Touch") \in [Handlers -> Nat] BY <1>p, PostFacts, Zenon DEF Handlers
    <2>1. \/ closed' = closed /\ posted' = Post(posted, "Touch")
          \/ Close(posted) \/ Close(Post(posted, "Touch"))
      BY <1>5, Zenon DEF ReadBody
    <2>2. closed' \in BOOLEAN /\ posted' \in [Handlers -> Nat]
      BY <1>0, <1>p, <1>c, <2>0, <2>1, TypeClose, Zenon
    <2>3. reading' \in {"none", "head", "body"} BY <1>5, Zenon DEF ReadBody
    <2>4. login' \in BOOLEAN
      <3>1. login \in BOOLEAN BY <1>0, Zenon DEF TypeOK
      <3>2. login' = login \/ login' = (login \/ isLogin) BY <1>5, Zenon DEF ReadBody
      <3> QED BY <1>5, <3>1, <3>2, Zenon
    <2>5. reads' \in 0 .. MaxReads BY <1>0, <1>5, Sizes DEF ReadBody, IInv, TypeOK
    <2> QED BY <1>0, <1>5, <2>2, <2>3, <2>4, <2>5, Zenon DEF ReadBody, TypeOK, sends, timers
  <1> QED BY <1>1, <1>2, <1>3, <1>4, <1>5, Zenon DEF Network

\* Accepting, sending and timers that become due keep the types.
LEMMA TypeOthers ==
  ASSUME IInv,
         \/ \E room \in BOOLEAN : HandleAccept(room)
         \/ Expire \/ SetUserId \/ ClearSession \/ Stop
         \/ \E f \in Frames : Send(f) \/ SendTooLong(f)
  PROVE  TypeOK'
  <1>0. TypeOK BY Zenon DEF IInv
  <1>p. posted \in [Handlers -> Nat] BY <1>0, Zenon DEF TypeOK
  <1>c. closed \in BOOLEAN /\ listed \in BOOLEAN BY <1>0, Zenon DEF TypeOK
  <1>t. authTimer \in Timer /\ idleTimer \in Timer BY <1>0, Zenon DEF TypeOK
  <1>1. ASSUME NEW room \in BOOLEAN, HandleAccept(room) PROVE TypeOK'
    <2>0. Post(posted, "Start") \in [Handlers -> Nat] BY <1>p, PostFacts, Zenon DEF Handlers
    <2>1. (closed' = closed /\ posted' = Post(posted, "Start")) \/ Close(posted)
      BY <1>1, Zenon DEF HandleAccept
    <2>2. closed' \in BOOLEAN /\ posted' \in [Handlers -> Nat]
      BY <1>0, <1>p, <1>c, <2>0, <2>1, TypeClose, Zenon
    <2>3. listed' \in BOOLEAN /\ accepted' \in BOOLEAN BY <1>1, <1>c, Zenon DEF HandleAccept
    <2> QED BY <1>0, <1>1, <2>2, <2>3, Zenon DEF HandleAccept, TypeOK, sends, timers
  <1>2. CASE Expire
    <2>0. [armed |-> FALSE, due |-> TRUE] \in Timer BY Zenon DEF Timer
    <2>1. authTimer' \in Timer /\ idleTimer' \in Timer BY <1>2, <1>t, <2>0, Zenon DEF Expire
    <2> QED BY <1>0, <1>2, <2>1, Zenon DEF Expire, TypeOK, sends
  <1>3. CASE SetUserId
    <2>1. posted' \in [Handlers -> Nat] BY <1>3, <1>p, PostFacts, Zenon DEF SetUserId, Handlers
    <2> QED BY <1>0, <1>3, <2>1, Zenon DEF SetUserId, TypeOK, sends, timers
  <1>4. CASE ClearSession BY <1>0, <1>4, Zenon DEF ClearSession, TypeOK, sends, timers
  <1>5. CASE Stop
    <2>1. closed' \in BOOLEAN /\ posted' \in [Handlers -> Nat] BY <1>0, <1>5, <1>p, TypeClose, Zenon DEF Stop
    <2> QED BY <1>0, <1>5, <2>1, Zenon DEF Stop, TypeOK, sends, timers
  <1>6. ASSUME NEW f \in Frames, SendTooLong(f) PROVE TypeOK'
    <2>1. closed' \in BOOLEAN /\ posted' \in [Handlers -> Nat]
      BY <1>0, <1>6, <1>p, TypeClose, Zenon DEF SendTooLong
    <2> QED BY <1>0, <1>6, <2>1, Zenon DEF SendTooLong, TypeOK, sends, timers
  <1>7. ASSUME NEW f \in Frames, Send(f) PROVE TypeOK'
    <2>1. posted' \in [Handlers -> Nat]
      <3>1. posted' = posted \/ posted' = Post(posted, "StartWrite") BY <1>7, Zenon DEF Send
      <3> QED BY <1>p, <3>1, PostFacts, ZenonT(60) DEF Handlers
    <2>2. sendq \in Seq(Frames) /\ queued \in Seq(Frames) BY <1>0, Zenon DEF TypeOK
    <2>3. ~Full(f) BY <1>7, Zenon DEF Send
    <2>4. /\ sendq' \in Seq(Frames) /\ Len(sendq') <= MaxSendQue /\ queued' \in Seq(Frames)
      BY <1>7, <2>2, <2>3, AppendFrame, Sizes DEF Send, Full
    <2>5. sendBytes' \in Int /\ sendBytes' <= SendByteLimit
      <3>1. sendBytes \in Int BY <1>0, Zenon DEF TypeOK
      <3>2. sendBytes' = sendBytes + Bytes[f] + HeadLen BY <1>7, Zenon DEF Send
      <3>3. Bytes[f] \in Nat /\ HeadLen \in Nat /\ SendByteLimit \in Nat BY Sizes, Zenon
      <3>4. ~(Bytes[f] + HeadLen > SendByteLimit - sendBytes) BY <2>3, Zenon DEF Full
      <3> QED BY <3>1, <3>2, <3>3, <3>4
    <2> QED BY <1>0, <1>7, <2>1, <2>4, <2>5, Zenon DEF Send, TypeOK, timers
  <1> QED BY <1>1, <1>2, <1>3, <1>4, <1>5, <1>6, <1>7, Zenon

-----------------------------------------------------------------------------
(* The write chain. *)

Writes == OneWriteChain /\ FramesInOrder

\* A step that leaves the queue, the writes and the posted StartWrite alone
\* keeps the chain, whether or not it closes the session.
LEMMA WritesKept ==
  ASSUME Writes, UNCHANGED sends, closed' = closed \/ closed' = TRUE,
         posted'["StartWrite"] = posted["StartWrite"]
  PROVE  Writes'
  <1>1. ~closed' => ~closed OBVIOUS
  <1> QED BY <1>1, Zenon DEF Writes, OneWriteChain, FramesInOrder, sends

\* Every step keeps one write chain and the order of frames.
LEMMA WritesStep ==
  ASSUME IInv, Next
  PROVE  Writes'
  <1>0. TypeOK /\ Writes BY Zenon DEF IInv, Writes
  <1>p. posted \in [Handlers -> Nat] BY <1>0, Zenon DEF TypeOK
  <1>h. Handlers = {"Start", "StartWrite", "Teardown", "Authenticated", "Touch"} BY Zenon DEF Handlers
  <1>n. posted["StartWrite"] \in Nat BY <1>p, <1>h, Zenon
  <1>k. ASSUME NEW p \in [Handlers -> Nat], p["StartWrite"] = posted["StartWrite"],
               Close(p), UNCHANGED sends
        PROVE  Writes'
    <2>1. closed' = TRUE /\ posted'["StartWrite"] = posted["StartWrite"] BY <1>h, <1>k, CloseFacts, Zenon
    <2> QED BY <1>0, <1>k, <2>1, WritesKept, Zenon
  <1>1. ASSUME NEW room \in BOOLEAN, HandleAccept(room) PROVE Writes'
    <2>0. Post(posted, "Start")["StartWrite"] = posted["StartWrite"] BY <1>p, <1>h, PostFacts, Zenon
    <2>1. (closed' = closed /\ posted' = Post(posted, "Start")) \/ Close(posted)
      BY <1>1, Zenon DEF HandleAccept
    <2>2. UNCHANGED sends BY <1>1, Zenon DEF HandleAccept
    <2> QED BY <1>0, <1>p, <1>k, <2>0, <2>1, <2>2, WritesKept, Zenon
  <1>2. CASE StartOnExecutor \/ Teardown \/ Authenticated \/ Touch
    <2>1. PICK h \in Handlers : h # "StartWrite" /\ Run(h) /\ posted' = Ran(h)
      BY <1>2, <1>h, Zenon DEF StartOnExecutor, Teardown, Authenticated, Touch
    <2>2. posted'["StartWrite"] = posted["StartWrite"] BY <1>p, <1>h, <2>1, RanFacts, Zenon
    <2>3. UNCHANGED sends /\ closed' = closed
      BY <1>2, Zenon DEF StartOnExecutor, Teardown, Authenticated, Touch
    <2> QED BY <1>0, <2>2, <2>3, WritesKept, Zenon
  <1>3. CASE AuthTimeout \/ IdleTimeout \/ ReadFailed \/ Stop
    <2>1. (closed' = closed /\ posted' = posted) \/ Close(posted)
      BY <1>3, Zenon DEF AuthTimeout, IdleTimeout, ReadFailed, Stop
    <2>2. UNCHANGED sends BY <1>3, Zenon DEF AuthTimeout, IdleTimeout, ReadFailed, Stop
    <2> QED BY <1>0, <1>p, <1>k, <2>1, <2>2, WritesKept, Zenon
  <1>4. CASE StartWrite
    <2>1. posted' = Ran("StartWrite") /\ Run("StartWrite") BY <1>4, Zenon DEF StartWrite
    <2>2. posted'["StartWrite"] = posted["StartWrite"] - 1 BY <1>p, <1>h, <2>1, RanFacts, Zenon
    <2>3. sendq # <<>> /\ writing = 0 /\ posted["StartWrite"] = 1
      BY <1>0, <1>n, <2>1 DEF Writes, OneWriteChain, Run, TypeOK
    <2>4. writing' = (IF closed THEN 0 ELSE 1) BY <1>4, <2>3 DEF StartWrite
    <2>5. sendq' = sendq /\ queued' = queued /\ written' = written /\ closed' = closed
      BY <1>4, Zenon DEF StartWrite
    <2> QED BY <1>0, <2>2, <2>3, <2>4, <2>5 DEF Writes, OneWriteChain, FramesInOrder
  <1>5. CASE HandleWrite
    <2>1. sendq # <<>> /\ writing = 1 /\ posted["StartWrite"] = 0
      BY <1>0, <1>n, <1>5 DEF Writes, OneWriteChain, HandleWrite, TypeOK
    <2>2. sendq \in Seq(Frames) /\ written \in Seq(Frames) BY <1>0, Zenon DEF TypeOK
    <2>3. queued' = written' \o sendq'
      BY <1>0, <1>5, <2>1, <2>2, MoveHead, SMTT(60) DEF HandleWrite, Writes, FramesInOrder
    <2>4. posted' = posted /\ closed' = closed /\ sendq' = Tail(sendq) BY <1>5, Zenon DEF HandleWrite
    <2>5. writing' = (IF closed' \/ sendq' = <<>> THEN 0 ELSE 1) BY <1>5, <2>1, <2>4 DEF HandleWrite
    <2>6. OneWriteChain' BY <2>1, <2>4, <2>5 DEF OneWriteChain
    <2> QED BY <2>3, <2>6, Zenon DEF Writes, FramesInOrder
  <1>6. CASE WriteFailed
    <2>1. writing = 1 /\ posted["StartWrite"] = 0 /\ sendq # <<>>
      BY <1>0, <1>n, <1>6 DEF Writes, OneWriteChain, WriteFailed, TypeOK
    <2>2. closed' = TRUE /\ posted'["StartWrite"] = 0
      BY <1>6, <1>p, <1>h, <2>1, CloseFacts, Zenon DEF WriteFailed
    <2>3. writing' = 0 /\ sendq' = sendq /\ queued' = queued /\ written' = written
      BY <1>6, <2>1 DEF WriteFailed
    <2> QED BY <1>0, <2>1, <2>2, <2>3 DEF Writes, OneWriteChain, FramesInOrder
  <1>7. ASSUME NEW allowed \in BOOLEAN, ReadHead(allowed) PROVE Writes'
    <2>1. (closed' = closed /\ posted' = posted) \/ Close(posted) BY <1>7, Zenon DEF ReadHead
    <2>2. UNCHANGED sends BY <1>7, Zenon DEF ReadHead
    <2> QED BY <1>0, <1>p, <1>k, <2>1, <2>2, WritesKept, Zenon
  <1>8. ASSUME NEW isLogin \in BOOLEAN, NEW room \in BOOLEAN, ReadBody(isLogin, room)
        PROVE  Writes'
    <2>0. /\ Post(posted, "Touch") \in [Handlers -> Nat]
          /\ Post(posted, "Touch")["StartWrite"] = posted["StartWrite"]
      BY <1>p, <1>h, PostFacts, Zenon
    <2>1. \/ closed' = closed /\ posted' = Post(posted, "Touch")
          \/ Close(posted) \/ Close(Post(posted, "Touch"))
      BY <1>8, Zenon DEF ReadBody
    <2>2. UNCHANGED sends BY <1>8, Zenon DEF ReadBody
    <2> QED BY <1>0, <1>p, <1>k, <2>0, <2>1, <2>2, WritesKept, Zenon
  <1>9. CASE Expire \/ ClearSession
    <2>1. UNCHANGED sends /\ closed' = closed /\ posted' = posted
      BY <1>9, Zenon DEF Expire, ClearSession
    <2> QED BY <1>0, <2>1, WritesKept, Zenon
  <1>10. CASE SetUserId
    <2>1. posted'["StartWrite"] = posted["StartWrite"] BY <1>10, <1>p, <1>h, PostFacts, Zenon DEF SetUserId
    <2>2. UNCHANGED sends /\ closed' = closed BY <1>10, Zenon DEF SetUserId
    <2> QED BY <1>0, <2>1, <2>2, WritesKept, Zenon
  <1>11. ASSUME NEW f \in Frames, SendTooLong(f) PROVE Writes'
    <2>1. Close(posted) /\ UNCHANGED sends BY <1>11, Zenon DEF SendTooLong
    <2> QED BY <1>p, <1>k, <2>1, Zenon
  <1>12. ASSUME NEW f \in Frames, Send(f) PROVE Writes'
    <2>1. sendq \in Seq(Frames) /\ written \in Seq(Frames) BY <1>0, Zenon DEF TypeOK
    <2>2. sendq' = Append(sendq, f) /\ queued' = Append(queued, f) /\ written' = written
      BY <1>12, Zenon DEF Send
    <2>3. sendq' # <<>> /\ queued' = written' \o sendq'
      BY <1>0, <2>1, <2>2, AppendFrame, Zenon DEF Writes, FramesInOrder
    <2>4. ~closed /\ closed' = closed /\ writing' = writing BY <1>12, Zenon DEF Send
    <2>5. posted'["StartWrite"] + writing' = 1
      <3>1. CASE sendq = <<>>
        <4>1. posted["StartWrite"] + writing = 0 BY <1>0, <3>1, Zenon DEF Writes, OneWriteChain
        <4>2. posted' = Post(posted, "StartWrite") BY <1>12, <3>1, Zenon DEF Send
        <4>3. posted'["StartWrite"] = posted["StartWrite"] + 1 BY <1>p, <1>h, <4>2, PostFacts, Zenon
        <4>4. writing \in Nat BY <1>0, Zenon DEF TypeOK
        <4> QED BY <1>n, <2>4, <4>1, <4>3, <4>4
      <3>2. CASE sendq # <<>>
        <4>1. posted["StartWrite"] + writing = 1
          BY <1>0, <2>4, <3>2, Zenon DEF Writes, OneWriteChain
        <4>2. posted' = posted BY <1>12, <3>2, Zenon DEF Send
        <4> QED BY <2>4, <4>1, <4>2, Zenon
      <3> QED BY <3>1, <3>2, Zenon
    <2> QED BY <2>3, <2>5 DEF Writes, OneWriteChain, FramesInOrder
  <1> QED
    BY <1>1, <1>2, <1>3, <1>4, <1>5, <1>6, <1>7, <1>8, <1>9, <1>10, <1>11, <1>12, Zenon
    DEF Next, Strand, Network

-----------------------------------------------------------------------------
(* Deadlines. *)

\* Nothing happens to a session before HandleAccept.
LEMMA FirstStep ==
  ASSUME Init, Next
  PROVE  \E room \in BOOLEAN : HandleAccept(room)
  <1>1. \A h \in Handlers : ~Run(h) BY DEF Init, Run
  <1>2. ~(StartOnExecutor \/ Teardown \/ Authenticated \/ Touch \/ StartWrite)
    BY <1>1, Zenon DEF Handlers, StartOnExecutor, Teardown, Authenticated, Touch, StartWrite
  <1>3. ~(AuthTimeout \/ IdleTimeout \/ Expire)
    BY Zenon DEF Init, Off, AuthTimeout, IdleTimeout, Expire
  <1>4. ~Network BY DEF Init, Network, ReadFailed, HandleWrite, WriteFailed, ReadHead, ReadBody
  <1>5. ~(SetUserId \/ ClearSession \/ Stop) BY Zenon DEF Init, SetUserId, ClearSession, Stop
  <1>6. ~(\E f \in Frames : Send(f) \/ SendTooLong(f)) BY Zenon DEF Init, Send, SendTooLong
  <1> QED BY <1>2, <1>3, <1>4, <1>5, <1>6, Zenon DEF Next, Strand

Deadline ==
  /\ TornDownIsQuiet /\ DeadlinePending
  /\ posted["Teardown"] > 0 => closed
  /\ posted["Authenticated"] > 0 => uid

\* A step that leaves the timers, the user and the socket alone and posts no
\* lambda but that of a Close keeps the deadline.
LEMMA DeadlineKept ==
  ASSUME Deadline, UNCHANGED <<timers, uid, socket>>, listed' = listed \/ listed' = FALSE,
         \/ closed' = TRUE
         \/ closed' = closed /\ posted'["Teardown"] = posted["Teardown"],
         posted'["Authenticated"] = posted["Authenticated"],
         posted'["Start"] = posted["Start"]
  PROVE  Deadline'
  <1>1. closed => closed' BY Zenon
  <1>2. TornDownIsQuiet' BY <1>1, Zenon DEF Deadline, TornDownIsQuiet, timers
  <1>3. listed' /\ ~closed' => listed /\ ~closed BY Zenon
  <1>4. DeadlinePending' BY <1>3, Zenon DEF Deadline, DeadlinePending, timers
  <1>5. posted'["Teardown"] > 0 => closed' BY <1>1, Zenon DEF Deadline
  <1>6. posted'["Authenticated"] > 0 => uid' BY Zenon DEF Deadline
  <1> QED BY <1>2, <1>4, <1>5, <1>6, Zenon DEF Deadline

\* Every step keeps a deadline for an open session and none for a torn down one.
LEMMA DeadlineStep ==
  ASSUME IInv, Next
  PROVE  Deadline'
  <1>0. TypeOK /\ Deadline BY Zenon DEF IInv, Deadline
  <1>p. posted \in [Handlers -> Nat] BY <1>0, Zenon DEF TypeOK
  <1>t. authTimer \in Timer /\ idleTimer \in Timer BY <1>0, Zenon DEF TypeOK
  <1>h. Handlers = {"Start", "StartWrite", "Teardown", "Authenticated", "Touch"} BY Zenon DEF Handlers
  <1>k. ASSUME NEW p \in [Handlers -> Nat], p["Authenticated"] = posted["Authenticated"],
               p["Teardown"] = posted["Teardown"], p["Start"] = posted["Start"],
               Close(p) \/ (closed' = closed /\ posted' = p),
               UNCHANGED <<listed, timers, uid, socket>>
        PROVE  Deadline'
    <2>1. CASE Close(p)
      <3>1. /\ closed' = TRUE /\ posted'["Authenticated"] = posted["Authenticated"]
            /\ posted'["Start"] = posted["Start"]
        BY <1>h, <1>k, <2>1, CloseFacts, Zenon
      <3> QED BY <1>0, <1>k, <3>1, DeadlineKept, Zenon
    <2>2. CASE closed' = closed /\ posted' = p BY <1>0, <1>k, <2>2, DeadlineKept, Zenon
    <2> QED BY <1>k, <2>1, <2>2, Zenon
  <1>1. ASSUME NEW room \in BOOLEAN, HandleAccept(room) PROVE Deadline'
    <2>1. Init BY <1>1, Zenon DEF HandleAccept, IInv
    <2>2. socket' = "open" /\ uid' = FALSE BY <1>1, <2>1, Zenon DEF HandleAccept, Init
    <2>3. CASE room
      <3>1. closed' = closed /\ posted' = Post(posted, "Start")
        BY <1>1, <2>3, Zenon DEF HandleAccept
      <3>2. posted["Teardown"] = 0 /\ posted["Authenticated"] = 0 /\ posted["Start"] = 0
        BY <1>h, <2>1, Zenon DEF Init
      <3>3. posted'["Teardown"] = 0 /\ posted'["Authenticated"] = 0 /\ posted'["Start"] = 1
        BY <1>p, <1>h, <3>1, <3>2, PostFacts, SMTT(60)
      <3> QED BY <2>2, <3>3 DEF Deadline, TornDownIsQuiet, DeadlinePending
    <2>4. CASE ~room
      <3>1. Close(posted) BY <1>1, <2>4, Zenon DEF HandleAccept
      <3>2. closed' = TRUE /\ posted'["Authenticated"] = posted["Authenticated"]
        BY <1>p, <1>h, <3>1, CloseFacts, Zenon
      <3>3. posted["Authenticated"] = 0 BY <1>h, <2>1, Zenon DEF Init
      <3> QED BY <2>2, <3>2, <3>3 DEF Deadline, TornDownIsQuiet, DeadlinePending
    <2> QED BY <2>3, <2>4, Zenon
  <1>2. CASE Teardown
    <2>1. closed /\ closed' = closed BY <1>0, <1>2, Zenon DEF Teardown, Deadline, Run
    <2>2. ~authTimer'.armed /\ ~idleTimer'.armed BY <1>2, <1>t, TimerFacts, Zenon DEF Teardown
    <2>3. posted'["Authenticated"] = posted["Authenticated"] /\ uid' = uid
      BY <1>2, <1>p, <1>h, RanFacts, Zenon DEF Teardown
    <2> QED BY <1>0, <2>1, <2>2, <2>3, Zenon DEF Deadline, TornDownIsQuiet, DeadlinePending
  <1>3. CASE Authenticated
    <2>1. uid /\ uid' = uid /\ closed' = closed /\ socket' = socket
      BY <1>0, <1>3, Zenon DEF Authenticated, Deadline, Run
    <2>2. posted'["Teardown"] = posted["Teardown"] BY <1>3, <1>p, <1>h, RanFacts, Zenon DEF Authenticated
    <2>3. CASE closed
      <3>1. UNCHANGED timers BY <1>3, <2>3, Zenon DEF Authenticated
      <3> QED BY <1>0, <2>1, <2>2, <2>3, <3>1, Zenon DEF Deadline, TornDownIsQuiet, DeadlinePending, timers
    <2>4. CASE ~closed
      <3>1. idleTimer' = Arm(idleTimer) BY <1>3, <2>4, Zenon DEF Authenticated
      <3>2. idleTimer'.armed = TRUE BY <1>t, <3>1, TimerFacts, Zenon
      <3>3. socket' # "closed" BY <1>0, <2>1, <2>4, Zenon DEF Deadline, TornDownIsQuiet
      <3> QED BY <1>0, <2>1, <2>2, <2>4, <3>2, <3>3, Zenon DEF Deadline, TornDownIsQuiet, DeadlinePending
    <2> QED BY <2>3, <2>4, Zenon
  <1>4. CASE Touch
    <2>1. UNCHANGED <<closed, listed, uid, socket, authTimer>> BY <1>4, Zenon DEF Touch
    <2>2. /\ posted'["Teardown"] = posted["Teardown"]
          /\ posted'["Authenticated"] = posted["Authenticated"] /\ posted'["Start"] = posted["Start"]
      BY <1>4, <1>p, <1>h, RanFacts, Zenon DEF Touch
    <2>3. CASE closed \/ ~uid
      <3>1. idleTimer' = idleTimer BY <1>4, <2>3, Zenon DEF Touch
      <3>2. UNCHANGED <<timers, uid, socket>> /\ listed' = listed /\ closed' = closed
        BY <2>1, <3>1, Zenon DEF timers
      <3> QED BY <1>0, <2>2, <3>2, DeadlineKept, Zenon
    <2>4. CASE ~(closed \/ ~uid)
      <3>1. idleTimer' = Arm(idleTimer) BY <1>4, <2>4, Zenon DEF Touch
      <3>2. idleTimer'.armed = TRUE BY <1>t, <3>1, TimerFacts, Zenon
      <3>3. socket' # "closed" BY <1>0, <2>1, <2>4, Zenon DEF Deadline, TornDownIsQuiet
      <3> QED BY <1>0, <2>1, <2>2, <2>4, <3>2, <3>3, Zenon DEF Deadline, TornDownIsQuiet, DeadlinePending
    <2> QED BY <2>3, <2>4, Zenon
  <1>5. CASE AuthTimeout
    <2>1. UNCHANGED <<listed, uid, socket, idleTimer>> BY <1>5, Zenon DEF AuthTimeout
    <2>2. authTimer'.armed = authTimer.armed BY <1>5, <1>t, Zenon DEF AuthTimeout, Timer
    <2>3. CASE uid
      <3>1. closed' = closed /\ posted' = posted BY <1>5, <2>3, Zenon DEF AuthTimeout
      <3> QED BY <1>0, <2>1, <2>2, <2>3, <3>1, Zenon DEF Deadline, TornDownIsQuiet, DeadlinePending
    <2>4. CASE ~uid
      <3>1. Close(posted) BY <1>5, <2>4, Zenon DEF AuthTimeout
      <3>2. closed' = TRUE /\ posted'["Authenticated"] = posted["Authenticated"]
        BY <1>p, <1>h, <3>1, CloseFacts, Zenon
      <3> QED BY <1>0, <2>1, <2>2, <3>2, Zenon DEF Deadline, TornDownIsQuiet, DeadlinePending
    <2> QED BY <2>3, <2>4, Zenon
  <1>6. CASE IdleTimeout
    <2>1. UNCHANGED <<listed, uid, socket, authTimer>> /\ Close(posted) BY <1>6, Zenon DEF IdleTimeout
    <2>2. idleTimer'.armed = idleTimer.armed BY <1>6, <1>t, Zenon DEF IdleTimeout, Timer
    <2>3. closed' = TRUE /\ posted'["Authenticated"] = posted["Authenticated"]
      BY <1>p, <1>h, <2>1, CloseFacts, Zenon
    <2> QED BY <1>0, <2>1, <2>2, <2>3, Zenon DEF Deadline, TornDownIsQuiet, DeadlinePending
  <1>7. CASE Expire
    <2>1. UNCHANGED <<listed, uid, socket, closed, posted>> BY <1>7, Zenon DEF Expire
    <2>2. /\ authTimer'.armed => authTimer.armed
          /\ idleTimer'.armed => idleTimer.armed
          /\ authTimer.armed \/ authTimer.due => authTimer'.armed \/ authTimer'.due
          /\ idleTimer.armed \/ idleTimer.due => idleTimer'.armed \/ idleTimer'.due
      BY <1>7 DEF Expire
    <2> QED BY <1>0, <2>1, <2>2, Zenon DEF Deadline, TornDownIsQuiet, DeadlinePending
  <1>8. CASE SetUserId
    <2>1. UNCHANGED <<closed, listed, socket, timers>> /\ uid' = TRUE BY <1>8, Zenon DEF SetUserId
    <2>2. posted'["Teardown"] = posted["Teardown"] /\ posted'["Authenticated"] > 0
      <3>1. posted' = Post(posted, "Authenticated") BY <1>8, Zenon DEF SetUserId
      <3>2. /\ Post(posted, "Authenticated")["Authenticated"] = posted["Authenticated"] + 1
            /\ Post(posted, "Authenticated")["Teardown"] = posted["Teardown"]
        BY <1>p, <1>h, PostFacts, Zenon
      <3>3. posted["Authenticated"] \in Nat BY <1>p, <1>h, Zenon
      <3> QED BY <3>1, <3>2, <3>3
    <2> QED BY <1>0, <2>1, <2>2, Zenon DEF Deadline, TornDownIsQuiet, DeadlinePending, timers
  <1>9. CASE ClearSession
    <2>1. UNCHANGED <<timers, uid, socket>> /\ listed' = FALSE /\ closed' = closed /\ posted' = posted
      BY <1>9, Zenon DEF ClearSession
    <2> QED BY <1>0, <2>1, DeadlineKept, Zenon
  <1>10. CASE ReadFailed \/ WriteFailed \/ Stop
    <2>1. UNCHANGED <<listed, timers, uid, socket>> /\ Close(posted)
      BY <1>10, Zenon DEF ReadFailed, WriteFailed, Stop
    <2> QED BY <1>p, <1>k, <2>1, Zenon
  <1>11. CASE HandleWrite
    <2>1. UNCHANGED <<listed, timers, uid, socket>> /\ closed' = closed /\ posted' = posted
      BY <1>11, Zenon DEF HandleWrite
    <2> QED BY <1>p, <1>k, <2>1, Zenon
  <1>12. CASE StartWrite
    <2>1. UNCHANGED <<listed, timers, uid, socket>> /\ closed' = closed BY <1>12, Zenon DEF StartWrite
    <2>2. /\ posted'["Teardown"] = posted["Teardown"]
          /\ posted'["Authenticated"] = posted["Authenticated"] /\ posted'["Start"] = posted["Start"]
      BY <1>12, <1>p, <1>h, RanFacts, Zenon DEF StartWrite
    <2> QED BY <1>0, <2>1, <2>2, DeadlineKept, Zenon
  <1>13. ASSUME NEW allowed \in BOOLEAN, ReadHead(allowed) PROVE Deadline'
    <2>1. UNCHANGED <<listed, timers, uid, socket>> BY <1>13, Zenon DEF ReadHead
    <2>2. Close(posted) \/ (closed' = closed /\ posted' = posted) BY <1>13, Zenon DEF ReadHead
    <2> QED BY <1>p, <1>k, <2>1, <2>2, Zenon
  <1>14. ASSUME NEW isLogin \in BOOLEAN, NEW room \in BOOLEAN, ReadBody(isLogin, room)
         PROVE  Deadline'
    <2>1. UNCHANGED <<listed, timers, uid, socket>> BY <1>14, Zenon DEF ReadBody
    <2>2. \/ Close(posted) \/ Close(Post(posted, "Touch"))
          \/ closed' = closed /\ posted' = Post(posted, "Touch")
      BY <1>14, Zenon DEF ReadBody
    <2>3. /\ Post(posted, "Touch") \in [Handlers -> Nat]
          /\ Post(posted, "Touch")["Authenticated"] = posted["Authenticated"]
          /\ Post(posted, "Touch")["Teardown"] = posted["Teardown"]
          /\ Post(posted, "Touch")["Start"] = posted["Start"]
      BY <1>p, <1>h, PostFacts, Zenon
    <2> QED BY <1>p, <1>k, <2>1, <2>2, <2>3, Zenon
  <1>15. ASSUME NEW f \in Frames, SendTooLong(f) PROVE Deadline'
    <2>1. UNCHANGED <<listed, timers, uid, socket>> /\ Close(posted) BY <1>15, Zenon DEF SendTooLong
    <2> QED BY <1>p, <1>k, <2>1, Zenon
  <1>16. ASSUME NEW f \in Frames, Send(f) PROVE Deadline'
    <2>1. UNCHANGED <<listed, timers, uid, socket>> /\ closed' = closed BY <1>16, Zenon DEF Send
    <2>2. posted' = posted \/ posted' = Post(posted, "StartWrite") BY <1>16, Zenon DEF Send
    <2>3. /\ posted'["Teardown"] = posted["Teardown"]
          /\ posted'["Authenticated"] = posted["Authenticated"] /\ posted'["Start"] = posted["Start"]
      <3>1. /\ Post(posted, "StartWrite")["Authenticated"] = posted["Authenticated"]
            /\ Post(posted, "StartWrite")["Teardown"] = posted["Teardown"]
            /\ Post(posted, "StartWrite")["Start"] = posted["Start"]
        BY <1>p, <1>h, PostFacts, Zenon
      <3> QED BY <2>2, <3>1, Zenon
    <2> QED BY <1>0, <2>1, <2>3, DeadlineKept, Zenon
  <1>17. CASE StartOnExecutor
    <2>1. UNCHANGED <<closed, listed, uid, socket, idleTimer>> BY <1>17, Zenon DEF StartOnExecutor
    <2>2. /\ posted'["Teardown"] = posted["Teardown"]
          /\ posted'["Authenticated"] = posted["Authenticated"]
      BY <1>17, <1>p, <1>h, RanFacts, Zenon DEF StartOnExecutor
    <2>3. CASE closed
      <3>1. authTimer' = authTimer BY <1>17, <2>3, Zenon DEF StartOnExecutor
      <3> QED BY <1>0, <2>1, <2>2, <2>3, <3>1, Zenon DEF Deadline, TornDownIsQuiet, DeadlinePending
    <2>4. CASE ~closed
      <3>1. authTimer' = Arm(authTimer) BY <1>17, <2>4, Zenon DEF StartOnExecutor
      <3>2. authTimer'.armed = TRUE BY <1>t, <3>1, TimerFacts, Zenon
      <3>3. socket' # "closed" BY <1>0, <2>1, <2>4, Zenon DEF Deadline, TornDownIsQuiet
      <3> QED BY <1>0, <2>1, <2>2, <2>4, <3>2, <3>3, Zenon DEF Deadline, TornDownIsQuiet, DeadlinePending
    <2> QED BY <2>3, <2>4, Zenon
  <1> QED
    BY <1>1, <1>2, <1>3, <1>4, <1>5, <1>6, <1>7, <1>8, <1>9, <1>10, <1>11, <1>12, <1>13,
       <1>14, <1>15, <1>16, <1>17, Zenon
    DEF Next, Strand, Network

-----------------------------------------------------------------------------
(* The theorems. *)

\* The inductive invariant holds before HandleAccept.
LEMMA IInvInit == Init => IInv
  <1> SUFFICES ASSUME Init PROVE IInv OBVIOUS
  <1>1. TypeOK BY TypeInit, Zenon
  <1>2. \A h \in Handlers : posted[h] = 0 BY Zenon DEF Init
  <1>3. posted["StartWrite"] = 0 /\ posted["Teardown"] = 0 /\ posted["Authenticated"] = 0
    BY <1>2, Zenon DEF Handlers
  <1>4. OneWriteChain BY <1>3 DEF Init, OneWriteChain
  <1>5. FramesInOrder BY DEF Init, FramesInOrder
  <1>6. TornDownIsQuiet /\ DeadlinePending BY Zenon DEF Init, TornDownIsQuiet, DeadlinePending
  <1>7. reading # "body" BY Zenon DEF Init
  <1> QED BY <1>1, <1>3, <1>4, <1>5, <1>6, <1>7 DEF IInv

\* Every step keeps the inductive invariant.
LEMMA IInvNext == IInv /\ [Next]_vars => IInv'
  <1> SUFFICES ASSUME IInv, [Next]_vars PROVE IInv' OBVIOUS
  <1>1. CASE Next
    <2>1. TypeOK'
      <3>1. TypeOK BY Zenon DEF IInv
      <3> QED BY <1>1, <3>1, TypeStrand, TypeNetwork, TypeOthers, Zenon DEF Next
    <2>2. Writes' /\ Deadline' BY <1>1, WritesStep, DeadlineStep, Zenon
    <2>3. (~accepted => Init)'
      <3>1. CASE accepted
        <4>1. accepted' = accepted \/ accepted' = TRUE
          BY <1>1, Zenon DEF Next, Strand, Network, HandleAccept, StartOnExecutor, Teardown, Authenticated, Touch,
            AuthTimeout, IdleTimeout, StartWrite, ReadFailed, HandleWrite, WriteFailed, ReadHead,
            ReadBody, Expire, SetUserId, ClearSession, Stop, Send, SendTooLong
        <4> QED BY <3>1, <4>1, Zenon
      <3>2. CASE ~accepted
        <4>1. Init BY <3>2, Zenon DEF IInv
        <4>2. PICK room \in BOOLEAN : HandleAccept(room) BY <1>1, <4>1, FirstStep, Zenon
        <4> QED BY <4>2, Zenon DEF HandleAccept
      <3> QED BY <3>1, <3>2, Zenon
    <2>4. (reading = "body" => reads < MaxReads)'
      <3>1. CASE \E allowed \in BOOLEAN : ReadHead(allowed)
        <4>1. reads < MaxReads /\ reads' = reads BY <3>1, Zenon DEF ReadHead
        <4> QED BY <4>1, Zenon
      <3>2. CASE \E isLogin, room \in BOOLEAN : ReadBody(isLogin, room)
        BY <3>2, Zenon DEF ReadBody
      <3>3. CASE reading' \in {"none", "head"} BY <3>3, Zenon
      <3>4. CASE reading' = reading /\ reads' = reads BY <3>4, Zenon DEF IInv
      <3> QED
        BY <1>1, <3>1, <3>2, <3>3, <3>4, Zenon
        DEF Next, Strand, Network, HandleAccept, StartOnExecutor, Teardown, Authenticated, Touch,
          AuthTimeout, IdleTimeout, StartWrite, ReadFailed, HandleWrite, WriteFailed, Expire, SetUserId,
          ClearSession, Stop, Send, SendTooLong
    <2> QED BY <2>1, <2>2, <2>3, <2>4, Zenon DEF IInv, Writes, Deadline
  <1>2. CASE UNCHANGED vars
    BY <1>2, ZenonT(60) DEF vars, IInv, TypeOK, OneWriteChain, FramesInOrder, TornDownIsQuiet,
      DeadlinePending, Init
  <1> QED BY <1>1, <1>2, Zenon

\* The inductive invariant holds throughout the life of a session.
THEOREM SessionInvariance == Spec => []IInv
  BY IInvInit, IInvNext, PTL DEF Spec

\* For all frames and limits, writes of a session never overlap and none is
\* missing while frames are queued (Send, StartWrite, HandleWrite).
THEOREM WritesNeverOverlap == Spec => []OneWriteChain
  <1>1. IInv => OneWriteChain BY Zenon DEF IInv
  <1> QED BY <1>1, SessionInvariance, PTL

\* For all frames and limits, frames are written in the order Send took them.
THEOREM WritesKeepOrder == Spec => []FramesInOrder
  <1>1. IInv => FramesInOrder BY Zenon DEF IInv
  <1> QED BY <1>1, SessionInvariance, PTL

\* A closed socket has no timer armed, and an open session is always under a
\* deadline, however login, activity, expiry and Close interleave.
THEOREM DeadlinesCorrect == Spec => [](TornDownIsQuiet /\ DeadlinePending)
  <1>1. IInv => TornDownIsQuiet /\ DeadlinePending BY Zenon DEF IInv
  <1> QED BY <1>1, SessionInvariance, PTL

\* The queue's limits and the types of the variables.
THEOREM SessionTypes == Spec => []TypeOK
  <1>1. IInv => TypeOK BY Zenon DEF IInv
  <1> QED BY <1>1, SessionInvariance, PTL

-----------------------------------------------------------------------------
(* Friend requests, which the sessions hand to AddFriendCallback and        *)
(* AuthFriendCallback: Friendship, with its own constants and variables.    *)

CONSTANTS Users, Nodes, SignedIn, Applied, Refreshing, ApplyLimit, MaxOps, MaxSessions, MaxFaults, None

VARIABLES apply, friend, tasks, route, at, sess, conn, inq, out, op, dlg, friends, applies, ids, faults

Friends == INSTANCE Friendship

\* Rows of friend_apply, and the requests a client sends.
Applications == [from : Users, to : Users, status : 0 .. 1]
Requests ==
  [kind : {"add", "auth"}, peer : Users, id : Nat]
    \cup [kind : {"login"}, peer : {None}, id : {0}, node : Nodes]
    \cup [kind : {"sync"}, peer : {None}, id : {0}]

\* The application from x to y is in the table, in whatever state.
Applies(x, y) == \E i \in DOMAIN apply : apply[i].from = x /\ apply[i].to = y

\* A request at one of the statements on the tables names a user; one that is
\* going to commit has seen the application it accepts.
Placed(t) ==
  /\ {"user", "peer", "pc"} \subseteq DOMAIN t /\ t.user \in Users
  /\ t.pc \in {"relation", "insert", "ins1", "ins2", "accept", "commit"} => t.peer \in Users
  /\ t.pc = "commit" => Applies(t.peer, t.user)

Received == inq \in [Users -> Seq(Requests)] /\ ids \in Nat
FInv == apply \in Seq(Applications) /\ Received /\ (\A t \in tasks : Placed(t)) /\ Friends!FriendsAreMutual

\* A request that moves on keeps its user and its peer.
LEMMA Moved ==
  ASSUME NEW t, Placed(t), NEW pc,
         pc = "commit" => Applies(t.peer, t.user),
         pc \in {"relation", "insert", "ins1", "ins2", "accept", "commit"} => t.peer \in Users
  PROVE  Placed([t EXCEPT !.pc = pc])
  <1> DEFINE s == [t EXCEPT !.pc = pc]
  <1>1. {"user", "peer", "pc"} \subseteq DOMAIN t BY Zenon DEF Placed
  <1>2. DOMAIN s = DOMAIN t /\ s.user = t.user /\ s.peer = t.peer /\ s.pc = pc BY <1>1, Zenon
  <1> HIDE DEF s
  <1> QED BY <1>1, <1>2, Zenon DEF Placed

\* Steps that leave the tables alone and move or end requests.
LEMMA TablesFrame ==
  ASSUME FInv, UNCHANGED <<apply, friend>>, Received', \A t \in tasks' : t \in tasks \/ Placed(t)
  PROVE  FInv'
  <1>1. (apply \in Seq(Applications))' BY Zenon DEF FInv
  <1>2. Friends!FriendsAreMutual' BY ZenonT(60) DEF FInv, Friends!FriendsAreMutual
  <1>3. ASSUME NEW t \in tasks' PROVE Placed(t)'
    <2>1. Placed(t) BY Zenon DEF FInv
    <2> QED BY <2>1, Zenon DEF Placed, Applies
  <1> QED BY <1>1, <1>2, <1>3, Zenon DEF FInv

\* A handler that ends its request or moves it to another statement.
LEMMA RequestMoves ==
  ASSUME FInv, NEW t \in tasks, UNCHANGED <<apply, friend, inq, ids>>, NEW s, Placed(s),
         tasks' = tasks \ {t} \/ tasks' = (tasks \ {t}) \cup {s}
  PROVE  FInv'
  <1>1. Received' BY Zenon DEF FInv, Received
  <1>2. \A r \in tasks' : r \in tasks \/ Placed(r) BY Zenon
  <1> QED BY <1>1, <1>2, TablesFrame, Zenon

\* What an UNCHANGED conjunct of a handler says of the tables and the input.
LEMMA Untouched ==
  ASSUME UNCHANGED <<Friends!tables, Friends!server, Friends!client, inq>> PROVE UNCHANGED <<apply, friend, inq, ids>>
  BY Zenon DEF Friends!tables, Friends!client

\* The handlers up to the commit.
LEMMA StatementSteps ==
  ASSUME FInv, NEW t \in tasks,
         Friends!AddRelation(t) \/ Friends!AuthRelation(t) \/ Friends!InsertFriend(t) \/ Friends!RollBack(t)
           \/ Friends!AcceptPendingApplication(t)
  PROVE  FInv'
  <1>0. Placed(t) BY Zenon DEF FInv
  <1>1. UNCHANGED <<apply, friend, inq, ids>>
    BY Untouched, Zenon DEF Friends!AddRelation, Friends!AuthRelation, Friends!InsertFriend, Friends!RollBack, Friends!AcceptPendingApplication
  <1>2. CASE Friends!AddRelation(t)
    <2>1. t.peer \in Users BY <1>0, <1>2, Zenon DEF Friends!AddRelation, Placed
    <2>2. Placed([t EXCEPT !.pc = "insert"]) BY <1>0, <2>1, Moved, Zenon
    <2>3. tasks' = tasks \ {t} \/ tasks' = (tasks \ {t}) \cup {[t EXCEPT !.pc = "insert"]}
      BY <1>2, Zenon DEF Friends!AddRelation, Friends!Respond, Friends!Goto, Friends!Step
    <2> QED BY <1>1, <2>2, <2>3, RequestMoves, Zenon
  <1>3. CASE Friends!AuthRelation(t)
    <2>1. t.peer \in Users BY <1>0, <1>3, Zenon DEF Friends!AuthRelation, Placed
    <2>2. Placed([t EXCEPT !.pc = "ins1"]) /\ Placed([t EXCEPT !.pc = "route"]) BY <1>0, <2>1, Moved, Zenon
    <2>3. \/ tasks' = tasks \ {t}
          \/ tasks' = (tasks \ {t}) \cup {[t EXCEPT !.pc = "ins1"]}
          \/ tasks' = (tasks \ {t}) \cup {[t EXCEPT !.pc = "route"]}
      BY <1>3, Zenon DEF Friends!AuthRelation, Friends!Respond, Friends!Goto, Friends!Step
    <2> QED BY <1>1, <2>2, <2>3, RequestMoves, Zenon
  <1>4. CASE Friends!InsertFriend(t)
    <2> DEFINE pc == IF t.pc = "ins1" THEN "ins2" ELSE "accept"
    <2>1. t.peer \in Users BY <1>0, <1>4, Zenon DEF Friends!InsertFriend, Placed
    <2>2. Placed([t EXCEPT !.pc = pc]) BY <1>0, <2>1, Moved, Zenon
    <2>3. tasks' = (tasks \ {t}) \cup {[t EXCEPT !.pc = pc]}
      BY <1>4, Zenon DEF Friends!InsertFriend, Friends!Goto, Friends!Step
    <2> QED BY <1>1, <2>2, <2>3, RequestMoves, Zenon
  <1>5. CASE Friends!RollBack(t)
    BY <1>0, <1>1, <1>5, RequestMoves, Zenon DEF Friends!RollBack, Friends!Respond
  <1>6. CASE Friends!AcceptPendingApplication(t)
    <2>1. t.peer \in Users BY <1>0, <1>6, Zenon DEF Friends!AcceptPendingApplication, Placed
    <2>2. ASSUME Friends!HasPendingFriendApply(t.peer, t.user) PROVE Applies(t.peer, t.user)
      BY <2>2 DEF Friends!HasPendingFriendApply, Applies
    <2>3. ASSUME Friends!HasPendingFriendApply(t.peer, t.user) PROVE Placed([t EXCEPT !.pc = "commit"])
      BY <1>0, <2>1, <2>2, <2>3, Moved, Zenon
    <2>4. \/ tasks' = tasks \ {t}
          \/ Friends!HasPendingFriendApply(t.peer, t.user) /\ tasks' = (tasks \ {t}) \cup {[t EXCEPT !.pc = "commit"]}
      BY <1>6, Zenon DEF Friends!AcceptPendingApplication, Friends!Respond, Friends!Goto, Friends!Step
    <2> QED BY <1>0, <1>1, <2>3, <2>4, RequestMoves, Zenon
  <1> QED BY <1>2, <1>3, <1>4, <1>5, <1>6, Zenon

\* A row is added at the end of a table.
LEMMA RowAdded ==
  ASSUME NEW S, NEW q \in Seq(S), NEW x \in S
  PROVE  /\ Append(q, x) \in Seq(S) /\ DOMAIN q \subseteq DOMAIN Append(q, x)
         /\ \A i \in DOMAIN q : Append(q, x)[i] = q[i]
         /\ \A i \in DOMAIN Append(q, x) : i \in DOMAIN q \/ Append(q, x)[i] = x
  OBVIOUS

\* AddFriendApply: a new application is pending, an existing one stays.
LEMMA InsertStep ==
  ASSUME FInv, NEW t \in tasks, Friends!AddInsert(t) PROVE FInv'
  <1> DEFINE new == [from |-> t.user, to |-> t.peer, status |-> 0]
  <1>0. Placed(t) BY Zenon DEF FInv
  <1>1. UNCHANGED <<friend, inq, ids>> BY Zenon DEF Friends!AddInsert, Friends!client
  <1>2. t.user \in Users /\ t.peer \in Users /\ apply \in Seq(Applications)
    BY <1>0, Zenon DEF Friends!AddInsert, Placed, FInv
  <1>3. apply' = apply \/ apply' = Append(apply, new)
    BY Zenon DEF Friends!AddInsert, Friends!AddFriendApply
  <1>4. /\ apply' \in Seq(Applications) /\ DOMAIN apply \subseteq DOMAIN apply'
        /\ \A i \in DOMAIN apply : apply'[i] = apply[i]
        /\ \A i \in DOMAIN apply' : i \in DOMAIN apply \/ apply'[i].status = 0
    <2>1. new \in Applications /\ new.status = 0 BY <1>2 DEF Applications
    <2> HIDE DEF new
    <2>2. CASE apply' = apply BY <1>2, <2>2, Zenon
    <2>3. CASE apply' = Append(apply, new)
      <3>1. /\ Append(apply, new) \in Seq(Applications) /\ DOMAIN apply \subseteq DOMAIN Append(apply, new)
            /\ \A i \in DOMAIN apply : Append(apply, new)[i] = apply[i]
            /\ \A i \in DOMAIN Append(apply, new) : i \in DOMAIN apply \/ Append(apply, new)[i] = new
        BY <1>2, <2>1, RowAdded, Zenon
      <3> QED BY <2>1, <2>3, <3>1, Zenon
    <2> QED BY <1>3, <2>2, <2>3, Zenon
  <1>5. \A x, y : Applies(x, y) => Applies(x, y)' BY <1>4, Zenon DEF Applies
  <1>6. Friends!FriendsAreMutual'
    <2> SUFFICES ASSUME NEW a \in Users, NEW b \in Users
                 PROVE  <<a, b>> \in friend' <=>
                          \E i \in DOMAIN apply' : apply'[i].status = 1 /\ {apply'[i].from, apply'[i].to} = {a, b}
      BY Zenon DEF Friends!FriendsAreMutual
    <2>1. <<a, b>> \in friend' <=> \E i \in DOMAIN apply : apply[i].status = 1 /\ {apply[i].from, apply[i].to} = {a, b}
      BY <1>1, Zenon DEF FInv, Friends!FriendsAreMutual
    <2>2. ASSUME NEW i \in DOMAIN apply', apply'[i].status = 1 PROVE i \in DOMAIN apply
      <3>1. 0 # 1 OBVIOUS
      <3> QED BY <1>4, <2>2, <3>1, Zenon
    <2> QED BY <1>4, <2>1, <2>2, Zenon
  <1>7. \A r \in tasks' : r \in tasks \/ Placed(r)
    <2>1. Placed([t EXCEPT !.pc = "route"]) BY <1>0, Moved, Zenon
    <2> QED BY <2>1, Zenon DEF Friends!AddInsert, Friends!Respond, Friends!Goto, Friends!Step
  <1>8. ASSUME NEW r \in tasks' PROVE Placed(r)'
    <2>1. Placed(r) BY <1>7, Zenon DEF FInv
    <2> QED BY <1>5, <2>1, Zenon DEF Placed
  <1>9. Received' BY <1>1, Zenon DEF FInv, Received
  <1> QED BY <1>4, <1>6, <1>8, <1>9, Zenon DEF FInv

\* ExecuteFriendAcceptanceTransaction commits both rows and the acceptance,
\* also when the acknowledgement of the commit is lost.
LEMMA CommitStep ==
  ASSUME FInv, NEW t \in tasks, Friends!Commit(t) PROVE FInv'
  <1> DEFINE K == Friends!Row(t.peer, t.user)
  <1>0. Placed(t) /\ apply \in Seq(Applications) BY Zenon DEF FInv
  <1>1. UNCHANGED <<inq, ids>> BY Zenon DEF Friends!Commit, Friends!client
  <1>2. t.user \in Users /\ t.peer \in Users /\ Applies(t.peer, t.user)
    BY <1>0, Zenon DEF Friends!Commit, Placed
  <1>3. \A i \in DOMAIN apply : i \in K <=> apply[i].from = t.peer /\ apply[i].to = t.user
    BY Zenon DEF Friends!Row
  <1> HIDE DEF K
  <1>4. friend' = friend \cup {<<t.user, t.peer>>, <<t.peer, t.user>>}
    <2>1. Friends!Rows(t)[1] = <<t.user, t.peer>> /\ Friends!Rows(t)[2] = <<t.peer, t.user>>
      BY Zenon DEF Friends!Rows
    <2> QED BY <2>1, Zenon DEF Friends!Commit
  <1>5. apply' = [i \in DOMAIN apply |-> IF i \in K THEN [apply[i] EXCEPT !.status = 1] ELSE apply[i]]
    BY Zenon DEF Friends!Commit, Friends!Accepted, K
  <1>6. /\ apply' \in Seq(Applications) /\ DOMAIN apply' = DOMAIN apply
        /\ \A i \in DOMAIN apply : apply'[i].from = apply[i].from /\ apply'[i].to = apply[i].to
        /\ \A i \in DOMAIN apply : IF i \in K THEN apply'[i].status = 1 ELSE apply'[i] = apply[i]
    <2> DEFINE row(i) == IF i \in K THEN [apply[i] EXCEPT !.status = 1] ELSE apply[i]
    <2>1. DOMAIN apply = 1 .. Len(apply) /\ Len(apply) \in Nat BY <1>0
    <2>2. ASSUME NEW i \in DOMAIN apply
          PROVE  /\ row(i) \in Applications /\ row(i).from = apply[i].from /\ row(i).to = apply[i].to
                 /\ IF i \in K THEN row(i).status = 1 ELSE row(i) = apply[i]
      <3>1. apply[i] \in Applications BY <1>0
      <3> QED BY <3>1 DEF Applications
    <2> HIDE DEF row
    <2>3. apply' = [i \in DOMAIN apply |-> row(i)] BY <1>5, Zenon DEF row
    <2>4. apply' \in [1 .. Len(apply) -> Applications] BY <2>1, <2>2, <2>3, Zenon
    <2>5. apply' \in Seq(Applications) BY <2>1, <2>4
    <2> QED BY <2>2, <2>3, <2>5, Zenon
  <1>7. \A x, y : Applies(x, y) => Applies(x, y)' BY <1>6, Zenon DEF Applies
  <1>8. Friends!FriendsAreMutual'
    <2> SUFFICES ASSUME NEW a \in Users, NEW b \in Users
                 PROVE  <<a, b>> \in friend' <=>
                          \E i \in DOMAIN apply' : apply'[i].status = 1 /\ {apply'[i].from, apply'[i].to} = {a, b}
      BY Zenon DEF Friends!FriendsAreMutual
    <2>1. <<a, b>> \in friend <=> \E i \in DOMAIN apply : apply[i].status = 1 /\ {apply[i].from, apply[i].to} = {a, b}
      BY Zenon DEF FInv, Friends!FriendsAreMutual
    <2>2. <<a, b>> \in friend' <=> <<a, b>> \in friend \/ {t.peer, t.user} = {a, b}
      <3>1. {t.peer, t.user} = {a, b} <=> (a = t.user /\ b = t.peer) \/ (a = t.peer /\ b = t.user) BY Zenon
      <3> QED BY <1>4, <3>1, Zenon
    <2>3. ASSUME {t.peer, t.user} = {a, b}
          PROVE  \E i \in DOMAIN apply' : apply'[i].status = 1 /\ {apply'[i].from, apply'[i].to} = {a, b}
      <3>1. PICK i \in DOMAIN apply : apply[i].from = t.peer /\ apply[i].to = t.user BY <1>2, Zenon DEF Applies
      <3>2. i \in K BY <1>3, <3>1, Zenon
      <3>3. apply'[i].status = 1 /\ apply'[i].from = t.peer /\ apply'[i].to = t.user BY <1>6, <3>1, <3>2, Zenon
      <3> QED BY <1>6, <2>3, <3>3, Zenon
    <2>4. ASSUME NEW i \in DOMAIN apply, apply[i].status = 1, {apply[i].from, apply[i].to} = {a, b}
          PROVE  apply'[i].status = 1 /\ {apply'[i].from, apply'[i].to} = {a, b}
      BY <1>6, <2>4, Zenon
    <2>5. ASSUME NEW i \in DOMAIN apply', apply'[i].status = 1, {apply'[i].from, apply'[i].to} = {a, b}
          PROVE  <<a, b>> \in friend \/ {t.peer, t.user} = {a, b}
      <3>1. i \in DOMAIN apply /\ {apply[i].from, apply[i].to} = {a, b} BY <1>6, <2>5, Zenon
      <3>2. CASE i \in K BY <1>3, <3>1, <3>2, Zenon
      <3>3. CASE i \notin K
        <4>1. apply[i].status = 1 BY <1>6, <2>5, <3>1, <3>3, Zenon
        <4> QED BY <2>1, <3>1, <4>1, Zenon
      <3> QED BY <3>2, <3>3, Zenon
    <2> QED BY <1>6, <2>1, <2>2, <2>3, <2>4, <2>5, Zenon
  <1>9. \A r \in tasks' : r \in tasks \/ Placed(r)
    <2>1. Placed([t EXCEPT !.pc = "route"]) BY <1>0, Moved, Zenon
    <2> QED BY <2>1, Zenon DEF Friends!Commit, Friends!Respond, Friends!Goto, Friends!Step
  <1>10. ASSUME NEW r \in tasks' PROVE Placed(r)'
    <2>1. Placed(r) BY <1>9, Zenon DEF FInv
    <2> QED BY <1>7, <2>1, Zenon DEF Placed
  <1>11. Received' BY <1>1, Zenon DEF FInv, Received
  <1> QED BY <1>6, <1>8, <1>10, <1>11, Zenon DEF FInv

\* The handlers after the commit, and those of logins and heartbeats.
LEMMA ReportSteps ==
  ASSUME FInv, NEW t \in tasks,
         Friends!FindNode(t) \/ Friends!Notify(t) \/ Friends!ReadApplies(t) \/ Friends!ReadFriends(t)
           \/ Friends!Register(t) \/ Friends!SendSnapshot(t)
  PROVE  FInv'
  <1>0. Placed(t) BY Zenon DEF FInv
  <1>1. UNCHANGED <<apply, friend, inq, ids>>
    BY Zenon DEF Friends!FindNode, Friends!Notify, Friends!ReadApplies, Friends!ReadFriends, Friends!Register,
         Friends!SendSnapshot, Friends!tables, Friends!client
  <1>2. CASE Friends!Notify(t) \/ Friends!Register(t) \/ Friends!SendSnapshot(t)
    <2>1. tasks' = tasks \ {t} BY <1>2, Zenon DEF Friends!Notify, Friends!Register, Friends!SendSnapshot
    <2> QED BY <1>0, <1>1, <2>1, RequestMoves, Zenon
  <1>3. CASE Friends!FindNode(t)
    <2> DEFINE s == [t EXCEPT !.pc = "notify", !.to = route[t.peer]]
    <2>1. Placed(s) BY <1>0, Zenon DEF Placed
    <2>2. tasks' = tasks \ {t} \/ tasks' = (tasks \ {t}) \cup {s}
      BY <1>3, Zenon DEF Friends!FindNode, Friends!Respond, Friends!Step
    <2> HIDE DEF s
    <2> QED BY <1>1, <2>1, <2>2, RequestMoves, Zenon
  <1>4. CASE Friends!ReadApplies(t)
    <2> DEFINE s == [t EXCEPT !.pc = "friends", !.list = Friends!GetApplyList(t.user)]
               r == [t EXCEPT !.pc = "friends"]
    <2>1. Placed(s) BY <1>0, Zenon DEF Placed
    <2>2. Placed(r) BY <1>0, Moved, Zenon
    <2>3. tasks' = (tasks \ {t}) \cup {s} \/ tasks' = (tasks \ {t}) \cup {r}
      BY <1>4, Zenon DEF Friends!ReadApplies, Friends!Goto, Friends!Step
    <2> HIDE DEF s, r
    <2> QED BY <1>1, <2>1, <2>2, <2>3, RequestMoves, Zenon
  <1>5. CASE Friends!ReadFriends(t)
    <2> DEFINE s == [t EXCEPT !.pc = "register", !.friends = Friends!GetFriendList(t.user)]
               r == [t EXCEPT !.pc = "register"]
    <2>1. Placed(s) BY <1>0, Zenon DEF Placed
    <2>2. Placed(r) BY <1>0, Moved, Zenon
    <2>3. tasks' = (tasks \ {t}) \cup {s} \/ tasks' = (tasks \ {t}) \cup {r}
      BY <1>5, Zenon DEF Friends!ReadFriends, Friends!Goto, Friends!Step
    <2> HIDE DEF s, r
    <2> QED BY <1>1, <2>1, <2>2, <2>3, RequestMoves, Zenon
  <1> QED BY <1>2, <1>3, <1>4, <1>5, Zenon

\* Frames join the queue of a session, leave it, or are lost with it.
LEMMA QueueTypes ==
  ASSUME inq \in [Users -> Seq(Requests)], NEW u \in Users, NEW q \in Requests
  PROVE  /\ [inq EXCEPT ![u] = Append(@, q)] \in [Users -> Seq(Requests)]
         /\ [inq EXCEPT ![u] = <<q>>] \in [Users -> Seq(Requests)]
         /\ [inq EXCEPT ![u] = <<>>] \in [Users -> Seq(Requests)]
  <1>1. inq[u] \in Seq(Requests) BY Zenon
  <1>2. Append(inq[u], q) \in Seq(Requests) /\ <<q>> \in Seq(Requests) /\ <<>> \in Seq(Requests) BY <1>1
  <1> QED BY <1>2, Zenon

\* DealMsg: the request at the head of the queue is at its first statement.
LEMMA DealStep ==
  ASSUME FInv, NEW u \in Users, Friends!DealMsg(u) PROVE FInv'
  <1> DEFINE q == Head(inq[u])
             new == [user |-> u, sess |-> sess[u], kind |-> q.kind, peer |-> q.peer, id |-> q.id,
                     pc |-> IF q.kind \in {"add", "auth"} THEN "relation" ELSE "applies",
                     node |-> IF q.kind = "login" THEN q.node ELSE at[u], to |-> None, list |-> {}, friends |-> {}]
  <1>1. inq[u] \in Seq(Requests) /\ inq[u] # <<>> BY Zenon DEF FInv, Received, Friends!DealMsg
  <1>2. q \in Requests /\ Tail(inq[u]) \in Seq(Requests) BY <1>1
  <1>3. UNCHANGED <<apply, friend, ids>> /\ tasks' = tasks \cup {new} /\ inq' = [inq EXCEPT ![u] = Tail(@)]
    BY Zenon DEF Friends!DealMsg, Friends!tables, Friends!client
  <1>4. q.kind \in {"add", "auth"} => q.peer \in Users
    <2> HIDE DEF q
    <2> QED BY <1>2, Zenon DEF Requests
  <1>5. Placed(new)
    <2> HIDE DEF q
    <2>1. new.user = u /\ new.peer = q.peer /\ {"user", "peer", "pc"} \subseteq DOMAIN new OBVIOUS
    <2>2. (new.pc = "relation" /\ q.kind \in {"add", "auth"}) \/ new.pc = "applies" BY Zenon
    <2> HIDE DEF new
    <2> QED BY <1>4, <2>1, <2>2, ZenonT(60) DEF Placed
  <1>6. Received' BY <1>2, <1>3, Zenon DEF FInv, Received
  <1> HIDE DEF new
  <1>7. \A r \in tasks' : r \in tasks \/ Placed(r) BY <1>3, <1>5, Zenon
  <1> QED BY <1>3, <1>6, <1>7, TablesFrame, Zenon

\* The client sends requests, loses its connection, and reads its frames.
LEMMA ClientSteps ==
  ASSUME FInv, NEW u \in Users,
         \/ Friends!Login(u) \/ Friends!CloseDialog(u) \/ Friends!FriendTimer(u) \/ Friends!Disconnected(u)
         \/ Friends!RefreshFriends(u) \/ Friends!Arrive(u)
         \/ \E kind \in {"add", "auth"}, peer \in Users : Friends!SlotApplySure(u, kind, peer)
  PROVE  FInv'
  <1>0. inq \in [Users -> Seq(Requests)] /\ ids \in Nat BY Zenon DEF FInv, Received
  <1>1. SUFFICES UNCHANGED <<apply, friend, tasks>> /\ Received'
    BY TablesFrame, Zenon
  <1>2. CASE Friends!Login(u)
    <2>1. PICK n \in Nodes : inq' = [inq EXCEPT ![u] = <<[kind |-> "login", peer |-> None, id |-> 0, node |-> n]>>]
      BY <1>2, Zenon DEF Friends!Login
    <2>2. [kind |-> "login", peer |-> None, id |-> 0, node |-> n] \in Requests BY Zenon DEF Requests
    <2> QED BY <1>0, <1>2, <2>1, <2>2, QueueTypes, Zenon DEF Friends!Login, Friends!tables, Received
  <1>3. CASE Friends!Disconnected(u)
    <2>1. [kind |-> "sync", peer |-> None, id |-> 0] \in Requests BY Zenon DEF Requests
    <2> QED BY <1>0, <1>3, <2>1, QueueTypes, Zenon DEF Friends!Disconnected, Friends!tables, Received
  <1>4. CASE Friends!RefreshFriends(u)
    <2>1. [kind |-> "sync", peer |-> None, id |-> 0] \in Requests BY Zenon DEF Requests
    <2> QED BY <1>0, <1>4, <2>1, QueueTypes, Zenon DEF Friends!RefreshFriends, Friends!tables, Friends!client, Received
  <1>5. CASE \E kind \in {"add", "auth"}, peer \in Users : Friends!SlotApplySure(u, kind, peer)
    <2>1. PICK kind \in {"add", "auth"}, peer \in Users : Friends!SlotApplySure(u, kind, peer) BY <1>5, Zenon
    <2> DEFINE q == [kind |-> kind, peer |-> peer, id |-> ids']
    <2>2. ids' = ids + 1 /\ inq' = [inq EXCEPT ![u] = Append(@, q)] /\ UNCHANGED <<apply, friend, tasks>>
      BY <2>1, Zenon DEF Friends!SlotApplySure, Friends!tables
    <2>3. ids' \in Nat BY <1>0, <2>2
    <2>4. q \in Requests BY <2>3, Zenon DEF Requests
    <2> HIDE DEF q
    <2> QED BY <1>0, <2>2, <2>3, <2>4, QueueTypes, Zenon DEF Received
  <1>6. CASE Friends!CloseDialog(u) \/ Friends!FriendTimer(u) \/ Friends!Arrive(u)
    <2>1. UNCHANGED <<apply, friend, tasks, inq, ids>>
      BY <1>6, Zenon DEF Friends!CloseDialog, Friends!FriendTimer, Friends!Arrive, Friends!AddFriendRsp, Friends!AuthFriendRsp,
           Friends!NotifyAddFriend, Friends!NotifyAuthFriend, Friends!MergeFriendSnapshot, Friends!tables
    <2> QED BY <1>0, <2>1, Zenon DEF Received
  <1> QED BY <1>2, <1>3, <1>4, <1>5, <1>6, Zenon

\* Initially there are applications and no friends.
LEMMA FriendsStart ==
  ASSUME Friends!FriendshipConstants, Friends!Init PROVE FInv
  <1>1. Applied \in Seq(Users \X Users) BY Zenon DEF Friends!FriendshipConstants
  <1>2. apply = [i \in DOMAIN Applied |-> [from |-> Applied[i][1], to |-> Applied[i][2], status |-> 0]]
    BY Zenon DEF Friends!Init
  <1>3. apply \in Seq(Applications) /\ \A i \in DOMAIN apply : apply[i].status = 0
    <2> DEFINE row(i) == [from |-> Applied[i][1], to |-> Applied[i][2], status |-> 0]
    <2>1. DOMAIN Applied = 1 .. Len(Applied) /\ Len(Applied) \in Nat BY <1>1
    <2>2. ASSUME NEW i \in DOMAIN Applied PROVE row(i) \in Applications /\ row(i).status = 0
      <3>1. Applied[i] \in Users \X Users BY <1>1
      <3>2. Applied[i][1] \in Users /\ Applied[i][2] \in Users BY <3>1, Zenon
      <3> QED BY <3>2 DEF Applications
    <2> HIDE DEF row
    <2>3. apply = [i \in DOMAIN Applied |-> row(i)] BY <1>2, Zenon DEF row
    <2>4. apply \in [1 .. Len(Applied) -> Applications] BY <2>1, <2>2, <2>3, Zenon
    <2>5. apply \in Seq(Applications) BY <2>1, <2>4
    <2> QED BY <2>2, <2>3, <2>5, Zenon
  <1>4. Received
    <2>1. inq = [u \in Users |-> <<>>] /\ ids = 0 BY Zenon DEF Friends!Init
    <2> QED BY <2>1 DEF Received
  <1>5. Friends!FriendsAreMutual
    <2>1. friend = {} BY Zenon DEF Friends!Init
    <2>2. 0 # 1 OBVIOUS
    <2> QED BY <1>3, <2>1, <2>2, Zenon DEF Friends!FriendsAreMutual
  <1>6. tasks = {} BY Zenon DEF Friends!Init
  <1> QED BY <1>3, <1>4, <1>5, <1>6, Zenon DEF FInv

\* Every step keeps the tables in agreement.
LEMMA FriendsKept ==
  ASSUME FInv, [Friends!Next]_(Friends!vars) PROVE FInv'
  <1>1. CASE UNCHANGED Friends!vars
    <2>1. UNCHANGED <<apply, friend, tasks, inq, ids>> BY <1>1, Zenon DEF Friends!vars, Friends!tables, Friends!client
    <2>2. Received' BY <2>1, Zenon DEF FInv, Received
    <2> QED BY <2>1, <2>2, TablesFrame, Zenon
  <1>2. CASE \E t \in tasks : Friends!Handle(t) \/ Friends!RollBack(t)
    BY <1>2, StatementSteps, InsertStep, CommitStep, ReportSteps, Zenon DEF Friends!Handle
  <1>3. CASE \E u \in Users : Friends!DealMsg(u)
    BY <1>3, DealStep, Zenon
  <1>4. CASE \E u \in Users :
               \/ Friends!Login(u) \/ Friends!CloseDialog(u) \/ Friends!FriendTimer(u) \/ Friends!Disconnected(u)
               \/ Friends!RefreshFriends(u) \/ Friends!Arrive(u)
               \/ \E kind \in {"add", "auth"}, peer \in Users : Friends!SlotApplySure(u, kind, peer)
    BY <1>4, ClientSteps, Zenon
  <1> QED BY <1>1, <1>2, <1>3, <1>4, Zenon DEF Friends!Next

\* AuthFriendCallback, CheckFriendRelation: both rows of a friendship and the
\* acceptance of an application between the two appear together, for any users
\* and any number of requests, failures and rollbacks.
THEOREM FriendshipMutual ==
  ASSUME Friends!FriendshipConstants PROVE Friends!Spec => []Friends!FriendsAreMutual
  <1>1. Friends!Init => FInv BY FriendsStart, Zenon
  <1>2. FInv /\ [Friends!Next]_(Friends!vars) => FInv' BY FriendsKept, Zenon
  <1>3. FInv => Friends!FriendsAreMutual BY Zenon DEF FInv
  <1> QED BY <1>1, <1>2, <1>3, PTL DEF Friends!Spec

-----------------------------------------------------------------------------
(* The search for a user, who may become a friend: ProfileCache.            *)

CONSTANTS Uids, NameOf, Texts, Number, Decimal, MaxInt, Searches

VARIABLES users, cache, job

Profiles == INSTANCE ProfileCache WITH Handlers <- Searches

ProfileRows == [uid : Uids \cup {0}, icon : BOOLEAN]
SearchJobs ==
  [op : {"search", "uid", "name", "base"}, text : Texts \cup {""}, uid : Int,
   at : {"get", "icon", "del", "query", "set", "done"}, got : ProfileRows, ok : BOOLEAN, known : SUBSET Uids, fault : BOOLEAN]

\* A profile is whose the key says.
Fits(name, text, u) == IF name THEN u \in users /\ NameOf[u] = text ELSE u = Number[text]
EntriesFit ==
  /\ users \subseteq Uids /\ cache \in [Profiles!Keys -> ProfileRows]
  /\ \A t \in Texts :
       /\ cache[<<"ubaseinfo_", t>>] # Profiles!NoEntry => Fits(FALSE, t, cache[<<"ubaseinfo_", t>>].uid)
       /\ cache[<<"nameinfo_", t>>] # Profiles!NoEntry => Fits(TRUE, t, cache[<<"nameinfo_", t>>].uid)

\* A lookup by UID is for the UID that was typed; what it has found, or is
\* about to write to the cache, is whose it asked for.
JobFits(j) ==
  /\ j.op = "search" => j.at = "done"
  /\ j.op # "search" => j.text \in Texts
  /\ j.at # "done" /\ j.op # "name" => j.uid = Number[j.text]
  /\ j.op # "search" /\ (j.at \in {"icon", "set"} \/ (j.at = "done" /\ j.ok)) => Fits(j.op = "name", j.text, j.got.uid)
JobsFit == job \in [Searches -> SearchJobs] /\ \A h \in Searches : JobFits(job[h])

PInv == EntriesFit /\ JobsFit

\* A handler goes to the job k, or to k and a failure.
LEMMA JobMoves ==
  ASSUME JobsFit, UNCHANGED users, NEW h \in Searches, NEW k \in SearchJobs, JobFits(k), Profiles!Step(h, k) \/ Profiles!Fails(h, k)
  PROVE  JobsFit'
  <1> DEFINE f == [k EXCEPT !.fault = TRUE]
  <1>1. /\ f \in SearchJobs /\ f.op = k.op /\ f.text = k.text /\ f.uid = k.uid /\ f.at = k.at /\ f.got = k.got /\ f.ok = k.ok
    BY Zenon DEF SearchJobs
  <1>2. job' = [job EXCEPT ![h] = k] \/ job' = [job EXCEPT ![h] = f] BY Zenon DEF Profiles!Step, Profiles!Fails
  <1> HIDE DEF f
  <1>3. JobFits(f) BY <1>1, Zenon DEF JobFits
  <1>4. PICK x \in SearchJobs : JobFits(x) /\ job' = [job EXCEPT ![h] = x] BY <1>1, <1>2, <1>3, Zenon
  <1>5. job \in [Searches -> SearchJobs] /\ \A g \in Searches : JobFits(job[g]) BY Zenon DEF JobsFit
  <1>6. job' \in [Searches -> SearchJobs] BY <1>4, <1>5, Zenon
  <1>7. \A g \in Searches : JobFits(job'[g]) BY <1>4, <1>5, Zenon
  <1>8. ASSUME NEW g \in Searches PROVE JobFits(job[g])' BY <1>7, Zenon DEF JobFits, Fits
  <1> QED BY <1>6, <1>8, Zenon DEF JobsFit

\* A job that goes on from one that was not done asks for the same.
LEMMA GoesOn ==
  ASSUME NEW j, NEW k, JobFits(j), j.at # "done", k.op = j.op, k.text = j.text, k.uid = j.uid,
         (k.at \in {"icon", "set"} \/ (k.at = "done" /\ k.ok)) => Fits(k.op = "name", k.text, k.got.uid)
  PROVE  JobFits(k)
  BY Zenon DEF JobFits

\* What a handler finds in the cache is whose it asked for.
LEMMA EntryFits ==
  ASSUME PInv, NEW h \in Searches, job[h].at # "done"
  PROVE  /\ Profiles!Entry(h) \in ProfileRows /\ Profiles!KeyOf(job[h]) \in Profiles!Keys
         /\ Profiles!Entry(h) # Profiles!NoEntry => Fits(job[h].op = "name", job[h].text, Profiles!Entry(h).uid)
  <1>1. JobFits(job[h]) /\ EntriesFit BY Zenon DEF PInv, JobsFit
  <1>2. job[h].text \in Texts BY <1>1, Zenon DEF JobFits
  <1>3. CASE job[h].op = "name"
    <2>1. Profiles!KeyOf(job[h]) = <<"nameinfo_", job[h].text>> BY <1>3, Zenon DEF Profiles!KeyOf
    <2>2. <<"nameinfo_", job[h].text>> \in Profiles!Keys BY <1>2, Zenon DEF Profiles!Keys
    <2>3. Profiles!Entry(h) = cache[<<"nameinfo_", job[h].text>>] BY <2>1, Zenon DEF Profiles!Entry
    <2>4. Profiles!Entry(h) \in ProfileRows BY <1>1, <2>2, <2>3, Zenon DEF EntriesFit
    <2>5. Profiles!Entry(h) # Profiles!NoEntry => Fits(TRUE, job[h].text, Profiles!Entry(h).uid)
      BY <1>1, <1>2, <2>3, Zenon DEF EntriesFit
    <2> QED BY <1>3, <2>1, <2>2, <2>4, <2>5, ZenonT(60) DEF Fits
  <1>4. CASE job[h].op # "name"
    <2>1. Profiles!KeyOf(job[h]) = <<"ubaseinfo_", job[h].text>> BY <1>4, Zenon DEF Profiles!KeyOf
    <2>2. <<"ubaseinfo_", job[h].text>> \in Profiles!Keys BY <1>2, Zenon DEF Profiles!Keys
    <2>3. Profiles!Entry(h) = cache[<<"ubaseinfo_", job[h].text>>] BY <2>1, Zenon DEF Profiles!Entry
    <2>4. Profiles!Entry(h) \in ProfileRows BY <1>1, <2>2, <2>3, Zenon DEF EntriesFit
    <2>5. Profiles!Entry(h) # Profiles!NoEntry => Fits(FALSE, job[h].text, Profiles!Entry(h).uid)
      BY <1>1, <1>2, <2>3, Zenon DEF EntriesFit
    <2> QED BY <1>4, <2>1, <2>2, <2>4, <2>5, ZenonT(60) DEF Fits
  <1> QED BY <1>3, <1>4, Zenon

\* An entry is removed, or written as its key says.
LEMMA CacheWrite ==
  ASSUME EntriesFit, UNCHANGED users, NEW j, j.text \in Texts, NEW e \in ProfileRows,
         e = Profiles!NoEntry \/ Fits(j.op = "name", j.text, e.uid),
         cache' = [cache EXCEPT ![Profiles!KeyOf(j)] = e]
  PROVE  EntriesFit'
  <1>1. users \subseteq Uids /\ cache \in [Profiles!Keys -> ProfileRows] BY Zenon DEF EntriesFit
  <1>2. cache' \in [Profiles!Keys -> ProfileRows] BY <1>1, Zenon
  <1>3. ASSUME NEW t \in Texts
        PROVE  /\ cache'[<<"ubaseinfo_", t>>] # Profiles!NoEntry => Fits(FALSE, t, cache'[<<"ubaseinfo_", t>>].uid)
               /\ cache'[<<"nameinfo_", t>>] # Profiles!NoEntry => Fits(TRUE, t, cache'[<<"nameinfo_", t>>].uid)
    <2> DEFINE b == <<"ubaseinfo_", t>>
               n == <<"nameinfo_", t>>
    <2>1. b \in Profiles!Keys /\ n \in Profiles!Keys /\ b # n BY Zenon DEF Profiles!Keys
    <2>2. (Profiles!KeyOf(j) = b => j.op # "name" /\ j.text = t) /\ (Profiles!KeyOf(j) = n => j.op = "name" /\ j.text = t)
      BY Zenon DEF Profiles!KeyOf
    <2>3. (cache[b] # Profiles!NoEntry => Fits(FALSE, t, cache[b].uid)) /\ (cache[n] # Profiles!NoEntry => Fits(TRUE, t, cache[n].uid))
      BY Zenon DEF EntriesFit
    <2> HIDE DEF b, n
    <2>4. cache'[b] # Profiles!NoEntry => Fits(FALSE, t, cache'[b].uid)
      <3>1. CASE Profiles!KeyOf(j) = b
        <4>1. cache'[b] = e BY <1>1, <2>1, <3>1, Zenon
        <4> QED BY <2>2, <3>1, <4>1, Zenon DEF Fits
      <3>2. CASE Profiles!KeyOf(j) # b BY <1>1, <2>1, <2>3, <3>2, ZenonT(60)
      <3> QED BY <3>1, <3>2, Zenon
    <2>5. cache'[n] # Profiles!NoEntry => Fits(TRUE, t, cache'[n].uid)
      <3>1. CASE Profiles!KeyOf(j) = n
        <4>1. cache'[n] = e BY <1>1, <2>1, <3>1, Zenon
        <4> QED BY <2>2, <3>1, <4>1, Zenon DEF Fits
      <3>2. CASE Profiles!KeyOf(j) # n BY <1>1, <2>1, <2>3, <3>2, ZenonT(60)
      <3> QED BY <3>1, <3>2, Zenon
    <2> QED BY <2>4, <2>5, Zenon DEF b, n
  <1>4. ASSUME NEW t \in Texts
        PROVE  /\ (cache[<<"ubaseinfo_", t>>] # Profiles!NoEntry => Fits(FALSE, t, cache[<<"ubaseinfo_", t>>].uid))'
               /\ (cache[<<"nameinfo_", t>>] # Profiles!NoEntry => Fits(TRUE, t, cache[<<"nameinfo_", t>>].uid))'
    BY <1>3, Zenon DEF Fits, Profiles!NoEntry
  <1> QED BY <1>1, <1>2, <1>4, Zenon DEF EntriesFit, Profiles!Keys, ProfileRows

\* A search and a lookup begin.
LEMMA SearchSteps ==
  ASSUME Profiles!CacheConstants, PInv, NEW h \in Searches,
         (\E t \in Texts : Profiles!SearchUserCallback(h, t)) \/ (\E u \in Uids : Profiles!NeedsProfile(h, u))
  PROVE  PInv'
  <1>0. EntriesFit /\ JobsFit /\ users \subseteq Uids BY Zenon DEF PInv, EntriesFit
  <1>start. /\ Profiles!NoJob \in SearchJobs /\ Profiles!NoJob.at = "done"
        /\ {"op", "text", "uid", "at", "got", "ok", "known", "fault"} = DOMAIN Profiles!NoJob
    BY DEF Profiles!NoJob, Profiles!NoEntry, SearchJobs, ProfileRows
  <1>1. PICK j \in SearchJobs : Profiles!Start(h, j) /\ JobFits(j)
    <2>1. CASE \E t \in Texts : Profiles!SearchUserCallback(h, t)
      <3>1. PICK t \in Texts : Profiles!SearchUserCallback(h, t) BY <2>1, Zenon
      <3>2. Number[t] \in Int BY Zenon DEF Profiles!CacheConstants
      <3>3. Profiles!from_chars(t) \in Int /\ (Profiles!from_chars(t) # 0 => Profiles!from_chars(t) = Number[t])
        BY <3>2 DEF Profiles!from_chars
      <3> DEFINE asked == [Profiles!NoJob EXCEPT !.text = t]
                 a == [asked EXCEPT !.op = "name", !.at = "get"]
                 b == [asked EXCEPT !.op = "uid", !.ok = FALSE]
                 c == [asked EXCEPT !.op = "uid", !.uid = Profiles!from_chars(t), !.at = "get"]
      <3>4. Profiles!Start(h, a) \/ Profiles!Start(h, b)
            \/ (Profiles!from_chars(t) # 0 /\ Profiles!Start(h, c))
        BY <3>1, Zenon DEF Profiles!SearchUserCallback
      <3>5. a \in SearchJobs /\ a.op = "name" /\ a.text = t /\ a.at = "get"
        BY <1>start, Zenon DEF SearchJobs
      <3>6. b \in SearchJobs /\ b.op = "uid" /\ b.text = t /\ b.at = "done" /\ b.ok = FALSE
        BY <1>start, Zenon DEF SearchJobs
      <3>7. c \in SearchJobs /\ c.op = "uid" /\ c.text = t /\ c.at = "get" /\ c.uid = Profiles!from_chars(t)
        BY <1>start, <3>3, Zenon DEF SearchJobs
      <3> HIDE DEF a, b, c
      <3>8. JobFits(a) /\ JobFits(b) BY <3>5, <3>6, Zenon DEF JobFits
      <3>9. Profiles!from_chars(t) # 0 => JobFits(c) BY <3>3, <3>7, Zenon DEF JobFits
      <3> QED BY <3>4, <3>5, <3>6, <3>7, <3>8, <3>9, ZenonT(60)
    <2>2. CASE \E u \in Uids : Profiles!NeedsProfile(h, u)
      <3>1. PICK u \in Uids : Profiles!NeedsProfile(h, u) BY <2>2, Zenon
      <3>2. Decimal[u] \in Texts /\ u \in Int /\ u = Number[Decimal[u]] BY DEF Profiles!CacheConstants
      <3> DEFINE a == [Profiles!NoJob EXCEPT !.op = "base", !.text = Decimal[u], !.uid = u, !.at = "get"]
      <3>3. a \in SearchJobs /\ a.op = "base" /\ a.text = Decimal[u] /\ a.at = "get" /\ a.uid = u
        BY <1>start, <3>2, Zenon DEF SearchJobs
      <3>4. Profiles!Start(h, a) BY <3>1, Zenon DEF Profiles!NeedsProfile
      <3> HIDE DEF a
      <3>5. JobFits(a) BY <3>2, <3>3, Zenon DEF JobFits
      <3> QED BY <3>3, <3>4, <3>5, Zenon
    <2> QED BY <2>1, <2>2, Zenon
  <1> DEFINE known == {v \in users : NameOf[v] = j.text \/ v = Number[j.text]}
             k == [j EXCEPT !.known = known]
  <1>2. UNCHANGED <<users, cache>> /\ Profiles!Step(h, k) BY <1>1, Zenon DEF Profiles!Start, Profiles!Step
  <1>3. known \in SUBSET Uids BY <1>0, Zenon
  <1> HIDE DEF known
  <1>4. k \in SearchJobs /\ k.op = j.op /\ k.text = j.text /\ k.uid = j.uid /\ k.at = j.at /\ k.ok = j.ok /\ k.got = j.got
    BY <1>3, Zenon DEF SearchJobs
  <1> HIDE DEF k
  <1>5. JobFits(k) BY <1>1, <1>4, Zenon DEF JobFits
  <1>6. JobsFit' BY <1>0, <1>2, <1>4, <1>5, JobMoves, ZenonT(60)
  <1>7. EntriesFit' BY <1>0, <1>2, Zenon DEF EntriesFit, Fits
  <1> QED BY <1>6, <1>7, Zenon DEF PInv

\* A lookup in the cache: an entry is taken as it is, taken without its icon, or
\* dropped.
LEMMA CacheSteps ==
  ASSUME PInv, NEW h \in Searches, Profiles!GetUserByUid(h) \/ Profiles!GetUserByName(h) \/ Profiles!GetBaseInfo(h)
  PROVE  PInv'
  <1>0. EntriesFit /\ JobsFit /\ job[h] \in SearchJobs /\ JobFits(job[h]) BY Zenon DEF PInv, JobsFit
  <1> DEFINE j == job[h]
             e == Profiles!Entry(h)
             miss == [j EXCEPT !.at = "query"]
             found(p) == [j EXCEPT !.at = p, !.got = e]
             drop == [j EXCEPT !.at = "del"]
  <1>1. /\ j.at = "get" /\ UNCHANGED <<users, cache>>
        /\ \/ Profiles!Step(h, miss) \/ Profiles!Fails(h, miss) \/ Profiles!Step(h, drop)
           \/ e # Profiles!NoEntry /\ \E p \in {"done", "icon"} : Profiles!Step(h, found(p))
    BY Zenon DEF Profiles!GetUserByUid, Profiles!GetUserByName, Profiles!GetBaseInfo, Profiles!Get
  <1>2. e \in ProfileRows /\ (e # Profiles!NoEntry => Fits(j.op = "name", j.text, e.uid)) BY <1>1, EntryFits, Zenon
  <1>3. EntriesFit' BY <1>0, <1>1, Zenon DEF EntriesFit, Fits
  <1> HIDE DEF e
  <1>4. /\ miss \in SearchJobs /\ miss.op = j.op /\ miss.text = j.text /\ miss.uid = j.uid /\ miss.at = "query"
        /\ drop \in SearchJobs /\ drop.op = j.op /\ drop.text = j.text /\ drop.uid = j.uid /\ drop.at = "del"
    BY <1>0, Zenon DEF SearchJobs
  <1>5. ASSUME NEW p \in {"done", "icon"}
        PROVE  /\ found(p) \in SearchJobs /\ found(p).op = j.op /\ found(p).text = j.text /\ found(p).uid = j.uid
               /\ found(p).got = e
    BY <1>0, <1>2, Zenon DEF SearchJobs
  <1> HIDE DEF miss, drop, found
  <1>6. JobFits(miss) /\ JobFits(drop) BY <1>0, <1>1, <1>4, GoesOn, ZenonT(60)
  <1>7. ASSUME NEW p \in {"done", "icon"}, e # Profiles!NoEntry PROVE JobFits(found(p))
    BY <1>0, <1>1, <1>2, <1>5, <1>7, GoesOn, ZenonT(60)
  <1>8. JobsFit' BY <1>0, <1>1, <1>4, <1>5, <1>6, <1>7, JobMoves, ZenonT(60)
  <1> QED BY <1>3, <1>8, Zenon DEF PInv

\* The queries, and the entry that is removed or written.
LEMMA QuerySteps ==
  ASSUME Profiles!CacheConstants, PInv, NEW h \in Searches,
         Profiles!GetIcon(h) \/ Profiles!Del(h) \/ Profiles!GetUser(h) \/ Profiles!Set(h)
  PROVE  PInv'
  <1>0. EntriesFit /\ JobsFit /\ job[h] \in SearchJobs /\ JobFits(job[h]) BY Zenon DEF PInv, JobsFit
  <1> DEFINE j == job[h]
             to(p) == [j EXCEPT !.at = p]
  <1>1. \A p \in {"query", "done"} :
          to(p) \in SearchJobs /\ to(p).op = j.op /\ to(p).text = j.text /\ to(p).uid = j.uid /\ to(p).at = p /\ to(p).got = j.got
    BY <1>0, Zenon DEF SearchJobs
  <1>2. UNCHANGED users BY Zenon DEF Profiles!GetIcon, Profiles!Del, Profiles!GetUser, Profiles!Set
  <1>3. cache' = cache => EntriesFit' BY <1>0, <1>2, Zenon DEF EntriesFit, Fits
  <1>4. CASE Profiles!GetIcon(h)
    <2> DEFINE k == [j EXCEPT !.at = "done", !.got.icon = TRUE]
    <2>1. j.at = "icon" /\ cache' = cache /\ (Profiles!Step(h, k) \/ Profiles!Fails(h, to("done")))
      BY <1>4, Zenon DEF Profiles!GetIcon
    <2>2. k \in SearchJobs /\ k.op = j.op /\ k.text = j.text /\ k.uid = j.uid /\ k.got.uid = j.got.uid
      BY <1>0, Zenon DEF SearchJobs, ProfileRows
    <2> HIDE DEF k, to
    <2>3. Fits(j.op = "name", j.text, j.got.uid) BY <1>0, <2>1, Zenon DEF JobFits
    <2>4. JobFits(k) BY <1>0, <2>1, <2>2, <2>3, GoesOn, ZenonT(60)
    <2>5. JobFits(to("done")) BY <1>0, <1>1, <2>1, <2>3, GoesOn, ZenonT(60)
    <2>6. JobsFit' BY <1>0, <1>1, <1>2, <2>1, <2>2, <2>4, <2>5, JobMoves, ZenonT(60)
    <2> QED BY <1>3, <2>1, <2>6, Zenon DEF PInv
  <1>5. CASE Profiles!Del(h)
    <2>1. /\ j.at = "del" /\ (Profiles!Step(h, to("query")) \/ Profiles!Fails(h, to("query")))
          /\ cache' = cache \/ cache' = [cache EXCEPT ![Profiles!KeyOf(to("query"))] = Profiles!NoEntry]
      BY <1>5, Zenon DEF Profiles!Del
    <2> HIDE DEF to
    <2>2. JobFits(to("query")) BY <1>0, <1>1, <2>1, GoesOn, ZenonT(60)
    <2>3. JobsFit' BY <1>0, <1>1, <1>2, <2>1, <2>2, JobMoves, ZenonT(60)
    <2>4. Profiles!NoEntry \in ProfileRows BY Zenon DEF Profiles!NoEntry, ProfileRows
    <2>5. to("query").text \in Texts BY <1>0, <1>1, <2>1, Zenon DEF JobFits
    <2>6. EntriesFit' BY <1>0, <1>2, <1>3, <2>1, <2>4, <2>5, CacheWrite, ZenonT(60)
    <2> QED BY <2>3, <2>6, Zenon DEF PInv
  <1>6. CASE Profiles!GetUser(h)
    <2> DEFINE row == {u \in users : IF j.op = "name" THEN NameOf[u] = j.text ELSE u = j.uid}
               found(u) == [j EXCEPT !.at = "set", !.got = Profiles!Profile(u)]
               none == [j EXCEPT !.at = "done", !.ok = FALSE]
    <2>1. /\ j.at = "query" /\ cache' = cache
          /\ (\E u \in row : Profiles!Step(h, found(u))) \/ Profiles!Step(h, none) \/ Profiles!Fails(h, none)
      BY <1>6, Zenon DEF Profiles!GetUser
    <2>2. none \in SearchJobs /\ none.op = j.op /\ none.text = j.text /\ none.uid = j.uid /\ none.at = "done" /\ none.ok = FALSE
      BY <1>0, Zenon DEF SearchJobs
    <2>3. ASSUME NEW u \in row
          PROVE  /\ found(u) \in SearchJobs /\ found(u).op = j.op /\ found(u).text = j.text /\ found(u).uid = j.uid
                 /\ found(u).at = "set" /\ found(u).got.uid = u
      <3>1. u \in Uids BY <1>0, Zenon DEF EntriesFit
      <3>2. Profiles!Profile(u) \in ProfileRows /\ Profiles!Profile(u).uid = u BY <3>1, Zenon DEF Profiles!Profile, ProfileRows
      <3> QED BY <1>0, <3>2, Zenon DEF SearchJobs
    <2>4. \A u \in row : Fits(j.op = "name", j.text, u) BY <1>0, <2>1, Zenon DEF Fits, JobFits
    <2> HIDE DEF row, found, none
    <2>5. JobFits(none) BY <1>0, <2>1, <2>2, GoesOn, ZenonT(60)
    <2>6. ASSUME NEW u \in row PROVE JobFits(found(u))
      <3>1. /\ found(u).op = j.op /\ found(u).text = j.text /\ found(u).uid = j.uid /\ found(u).got.uid = u
        BY <2>3, Zenon
      <3>2. Fits(found(u).op = "name", found(u).text, found(u).got.uid) BY <2>4, <3>1, Zenon
      <3>3. j.at # "done" BY <2>1, Zenon
      <3> QED BY <1>0, <3>1, <3>2, <3>3, ZenonT(60) DEF JobFits
    <2>7. JobsFit' BY <1>0, <1>2, <2>1, <2>2, <2>3, <2>5, <2>6, JobMoves, ZenonT(60)
    <2> QED BY <1>3, <2>1, <2>7, Zenon DEF PInv
  <1>7. CASE Profiles!Set(h)
    <2>1. /\ j.at = "set" /\ (Profiles!Step(h, to("done")) \/ Profiles!Fails(h, to("done")))
          /\ cache' = cache \/ cache' = [cache EXCEPT ![Profiles!KeyOf(to("done"))] = to("done").got]
      BY <1>7, Zenon DEF Profiles!Set
    <2> HIDE DEF to
    <2>2. Fits(j.op = "name", j.text, j.got.uid) BY <1>0, <2>1, Zenon DEF JobFits
    <2>3. JobFits(to("done")) BY <1>0, <1>1, <2>1, <2>2, GoesOn, ZenonT(60)
    <2>4. JobsFit' BY <1>0, <1>1, <1>2, <2>1, <2>3, JobMoves, ZenonT(60)
    <2>5. j.got \in ProfileRows BY <1>0, Zenon DEF SearchJobs
    <2>6. j.text \in Texts BY <1>0, <2>1, Zenon DEF JobFits
    <2>7. to("done").text \in Texts /\ to("done").got \in ProfileRows /\ Fits(to("done").op = "name", to("done").text, to("done").got.uid)
      BY <1>1, <2>2, <2>5, <2>6, Zenon
    <2>8. EntriesFit' BY <1>0, <1>2, <1>3, <2>1, <2>7, CacheWrite, ZenonT(60)
    <2> QED BY <2>4, <2>8, Zenon DEF PInv
  <1> QED BY <1>4, <1>5, <1>6, <1>7, ZenonT(60)

\* An avatar change drops entries; a user registers.
LEMMA UserSteps ==
  ASSUME PInv, NEW u \in Uids, Profiles!NotifyAvatarChanged(u) \/ Profiles!RegUser(u) PROVE PInv'
  <1>0. EntriesFit /\ JobsFit /\ cache \in [Profiles!Keys -> ProfileRows] BY Zenon DEF PInv, EntriesFit
  <1>1. UNCHANGED job /\ users' \subseteq Uids /\ users \subseteq users'
    BY <1>0, Zenon DEF Profiles!NotifyAvatarChanged, Profiles!RegUser, EntriesFit
  <1>2. \A name, text, v : Fits(name, text, v) => Fits(name, text, v)' BY <1>1, Zenon DEF Fits
  <1>3. JobsFit' BY <1>0, <1>1, <1>2, Zenon DEF JobsFit, JobFits
  <1>4. Profiles!NoEntry \in ProfileRows BY Zenon DEF Profiles!NoEntry, ProfileRows
  <1>5. cache' \in [Profiles!Keys -> ProfileRows] /\ \A key \in Profiles!Keys : cache'[key] \in {cache[key], Profiles!NoEntry}
    BY <1>0, <1>4, Zenon DEF Profiles!NotifyAvatarChanged, Profiles!RegUser
  <1>6. ASSUME NEW t \in Texts
        PROVE  /\ (cache[<<"ubaseinfo_", t>>] # Profiles!NoEntry => Fits(FALSE, t, cache[<<"ubaseinfo_", t>>].uid))'
               /\ (cache[<<"nameinfo_", t>>] # Profiles!NoEntry => Fits(TRUE, t, cache[<<"nameinfo_", t>>].uid))'
    <2>1. <<"ubaseinfo_", t>> \in Profiles!Keys /\ <<"nameinfo_", t>> \in Profiles!Keys BY Zenon DEF Profiles!Keys
    <2>2. Profiles!NoEntry' = Profiles!NoEntry BY Zenon DEF Profiles!NoEntry
    <2>3. cache'[<<"ubaseinfo_", t>>] \in {cache[<<"ubaseinfo_", t>>], Profiles!NoEntry} BY <1>5, <2>1, Zenon
    <2>4. cache'[<<"nameinfo_", t>>] \in {cache[<<"nameinfo_", t>>], Profiles!NoEntry} BY <1>5, <2>1, Zenon
    <2>5. /\ cache[<<"ubaseinfo_", t>>] # Profiles!NoEntry => Fits(FALSE, t, cache[<<"ubaseinfo_", t>>].uid)
          /\ cache[<<"nameinfo_", t>>] # Profiles!NoEntry => Fits(TRUE, t, cache[<<"nameinfo_", t>>].uid)
      BY <1>0, Zenon DEF EntriesFit
    <2>6. (cache[<<"ubaseinfo_", t>>] # Profiles!NoEntry => Fits(FALSE, t, cache[<<"ubaseinfo_", t>>].uid))'
      BY <1>1, <2>2, <2>3, <2>5, Zenon DEF Fits
    <2>7. (cache[<<"nameinfo_", t>>] # Profiles!NoEntry => Fits(TRUE, t, cache[<<"nameinfo_", t>>].uid))'
      BY <1>1, <2>2, <2>4, <2>5, Zenon DEF Fits
    <2> QED BY <2>6, <2>7, Zenon
  <1>7. EntriesFit' BY <1>1, <1>5, <1>6, Zenon DEF EntriesFit, Profiles!Keys, ProfileRows
  <1> QED BY <1>3, <1>7, Zenon DEF PInv

\* AnswerIsRight of ProfileCache: whoever GetUserByUid, GetUserByName or GetBaseInfo
\* finds is the user with that UID or name, although entries are dropped, written
\* and found missing by handlers of several nodes.
THEOREM AnswerRight ==
  ASSUME Profiles!CacheConstants PROVE Profiles!Spec => []Profiles!AnswerIsRight
  <1>1. Profiles!Init => PInv
    <2> SUFFICES ASSUME Profiles!Init PROVE PInv OBVIOUS
    <2>1. PICK old \in SUBSET users :
            cache = [key \in Profiles!Keys |-> IF \E u \in old : Profiles!EntryOf(key, u)
                       THEN [uid |-> CHOOSE u \in old : Profiles!EntryOf(key, u), icon |-> FALSE] ELSE Profiles!NoEntry]
      BY Zenon DEF Profiles!Init
    <2>2. users \subseteq Uids BY Zenon DEF Profiles!Init
    <2>3. Profiles!NoJob \in SearchJobs /\ Profiles!NoJob.op = "search" /\ Profiles!NoJob.at = "done"
      BY DEF Profiles!NoJob, Profiles!NoEntry, SearchJobs, ProfileRows
    <2>4. JobsFit
      <3>1. JobFits(Profiles!NoJob) BY <2>3, Zenon DEF JobFits
      <3> QED BY <2>3, <3>1, Zenon DEF Profiles!Init, JobsFit
    <2>5. ASSUME NEW key \in Profiles!Keys
          PROVE  /\ cache[key] \in ProfileRows
                 /\ cache[key] = Profiles!NoEntry \/ \E u \in old : Profiles!EntryOf(key, u) /\ cache[key].uid = u
      <3>1. CASE \E u \in old : Profiles!EntryOf(key, u)
        <4> DEFINE v == CHOOSE u \in old : Profiles!EntryOf(key, u)
        <4>1. v \in old /\ Profiles!EntryOf(key, v) BY <3>1, Zenon
        <4>2. cache[key] = [uid |-> v, icon |-> FALSE] BY <2>1, <3>1, Zenon
        <4> HIDE DEF v
        <4>3. cache[key].uid = v /\ v \in Uids BY <2>2, <4>1, <4>2
        <4>4. cache[key] \in ProfileRows BY <4>2, <4>3 DEF ProfileRows
        <4> QED BY <4>1, <4>3, <4>4, Zenon
      <3>2. CASE ~\E u \in old : Profiles!EntryOf(key, u)
        <4>1. cache[key] = Profiles!NoEntry BY <2>1, <3>2, Zenon
        <4> QED BY <4>1 DEF Profiles!NoEntry, ProfileRows
      <3> QED BY <3>1, <3>2, Zenon
    <2>6. cache \in [Profiles!Keys -> ProfileRows]
      <3>1. cache = [key \in Profiles!Keys |-> cache[key]] BY <2>1, Zenon
      <3> QED BY <2>5, <3>1, Zenon
    <2>7. ASSUME NEW t \in Texts
          PROVE  /\ cache[<<"ubaseinfo_", t>>] # Profiles!NoEntry => Fits(FALSE, t, cache[<<"ubaseinfo_", t>>].uid)
                 /\ cache[<<"nameinfo_", t>>] # Profiles!NoEntry => Fits(TRUE, t, cache[<<"nameinfo_", t>>].uid)
      <3>1. <<"ubaseinfo_", t>> \in Profiles!Keys /\ <<"nameinfo_", t>> \in Profiles!Keys BY Zenon DEF Profiles!Keys
      <3>2. \A u \in Uids : Profiles!EntryOf(<<"ubaseinfo_", t>>, u) => t = Decimal[u] BY Zenon DEF Profiles!EntryOf
      <3>3. \A u \in Uids : Profiles!EntryOf(<<"nameinfo_", t>>, u) => t = NameOf[u] BY Zenon DEF Profiles!EntryOf
      <3>4. \A u \in Uids : Number[Decimal[u]] = u BY Zenon DEF Profiles!CacheConstants
      <3>5. \A u \in old : u \in users /\ u \in Uids BY <2>2, Zenon
      <3> QED BY <2>5, <3>1, <3>2, <3>3, <3>4, <3>5, ZenonT(60) DEF Fits
    <2> QED BY <2>2, <2>4, <2>6, <2>7, ZenonT(60) DEF PInv, EntriesFit
  <1>2. PInv /\ [Profiles!Next]_Profiles!vars => PInv'
    <2> SUFFICES ASSUME PInv, [Profiles!Next]_Profiles!vars PROVE PInv' OBVIOUS
    <2>1. CASE UNCHANGED Profiles!vars BY <2>1, Zenon DEF Profiles!vars, PInv, EntriesFit, JobsFit, JobFits, Fits
    <2> QED BY <2>1, SearchSteps, CacheSteps, QuerySteps, UserSteps, ZenonT(60) DEF Profiles!Next
  <1>3. PInv => Profiles!AnswerIsRight
    BY Zenon DEF PInv, JobsFit, JobFits, Fits, Profiles!AnswerIsRight, Profiles!Answered
  <1> QED BY <1>1, <1>2, <1>3, PTL DEF Profiles!Spec
=============================================================================
