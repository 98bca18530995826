---------------------------- MODULE ChatSession ----------------------------
(***************************************************************************)
(* One TCP session of a chat node: CSession, its entry in CServer and the  *)
(* handlers that Boost.Asio runs for it.  The socket's strand runs one     *)
(* handler at a time, so a handler is one action; Send, SetUserId and      *)
(* Close are called by other threads, which only set an atomic, take the   *)
(* queue's mutex or post to the strand.                                    *)
(*                                                                         *)
(* posted[h] counts the handlers of kind h waiting on the strand.  Asio    *)
(* runs them in the order of posting; the model lets them run in any order. *)
(* A timer is armed, and its handler due once it expired: cancelling or    *)
(* re-arming a timer does not recall a handler that is due.                *)
(***************************************************************************)
EXTENDS Integers, Sequences

CONSTANTS
  Frames,         \* the frames handlers may send
  Bytes,          \* payload length of a frame
  HeadLen,        \* HEAD_TOTAL_LEN
  FrameLimit,     \* largest length the 16-bit field holds
  MaxSendQue,     \* MAX_SENDQUE
  SendByteLimit,  \* CSession::SendByteLimit
  MaxSends,       \* bound: frames accepted for sending
  MaxReads        \* bound: frames the peer sends

ASSUME Sizes ==
  /\ Bytes \in [Frames -> Nat]
  /\ {HeadLen, FrameLimit, MaxSendQue, SendByteLimit, MaxSends, MaxReads} \subseteq Nat

VARIABLES
  accepted,   \* the connection was accepted (or refused) by HandleAccept
  closed,     \* _b_close
  listed,     \* the session is in CServer::_sessions
  socket,     \* "open" or "closed"
  uid,        \* _user_uid > 0
  login,      \* the login frame reached the logic system
  posted,     \* handlers waiting on the strand
  sendq,      \* _send_que
  sendBytes,  \* _send_bytes
  writing,    \* number of async_writes in flight
  reading,    \* the read in flight: "none", "head" or "body"
  authTimer, idleTimer,  \* [armed, due]
  queued,     \* history: the frames Send took
  written,    \* history: the frames written to the socket
  reads       \* frames read

vars == <<accepted, closed, listed, socket, uid, login, posted, sendq, sendBytes,
          writing, reading, authTimer, idleTimer, queued, written, reads>>
sends == <<sendq, sendBytes, writing, queued, written>>
timers == <<authTimer, idleTimer>>

Handlers == {"Start", "StartWrite", "Teardown", "Authenticated", "Touch"}
Off == [armed |-> FALSE, due |-> FALSE]
Arm(t) == [t EXCEPT !.armed = TRUE]
Cancel(t) == [t EXCEPT !.armed = FALSE]

Init ==
  /\ accepted = FALSE /\ closed = FALSE /\ listed = FALSE /\ socket = "open"
  /\ uid = FALSE /\ login = FALSE
  /\ posted = [h \in Handlers |-> 0]
  /\ sendq = <<>> /\ sendBytes = 0 /\ writing = 0 /\ reading = "none"
  /\ authTimer = Off /\ idleTimer = Off
  /\ queued = <<>> /\ written = <<>> /\ reads = 0

Post(p, h) == [p EXCEPT ![h] = @ + 1]
Run(h) == posted[h] > 0
Ran(h) == [posted EXCEPT ![h] = @ - 1]

-----------------------------------------------------------------------------
(* Closing.  The caller goes on to ClearSession, which takes CServer's      *)
(* mutex, and may be overtaken before it.                                   *)

\* p is what the caller has posted so far.
Close(p) ==
  /\ closed' = TRUE
  /\ posted' = IF closed THEN p ELSE Post(p, "Teardown")

ClearSession ==
  /\ closed /\ listed
  /\ listed' = FALSE
  /\ UNCHANGED <<accepted, closed, socket, uid, login, posted, sends, reading, timers, reads>>

Teardown_timersOnly ==
  /\ Run("Teardown")
  /\ posted' = Ran("Teardown")
  /\ authTimer' = Cancel(authTimer) /\ idleTimer' = Cancel(idleTimer)
  /\ UNCHANGED <<accepted, closed, listed, socket, uid, login, sends, reading, reads>>

\* The lambda of Close.
Teardown ==
  /\ Run("Teardown")
  /\ posted' = Ran("Teardown")
  /\ authTimer' = Cancel(authTimer) /\ idleTimer' = Cancel(idleTimer)
  /\ socket' = "closed"
  /\ UNCHANGED <<accepted, closed, listed, uid, login, sends, reading, reads>>

\* CServer::Stop closes every session of its map.
Stop ==
  /\ listed
  /\ Close(posted)
  /\ UNCHANGED <<accepted, listed, socket, uid, login, sends, reading, timers, reads>>

-----------------------------------------------------------------------------
(* Accepting and reading. *)

\* A server that is full closes the session; otherwise Start hands it to its
\* own executor.
HandleAccept(room) ==
  /\ ~accepted /\ accepted' = TRUE
  /\ \/ /\ room
        /\ listed' = TRUE
        /\ posted' = Post(posted, "Start")
        /\ UNCHANGED closed
     \/ /\ ~room
        /\ Close(posted)
        /\ UNCHANGED listed
  /\ UNCHANGED <<socket, uid, login, sends, reading, timers, reads>>

\* CServer::Stop may have closed the session in the meantime.
StartOnExecutor ==
  /\ Run("Start")
  /\ posted' = Ran("Start")
  /\ \/ closed /\ UNCHANGED <<authTimer, reading>>
     \/ ~closed /\ authTimer' = Arm(authTimer) /\ reading' = "head"
  /\ UNCHANGED <<accepted, closed, listed, socket, uid, login, sends, idleTimer, reads>>

\* The read in flight ends with an error: the peer left, sent too little, or
\* the socket was closed.
ReadFailed ==
  /\ reading # "none" /\ reading' = "none"
  /\ Close(posted)
  /\ UNCHANGED <<accepted, listed, socket, uid, login, sends, timers, reads>>

\* A head is complete.  It is refused when the session is no longer listed, the
\* id or length is not valid or the request budget is used up.
ReadHead(allowed) ==
  /\ reading = "head" /\ socket = "open" /\ reads < MaxReads
  /\ \/ /\ listed /\ allowed
        /\ reading' = "body"
        /\ UNCHANGED <<closed, posted>>
     \/ /\ ~(listed /\ allowed)
        /\ reading' = "none"
        /\ Close(posted)
  /\ UNCHANGED <<accepted, listed, socket, uid, login, sends, timers, reads>>

\* A body is complete: it counts as activity and goes to the logic system,
\* unless it is not a login and nobody is logged in, or the queue is full.
ReadBody(isLogin, room) ==
  /\ reading = "body" /\ socket = "open"
  /\ reads' = reads + 1
  /\ \/ /\ ~listed
        /\ reading' = "none" /\ Close(posted)
        /\ UNCHANGED login
     \/ /\ listed /\ ~((isLogin \/ uid) /\ room)
        /\ reading' = "none" /\ Close(Post(posted, "Touch"))
        /\ UNCHANGED login
     \/ /\ listed /\ (isLogin \/ uid) /\ room
        /\ reading' = "head"
        /\ login' = (login \/ isLogin)
        /\ posted' = Post(posted, "Touch")
        /\ UNCHANGED closed
  /\ UNCHANGED <<accepted, listed, socket, uid, sends, timers>>

-----------------------------------------------------------------------------
(* Deadlines. *)

\* LoginChatCallback, on the session's shard, found the ticket valid.
SetUserId ==
  /\ login /\ ~uid /\ uid' = TRUE
  /\ posted' = Post(posted, "Authenticated")
  /\ UNCHANGED <<accepted, closed, listed, socket, login, sends, reading, timers, reads>>

Authenticated_authOnly ==
  /\ Run("Authenticated")
  /\ posted' = Ran("Authenticated")
  /\ authTimer' = IF closed THEN authTimer ELSE Cancel(authTimer)
  /\ UNCHANGED <<accepted, closed, listed, socket, uid, login, sends, reading, idleTimer, reads>>

\* The lambda of SetUserId.
Authenticated ==
  /\ Run("Authenticated")
  /\ posted' = Ran("Authenticated")
  /\ \/ closed /\ UNCHANGED timers
     \/ ~closed /\ authTimer' = Cancel(authTimer) /\ idleTimer' = Arm(idleTimer)
  /\ UNCHANGED <<accepted, closed, listed, socket, uid, login, sends, reading, reads>>

\* The lambda of TouchActivity: ScheduleIdleTimeout.
Touch ==
  /\ Run("Touch")
  /\ posted' = Ran("Touch")
  /\ idleTimer' = IF closed \/ ~uid THEN idleTimer ELSE Arm(idleTimer)
  /\ UNCHANGED <<accepted, closed, listed, socket, uid, login, sends, reading, authTimer, reads>>

\* A timer expires and its handler is queued.
Expire ==
  /\ \/ authTimer.armed /\ authTimer' = [armed |-> FALSE, due |-> TRUE] /\ UNCHANGED idleTimer
     \/ idleTimer.armed /\ idleTimer' = [armed |-> FALSE, due |-> TRUE] /\ UNCHANGED authTimer
  /\ UNCHANGED <<accepted, closed, listed, socket, uid, login, posted, sends, reading, reads>>

AuthTimeout ==
  /\ authTimer.due /\ authTimer' = [authTimer EXCEPT !.due = FALSE]
  /\ \/ uid /\ UNCHANGED <<closed, posted>>
     \/ ~uid /\ Close(posted)
  /\ UNCHANGED <<accepted, listed, socket, uid, login, sends, reading, idleTimer, reads>>

IdleTimeout ==
  /\ idleTimer.due /\ idleTimer' = [idleTimer EXCEPT !.due = FALSE]
  /\ Close(posted)
  /\ UNCHANGED <<accepted, listed, socket, uid, login, sends, reading, authTimer, reads>>

-----------------------------------------------------------------------------
(* Writing. *)

Full(f) == Len(sendq) >= MaxSendQue \/ Bytes[f] + HeadLen > SendByteLimit - sendBytes

\* Send, called by any thread: a frame too long for its length field closes
\* the session; a closed session or a full queue refuses the frame.
SendTooLong(f) ==
  /\ accepted /\ Bytes[f] > FrameLimit
  /\ Close(posted)
  /\ UNCHANGED <<accepted, listed, socket, uid, login, sends, reading, timers, reads>>

Send(f) ==
  /\ accepted /\ Bytes[f] <= FrameLimit /\ Len(queued) < MaxSends
  /\ ~closed /\ ~Full(f)
  /\ sendq' = Append(sendq, f)
  /\ sendBytes' = sendBytes + Bytes[f] + HeadLen
  /\ queued' = Append(queued, f)
  /\ posted' = IF sendq = <<>> THEN Post(posted, "StartWrite") ELSE posted
  /\ UNCHANGED <<accepted, closed, listed, socket, uid, login, writing, written, reading, timers, reads>>

StartWrite ==
  /\ Run("StartWrite")
  /\ posted' = Ran("StartWrite")
  /\ writing' = IF closed \/ sendq = <<>> THEN writing ELSE writing + 1
  /\ UNCHANGED <<accepted, closed, listed, socket, uid, login, sendq, sendBytes, queued, written,
                 reading, timers, reads>>

HandleWrite_payloadOnly ==
  /\ writing > 0
  /\ sendq' = Tail(sendq)
  /\ sendBytes' = sendBytes - Bytes[Head(sendq)]
  /\ written' = Append(written, Head(sendq))
  /\ writing' = IF closed \/ Tail(sendq) = <<>> THEN writing - 1 ELSE writing
  /\ UNCHANGED <<accepted, closed, listed, socket, uid, login, posted, queued, reading, timers, reads>>

\* HandleWrite without error: the next frame is written unless the session
\* closed.
HandleWrite ==
  /\ writing > 0
  /\ sendq' = Tail(sendq)
  /\ sendBytes' = sendBytes - (Bytes[Head(sendq)] + HeadLen)
  /\ written' = Append(written, Head(sendq))
  /\ writing' = IF closed \/ Tail(sendq) = <<>> THEN writing - 1 ELSE writing
  /\ UNCHANGED <<accepted, closed, listed, socket, uid, login, posted, queued, reading, timers, reads>>

WriteFailed_pops ==
  /\ writing > 0 /\ writing' = writing - 1
  /\ sendq' = Tail(sendq)
  /\ Close(posted)
  /\ UNCHANGED <<accepted, listed, socket, uid, login, sendBytes, queued, written,
                 reading, timers, reads>>

\* HandleWrite with an error: the peer left or the socket was closed.
WriteFailed ==
  /\ writing > 0 /\ writing' = writing - 1
  /\ Close(posted)
  /\ UNCHANGED <<accepted, listed, socket, uid, login, sendq, sendBytes, queued, written,
                 reading, timers, reads>>

-----------------------------------------------------------------------------
Strand ==
  StartOnExecutor \/ Teardown \/ Authenticated \/ Touch \/ AuthTimeout \/ IdleTimeout \/ StartWrite

Network ==
  \/ ReadFailed \/ HandleWrite \/ WriteFailed
  \/ \E allowed \in BOOLEAN : ReadHead(allowed)
  \/ \E isLogin, room \in BOOLEAN : ReadBody(isLogin, room)

Next ==
  \/ \E room \in BOOLEAN : HandleAccept(room)
  \/ Strand \/ Network \/ Expire
  \/ SetUserId \/ ClearSession \/ Stop
  \/ \E f \in Frames : Send(f) \/ SendTooLong(f)

Spec == Init /\ [][Next]_vars

-----------------------------------------------------------------------------
(* Safety. *)

Timer == [armed : BOOLEAN, due : BOOLEAN]

\* Types; the send queue respects both of its limits, so that the unsigned
\* difference SendByteLimit - _send_bytes in Send never wraps around.
TypeOK ==
  /\ accepted \in BOOLEAN /\ closed \in BOOLEAN /\ listed \in BOOLEAN
  /\ uid \in BOOLEAN /\ login \in BOOLEAN
  /\ socket \in {"open", "closed"}
  /\ posted \in [Handlers -> Nat]
  /\ sendq \in Seq(Frames) /\ Len(sendq) <= MaxSendQue
  /\ sendBytes \in Int /\ sendBytes <= SendByteLimit
  /\ writing \in Nat
  /\ reading \in {"none", "head", "body"}
  /\ authTimer \in Timer /\ idleTimer \in Timer
  /\ queued \in Seq(Frames) /\ written \in Seq(Frames)
  /\ reads \in 0 .. MaxReads

\* Writes of a session never overlap, and an open session with frames queued
\* has a write in flight or about to start: StartWrite is posted only for the
\* first frame of an empty queue and HandleWrite carries on from there.
OneWriteChain ==
  /\ posted["StartWrite"] + writing <= 1
  /\ sendq = <<>> => posted["StartWrite"] + writing = 0
  /\ ~closed /\ sendq # <<>> => posted["StartWrite"] + writing = 1

\* Frames leave in the order Send took them, none twice and none left out: what
\* is not written is still queued.
FramesInOrder == queued = written \o sendq

\* Once the lambda of Close ran nothing arms a timer again, although Touch and
\* Authenticated may still run: the session can be released.
TornDownIsQuiet ==
  socket = "closed" => closed /\ ~authTimer.armed /\ ~idleTimer.armed

\* An open session is always under a deadline: before login that of
\* StartOnExecutor, afterwards the idle timeout, with no gap while the lambda
\* of SetUserId replaces one by the other.
DeadlinePending ==
  listed /\ ~closed =>
    \/ ~uid /\ (authTimer.armed \/ authTimer.due \/ posted["Start"] > 0)
    \/ uid /\ (idleTimer.armed \/ idleTimer.due \/ posted["Authenticated"] > 0)

-----------------------------------------------------------------------------
(* Liveness: the strand runs its handlers, timers expire, operations on a    *)
(* closed socket end and a thread inside Close goes on to ClearSession.      *)

Fairness ==
  /\ \A h \in Handlers : WF_vars(Strand /\ (posted'[h] < posted[h]))
  /\ WF_vars(AuthTimeout) /\ WF_vars(IdleTimeout) /\ WF_vars(Expire)
  /\ WF_vars(socket = "closed" /\ ReadFailed)
  /\ WF_vars(socket = "closed" /\ WriteFailed)
  /\ WF_vars(ClearSession)
  /\ WF_vars(\E room \in BOOLEAN : HandleAccept(room))

FairSpec == Spec /\ Fairness

Released ==
  /\ closed /\ ~listed /\ socket = "closed"
  /\ reading = "none" /\ writing = 0
  /\ posted = [h \in Handlers |-> 0] /\ authTimer = Off /\ idleTimer = Off

\* A session whose peer falls silent is closed, taken out of CServer's map and
\* left without any handler that could keep it alive.
SilentPeerIsReleased == <>[]Released
=============================================================================
