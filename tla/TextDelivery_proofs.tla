------------------------ MODULE TextDelivery_proofs ------------------------
(***************************************************************************)
(* The types and the safety of text delivery for every topology, backlog,  *)
(* capacity and number of crashes.  TypeOK is not inductive by itself: that *)
(* a frame carries a message is part of Soundness, so the two are proved   *)
(* together.  A step preserves Soundness because rows and saved messages   *)
(* are never taken back (Monotone), so what a frame in flight vouches for  *)
(* stays true, and because each new frame is sound when it is written.     *)
(***************************************************************************)
EXTENDS TextDelivery, TLAPS

IInv == TypeOK /\ Soundness

-----------------------------------------------------------------------------
(* Sequences of frames. *)

\* What taking the head off a queue leaves.
LEMMA TailFacts ==
  ASSUME NEW S, NEW q \in Seq(S), q # <<>>
  PROVE  /\ Head(q) \in S /\ Head(q) = q[1] /\ Len(q) >= 1
         /\ Tail(q) \in Seq(S)
         /\ \A i \in 1 .. Len(Tail(q)) : i + 1 \in 1 .. Len(q) /\ Tail(q)[i] = q[i + 1]
  OBVIOUS

\* What putting a frame at the end of a queue gives.
LEMMA AppendFacts ==
  ASSUME NEW S, NEW q \in Seq(S), NEW x \in S
  PROVE  /\ Append(q, x) \in Seq(S)
         /\ \A i \in 1 .. Len(Append(q, x)) :
              (i \in 1 .. Len(q) /\ Append(q, x)[i] = q[i]) \/ Append(q, x)[i] = x
  OBVIOUS

\* The frames a message can travel in.
LEMMA FrameType ==
  ASSUME NEW t \in FrameTypes, NEW m \in Messages \cup {NoMessage}
  PROVE  Frame(t, m) \in Frames /\ Frame(t, m).type = t /\ Frame(t, m).msg = m
  BY Zenon DEF Frame, Frames

\* New ids are positive.
LEMMA FreshIdsType == \A s \in Sessions : FreshIds(s) \subseteq Nat \ {0}
  BY Zenon DEF FreshIds

\* Send leaves the other queues alone and adds at most its frame.
LEMMA SendFacts ==
  ASSUME TypeOK, NEW s \in Sessions, NEW f \in Frames
  PROVE  /\ Send(s, f) \in [Sessions -> Seq(Frames)]
         /\ \A t \in Sessions : \A i \in 1 .. Len(Send(s, f)[t]) :
              \/ i \in 1 .. Len(down[t]) /\ Send(s, f)[t][i] = down[t][i]
              \/ t = s /\ Send(s, f)[t][i] = f
  BY AppendFacts DEF TypeOK, Send

\* So does the client's Write.
LEMMA WriteFacts ==
  ASSUME TypeOK, NEW s \in Sessions, NEW f \in Frames
  PROVE  /\ Write(s, f) \in [Sessions -> Seq(Frames)]
         /\ \A t \in Sessions : \A i \in 1 .. Len(Write(s, f)[t]) :
              \/ i \in 1 .. Len(up[t]) /\ Write(s, f)[t][i] = up[t][i]
              \/ t = s /\ Write(s, f)[t][i] = f
  BY AppendFacts DEF TypeOK, Write

\* Whatever one pass of DeliverPendingTextMessages appends to the queue q is a
\* committed message for the session's user.
LEMMA DeliverFacts ==
  ASSUME TypeOK, NEW s \in Sessions, NEW acks, NEW q \in Seq(Frames),
         NEW queried, DeliverPendingTextMessages(s, acks, q, queried)
  PROVE  /\ tracked' \subseteq Sessions
         /\ window' \in [Sessions -> SUBSET Messages]
         /\ down' \in [Sessions -> Seq(Frames)]
         /\ \A t \in Sessions \ {s} : down'[t] = down[t]
         /\ \A i \in 1 .. Len(down'[s]) :
              \/ i \in 1 .. Len(q) /\ down'[s][i] = q[i]
              \/ \E m \in Rows : Receiver[m] = SessionUser(s) /\ down'[s][i] = Frame("notify", m)
  <1>1. CASE ~queried
    BY <1>1, ZenonT(60) DEF DeliverPendingTextMessages, TypeOK
  <1>2. CASE queried
    <2> DEFINE pending == Pending(SessionUser(s), acks)
    <2>1. PICK b \in Batches :
            /\ IsBatch(b, pending, window[s] \cap pending, SendLimit - Len(q))
            /\ window' = [window EXCEPT ![s] = (@ \cap pending) \cup Elems(b)]
            /\ down' = [down EXCEPT ![s] = q \o Notifications(b)]
      BY <1>2, Zenon DEF DeliverPendingTextMessages
    <2>2. PICK k \in 0 .. Capacity : b \in [1 .. k -> Messages]
      BY <2>1, Zenon DEF Batches
    <2>3. k \in Nat /\ DOMAIN b = 1 .. k
      BY <2>2, Limits
    <2>4. \A i \in 1 .. k : b[i] \in Rows /\ Receiver[b[i]] = SessionUser(s)
      <3>1. Elems(b) \subseteq pending BY <2>1, Zenon DEF IsBatch
      <3>2. pending \subseteq {m \in Rows : Receiver[m] = SessionUser(s)}
        BY Zenon DEF Pending, Unacked, Rows
      <3> QED BY <2>3, <3>1, <3>2, Zenon DEF Elems
    <2>5. /\ Notifications(b) \in Seq(Frames) /\ Len(Notifications(b)) = k
          /\ \A i \in 1 .. k : Notifications(b)[i] = Frame("notify", b[i])
      <3>1. \A i \in 1 .. k : Frame("notify", b[i]) \in Frames
        BY <2>2, FrameType, ZenonT(60) DEF FrameTypes
      <3>2. Notifications(b) \in [1 .. k -> Frames]
        BY <2>3, <3>1, Zenon DEF Notifications
      <3> QED BY <2>3, <3>2 DEF Notifications
    <2>6. /\ q \o Notifications(b) \in Seq(Frames)
          /\ \A i \in 1 .. Len(q \o Notifications(b)) :
               \/ i \in 1 .. Len(q) /\ (q \o Notifications(b))[i] = q[i]
               \/ \E j \in 1 .. k : (q \o Notifications(b))[i] = Frame("notify", b[j])
      BY <2>3, <2>5
    <2>7. pending \subseteq Messages /\ Elems(b) \subseteq Messages
      BY <2>2, Zenon DEF Pending, Unacked, Elems
    <2> HIDE DEF pending
    <2>8. tracked' \subseteq Sessions /\ window' \in [Sessions -> SUBSET Messages]
      BY <2>1, <2>7, Zenon DEF DeliverPendingTextMessages, TypeOK
    <2>9. /\ down' \in [Sessions -> Seq(Frames)]
          /\ down'[s] = q \o Notifications(b)
          /\ \A t \in Sessions \ {s} : down'[t] = down[t]
      BY <2>1, <2>6, Zenon DEF TypeOK
    <2>10. \A i \in 1 .. Len(down'[s]) :
             \/ i \in 1 .. Len(q) /\ down'[s][i] = q[i]
             \/ \E m \in Rows : Receiver[m] = SessionUser(s) /\ down'[s][i] = Frame("notify", m)
      BY <2>4, <2>6, <2>9, ZenonT(60)
    <2> QED BY <2>8, <2>9, <2>10, Zenon
  <1> QED BY <1>1, <1>2, Zenon

\* A frame at the head of a queue is sound.
LEMMA HeadFacts ==
  ASSUME IInv, NEW s \in Sessions
  PROVE  /\ up[s] # <<>> => UpSound(s, Head(up[s])) /\ Tail(up[s]) \in Seq(Frames)
         /\ down[s] # <<>> => DownSound(s, Head(down[s])) /\ Tail(down[s]) \in Seq(Frames)
  BY TailFacts DEF IInv, TypeOK, Soundness

-----------------------------------------------------------------------------
(* Types. *)

\* The initial state is well typed.
LEMMA TypeInit == Init => TypeOK
  <1> SUFFICES ASSUME Init PROVE TypeOK OBVIOUS
  <1>1. \A m \in Messages : BacklogId(m) \in Nat
    <2> SUFFICES ASSUME NEW m \in Messages PROVE BacklogId(m) \in Nat OBVIOUS
    <2>1. DOMAIN Backlog \subseteq Nat BY Topology
    <2>2. CASE m \in Elems(Backlog)
      <3>1. \E i \in DOMAIN Backlog : Backlog[i] = m BY <2>2, Zenon DEF Elems
      <3> QED BY <2>1, <2>2, <3>1, Zenon DEF BacklogId
    <2> QED BY <2>2, Zenon DEF BacklogId
  <1> QED BY <1>1, Limits DEF Init, TypeOK

\* A step of a session or its handlers keeps the types.
LEMMA TypeSession ==
  ASSUME IInv, NEW s \in Sessions, SessionStep(s)
  PROVE  TypeOK'
  <1> USE DEF dbvars, sessionvars, deliveryvars, queuevars, clientvars
  <1>0. /\ TypeOK /\ SessionUser(s) \in Users /\ SessionNode[s] \in Nodes
        /\ SessionDevice[s] \in Devices
    BY Topology, Zenon DEF IInv, SessionUser
  <1>t. up[s] # <<>> => UpSound(s, Head(up[s])) /\ Tail(up[s]) \in Seq(Frames)
    BY HeadFacts, Zenon
  <1>1. CASE Connect(s)
    <2>1. <<Frame("login", NoMessage)>> \in Seq(Frames) BY FrameType, SMTT(60) DEF FrameTypes
    <2> QED BY <1>0, <1>1, <2>1, Zenon DEF Connect, TcpConnect, HandleAccept, TypeOK
  <1>2. CASE Close(s) BY <1>0, <1>2 DEF Close, TypeOK
  <1>3. CASE ClearSession(s)
    <2>0. \/ usermgr' = usermgr
          \/ usermgr' = [usermgr EXCEPT ![SessionNode[s]][SessionUser(s)] = NoSession]
      BY <1>3, Zenon DEF ClearSession, RmvUserSession
    <2>1. usermgr' \in [Nodes -> [Users -> Sessions \cup {NoSession}]]
      <3>1. usermgr \in [Nodes -> [Users -> Sessions \cup {NoSession}]] BY <1>0, Zenon DEF TypeOK
      <3>2. CASE usermgr' = [usermgr EXCEPT ![SessionNode[s]][SessionUser(s)] = NoSession]
        BY <1>0, <3>1, <3>2, ZenonT(60)
      <3> QED BY <2>0, <3>1, <3>2, Zenon
    <2> QED BY <1>0, <1>3, <2>1, Zenon DEF ClearSession, TypeOK
  <1>4. CASE TickErase(s) BY <1>0, <1>4, SMTT(30) DEF TickErase, TypeOK
  <1>5. CASE LoginReject(s)
    <2>1. Frame("loginErr", NoMessage) \in Frames BY FrameType, SMTT(30) DEF FrameTypes
    <2>2. Send(s, Frame("loginErr", NoMessage)) \in [Sessions -> Seq(Frames)]
      BY <1>0, <2>1, SendFacts, Zenon
    <2> QED BY <1>0, <1>t, <1>5, <2>2, ZenonT(60) DEF LoginReject, Dealing, TypeOK
  <1>6. CASE LoginSetUserId(s) BY <1>0, <1>t, <1>6, Zenon DEF LoginSetUserId, Dealing, TypeOK
  <1>7. CASE LoginSetNode(s) BY <1>0, <1>7, Zenon DEF LoginSetNode, TypeOK
  <1>8. CASE LoginSetUserSession(s) BY <1>0, <1>8, Zenon DEF LoginSetUserSession, TypeOK
  <1>9. ASSUME Authorized(s, "text")
        PROVE  /\ Head(up[s]).msg \in Messages /\ Tail(up[s]) \in Seq(Frames)
               /\ Send(s, Frame("textRsp", Head(up[s]).msg)) \in [Sessions -> Seq(Frames)]
               /\ Send(s, Frame("textErr", Head(up[s]).msg)) \in [Sessions -> Seq(Frames)]
    <2>1. Head(up[s]).msg \in Messages /\ Tail(up[s]) \in Seq(Frames)
      BY <1>t, <1>9, Zenon DEF Authorized, Dealing, UpSound
    <2>2. /\ Frame("textRsp", Head(up[s]).msg) \in Frames
          /\ Frame("textErr", Head(up[s]).msg) \in Frames
      BY <2>1, FrameType, ZenonT(60) DEF FrameTypes
    <2> QED BY <1>0, <2>1, <2>2, SendFacts, Zenon
  <1>10. ASSUME NEW m \in Messages, PersistTextMessages(s, m)
         PROVE  id' \in [Messages -> Nat] /\ via' \in [Messages -> Sessions \cup {NoSession}]
    <2>1. CASE UNCHANGED <<id, via>> BY <1>0, <2>1, Zenon DEF TypeOK
    <2>2. CASE /\ \E i \in FreshIds(s) : id' = [id EXCEPT ![m] = i]
               /\ via' = [via EXCEPT ![m] = s]
      <3>1. PICK i \in FreshIds(s) : id' = [id EXCEPT ![m] = i] BY <2>2, Zenon
      <3>2. i \in Nat BY FreshIdsType, SMTT(30)
      <3> QED BY <1>0, <2>2, <3>1, <3>2, ZenonT(60) DEF TypeOK
    <2> QED BY <1>10, <2>1, <2>2, Zenon DEF PersistTextMessages
  <1>11. CASE TextAccepted(s)
    <2>1. Authorized(s, "text") /\ PersistTextMessages(s, Head(up[s]).msg)
      BY <1>11, Zenon DEF TextAccepted
    <2>2. /\ id' \in [Messages -> Nat] /\ via' \in [Messages -> Sessions \cup {NoSession}]
          /\ Head(up[s]).msg \in Messages
      BY <1>9, <1>10, <2>1, ZenonT(60)
    <2>3. notifyq' \subseteq Nodes \X Users
      <3>1. notifyq \subseteq Nodes \X Users BY <1>0, Zenon DEF TypeOK
      <3>2. \/ notifyq' = notifyq
            \/ notifyq' = notifyq \cup {<<SessionNode[s], Receiver[Head(up[s]).msg]>>}
        BY <1>11, Zenon DEF TextAccepted
      <3>3. SessionNode[s] \in Nodes /\ Receiver[Head(up[s]).msg] \in Users BY <2>2, Topology, Zenon
      <3> QED BY <3>1, <3>2, <3>3, SMTT(60)
    <2>4. /\ up' = [up EXCEPT ![s] = Tail(@)]
          /\ down' = Send(s, Frame("textRsp", Head(up[s]).msg))
          /\ UNCHANGED <<acked, sessionvars, deliveryvars, wakeq, clientvars, crashes>>
      BY <1>11, Zenon DEF TextAccepted
    <2> QED BY <1>0, <1>9, <2>1, <2>2, <2>3, <2>4, ZenonT(60) DEF TypeOK
  <1>12. CASE TextUnavailable(s)
    <2>1. /\ Authorized(s, "text")
          /\ PersistTextMessages(s, Head(up[s]).msg) \/ UNCHANGED <<id, via>>
          /\ up' = [up EXCEPT ![s] = Tail(@)]
          /\ down' = Send(s, Frame("textErr", Head(up[s]).msg))
          /\ UNCHANGED <<acked, sessionvars, deliveryvars, queuevars, clientvars, crashes>>
      BY <1>12, Zenon DEF TextUnavailable
    <2>2. id' \in [Messages -> Nat] /\ via' \in [Messages -> Sessions \cup {NoSession}]
      BY <1>0, <1>9, <1>10, <2>1, ZenonT(60) DEF TypeOK
    <2> QED BY <1>0, <1>9, <2>1, <2>2, Zenon DEF TypeOK
  <1>13. CASE TextRefused(s)
    <2>1. /\ Authorized(s, "text")
          /\ up' = [up EXCEPT ![s] = Tail(@)]
          /\ down' = Send(s, Frame("textErr", Head(up[s]).msg))
          /\ UNCHANGED <<dbvars, sessionvars, deliveryvars, queuevars, clientvars, crashes>>
      BY <1>13, Zenon DEF TextRefused
    <2> QED BY <1>0, <1>9, <2>1, Zenon DEF TypeOK
  <1>14. ASSUME Authorized(s, "ack")
         PROVE  /\ Head(up[s]).msg \in Messages /\ Tail(up[s]) \in Seq(Frames)
                /\ Acknowledged(s, Head(up[s]).msg) \subseteq Messages
    BY <1>0, <1>t, <1>14, Zenon DEF Authorized, Dealing, UpSound, Acknowledged, TypeOK
  <1>15. CASE AckFailed(s) BY <1>0, <1>14, <1>15, ZenonT(60) DEF AckFailed, TypeOK
  <1>16. ASSUME NEW queried \in BOOLEAN, TickDeliver(s, queried)
         PROVE  TypeOK'
    <2>1. down[s] \in Seq(Frames) BY <1>0, Zenon DEF TypeOK
    <2>2. /\ tracked' \subseteq Sessions /\ window' \in [Sessions -> SUBSET Messages]
          /\ down' \in [Sessions -> Seq(Frames)]
      <3>1. DeliverPendingTextMessages(s, acked, down[s], queried) BY <1>16, SMTT(30) DEF TickDeliver
      <3> QED BY <1>0, <2>1, <3>1, DeliverFacts, ZenonT(60)
    <2> QED BY <1>0, <1>16, <2>2, ZenonT(60) DEF TickDeliver, TypeOK
  <1>17. ASSUME NEW queried \in BOOLEAN, RunWake(s, queried)
         PROVE  TypeOK'
    <2>1. down[s] \in Seq(Frames) BY <1>0, Zenon DEF TypeOK
    <2>2. /\ tracked' \subseteq Sessions /\ window' \in [Sessions -> SUBSET Messages]
          /\ down' \in [Sessions -> Seq(Frames)]
      <3>1. CASE DeliverPendingTextMessages(s, acked, down[s], queried)
        BY <1>0, <3>1, <2>1, DeliverFacts, Zenon
      <3>2. CASE UNCHANGED <<deliveryvars, down>> BY <1>0, <3>2, Zenon DEF TypeOK
      <3> QED BY <1>17, <3>1, <3>2, ZenonT(60) DEF RunWake
    <2> QED BY <1>0, <1>17, <2>2, ZenonT(60) DEF RunWake, TypeOK
  <1>18. ASSUME NEW queried \in BOOLEAN, LoginReply(s, queried)
         PROVE  TypeOK'
    <2> DEFINE q == Append(down[s], Frame("loginRsp", NoMessage))
    <2>1. q \in Seq(Frames) BY <1>0, FrameType, AppendFacts DEF TypeOK, FrameTypes
    <2>2. /\ tracked' \subseteq Sessions /\ window' \in [Sessions -> SUBSET Messages]
          /\ down' \in [Sessions -> Seq(Frames)]
      <3>1. CASE DeliverPendingTextMessages(s, acked, q, queried)
        <4> HIDE DEF q
        <4> QED BY <1>0, <3>1, <2>1, DeliverFacts, Zenon
      <3>2. CASE UNCHANGED <<deliveryvars, down>> BY <1>0, <3>2, ZenonT(60) DEF TypeOK
      <3> QED BY <1>18, <3>1, <3>2, Zenon DEF LoginReply
    <2> QED BY <1>0, <1>18, <2>2, ZenonT(60) DEF LoginReply, TypeOK
  <1>19. ASSUME NEW queried \in BOOLEAN, AckCommitted(s, queried)
         PROVE  TypeOK'
    <2>1. Authorized(s, "ack") /\ down[s] \in Seq(Frames)
      BY <1>0, <1>19, ZenonT(60) DEF AckCommitted, TypeOK
    <2>2. /\ tracked' \subseteq Sessions /\ window' \in [Sessions -> SUBSET Messages]
          /\ down' \in [Sessions -> Seq(Frames)]
      <3>1. DeliverPendingTextMessages(s, acked', down[s], queried) BY <1>19, Zenon DEF AckCommitted
      <3> QED BY <1>0, <2>1, <3>1, DeliverFacts, Zenon
    <2> QED BY <1>0, <1>14, <1>19, <2>1, <2>2, ZenonT(60) DEF AckCommitted, TypeOK
  <1> QED BY <1>1, <1>2, <1>3, <1>4, <1>5, <1>6, <1>7, <1>8, <1>11, <1>12, <1>13,
             <1>15, <1>16, <1>17, <1>18, <1>19, ZenonT(60) DEF SessionStep

\* A step of a client keeps the types.
LEMMA TypeClient ==
  ASSUME IInv, NEW d \in Devices, ClientStep(d)
  PROVE  TypeOK'
  <1> USE DEF dbvars, sessionvars, deliveryvars, queuevars, clientvars
  <1>0. TypeOK BY Zenon DEF IInv
  <1>1. ASSUME NEW type, Receiving(d, type)
        PROVE  /\ conn[d] \in Sessions /\ down[conn[d]] # <<>>
               /\ down' \in [Sessions -> Seq(Frames)]
               /\ DownSound(conn[d], Head(down[conn[d]]))
               /\ Head(down[conn[d]]).type = type
    <2>1. conn[d] \in Sessions /\ down[conn[d]] # <<>> BY <1>0, <1>1, Zenon DEF Receiving, TypeOK
    <2>2. DownSound(conn[d], Head(down[conn[d]])) /\ Tail(down[conn[d]]) \in Seq(Frames)
      BY <2>1, HeadFacts, Zenon
    <2> QED BY <1>0, <1>1, <2>1, <2>2, Zenon DEF Receiving, TypeOK
  <1>2. ASSUME NEW s \in Sessions, NEW t \in FrameTypes, NEW m \in Messages
        PROVE  Write(s, Frame(t, m)) \in [Sessions -> Seq(Frames)]
    BY <1>0, FrameType, WriteFacts, Zenon
  <1>3. client[d] = "online" => conn[d] \in Sessions
    BY <1>0, ZenonT(60) DEF IInv, Soundness, ConnSound, TypeOK
  <1>4. CASE RecvLoginRsp(d)
    <2>1. down' \in [Sessions -> Seq(Frames)] BY <1>1, <1>4, Zenon DEF RecvLoginRsp
    <2> QED BY <1>0, <1>4, <2>1, Zenon DEF RecvLoginRsp, TypeOK
  <1>5. CASE RecvError(d)
    <2>1. down' \in [Sessions -> Seq(Frames)] BY <1>1, <1>5, Zenon DEF RecvError
    <2> QED BY <1>0, <1>5, <2>1, Zenon DEF RecvError, TypeOK
  <1>6. CASE RecvNotify(d)
    <2> DEFINE m == Head(down[conn[d]]).msg
    <2>1. /\ conn[d] \in Sessions /\ down' \in [Sessions -> Seq(Frames)]
          /\ m \in Rows
      BY <1>1, <1>6, Zenon DEF RecvNotify, DownSound
    <2>2. m \in Messages BY <2>1, Zenon DEF Rows
    <2>3. up' \in [Sessions -> Seq(Frames)]
      BY <1>2, <1>6, <2>1, <2>2, Zenon DEF RecvNotify, FrameTypes
    <2>4. /\ store' \in [Devices -> [Messages -> {"absent", "pending", "accepted", "received"}]]
          /\ shown' \in [Devices -> Seq(Messages)]
      <3> HIDE DEF m
      <3>1. store \in [Devices -> [Messages -> {"absent", "pending", "accepted", "received"}]]
        BY <1>0, SMTT(60) DEF TypeOK
      <3>2. store' = store \/ store' = [store EXCEPT ![d][m] = "received"]
        BY <1>6, ZenonT(60) DEF RecvNotify, Save, m
      <3>3. shown' = shown \/ shown' = [shown EXCEPT ![d] = Append(@, m)]
        BY <1>6, Zenon DEF RecvNotify, m
      <3>4. shown \in [Devices -> Seq(Messages)] BY <1>0, Zenon DEF TypeOK
      <3>5. store' \in [Devices -> [Messages -> {"absent", "pending", "accepted", "received"}]]
        <4>1. CASE store' = [store EXCEPT ![d][m] = "received"] BY <2>2, <3>1, <4>1, Zenon
        <4> QED BY <3>1, <3>2, <4>1, Zenon
      <3>6. shown' \in [Devices -> Seq(Messages)]
        <4>1. Append(shown[d], m) \in Seq(Messages) BY <2>2, <3>4, AppendFacts, Zenon
        <4>2. CASE shown' = [shown EXCEPT ![d] = Append(@, m)] BY <3>4, <4>1, <4>2, ZenonT(60)
        <4> QED BY <3>3, <3>4, <4>2, Zenon
      <3> QED BY <3>5, <3>6, Zenon
    <2> QED BY <1>0, <1>6, <2>1, <2>3, <2>4, ZenonT(60) DEF RecvNotify, TypeOK
  <1>7. CASE Disconnect(d) BY <1>0, <1>7 DEF Disconnect, TypeOK
  <1>8. ASSUME NEW saved \in BOOLEAN, RecvTextRsp(d, saved)
        PROVE  TypeOK'
    <2> DEFINE m == Head(down[conn[d]]).msg
    <2>1. down' \in [Sessions -> Seq(Frames)] /\ m \in Rows
      BY <1>1, <1>8, Zenon DEF RecvTextRsp, DownSound
    <2>2. m \in Messages BY <2>1, Zenon DEF Rows
    <2>3. store' = store \/ store' = [store EXCEPT ![d][m] = "accepted"]
      BY <1>8, Zenon DEF RecvTextRsp
    <2> QED BY <1>0, <1>8, <2>1, <2>2, <2>3, Zenon DEF RecvTextRsp, TypeOK
  <1>9. ASSUME NEW m \in Messages, EnqueueText(d, m)
        PROVE  TypeOK'
    <2>1. up' \in [Sessions -> Seq(Frames)]
      BY <1>0, <1>2, <1>3, <1>9, Zenon DEF EnqueueText, FrameTypes, TypeOK
    <2>2. store' \in [Devices -> [Messages -> {"absent", "pending", "accepted", "received"}]]
      BY <1>0, <1>9, Zenon DEF EnqueueText, Save, TypeOK
    <2> QED BY <1>0, <1>9, <2>1, <2>2, Zenon DEF EnqueueText, TypeOK
  <1>10. ASSUME NEW m \in Messages, FlushOutbox(d, m)
         PROVE  TypeOK'
    <2>1. up' \in [Sessions -> Seq(Frames)]
      BY <1>2, <1>3, <1>10, Zenon DEF FlushOutbox, FrameTypes
    <2> QED BY <1>0, <1>10, <2>1, Zenon DEF FlushOutbox, TypeOK
  <1> QED BY <1>4, <1>5, <1>6, <1>7, <1>8, <1>9, <1>10, Zenon DEF ClientStep

\* A crash or a wake-up keeps the types.
LEMMA TypeNode ==
  ASSUME IInv, NEW n \in Nodes, NodeStep(n)
  PROVE  TypeOK'
  <1> USE DEF dbvars, sessionvars, deliveryvars, queuevars, clientvars
  <1>0. TypeOK BY Zenon DEF IInv
  <1>1. CASE Crash(n)
    <2> USE <1>0, <1>1
    <2>1. crashes' \in 0 .. MaxCrashes BY Limits, SMTT(60) DEF Crash, TypeOK
    <2>2. /\ phase' \in [Sessions -> {"none", "open", "closing", "cleared"}]
          /\ step' \in [Sessions -> {"idle", "uid", "node", "session"}]
      BY SMTT(60) DEF Crash, TypeOK
    <2>3. /\ usermgr' \in [Nodes -> [Users -> Sessions \cup {NoSession}]]
          /\ notifyq' \subseteq Nodes \X Users
      BY SMTT(60) DEF Crash, TypeOK
    <2>4. /\ tracked' \subseteq Sessions /\ wakeq' \subseteq Sessions
          /\ window' \in [Sessions -> SUBSET Messages]
      BY SMTT(60) DEF Crash, TypeOK
    <2>5. up' \in [Sessions -> Seq(Frames)] BY DEF Crash, TypeOK
    <2>6. UNCHANGED <<dbvars, uid, uip, down, clientvars>> BY Zenon DEF Crash
    <2> QED BY <2>1, <2>2, <2>3, <2>4, <2>5, <2>6, SMTT(60) DEF TypeOK
  <1>2. ASSUME NEW u \in Users, NotifyRecipient(n, u)
        PROVE  TypeOK'
    <2>1. wakeq' \subseteq Sessions
      <3>1. ASSUME NEW k \in Nodes, WakeDelivery(k, u) PROVE wakeq' \subseteq Sessions
        BY <1>0, <3>1 DEF WakeDelivery, TypeOK
      <3> QED BY <1>0, <1>2, <3>1, ZenonT(60) DEF NotifyRecipient, TypeOK
    <2> QED BY <1>0, <1>2, <2>1, Zenon DEF NotifyRecipient, TypeOK
  <1> QED BY <1>1, <1>2, Zenon DEF NodeStep

-----------------------------------------------------------------------------
(* Rows and saved messages stay. *)

\* No step takes a committed row or a saved message back.
LEMMA Monotone ==
  ASSUME IInv, [Next]_vars
  PROVE  /\ Rows \subseteq Rows'
         /\ \A d \in Devices, m \in Messages :
              store[d][m] = "received" => store'[d][m] = "received"
  <1> USE DEF dbvars, sessionvars, deliveryvars, queuevars, clientvars
  <1>0. TypeOK BY Zenon DEF IInv
  <1>1. Rows \subseteq Rows'
    <2>1. ASSUME NEW s \in Sessions, NEW m, PersistTextMessages(s, m)
          PROVE  Rows \subseteq Rows'
      <3>1. CASE UNCHANGED <<id, via>> BY <3>1, Zenon DEF Rows
      <3>2. CASE id[m] = 0 /\ \E i \in FreshIds(s) : id' = [id EXCEPT ![m] = i]
        BY <1>0, <3>2, Zenon DEF Rows, TypeOK
      <3> QED BY <2>1, <3>1, <3>2, Zenon DEF PersistTextMessages
    <2>2. ASSUME NEW s \in Sessions, TextAccepted(s) PROVE Rows \subseteq Rows'
      BY <2>1, <2>2, Zenon DEF TextAccepted
    <2>3. ASSUME NEW s \in Sessions, TextUnavailable(s) PROVE Rows \subseteq Rows'
      <3>1. CASE UNCHANGED <<id, via>> BY <3>1, Zenon DEF Rows
      <3> QED BY <2>1, <2>3, <3>1, Zenon DEF TextUnavailable
    <2>4. CASE UNCHANGED id BY <2>4, Zenon DEF Rows
    <2>5. ASSUME NEW s \in Sessions, SessionStep(s), ~TextAccepted(s), ~TextUnavailable(s)
          PROVE  UNCHANGED id
      BY <2>5, Zenon DEF SessionStep, Connect, Close, ClearSession, TickErase, LoginReject,
         LoginSetUserId, LoginSetNode, LoginSetUserSession, TextRefused, AckFailed,
         TickDeliver, RunWake, LoginReply, AckCommitted
    <2>6. ASSUME NEW d \in Devices, ClientStep(d) PROVE UNCHANGED id
      BY <2>6, Zenon DEF ClientStep, RecvLoginRsp, RecvError, RecvNotify, Disconnect,
         RecvTextRsp, EnqueueText, FlushOutbox
    <2>7. ASSUME NEW n \in Nodes, NodeStep(n) PROVE UNCHANGED id
      BY <2>7, Zenon DEF NodeStep, Crash, NotifyRecipient
    <2> QED BY <2>2, <2>3, <2>4, <2>5, <2>6, <2>7, ZenonT(60) DEF Next, vars
  <1>2. ASSUME NEW d \in Devices, NEW m \in Messages, store[d][m] = "received"
        PROVE  store'[d][m] = "received"
    <2>1. ASSUME NEW s \in Sessions, SessionStep(s) PROVE UNCHANGED store
      BY <2>1, Zenon DEF SessionStep, Connect, Close, ClearSession, TickErase, LoginReject,
         LoginSetUserId, LoginSetNode, LoginSetUserSession, TextAccepted, TextUnavailable,
         TextRefused, AckFailed, TickDeliver, RunWake, LoginReply, AckCommitted
    <2>2. ASSUME NEW n \in Nodes, NodeStep(n) PROVE UNCHANGED store
      BY <2>2, Zenon DEF NodeStep, Crash, NotifyRecipient
    <2>3. ASSUME NEW c \in Devices, ClientStep(c) PROVE store'[d][m] = "received"
      <3>1. ASSUME NEW k \in Messages, NEW state, Save(c, k, state)
            PROVE  store'[d][m] = "received"
        BY <1>0, <1>2, <3>1, ZenonT(60) DEF Save, TypeOK
      <3>2. ASSUME NEW saved \in BOOLEAN, RecvTextRsp(c, saved)
            PROVE  store'[d][m] = "received"
        <4> DEFINE k == Head(down[conn[c]]).msg
        <4>1. store' = store \/ store' = [store EXCEPT ![c][k] = "accepted"]
          BY <3>2, Zenon DEF RecvTextRsp
        <4>2. conn[c] \in Sessions /\ down[conn[c]] # <<>> /\ Head(down[conn[c]]).type = "textRsp"
          BY <1>0, <3>2, Zenon DEF RecvTextRsp, Receiving, TypeOK
        <4>3. k \in Messages /\ Origin[k] = c
          <5>1. SessionDevice[conn[c]] = c
            BY <4>2, Distinct, Zenon DEF IInv, Soundness, ConnSound
          <5>2. DownSound(conn[c], Head(down[conn[c]])) BY <4>2, HeadFacts, Zenon
          <5> QED BY <4>2, <5>1, <5>2, Zenon DEF DownSound, Rows
        <4>4. Receiver[m] = DeviceUser[d] BY <1>2, Zenon DEF IInv, Soundness, StoreSound
        <4>5. ~(c = d /\ k = m) BY <4>3, <4>4, NotToOneself, Zenon
        <4> HIDE DEF k
        <4>6. store[c] \in [Messages -> {"absent", "pending", "accepted", "received"}]
          BY <1>0, ZenonT(60) DEF TypeOK
        <4>7. CASE store' = [store EXCEPT ![c][k] = "accepted"]
          BY <1>0, <1>2, <4>3, <4>5, <4>6, <4>7, SMTT(60) DEF TypeOK
        <4> QED BY <1>2, <4>1, <4>7, Zenon
      <3>3. CASE RecvNotify(c)
        <4>1. conn[c] \in Sessions /\ down[conn[c]] # <<>> /\ Head(down[conn[c]]).type = "notify"
          BY <1>0, <3>3, Zenon DEF RecvNotify, Receiving, TypeOK
        <4>2. Head(down[conn[c]]).msg \in Messages
          BY <4>1, HeadFacts, Zenon DEF DownSound, Rows
        <4> QED BY <3>1, <3>3, <4>2, Zenon DEF RecvNotify
      <3>4. ASSUME NEW k \in Messages, EnqueueText(c, k) PROVE store'[d][m] = "received"
        BY <3>1, <3>4, Zenon DEF EnqueueText
      <3>5. CASE RecvLoginRsp(c) \/ RecvError(c) \/ Disconnect(c)
                 \/ \E k \in Messages : FlushOutbox(c, k)
        BY <1>2, <3>5, Zenon DEF RecvLoginRsp, RecvError, Disconnect, FlushOutbox
      <3> QED BY <2>3, <3>2, <3>3, <3>4, <3>5, Zenon DEF ClientStep
    <2> QED BY <1>2, <2>1, <2>2, <2>3, Zenon DEF Next, vars
  <1> QED BY <1>1, <1>2, Zenon

-----------------------------------------------------------------------------
(* Soundness. *)

\* The initial stores and queues are sound.
LEMMA SoundInit == Init => Soundness
  <1> SUFFICES ASSUME Init PROVE Soundness OBVIOUS
  <1>1. \A m \in Elems(Backlog) : m \in Rows
    <2> SUFFICES ASSUME NEW m \in Elems(Backlog) PROVE m \in Rows OBVIOUS
    <2>1. PICK i \in DOMAIN Backlog : Backlog[i] = m BY Zenon DEF Elems
    <2>2. DOMAIN Backlog \subseteq Nat \ {0} /\ m \in Messages BY <2>1, Topology
    <2>3. BacklogId(m) \in DOMAIN Backlog BY <2>1, Zenon DEF BacklogId
    <2> QED BY <2>2, <2>3, Zenon DEF Init, Rows
  <1>2. \A s \in Sessions : Len(up[s]) = 0 /\ Len(down[s]) = 0 BY ZenonT(60) DEF Init
  <1>3. \A d \in Devices : ConnSound(d) /\ \A m \in Messages : StoreSound(d, m)
    BY <1>1, Distinct DEF Init, ConnSound, StoreSound, Elems
  <1>4. acked = {} BY Zenon DEF Init
  <1> QED BY <1>2, <1>3, <1>4 DEF Soundness, AckedIsStored

\* A frame on its way up stays sound while the device keeps what it saved.
LEMMA UpKept ==
  ASSUME NEW s \in Sessions, NEW i, NEW j, up'[s][i] = up[s][j], UpSound(s, up[s][j]),
         \A d \in Devices, m \in Messages : store[d][m] = "received" => store'[d][m] = "received"
  PROVE  UpSound(s, up[s][i])'
  <1>1. SessionDevice[s] \in Devices BY Topology, Zenon
  <1> QED BY <1>1, SMTT(60) DEF UpSound

\* Frames in flight stay sound when no row or saved message is taken back and
\* the new ones are sound.
LEMMA FramesSound ==
  ASSUME IInv, Rows \subseteq Rows',
         \A d \in Devices, m \in Messages : store[d][m] = "received" => store'[d][m] = "received",
         \A s \in Sessions : \A i \in 1 .. Len(up'[s]) :
           (\E j \in 1 .. Len(up[s]) : up'[s][i] = up[s][j]) \/ UpSound(s, up[s][i])',
         \A s \in Sessions : \A i \in 1 .. Len(down'[s]) :
           (\E j \in 1 .. Len(down[s]) : down'[s][i] = down[s][j]) \/ DownSound(s, down[s][i])'
  PROVE  /\ \A s \in Sessions : \A i \in 1 .. Len(up'[s]) : UpSound(s, up[s][i])'
         /\ \A s \in Sessions : \A i \in 1 .. Len(down'[s]) : DownSound(s, down[s][i])'
  <1>1. ASSUME NEW s \in Sessions, NEW i \in 1 .. Len(up'[s]) PROVE UpSound(s, up[s][i])'
    <2>1. SUFFICES ASSUME NEW j \in 1 .. Len(up[s]), up'[s][i] = up[s][j]
                   PROVE  UpSound(s, up[s][i])'
      BY SMTT(30)
    <2>2. UpSound(s, up[s][j]) BY Zenon DEF IInv, Soundness
    <2> QED BY <2>1, <2>2, UpKept, ZenonT(60)
  <1>2. ASSUME NEW s \in Sessions, NEW i \in 1 .. Len(down'[s]) PROVE DownSound(s, down[s][i])'
    <2>1. SUFFICES ASSUME NEW j \in 1 .. Len(down[s]), down'[s][i] = down[s][j]
                   PROVE  DownSound(s, down[s][i])'
      BY ZenonT(60)
    <2>2. DownSound(s, down[s][j]) BY SMTT(30) DEF IInv, Soundness
    <2> QED BY <2>1, <2>2, ZenonT(60) DEF DownSound, SessionUser
  <1> QED BY <1>1, <1>2, SMTT(60)

\* Dealing with a frame takes it off the queue and adds none.
LEMMA UpShrinks ==
  ASSUME IInv, NEW s \in Sessions, up[s] # <<>>, up' = [up EXCEPT ![s] = Tail(@)]
  PROVE  \A t \in Sessions : \A i \in 1 .. Len(up'[t]) :
           \E j \in 1 .. Len(up[t]) : up'[t][i] = up[t][j]
  <1>1. up \in [Sessions -> Seq(Frames)] BY Zenon DEF IInv, TypeOK
  <1> SUFFICES ASSUME NEW t \in Sessions, NEW i \in 1 .. Len(up'[t])
               PROVE  \E j \in 1 .. Len(up[t]) : up'[t][i] = up[t][j]
    OBVIOUS
  <1>2. CASE t # s BY <1>1, <1>2, Zenon
  <1>3. CASE t = s
    <2>1. up'[t] = Tail(up[s]) BY <1>1, <1>3, Zenon
    <2>2. i + 1 \in 1 .. Len(up[s]) /\ Tail(up[s])[i] = up[s][i + 1]
      <3>1. up[s] \in Seq(Frames) BY <1>1, Zenon
      <3>2. \A k \in 1 .. Len(Tail(up[s])) : k + 1 \in 1 .. Len(up[s]) /\ Tail(up[s])[k] = up[s][k + 1]
        BY <3>1, TailFacts, ZenonT(60)
      <3> QED BY <2>1, <3>2, Zenon
    <2> QED BY <1>3, <2>1, <2>2, Zenon
  <1> QED BY <1>2, <1>3, Zenon

\* Receiving a frame takes it off the queue and adds none.
LEMMA DownShrinks ==
  ASSUME IInv, NEW s \in Sessions, down[s] # <<>>, down' = [down EXCEPT ![s] = Tail(@)]
  PROVE  \A t \in Sessions : \A i \in 1 .. Len(down'[t]) :
           \E j \in 1 .. Len(down[t]) : down'[t][i] = down[t][j]
  <1>1. down \in [Sessions -> Seq(Frames)] BY Zenon DEF IInv, TypeOK
  <1> SUFFICES ASSUME NEW t \in Sessions, NEW i \in 1 .. Len(down'[t])
               PROVE  \E j \in 1 .. Len(down[t]) : down'[t][i] = down[t][j]
    OBVIOUS
  <1>2. CASE t # s BY <1>1, <1>2, Zenon
  <1>3. CASE t = s
    <2>1. down'[t] = Tail(down[s]) BY <1>1, <1>3, Zenon
    <2>2. i + 1 \in 1 .. Len(down[s]) /\ Tail(down[s])[i] = down[s][i + 1]
      <3>1. down[s] \in Seq(Frames) BY <1>1, Zenon
      <3>2. \A k \in 1 .. Len(Tail(down[s])) : k + 1 \in 1 .. Len(down[s]) /\ Tail(down[s])[k] = down[s][k + 1]
        BY <3>1, TailFacts, ZenonT(60)
      <3> QED BY <2>1, <3>2, Zenon
    <2> QED BY <1>3, <2>1, <2>2, Zenon
  <1> QED BY <1>2, <1>3, Zenon

\* A step of a session adds no frame to a client's queue but the login.
LEMMA SessionUp ==
  ASSUME IInv, NEW s \in Sessions, SessionStep(s)
  PROVE  \A t \in Sessions : \A i \in 1 .. Len(up'[t]) :
           (\E j \in 1 .. Len(up[t]) : up'[t][i] = up[t][j]) \/ UpSound(t, up[t][i])'
  <1> USE DEF dbvars, sessionvars, deliveryvars, queuevars, clientvars
  <1>0. up \in [Sessions -> Seq(Frames)] BY SMTT(30) DEF IInv, TypeOK
  <1>1. CASE up' = up BY <1>1, Zenon
  <1>2. CASE up[s] # <<>> /\ up' = [up EXCEPT ![s] = Tail(@)]
    BY <1>2, UpShrinks, Zenon
  <1>3. CASE Connect(s)
    <2>1. up' = [up EXCEPT ![s] = <<Frame("login", NoMessage)>>]
      BY <1>3, Zenon DEF Connect, TcpConnect
    <2>2. \A t \in Sessions \ {s} : up'[t] = up[t] BY <1>0, <2>1, Zenon
    <2>3. up'[s] = <<Frame("login", NoMessage)>> BY <1>0, <2>1, ZenonT(60)
    <2>4. \A i \in 1 .. Len(up'[s]) : up'[s][i].type = "login"
      BY <2>3 DEF Frame
    <2>5. \A i \in 1 .. Len(up'[s]) : UpSound(s, up[s][i])'
      BY <2>4, Zenon DEF UpSound
    <2> QED BY <2>2, <2>5, Zenon
  <1>4. CASE Close(s)
    <2>1. up' = [up EXCEPT ![s] = <<>>] BY <1>4, Zenon DEF Close
    <2> QED BY <1>0, <2>1
  <1>5. CASE LoginReject(s) \/ LoginSetUserId(s)
    BY <1>2, <1>5, Zenon DEF LoginReject, LoginSetUserId, Dealing
  <1>6. CASE TextAccepted(s) \/ TextUnavailable(s) \/ TextRefused(s) \/ AckFailed(s)
    <2>1. up[s] # <<>> /\ up' = [up EXCEPT ![s] = Tail(@)]
      BY <1>6, Zenon DEF TextAccepted, TextUnavailable, TextRefused, AckFailed, Authorized, Dealing
    <2> QED BY <1>2, <2>1, Zenon
  <1>7. ASSUME NEW queried \in BOOLEAN, AckCommitted(s, queried)
        PROVE  up[s] # <<>> /\ up' = [up EXCEPT ![s] = Tail(@)]
    BY <1>7, Zenon DEF AckCommitted, Authorized, Dealing
  <1>8. ASSUME NEW queried \in BOOLEAN,
               TickDeliver(s, queried) \/ RunWake(s, queried) \/ LoginReply(s, queried)
        PROVE  up' = up
    BY <1>8, ZenonT(60) DEF TickDeliver, RunWake, LoginReply
  <1>9. CASE ClearSession(s) \/ TickErase(s) \/ LoginSetNode(s) \/ LoginSetUserSession(s)
    <2>1. up' = up BY <1>9, Zenon DEF ClearSession, TickErase, LoginSetNode, LoginSetUserSession
    <2> QED BY <1>1, <2>1, SMTT(30)
  <1> QED BY <1>1, <1>2, <1>3, <1>4, <1>5, <1>6, <1>7, <1>8, <1>9, ZenonT(60) DEF SessionStep

\* What a session sends is sound: an acceptance follows the commit, and a
\* delivery carries a committed row.
LEMMA SessionDown ==
  ASSUME IInv, NEW s \in Sessions, SessionStep(s), Rows \subseteq Rows'
  PROVE  \A t \in Sessions : \A i \in 1 .. Len(down'[t]) :
           (\E j \in 1 .. Len(down[t]) : down'[t][i] = down[t][j]) \/ DownSound(t, down[t][i])'
  <1> USE DEF dbvars, sessionvars, deliveryvars, queuevars, clientvars
  <1> DEFINE Goal == \A t \in Sessions : \A i \in 1 .. Len(down'[t]) :
           (\E j \in 1 .. Len(down[t]) : down'[t][i] = down[t][j]) \/ DownSound(t, down[t][i])'
  <1> SUFFICES Goal BY Zenon
  <1>0. TypeOK BY Zenon DEF IInv
  <1>1. CASE down' = down BY <1>1, Zenon
  <1>2. ASSUME NEW type \in {"loginErr", "textErr"}, NEW m \in Messages \cup {NoMessage},
               down' = Send(s, Frame(type, m))
        PROVE  Goal
    <2>1. Frame(type, m) \in Frames /\ Frame(type, m).type = type
      BY FrameType DEF FrameTypes
    <2>2. \A t \in Sessions : \A i \in 1 .. Len(down'[t]) :
            \/ i \in 1 .. Len(down[t]) /\ down'[t][i] = down[t][i]
            \/ t = s /\ down'[t][i] = Frame(type, m)
      <3> DEFINE f == Frame(type, m)
      <3>1. f \in Frames BY <2>1, Zenon
      <3> HIDE DEF f
      <3>2. \A t \in Sessions : \A i \in 1 .. Len(Send(s, f)[t]) :
              \/ i \in 1 .. Len(down[t]) /\ Send(s, f)[t][i] = down[t][i]
              \/ t = s /\ Send(s, f)[t][i] = f
        BY <1>0, <3>1, SendFacts, ZenonT(60)
      <3> QED BY <1>2, <3>2, Zenon DEF f
    <2>3. ASSUME NEW t \in Sessions, NEW i \in 1 .. Len(down'[t]), down'[t][i] = Frame(type, m)
          PROVE  DownSound(t, down[t][i])'
      BY <2>1, <2>3, Zenon DEF DownSound
    <2> QED BY <2>2, <2>3, Zenon
  <1>3. ASSUME NEW queried, NEW acks, NEW q \in Seq(Frames),
               DeliverPendingTextMessages(s, acks, q, queried),
               \A i \in 1 .. Len(q) : (i \in 1 .. Len(down[s]) /\ q[i] = down[s][i])
                                      \/ q[i] = Frame("loginRsp", NoMessage)
        PROVE  Goal
    <2>1. /\ \A t \in Sessions \ {s} : down'[t] = down[t]
          /\ \A i \in 1 .. Len(down'[s]) :
               \/ i \in 1 .. Len(q) /\ down'[s][i] = q[i]
               \/ \E m \in Rows : Receiver[m] = SessionUser(s) /\ down'[s][i] = Frame("notify", m)
      BY <1>0, <1>3, DeliverFacts, Zenon
    <2>2. ASSUME NEW i \in 1 .. Len(down'[s]), down'[s][i] = Frame("loginRsp", NoMessage)
          PROVE  DownSound(s, down[s][i])'
      <3>1. down'[s][i].type = "loginRsp" BY <2>2 DEF Frame
      <3> QED BY <3>1, SMTT(60) DEF DownSound
    <2>3. ASSUME NEW i \in 1 .. Len(down'[s]), NEW m \in Rows,
                 Receiver[m] = SessionUser(s), down'[s][i] = Frame("notify", m)
          PROVE  DownSound(s, down[s][i])'
      <3>1. m \in Rows' BY Rows \subseteq Rows', SMTT(60)
      <3>2. down'[s][i].type = "notify" /\ down'[s][i].msg = m BY <2>3, SMTT(30) DEF Frame
      <3> QED BY <2>3, <3>1, <3>2, ZenonT(60) DEF DownSound, SessionUser
    <2> QED BY <1>3, <2>1, <2>2, <2>3, ZenonT(60)
  <1>4. CASE TextAccepted(s)
    <2> DEFINE m == Head(up[s]).msg
    <2>1. /\ down' = Send(s, Frame("textRsp", m)) /\ PersistTextMessages(s, m)
          /\ up[s] # <<>> /\ Head(up[s]).type = "text"
      BY <1>4, Zenon DEF TextAccepted, Authorized, Dealing
    <2>2. m \in Messages /\ Origin[m] = SessionDevice[s]
      BY <2>1, HeadFacts, Zenon DEF UpSound
    <2> HIDE DEF m
    <2>3. m \in Rows'
      <3>1. CASE id[m] # 0 /\ id' = id BY <2>2, <3>1, Zenon DEF Rows
      <3>2. CASE \E i \in FreshIds(s) : id' = [id EXCEPT ![m] = i]
        <4>1. PICK i \in FreshIds(s) : id' = [id EXCEPT ![m] = i] BY <3>2, Zenon
        <4>2. i # 0 BY FreshIdsType, ZenonT(60)
        <4> QED BY <1>0, <2>2, <4>1, <4>2, ZenonT(60) DEF Rows, TypeOK
      <3> QED BY <2>1, <3>1, <3>2, ZenonT(60) DEF PersistTextMessages
    <2>4. /\ Frame("textRsp", m) \in Frames /\ Frame("textRsp", m).type = "textRsp"
          /\ Frame("textRsp", m).msg = m
      BY <2>2, FrameType, SMTT(60) DEF FrameTypes
    <2>5. \A t \in Sessions : \A i \in 1 .. Len(down'[t]) :
            \/ i \in 1 .. Len(down[t]) /\ down'[t][i] = down[t][i]
            \/ t = s /\ down'[t][i] = Frame("textRsp", m)
      BY <1>0, <2>1, <2>4, SendFacts, SMTT(60)
    <2>6. ASSUME NEW i \in 1 .. Len(down'[s]), down'[s][i] = Frame("textRsp", m)
          PROVE  DownSound(s, down[s][i])'
      BY <2>2, <2>3, <2>4, <2>6, Zenon DEF DownSound
    <2> QED BY <2>5, <2>6, Zenon
  <1>5. CASE TextUnavailable(s) \/ TextRefused(s)
    <2>1. /\ down' = Send(s, Frame("textErr", Head(up[s]).msg))
          /\ up[s] # <<>> /\ Head(up[s]).type = "text"
      BY <1>5, Zenon DEF TextUnavailable, TextRefused, Authorized, Dealing
    <2>2. Head(up[s]).msg \in Messages BY <2>1, HeadFacts, Zenon DEF UpSound
    <2> QED BY <1>2, <2>1, <2>2, Zenon
  <1>6. CASE LoginReject(s) BY <1>2, <1>6, Zenon DEF LoginReject
  <1>7. ASSUME NEW queried \in BOOLEAN, NEW acks,
               DeliverPendingTextMessages(s, acks, down[s], queried)
        PROVE  Goal
    <2>1. down[s] \in Seq(Frames) BY <1>0, Zenon DEF TypeOK
    <2> HIDE DEF Goal
    <2> QED BY <1>3, <1>7, <2>1, Zenon
  <1>8. ASSUME NEW queried \in BOOLEAN, LoginReply(s, queried)
        PROVE  Goal
    <2> DEFINE q == Append(down[s], Frame("loginRsp", NoMessage))
    <2>1. /\ q \in Seq(Frames)
          /\ \A i \in 1 .. Len(q) : (i \in 1 .. Len(down[s]) /\ q[i] = down[s][i])
                                      \/ q[i] = Frame("loginRsp", NoMessage)
      <3> DEFINE f == Frame("loginRsp", NoMessage)
      <3>1. f \in Frames BY FrameType, Zenon DEF FrameTypes
      <3>2. down[s] \in Seq(Frames) BY <1>0, Zenon DEF TypeOK
      <3> HIDE DEF f
      <3>3. /\ Append(down[s], f) \in Seq(Frames)
            /\ \A i \in 1 .. Len(Append(down[s], f)) :
                 \/ i \in 1 .. Len(down[s]) /\ Append(down[s], f)[i] = down[s][i]
                 \/ Append(down[s], f)[i] = f
        BY <3>1, <3>2, AppendFacts, ZenonT(60)
      <3> QED BY <3>3, Zenon DEF f
    <2>2. DeliverPendingTextMessages(s, acked, q, queried) \/ down' = down
      BY <1>8, Zenon DEF LoginReply
    <2> HIDE DEF q, Goal
    <2> QED BY <1>1, <1>3, <2>1, <2>2, Zenon
  <1>9. ASSUME NEW queried \in BOOLEAN,
               TickDeliver(s, queried) \/ RunWake(s, queried) \/ AckCommitted(s, queried)
        PROVE  Goal
    <2>1. \/ \E acks : DeliverPendingTextMessages(s, acks, down[s], queried)
          \/ down' = down
      BY <1>9, Zenon DEF TickDeliver, RunWake, AckCommitted
    <2> HIDE DEF Goal
    <2> QED BY <1>1, <1>7, <2>1, Zenon
  <1>10. CASE \/ Connect(s) \/ Close(s) \/ ClearSession(s) \/ TickErase(s)
              \/ LoginSetUserId(s) \/ LoginSetNode(s) \/ LoginSetUserSession(s) \/ AckFailed(s)
    <2>1. down' = down
      BY <1>10, Zenon DEF Connect, Close, ClearSession, TickErase, LoginSetUserId, LoginSetNode,
         LoginSetUserSession, AckFailed
    <2> QED BY <1>1, <2>1, ZenonT(60)
  <1> HIDE DEF Goal
  <1> QED BY <1>4, <1>5, <1>6, <1>8, <1>9, <1>10, ZenonT(60) DEF SessionStep

\* A step of a session leaves the stores alone and acknowledges only what a
\* device of the receiver saved.
LEMMA SessionStores ==
  ASSUME IInv, NEW s \in Sessions, SessionStep(s), Rows \subseteq Rows'
  PROVE  /\ \A d \in Devices : ConnSound(d)' /\ \A m \in Messages : StoreSound(d, m)'
         /\ acked' \subseteq Rows'
         /\ AckedIsStored'
  <1> USE DEF dbvars, sessionvars, deliveryvars, queuevars, clientvars
  <1>0. TypeOK /\ Soundness BY Zenon DEF IInv
  <1>1. store' = store /\ shown' = shown
    BY Zenon DEF SessionStep, Connect, Close, ClearSession, TickErase, LoginReject,
       LoginSetUserId, LoginSetNode, LoginSetUserSession, TextAccepted, TextUnavailable,
       TextRefused, AckFailed, TickDeliver, RunWake, LoginReply, AckCommitted
  <1>2. ASSUME NEW d \in Devices, NEW m \in Messages PROVE StoreSound(d, m)'
    <2>1. StoreSound(d, m) BY <1>0, Zenon DEF Soundness
    <2> QED BY <1>1, <2>1, Zenon DEF StoreSound, Elems
  <1>3. ASSUME NEW d \in Devices PROVE ConnSound(d)'
    <2>1. ConnSound(d) BY <1>0, Zenon DEF Soundness
    <2>2. CASE Connect(s)
      <3>1. /\ conn' = [conn EXCEPT ![SessionDevice[s]] = s]
            /\ client' = [client EXCEPT ![SessionDevice[s]] = "closed"]
        BY <2>2, Zenon DEF Connect, TcpConnect
      <3> QED BY <1>0, <2>1, <3>1, Topology, Distinct, ZenonT(60) DEF ConnSound, TypeOK
    <2>3. ASSUME ~Connect(s) PROVE conn' = conn /\ client' = client
      BY <2>3, ZenonT(60) DEF SessionStep, Close, ClearSession, TickErase, LoginReject,
         LoginSetUserId, LoginSetNode, LoginSetUserSession, TextAccepted, TextUnavailable,
         TextRefused, AckFailed, TickDeliver, RunWake, LoginReply, AckCommitted
    <2> QED BY <2>1, <2>2, <2>3, Zenon DEF ConnSound
  <1>4. ASSUME NEW m \in acked'
        PROVE  /\ m \in Rows'
               /\ \E d \in Devices : DeviceUser[d] = Receiver[m] /\ store[d][m] = "received"
    <2>1. CASE m \in acked
      BY <1>0, <2>1, Zenon DEF Soundness, AckedIsStored
    <2>2. ASSUME Authorized(s, "ack"), acked' \in {acked, Acknowledged(s, Head(up[s]).msg)},
                 m \notin acked
          PROVE  /\ m \in Rows
                 /\ \E d \in Devices : DeviceUser[d] = Receiver[m] /\ store[d][m] = "received"
      <3>1. up[s] # <<>> /\ Head(up[s]).type = "ack" BY <2>2, Zenon DEF Authorized, Dealing
      <3>2. UpSound(s, Head(up[s])) BY <3>1, HeadFacts, Zenon
      <3>3. m = Head(up[s]).msg /\ id[m] # 0 /\ Receiver[m] = SessionUser(s)
        BY <2>2, <1>4, ZenonT(60) DEF Acknowledged
      <3>4. m \in Messages /\ store[SessionDevice[s]][m] = "received"
        BY <3>1, <3>2, <3>3, ZenonT(60) DEF UpSound
      <3> QED BY <3>3, <3>4, Topology, Zenon DEF SessionUser, Rows
    <2>3. CASE AckFailed(s)
      BY <2>1, <2>2, <2>3, Zenon DEF AckFailed
    <2>4. ASSUME NEW queried \in BOOLEAN, AckCommitted(s, queried)
          PROVE  Authorized(s, "ack") /\ acked' \in {acked, Acknowledged(s, Head(up[s]).msg)}
      BY <2>4, Zenon DEF AckCommitted
    <2>5. ASSUME ~AckFailed(s), ~\E queried \in BOOLEAN : AckCommitted(s, queried)
          PROVE  acked' = acked
      BY <2>5, ZenonT(60) DEF SessionStep, Connect, Close, ClearSession, TickErase, LoginReject,
         LoginSetUserId, LoginSetNode, LoginSetUserSession, TextAccepted, TextUnavailable,
         TextRefused, TickDeliver, RunWake, LoginReply
    <2> QED BY <2>1, <2>2, <2>3, <2>4, <2>5, SMTT(60)
  <1>5. acked' \subseteq Rows' BY <1>4, Zenon
  <1>6. AckedIsStored' BY <1>1, <1>4, ZenonT(60) DEF AckedIsStored
  <1> QED BY <1>2, <1>3, <1>5, <1>6, ZenonT(60)

\* What a client writes is sound: its own texts, and ACKs of what it saved.
LEMMA ClientUp ==
  ASSUME IInv, NEW d \in Devices, ClientStep(d)
  PROVE  \A t \in Sessions : \A i \in 1 .. Len(up'[t]) :
           (\E j \in 1 .. Len(up[t]) : up'[t][i] = up[t][j]) \/ UpSound(t, up[t][i])'
  <1> USE DEF dbvars, sessionvars, deliveryvars, queuevars, clientvars
  <1> DEFINE Goal == \A t \in Sessions : \A i \in 1 .. Len(up'[t]) :
           (\E j \in 1 .. Len(up[t]) : up'[t][i] = up[t][j]) \/ UpSound(t, up[t][i])'
  <1> SUFFICES Goal OBVIOUS
  <1>0. TypeOK /\ Soundness BY Zenon DEF IInv
  <1>1. CASE up' = up BY <1>1, SMTT(30)
  <1>2. ASSUME NEW s \in Sessions, NEW f \in Frames, up' = Write(s, f),
               f.type \in {"text", "ack"}, f.msg \in Messages,
               f.type = "text" => Origin[f.msg] = SessionDevice[s],
               f.type = "ack" => store'[SessionDevice[s]][f.msg] = "received"
        PROVE  Goal
    <2>1. \A t \in Sessions : \A i \in 1 .. Len(up'[t]) :
            \/ i \in 1 .. Len(up[t]) /\ up'[t][i] = up[t][i]
            \/ t = s /\ up'[t][i] = f
      <3>1. \A t \in Sessions : \A i \in 1 .. Len(Write(s, f)[t]) :
              \/ i \in 1 .. Len(up[t]) /\ Write(s, f)[t][i] = up[t][i]
              \/ t = s /\ Write(s, f)[t][i] = f
        BY <1>0, WriteFacts, Zenon
      <3> QED BY <1>2, <3>1, Zenon
    <2>2. ASSUME NEW i \in 1 .. Len(up'[s]), up'[s][i] = f
          PROVE  UpSound(s, up[s][i])'
      BY <1>2, <2>2, ZenonT(60) DEF UpSound
    <2> QED BY <2>1, <2>2, Zenon
  <1>3. client[d] = "online" => conn[d] \in Sessions /\ SessionDevice[conn[d]] = d
    BY <1>0, ZenonT(60) DEF Soundness, ConnSound, TypeOK
  <1>4. ASSUME NEW m \in Messages, client[d] = "online", Origin[m] = d,
               up' = Write(conn[d], Frame("text", m))
        PROVE  Goal
    <2>1. /\ Frame("text", m) \in Frames /\ Frame("text", m).type = "text"
          /\ Frame("text", m).msg = m
      BY FrameType, Zenon DEF FrameTypes
    <2> HIDE DEF Goal
    <2> QED BY <1>2, <1>3, <1>4, <2>1, Zenon
  <1>5. ASSUME NEW m \in Messages, EnqueueText(d, m) PROVE Goal
    BY <1>1, <1>4, <1>5, Zenon DEF EnqueueText
  <1>6. ASSUME NEW m \in Messages, FlushOutbox(d, m) PROVE Goal
    BY <1>4, <1>6, Zenon DEF FlushOutbox
  <1>7. CASE RecvNotify(d)
    <2> DEFINE m == Head(down[conn[d]]).msg
    <2>1. /\ conn[d] \in Sessions /\ SessionDevice[conn[d]] = d /\ down[conn[d]] # <<>>
          /\ Head(down[conn[d]]).type = "notify"
      BY <1>3, <1>7, Zenon DEF RecvNotify, Receiving
    <2>2. m \in Messages /\ Receiver[m] = DeviceUser[d]
      BY <2>1, HeadFacts, ZenonT(60) DEF DownSound, Rows, SessionUser
    <2>3. Save(d, m, "received") /\ up' = Write(conn[d], Frame("ack", m))
      BY <1>7, Zenon DEF RecvNotify
    <2> HIDE DEF m
    <2>4. store'[d][m] = "received"
      <3>1. StoreSound(d, m) BY <1>0, <2>2, Zenon DEF Soundness
      <3>2. store[d][m] \notin {"pending", "accepted"}
        BY <2>2, <3>1, NotToOneself, ZenonT(60) DEF StoreSound
      <3>0. store \in [Devices -> [Messages -> {"absent", "pending", "accepted", "received"}]]
        BY <1>0, Zenon DEF TypeOK
      <3>3. /\ store \in [Devices -> [Messages -> {"absent", "pending", "accepted", "received"}]]
            /\ store[d][m] \in {"absent", "received"}
        BY <2>2, <3>0, <3>2, ZenonT(60)
      <3>4. CASE store[d][m] = "absent"
        <4>1. store' = [store EXCEPT ![d][m] = "received"] BY <2>3, <3>4, Zenon DEF Save
        <4> QED BY <2>2, <3>3, <4>1, ZenonT(60)
      <3>5. CASE store[d][m] = "received"
        <4>1. store' = store BY <2>3, <3>5, Zenon DEF Save
        <4> QED BY <3>5, <4>1, Zenon
      <3> QED BY <3>3, <3>4, <3>5, Zenon
    <2>5. /\ Frame("ack", m) \in Frames /\ Frame("ack", m).type = "ack"
          /\ Frame("ack", m).msg = m
      BY <2>2, FrameType, Zenon DEF FrameTypes
    <2> HIDE DEF Goal
    <2> QED BY <1>2, <2>1, <2>2, <2>3, <2>4, <2>5, ZenonT(60)
  <1>8. CASE \/ RecvLoginRsp(d) \/ RecvError(d) \/ Disconnect(d)
             \/ \E saved \in BOOLEAN : RecvTextRsp(d, saved)
    <2>1. up' = up BY <1>8, Zenon DEF RecvLoginRsp, RecvError, Disconnect, RecvTextRsp
    <2> QED BY <1>1, <2>1, Zenon
  <1> HIDE DEF Goal
  <1> QED BY <1>5, <1>6, <1>7, <1>8, SMTT(60) DEF ClientStep

\* A client takes frames off its connection and adds none to it.
LEMMA ClientDown ==
  ASSUME IInv, NEW d \in Devices, ClientStep(d)
  PROVE  \A t \in Sessions : \A i \in 1 .. Len(down'[t]) :
           \E j \in 1 .. Len(down[t]) : down'[t][i] = down[t][j]
  <1> USE DEF dbvars, sessionvars, deliveryvars, queuevars, clientvars
  <1>0. TypeOK BY Zenon DEF IInv
  <1>1. CASE down' = down BY <1>1, Zenon
  <1>2. ASSUME NEW type, Receiving(d, type)
        PROVE  \A t \in Sessions : \A i \in 1 .. Len(down'[t]) :
                 \E j \in 1 .. Len(down[t]) : down'[t][i] = down[t][j]
    <2>1. /\ conn[d] \in Sessions /\ down[conn[d]] # <<>>
          /\ down' = [down EXCEPT ![conn[d]] = Tail(@)]
      BY <1>0, <1>2, ZenonT(60) DEF Receiving, TypeOK
    <2> QED BY <2>1, DownShrinks, Zenon
  <1>3. CASE Disconnect(d)
    <2>1. conn[d] \in Sessions /\ down' = [down EXCEPT ![conn[d]] = <<>>]
      BY <1>0, <1>3, Zenon DEF Disconnect, TypeOK
    <2> QED BY <1>0, <2>1 DEF TypeOK
  <1>4. CASE \E m \in Messages : EnqueueText(d, m) \/ FlushOutbox(d, m)
    <2>1. down' = down BY <1>4, Zenon DEF EnqueueText, FlushOutbox
    <2> QED BY <1>1, <2>1, Zenon
  <1>5. CASE RecvLoginRsp(d) \/ RecvError(d) \/ RecvNotify(d)
    BY <1>2, <1>5, ZenonT(60) DEF RecvLoginRsp, RecvError, RecvNotify
  <1>6. CASE \E saved \in BOOLEAN : RecvTextRsp(d, saved)
    BY <1>2, <1>6, Zenon DEF RecvTextRsp
  <1> QED BY <1>3, <1>4, <1>5, <1>6, ZenonT(60) DEF ClientStep

\* A client's store stays sound: a message is shown when it is first saved,
\* and called accepted only when a sound reply says so.
LEMMA ClientStores ==
  ASSUME IInv, NEW c \in Devices, ClientStep(c)
  PROVE  /\ \A d \in Devices : ConnSound(d)' /\ \A m \in Messages : StoreSound(d, m)'
         /\ Rows' = Rows /\ acked' = acked
  <1> USE DEF dbvars, sessionvars, deliveryvars, queuevars, clientvars
  <1>0. TypeOK /\ Soundness BY Zenon DEF IInv
  <1>1. id' = id /\ acked' = acked
    BY Zenon DEF ClientStep, RecvLoginRsp, RecvError, RecvNotify, Disconnect, RecvTextRsp,
       EnqueueText, FlushOutbox
  <1>2. Rows' = Rows BY <1>1, Zenon DEF Rows
  <1>3. ASSUME NEW d \in Devices PROVE ConnSound(d)'
    <2>1. ConnSound(d) BY <1>0, Zenon DEF Soundness
    <2>2. CASE conn' = conn /\ client' = client BY <2>1, <2>2, ZenonT(60) DEF ConnSound
    <2>3. CASE RecvLoginRsp(c)
      <3>1. /\ conn' = conn /\ conn[c] # NoSession
            /\ client' = [client EXCEPT ![c] = "online"]
        BY <2>3, Zenon DEF RecvLoginRsp, Receiving
      <3> QED BY <1>0, <2>1, <3>1, ZenonT(60) DEF ConnSound, TypeOK
    <2>4. CASE Disconnect(c)
      BY <1>0, <2>1, <2>4, ZenonT(60) DEF Disconnect, ConnSound, TypeOK
    <2>5. CASE ~RecvLoginRsp(c) /\ ~Disconnect(c)
      <3>1. conn' = conn /\ client' = client
        BY <2>5, Zenon DEF ClientStep, RecvError, RecvNotify, RecvTextRsp, EnqueueText, FlushOutbox
      <3> QED BY <2>2, <3>1, Zenon
    <2> QED BY <2>3, <2>4, <2>5, ZenonT(60)
  <1>4. ASSUME NEW d \in Devices, NEW m \in Messages PROVE StoreSound(d, m)'
    <2>1. StoreSound(d, m) BY <1>0, Zenon DEF Soundness
    <2>2. CASE store'[d][m] = store[d][m] /\ shown' = shown
      BY <1>2, <2>1, <2>2, ZenonT(60) DEF StoreSound, Elems
    <2>3. ASSUME NEW k \in Messages, EnqueueText(c, k) PROVE StoreSound(d, m)'
      <3>1. /\ store[c][k] = "absent" /\ store' = [store EXCEPT ![c][k] = "pending"]
            /\ shown' = shown /\ Origin[k] = c
        BY <2>3, Zenon DEF EnqueueText, Save
      <3>2. CASE d = c /\ m = k
        <4>1. store'[d][m] = "pending" BY <1>0, <3>1, <3>2, ZenonT(60) DEF TypeOK
        <4>2. m \notin Elems(shown[d]) BY <2>1, <3>1, <3>2, ZenonT(60) DEF StoreSound
        <4> QED BY <3>1, <3>2, <4>1, <4>2, ZenonT(60) DEF StoreSound, Elems
      <3>3. CASE ~(d = c /\ m = k)
        <4>1. store'[d][m] = store[d][m] BY <1>0, <3>1, <3>3, ZenonT(60) DEF TypeOK
        <4> QED BY <2>2, <3>1, <4>1, ZenonT(60)
      <3> QED BY <3>2, <3>3, Zenon
    <2>4. ASSUME NEW saved \in BOOLEAN, RecvTextRsp(c, saved) PROVE StoreSound(d, m)'
      <3> DEFINE k == Head(down[conn[c]]).msg
      <3>1. /\ shown' = shown
            /\ store' = store \/ store' = [store EXCEPT ![c][k] = "accepted"]
        BY <2>4, Zenon DEF RecvTextRsp
      <3>2. conn[c] \in Sessions /\ down[conn[c]] # <<>> /\ Head(down[conn[c]]).type = "textRsp"
        BY <1>0, <2>4, Zenon DEF RecvTextRsp, Receiving, TypeOK
      <3>3. SessionDevice[conn[c]] = c BY <1>0, <3>2, Distinct, ZenonT(60) DEF Soundness, ConnSound
      <3>4. k \in Rows /\ k \in Messages /\ Origin[k] = c
        BY <3>2, <3>3, HeadFacts, ZenonT(60) DEF DownSound, Rows
      <3> HIDE DEF k
      <3>5. CASE store' = [store EXCEPT ![c][k] = "accepted"] /\ d = c /\ m = k
        <4>1. store'[d][m] = "accepted" BY <1>0, <3>5, ZenonT(60) DEF TypeOK
        <4>2. store[d][m] # "received"
          BY <2>1, <3>4, <3>5, NotToOneself, SMTT(60) DEF StoreSound
        <4>3. m \notin Elems(shown[d]) BY <2>1, <4>2, ZenonT(60) DEF StoreSound
        <4> QED BY <1>2, <3>1, <3>4, <3>5, <4>1, <4>3, ZenonT(60) DEF StoreSound, Elems
      <3>6. CASE store' = [store EXCEPT ![c][k] = "accepted"] /\ ~(d = c /\ m = k)
        <4>1. store'[d][m] = store[d][m] BY <1>0, <3>4, <3>6, ZenonT(60) DEF TypeOK
        <4> QED BY <2>2, <3>1, <4>1, SMTT(60)
      <3> QED BY <2>2, <3>1, <3>5, <3>6, ZenonT(60)
    <2>5. CASE RecvNotify(c)
      <3> DEFINE k == Head(down[conn[c]]).msg
      <3>1. /\ conn[c] \in Sessions /\ down[conn[c]] # <<>>
            /\ Head(down[conn[c]]).type = "notify" /\ Receiver[k] = DeviceUser[c]
        BY <1>0, <2>5, Zenon DEF RecvNotify, Receiving, TypeOK
      <3>2. k \in Rows /\ k \in Messages BY <3>1, HeadFacts, Zenon DEF DownSound, Rows
      <3>3. /\ Save(c, k, "received")
            /\ shown' = IF store[c][k] = "absent"
                          THEN [shown EXCEPT ![c] = Append(@, k)] ELSE shown
        BY <2>5, Zenon DEF RecvNotify
      <3> HIDE DEF k
      <3>4. CASE store[c][k] # "absent"
        <4>1. store' = store /\ shown' = shown BY <3>3, <3>4, Zenon DEF Save
        <4> QED BY <2>2, <4>1, Zenon
      <3>5. CASE store[c][k] = "absent"
        <4>1. /\ store' = [store EXCEPT ![c][k] = "received"]
              /\ shown' = [shown EXCEPT ![c] = Append(@, k)]
          BY <3>3, <3>5, ZenonT(60) DEF Save
        <4>2. Elems(shown[c])' = Elems(shown[c]) \cup {k}
          <5>1. shown[c] \in Seq(Messages) /\ shown'[c] = Append(shown[c], k)
            BY <1>0, <4>1, ZenonT(60) DEF TypeOK
          <5>2. /\ DOMAIN Append(shown[c], k) = 1 .. Len(shown[c]) + 1
                /\ DOMAIN shown[c] = 1 .. Len(shown[c])
                /\ Append(shown[c], k)[Len(shown[c]) + 1] = k
                /\ \A i \in 1 .. Len(shown[c]) : Append(shown[c], k)[i] = shown[c][i]
            BY <5>1, <3>2, SMTT(60)
          <5>3. Len(shown[c]) \in Nat BY <5>1
          <5> QED BY <5>1, <5>2, <5>3 DEF Elems
        <4>3. CASE d = c /\ m = k
          <5>1. store'[d][m] = "received" BY <1>0, <4>1, <4>3, ZenonT(60) DEF TypeOK
          <5>2. m \in Elems(shown[d])' BY <4>2, <4>3, SMTT(30)
          <5> QED BY <1>2, <3>1, <3>2, <4>3, <5>1, <5>2, ZenonT(60) DEF StoreSound
        <4>4. CASE d = c /\ m # k
          <5>1. store'[d][m] = store[d][m] BY <1>0, <3>2, <4>1, <4>4, ZenonT(60) DEF TypeOK
          <5>2. m \in Elems(shown[d])' <=> m \in Elems(shown[d]) BY <4>2, <4>4, Zenon
          <5> QED BY <1>2, <2>1, <5>1, <5>2, ZenonT(60) DEF StoreSound
        <4>5. CASE d # c
          <5>1. store'[d] = store[d] /\ shown'[d] = shown[d]
            BY <1>0, <4>1, <4>5, ZenonT(60) DEF TypeOK
          <5> QED BY <1>2, <2>1, <5>1, ZenonT(60) DEF StoreSound, Elems
        <4> QED BY <4>3, <4>4, <4>5, Zenon
      <3> QED BY <3>4, <3>5, Zenon
    <2>6. CASE \/ RecvLoginRsp(c) \/ RecvError(c) \/ Disconnect(c)
               \/ \E k \in Messages : FlushOutbox(c, k)
      <3>1. store' = store /\ shown' = shown
        BY <2>6, Zenon DEF RecvLoginRsp, RecvError, Disconnect, FlushOutbox
      <3> QED BY <2>2, <3>1, Zenon
    <2> QED BY <2>3, <2>4, <2>5, <2>6, ZenonT(60) DEF ClientStep
  <1> QED BY <1>1, <1>2, <1>3, <1>4, ZenonT(60)

\* A crash or a wake-up only drops frames.
LEMMA NodeSound ==
  ASSUME IInv, NEW n \in Nodes, NodeStep(n)
  PROVE  /\ \A t \in Sessions : \A i \in 1 .. Len(up'[t]) :
              \E j \in 1 .. Len(up[t]) : up'[t][i] = up[t][j]
         /\ down' = down /\ id' = id /\ acked' = acked
         /\ conn' = conn /\ client' = client /\ store' = store /\ shown' = shown
  <1> USE DEF dbvars, sessionvars, deliveryvars, queuevars, clientvars
  <1>0. TypeOK BY Zenon DEF IInv
  <1>1. CASE Crash(n)
    <2>1. \A t \in Sessions : up'[t] = <<>> \/ up'[t] = up[t]
      BY <1>0, <1>1, ZenonT(60) DEF Crash, TypeOK
    <2>2. \A t \in Sessions : \A i \in 1 .. Len(up'[t]) :
            \E j \in 1 .. Len(up[t]) : up'[t][i] = up[t][j]
      BY <2>1
    <2>3. UNCHANGED <<dbvars, uid, uip, down, clientvars>> BY <1>1, Zenon DEF Crash
    <2> QED BY <2>2, <2>3, Zenon
  <1>2. CASE \E u \in Users : NotifyRecipient(n, u)
    BY <1>2, Zenon DEF NotifyRecipient
  <1> QED BY <1>1, <1>2, Zenon DEF NodeStep

\* Every step keeps the types and Soundness.
LEMMA IInvStep == IInv /\ [Next]_vars => IInv'
  <1> SUFFICES ASSUME IInv, [Next]_vars PROVE IInv' OBVIOUS
  <1>1. /\ Rows \subseteq Rows'
        /\ \A d \in Devices, m \in Messages :
             store[d][m] = "received" => store'[d][m] = "received"
    BY Monotone, Zenon
  <1>2. Soundness BY Zenon DEF IInv
  <1>3. ASSUME NEW s \in Sessions, SessionStep(s) PROVE IInv'
    <2>1. TypeOK' BY <1>3, TypeSession, Zenon
    <2>2. /\ \A t \in Sessions : \A i \in 1 .. Len(up'[t]) : UpSound(t, up[t][i])'
          /\ \A t \in Sessions : \A i \in 1 .. Len(down'[t]) : DownSound(t, down[t][i])'
      BY <1>1, <1>3, SessionUp, SessionDown, FramesSound, ZenonT(60)
    <2> QED BY <1>1, <1>3, <2>1, <2>2, SessionStores, ZenonT(60) DEF IInv, Soundness
  <1>4. ASSUME NEW d \in Devices, ClientStep(d) PROVE IInv'
    <2>1. TypeOK' BY <1>4, TypeClient, Zenon
    <2>2. /\ \A t \in Sessions : \A i \in 1 .. Len(up'[t]) : UpSound(t, up[t][i])'
          /\ \A t \in Sessions : \A i \in 1 .. Len(down'[t]) : DownSound(t, down[t][i])'
      BY <1>1, <1>4, ClientUp, ClientDown, FramesSound, ZenonT(60)
    <2>3. /\ \A c \in Devices : ConnSound(c)' /\ \A m \in Messages : StoreSound(c, m)'
          /\ Rows' = Rows /\ acked' = acked
      BY <1>4, ClientStores, Zenon
    <2>4. AckedIsStored' /\ acked' \subseteq Rows'
      <3>1. acked \subseteq Messages BY Zenon DEF IInv, TypeOK
      <3> QED BY <1>1, <1>2, <2>3, <3>1, ZenonT(60) DEF Soundness, AckedIsStored
    <2> QED BY <2>1, <2>2, <2>3, <2>4, ZenonT(60) DEF IInv, Soundness
  <1>5. ASSUME NEW n \in Nodes, NodeStep(n) PROVE IInv'
    <2>1. TypeOK' BY <1>5, TypeNode, Zenon
    <2>2. /\ \A t \in Sessions : \A i \in 1 .. Len(up'[t]) :
               \E j \in 1 .. Len(up[t]) : up'[t][i] = up[t][j]
          /\ down' = down /\ id' = id /\ acked' = acked
          /\ conn' = conn /\ client' = client /\ store' = store /\ shown' = shown
      BY <1>5, NodeSound, Zenon
    <2>3. /\ \A t \in Sessions : \A i \in 1 .. Len(up'[t]) : UpSound(t, up[t][i])'
          /\ \A t \in Sessions : \A i \in 1 .. Len(down'[t]) : DownSound(t, down[t][i])'
      BY <1>1, <2>2, FramesSound, ZenonT(60)
    <2>4. /\ \A d \in Devices : ConnSound(d)' /\ \A m \in Messages : StoreSound(d, m)'
          /\ (acked \subseteq Rows)' /\ AckedIsStored'
      <3>1. ASSUME NEW d \in Devices PROVE ConnSound(d)'
        BY <1>2, <2>2, Zenon DEF Soundness, ConnSound
      <3>2. ASSUME NEW d \in Devices, NEW m \in Messages PROVE StoreSound(d, m)'
        <4>1. StoreSound(d, m) BY <1>2, Zenon DEF Soundness
        <4> QED BY <2>2, <4>1, Zenon DEF StoreSound, Rows, Elems
      <3>3. (acked \subseteq Rows)' /\ AckedIsStored'
        BY <1>2, <2>2, Zenon DEF Soundness, AckedIsStored, Rows
      <3> QED BY <3>1, <3>2, <3>3, ZenonT(60)
    <2> QED BY <2>1, <2>3, <2>4, ZenonT(60) DEF IInv, Soundness
  <1>6. CASE UNCHANGED vars
    <2> USE <1>6 DEF vars, dbvars, sessionvars, deliveryvars, queuevars, clientvars
    <2>1. TypeOK' BY Zenon DEF IInv, TypeOK
    <2>2. Rows' = Rows /\ AckedIsStored' BY <1>2, Zenon DEF Rows, Soundness, AckedIsStored
    <2>3. \A d \in Devices : ConnSound(d)' /\ \A m \in Messages : StoreSound(d, m)'
      <3>1. ASSUME NEW d \in Devices PROVE ConnSound(d)'
        BY <1>2, Zenon DEF Soundness, ConnSound
      <3>2. ASSUME NEW d \in Devices, NEW m \in Messages PROVE StoreSound(d, m)'
        <4>1. StoreSound(d, m) BY <1>2, Zenon DEF Soundness
        <4> QED BY <2>2, <4>1, ZenonT(60) DEF StoreSound, Elems
      <3> QED BY <3>1, <3>2, Zenon
    <2>4. \A s \in Sessions : \A i \in 1 .. Len(up'[s]) : UpSound(s, up[s][i])'
      BY <1>2, ZenonT(60) DEF Soundness, UpSound
    <2>5. \A s \in Sessions : \A i \in 1 .. Len(down'[s]) : DownSound(s, down[s][i])'
      BY <1>2, <2>2, ZenonT(60) DEF Soundness, DownSound
    <2>6. (acked \subseteq Rows)' BY <1>2, <2>2, Zenon DEF Soundness
    <2> QED BY <2>1, <2>2, <2>3, <2>4, <2>5, <2>6, ZenonT(60) DEF IInv, Soundness
  <1> QED BY <1>3, <1>4, <1>5, <1>6, ZenonT(60) DEF Next

-----------------------------------------------------------------------------
(* The theorems. *)

\* Every reachable state of the message service is well typed and sound: each
\* frame in flight, store entry and acknowledgement is backed by the state it
\* reports.
THEOREM Invariance == Spec => []IInv
  <1>1. Init => IInv BY TypeInit, SoundInit, Zenon DEF IInv
  <1> QED BY <1>1, IInvStep, PTL DEF Spec

\* The variables keep their types.
THEOREM TypeCorrect == Spec => []TypeOK
  <1>1. IInv => TypeOK BY Zenon DEF IInv
  <1> QED BY <1>1, Invariance, PTL

\* A message the sender's store calls accepted has a row: no acceptance is
\* reported before PersistTextMessages committed, and no row is ever lost.
THEOREM AcceptanceCorrect == Spec => []AcceptedIsPersisted
  <1>1. IInv => AcceptedIsPersisted
    BY Zenon DEF IInv, Soundness, StoreSound, AcceptedIsPersisted, Rows
  <1> QED BY <1>1, Invariance, PTL

\* An acknowledged row is held by a device of its receiver: redelivery never
\* stops before the message is safe.
THEOREM AcknowledgementCorrect == Spec => []AckedIsStored
  <1>1. IInv => AckedIsStored BY Zenon DEF IInv, Soundness
  <1> QED BY <1>1, Invariance, PTL

-----------------------------------------------------------------------------
(* The message service implements the abstract mailbox: under the mapping  *)
(* of rows to accepted, of acknowledged rows to settled and of what a      *)
(* device hands to its UI to shown, every step is a step of Mailbox or     *)
(* leaves its variables alone.  Soundness supplies what the steps of the   *)
(* mailbox require: a delivered message has a row, and an acknowledged one *)
(* was shown.                                                              *)

\* The initial stores are those of an empty mailbox with a backlog.
LEMMA RefineInit == Init => Service!Init
  BY Zenon DEF Init, Service!Init, Rows

\* A commit that inserts a row accepts that message; one that finds the row
\* changes nothing.
LEMMA RefinePersist ==
  ASSUME IInv, NEW s \in Sessions, NEW m \in Messages,
         PersistTextMessages(s, m), UNCHANGED <<shown, acked>>
  PROVE  Service!Accept(m) \/ UNCHANGED Service!mailvars
  <1>0. TypeOK BY Zenon DEF IInv
  <1>1. CASE id' = id
    BY <1>1, Zenon DEF Service!mailvars, Rows
  <1>2. CASE id[m] = 0 /\ \E i \in FreshIds(s) : id' = [id EXCEPT ![m] = i]
    <2>1. PICK i \in FreshIds(s) : id' = [id EXCEPT ![m] = i] BY <1>2, Zenon
    <2>2. i # 0 BY FreshIdsType, Zenon
    <2>3. Rows' = Rows \cup {m} BY <1>0, <2>1, <2>2, ZenonT(60) DEF Rows, TypeOK
    <2>4. m \notin Rows BY <1>2, Zenon DEF Rows
    <2> QED BY <2>3, <2>4, Zenon DEF Service!Accept
  <1> QED BY <1>1, <1>2, Zenon DEF PersistTextMessages

\* An acknowledgement settles a message that a device of its receiver shows.
LEMMA RefineAck ==
  ASSUME IInv, NEW s \in Sessions, Authorized(s, "ack"),
         acked' \in {acked, Acknowledged(s, Head(up[s]).msg)}, UNCHANGED <<id, shown>>
  PROVE  (\E m \in Messages : Service!Settle(m)) \/ UNCHANGED Service!mailvars
  <1> DEFINE m == Head(up[s]).msg
  <1>1. Rows' = Rows BY Zenon DEF Rows
  <1>2. CASE acked' = acked BY <1>1, <1>2, Zenon DEF Service!mailvars
  <1>3. CASE acked' # acked
    <2>1. /\ acked' = acked \cup {m}
          /\ id[m] # 0 /\ Receiver[m] = SessionUser(s)
      BY <1>3, Zenon DEF Acknowledged
    <2>2. up[s] # <<>> /\ Head(up[s]).type = "ack" BY Zenon DEF Authorized, Dealing
    <2>3. m \in Messages /\ store[SessionDevice[s]][m] = "received"
      BY <2>2, HeadFacts, ZenonT(60) DEF UpSound
    <2>4. SessionDevice[s] \in Devices BY Topology, Zenon
    <2>5. m \in Elems(shown[SessionDevice[s]])
      BY <2>3, <2>4, ZenonT(60) DEF IInv, Soundness, StoreSound
    <2>6. m \in Service!Shown(SessionDevice[s]) BY <2>5, Zenon DEF Elems, Service!Shown
    <2>7. DeviceUser[SessionDevice[s]] = Receiver[m] BY <2>1, Zenon DEF SessionUser
    <2>8. m \in Rows BY <2>1, <2>3, Zenon DEF Rows
    <2> HIDE DEF m
    <2> QED BY <1>1, <2>1, <2>3, <2>4, <2>6, <2>7, <2>8, ZenonT(60) DEF Service!Settle
  <1> QED BY <1>2, <1>3, Zenon

\* A delivered message is shown the first time it is saved and only then.
LEMMA RefineShow ==
  ASSUME IInv, NEW d \in Devices, RecvNotify(d)
  PROVE  (\E m \in Messages : Service!Show(d, m)) \/ UNCHANGED Service!mailvars
  <1> USE DEF dbvars, sessionvars, deliveryvars, queuevars, clientvars
  <1> DEFINE m == Head(down[conn[d]]).msg
  <1>0. TypeOK BY Zenon DEF IInv
  <1>1. /\ conn[d] \in Sessions /\ down[conn[d]] # <<>> /\ Head(down[conn[d]]).type = "notify"
        /\ Receiver[m] = DeviceUser[d] /\ id' = id /\ acked' = acked
        /\ shown' = IF store[d][m] = "absent"
                      THEN [shown EXCEPT ![d] = Append(@, m)] ELSE shown
    BY <1>0, Zenon DEF RecvNotify, Receiving, TypeOK
  <1>2. Rows' = Rows BY <1>1, Zenon DEF Rows
  <1>3. m \in Rows /\ m \in Messages BY <1>1, HeadFacts, ZenonT(60) DEF DownSound, Rows
  <1> HIDE DEF m
  <1>4. CASE store[d][m] # "absent" BY <1>1, <1>2, <1>4, ZenonT(60) DEF Service!mailvars
  <1>5. CASE store[d][m] = "absent"
    <2>1. m \notin Elems(shown[d]) BY <1>3, <1>5, Zenon DEF IInv, Soundness, StoreSound
    <2>2. m \notin Service!Shown(d) BY <2>1, Zenon DEF Elems, Service!Shown
    <2> QED BY <1>1, <1>2, <1>3, <1>5, <2>2, ZenonT(60) DEF Service!Show
  <1> QED BY <1>4, <1>5, ZenonT(60)

\* Every step is one of the mailbox or leaves it alone.
LEMMA RefineStep == IInv /\ [Next]_vars => [Service!Next]_(Service!mailvars)
  <1> SUFFICES ASSUME IInv, [Next]_vars
               PROVE  Service!Next \/ UNCHANGED Service!mailvars
    OBVIOUS
  <1> USE DEF dbvars, sessionvars, deliveryvars, queuevars, clientvars
  <1>1. CASE UNCHANGED <<id, shown, acked>> BY <1>1, Zenon DEF Service!mailvars, Rows
  <1>2. ASSUME NEW s \in Sessions, TextAccepted(s) \/ TextUnavailable(s)
        PROVE  Service!Next \/ UNCHANGED Service!mailvars
    <2> DEFINE m == Head(up[s]).msg
    <2>1. /\ PersistTextMessages(s, m) \/ UNCHANGED <<id, via>>
          /\ UNCHANGED <<shown, acked>> /\ up[s] # <<>> /\ Head(up[s]).type = "text"
      BY <1>2, Zenon DEF TextAccepted, TextUnavailable, Authorized, Dealing
    <2>2. m \in Messages BY <2>1, HeadFacts, Zenon DEF UpSound
    <2> HIDE DEF m
    <2> QED BY <1>1, <2>1, <2>2, RefinePersist, ZenonT(60) DEF Service!Next
  <1>3. ASSUME NEW s \in Sessions, AckFailed(s)
        PROVE  Service!Next \/ UNCHANGED Service!mailvars
    BY <1>3, RefineAck, Zenon DEF AckFailed, Service!Next
  <1>4. ASSUME NEW s \in Sessions, NEW queried \in BOOLEAN, AckCommitted(s, queried)
        PROVE  Service!Next \/ UNCHANGED Service!mailvars
    <2>1. /\ Authorized(s, "ack") /\ UNCHANGED <<id, shown>>
          /\ acked' \in {acked, Acknowledged(s, Head(up[s]).msg)}
      BY <1>4, ZenonT(60) DEF AckCommitted
    <2> QED BY <2>1, RefineAck, Zenon DEF Service!Next
  <1>5. ASSUME NEW s \in Sessions, SessionStep(s), ~TextAccepted(s), ~TextUnavailable(s),
               ~AckFailed(s), ~\E queried \in BOOLEAN : AckCommitted(s, queried)
        PROVE  UNCHANGED <<id, shown, acked>>
    BY <1>5, ZenonT(60) DEF SessionStep, Connect, Close, ClearSession, TickErase, LoginReject,
       LoginSetUserId, LoginSetNode, LoginSetUserSession, TextRefused, TickDeliver,
       RunWake, LoginReply
  <1>6. ASSUME NEW d \in Devices, RecvNotify(d)
        PROVE  Service!Next \/ UNCHANGED Service!mailvars
    BY <1>6, RefineShow, SMTT(60) DEF Service!Next
  <1>7. ASSUME NEW d \in Devices, ClientStep(d), ~RecvNotify(d)
        PROVE  UNCHANGED <<id, shown, acked>>
    BY <1>7, ZenonT(60) DEF ClientStep, RecvLoginRsp, RecvError, Disconnect, RecvTextRsp, EnqueueText,
       FlushOutbox
  <1>8. ASSUME NEW n \in Nodes, NodeStep(n) PROVE UNCHANGED <<id, shown, acked>>
    BY <1>8, ZenonT(60) DEF NodeStep, Crash, NotifyRecipient
  <1>9. UNCHANGED vars => UNCHANGED <<id, shown, acked>> BY Zenon DEF vars
  <1> QED BY <1>1, <1>2, <1>3, <1>4, <1>5, <1>6, <1>7, <1>8, <1>9, ZenonT(60) DEF Next

\* The message service is a mailbox: a message is accepted once and for good,
\* each device of its receiver shows it at most once and only then, and it is
\* settled only after one of them did.
THEOREM Refinement == Spec => ServiceSpec
  BY RefineInit, RefineStep, Invariance, PTL DEF Spec, ServiceSpec, Service!Spec
=============================================================================
