------------------------- MODULE TextDelivery_order -------------------------
(***************************************************************************)
(* A device shows a message once, and the messages one session of a sender *)
(* committed in the order of their rows, for every topology, backlog,      *)
(* capacity and number of crashes.  ShownOnceInOrder speaks of what was    *)
(* shown only; Ordered adds what is in flight and what a window takes for  *)
(* sent.  A message that is shown or on its way to a device either has all *)
(* its predecessors ahead of it, or the missing one was settled by another *)
(* device of the user, and no query returns a settled row again.           *)
(***************************************************************************)
EXTENDS TextDelivery_proofs

OInv == IInv /\ Ordered

-----------------------------------------------------------------------------
(* Frames and rows. *)

\* A delivery frame determines its message.
LEMMA NotifyFrame ==
  /\ \A m : Frame("notify", m).type = "notify" /\ Frame("notify", m).msg = m
  /\ \A k, m : Frame("notify", k) = Frame("notify", m) => k = m
  BY Zenon DEF Frame

\* Taking the head off a queue shortens it by one.
LEMMA TailLength ==
  ASSUME NEW S, NEW q \in Seq(S), q # <<>>
  PROVE  Len(q) \in Nat \ {0} /\ Len(Tail(q)) = Len(q) - 1
  OBVIOUS

\* Steps that commit no row leave the order of the rows alone.
LEMMA RowsStay ==
  ASSUME OInv, UNCHANGED <<id, via>>
  PROVE  /\ RowsDistinct' /\ Rows' = Rows
         /\ \A k, x \in Messages : Before(k, x)' <=> Before(k, x)
  <1>1. Rows' = Rows BY Zenon DEF Rows
  <1>2. RowsDistinct BY Zenon DEF OInv, Ordered
  <1> QED BY <1>1, <1>2, Zenon DEF RowsDistinct, Before

\* A commit gives the row an id of its own, above those its session committed
\* before, so a row that is there gets no new predecessor.
LEMMA PersistKeepsOrder ==
  ASSUME OInv, NEW s \in Sessions, NEW m \in Messages,
         PersistTextMessages(s, m) \/ UNCHANGED <<id, via>>
  PROVE  /\ RowsDistinct'
         /\ \A k, x \in Messages : Before(k, x)' /\ x \in Rows => Before(k, x)
  <1>0. TypeOK /\ RowsDistinct BY Zenon DEF OInv, IInv, Ordered
  <1>1. CASE UNCHANGED <<id, via>>
    <2>1. Rows' = Rows BY <1>1, Zenon DEF Rows
    <2> QED BY <1>0, <1>1, <2>1, Zenon DEF RowsDistinct, Before
  <1>2. CASE ~UNCHANGED <<id, via>>
    <2>1. PICK i \in FreshIds(s) : id' = [id EXCEPT ![m] = i]
      BY <1>2, Zenon DEF PersistTextMessages
    <2>2. id[m] = 0 /\ via' = [via EXCEPT ![m] = s] BY <1>2, Zenon DEF PersistTextMessages
    <2>3. /\ i \in Nat \ {0}
          /\ \A k \in Rows : id[k] # i /\ (via[k] = s => i > id[k])
      BY <2>1, Zenon DEF FreshIds
    <2>4. /\ id \in [Messages -> Nat] /\ via \in [Messages -> Sessions \cup {NoSession}]
      BY <1>0, Zenon DEF TypeOK
    <2>5. Rows' = Rows \cup {m} /\ m \notin Rows BY <2>1, <2>2, <2>3, <2>4, ZenonT(60) DEF Rows
    <2>6. /\ id'[m] = i /\ via'[m] = s
          /\ \A k \in Rows : id'[k] = id[k] /\ via'[k] = via[k] /\ k \in Messages
      BY <2>1, <2>2, <2>4, <2>5, ZenonT(60) DEF Rows
    <2>7. RowsDistinct' BY <1>0, <2>3, <2>5, <2>6 DEF RowsDistinct
    <2>8. ASSUME NEW k \in Messages, NEW x \in Rows, Before(k, x)' PROVE Before(k, x)
      <3>1. k \in Rows \cup {m} /\ via'[k] = via'[x] /\ id'[k] < id'[x] /\ Receiver[k] = Receiver[x]
        BY <2>5, <2>8, Zenon DEF Before
      <3>2. k # m
        <4> SUFFICES ASSUME k = m PROVE FALSE OBVIOUS
        <4>1. via[x] = s /\ i < id[x] BY <2>6, <3>1, Zenon
        <4>2. i > id[x] /\ id[x] \in Nat BY <2>3, <2>4, <2>6, <4>1, ZenonT(60)
        <4> QED BY <2>3, <4>1, <4>2
      <3> QED BY <2>6, <3>1, <3>2, Zenon DEF Before
    <2> QED BY <2>7, <2>8, Zenon
  <1> QED BY <1>1, <1>2, Zenon

\* The backlog has a row, and an id of its own, for each of its messages.
LEMMA OrderInit == Init => Ordered
  <1> SUFFICES ASSUME Init PROVE Ordered OBVIOUS
  <1>1. ASSUME NEW m \in Messages, id[m] # 0
        PROVE  id[m] \in DOMAIN Backlog /\ Backlog[id[m]] = m
    <2>1. id[m] = BacklogId(m) /\ m \in Elems(Backlog) BY <1>1, Zenon DEF Init, BacklogId
    <2>2. \E i \in DOMAIN Backlog : Backlog[i] = m BY <2>1, Zenon DEF Elems
    <2>3. id[m] = CHOOSE i \in DOMAIN Backlog : Backlog[i] = m BY <2>1, Zenon DEF BacklogId
    <2> QED BY <2>2, <2>3, Zenon
  <1>2. RowsDistinct BY <1>1, Zenon DEF RowsDistinct, Rows
  <1>3. /\ \A s \in Sessions : down[s] = <<>> /\ window[s] = {} /\ Len(down[s]) = 0
        /\ \A d \in Devices : shown[d] = <<>> /\ conn[d] = NoSession /\ Len(shown[d]) = 0
    BY Zenon DEF Init
  <1>4. Unopened BY <1>3, Zenon DEF Unopened
  <1>5. WindowIsSent BY <1>3, Zenon DEF WindowIsSent
  <1>6. SentInOrder BY <1>3 DEF SentInOrder
  <1>7. ShownInOrder BY <1>3 DEF ShownInOrder
  <1>8. ShownOnce BY <1>3 DEF ShownOnce
  <1> QED BY <1>2, <1>4, <1>5, <1>6, <1>7, <1>8, ZenonT(60) DEF Ordered

-----------------------------------------------------------------------------
(* The steps that change a connection or what is shown. *)

\* A new connection starts with nothing in flight.
LEMMA OrderConnect ==
  ASSUME OInv, TypeOK', NEW s \in Sessions, Connect(s)
  PROVE  Ordered'
  <1> DEFINE d == SessionDevice[s]
  <1>0. /\ TypeOK /\ Soundness /\ Unopened /\ WindowIsSent /\ SentInOrder /\ ShownInOrder
        /\ ShownOnce /\ d \in Devices
    BY Topology, Zenon DEF OInv, IInv, Ordered
  <1>1. /\ conn[d] = NoSession /\ conn' = [conn EXCEPT ![d] = s]
        /\ phase[s] = "none" /\ phase' = [phase EXCEPT ![s] = "open"]
        /\ id' = id /\ via' = via /\ acked' = acked /\ window' = window
        /\ down' = down /\ shown' = shown
    BY ZenonT(60) DEF Connect, TcpConnect, HandleAccept, dbvars, deliveryvars
  <1> HIDE DEF d
  <1>2. conn'[d] = s /\ \A e \in Devices \ {d} : conn'[e] = conn[e] BY <1>0, <1>1 DEF TypeOK
  <1>3. down[s] = <<>> /\ window[s] = {} BY <1>0, <1>1, Zenon DEF Unopened
  <1>4. RowsDistinct' /\ \A k, x \in Messages : Before(k, x)' <=> Before(k, x)
    BY <1>1, RowsStay, Zenon
  <1>5. \A t \in Sessions : conn'[SessionDevice[t]] = t => t = s \/ conn[SessionDevice[t]] = t
    BY <1>2, Topology, Zenon DEF d
  <1>6. Unopened'
    <2>1. phase'[s] = "open" /\ \A t \in Sessions \ {s} : phase'[t] = phase[t]
      BY <1>0, <1>1, ZenonT(60) DEF TypeOK
    <2>2. ASSUME NEW e \in Devices, conn'[e] # NoSession PROVE phase'[conn'[e]] # "none"
      <3>1. CASE e = d BY <1>2, <2>1, <3>1, Zenon
      <3>2. CASE e # d
        <4>1. conn[e] \in Sessions /\ phase[conn[e]] # "none"
          BY <1>0, <1>2, <2>2, <3>2, ZenonT(60) DEF TypeOK, Unopened
        <4> QED BY <1>2, <2>1, <3>2, <4>1, Zenon
      <3> QED BY <3>1, <3>2, Zenon
    <2>3. ASSUME NEW t \in Sessions, phase'[t] = "none" PROVE down'[t] = <<>> /\ window'[t] = {}
      BY <1>0, <1>1, <2>1, <2>3, Zenon DEF Unopened
    <2> QED BY <2>2, <2>3, ZenonT(60) DEF Unopened
  <1>7. WindowIsSent'
    <2> SUFFICES ASSUME NEW t \in Sessions, conn'[SessionDevice[t]] = t, NEW k \in window[t]
                 PROVE  k \in Elems(shown[SessionDevice[t]]) \/ InFlight(t, k)
      BY <1>1, ZenonT(60) DEF WindowIsSent, InFlight, Carries
    <2> QED BY <1>0, <1>3, <1>5, Zenon DEF WindowIsSent
  <1>8. SentInOrder'
    <2>1. Len(down[s]) = 0 BY <1>3, SMTT(60)
    <2> SUFFICES ASSUME NEW t \in Sessions, conn'[SessionDevice[t]] = t, NEW i \in 1 .. Len(down[t]),
                        NEW k \in Messages, NEW m \in Messages,
                        down[t][i] = Frame("notify", m), Before(k, m)
                 PROVE  \/ k \in Elems(shown[SessionDevice[t]])
                        \/ \E j \in 1 .. i - 1 : down[t][j] = Frame("notify", k)
                        \/ k \in acked /\ \A j \in i .. Len(down[t]) : down[t][j] # Frame("notify", k)
      BY <1>1, <1>4 DEF SentInOrder, Carries
    <2> QED BY <1>0, <1>5, <2>1 DEF SentInOrder, Carries
  <1>9. ShownInOrder'
    <2> SUFFICES ASSUME NEW e \in Devices, NEW i \in 1 .. Len(shown[e]), NEW k \in Messages,
                        Before(k, shown[e][i])'
                 PROVE  \/ \E j \in 1 .. i - 1 : shown[e][j] = k
                        \/ /\ k \in acked /\ k \notin Elems(shown[e])
                           /\ conn'[e] # NoSession => ~InFlight(conn'[e], k)
      BY <1>1, SMTT(60) DEF ShownInOrder, InFlight, Carries
    <2>1. shown[e][i] \in Messages BY <1>0, SMTT(60) DEF TypeOK
    <2>2. Before(k, shown[e][i]) BY <1>1, <1>4, <2>1, Zenon
    <2>3. ~InFlight(s, k) BY <1>3 DEF InFlight
    <2> QED BY <1>0, <1>2, <2>2, <2>3, ZenonT(60) DEF ShownInOrder
  <1>10. ShownOnce' BY <1>0, <1>1, ZenonT(60) DEF ShownOnce
  <1> QED BY <1>4, <1>6, <1>7, <1>8, <1>9, <1>10, ZenonT(60) DEF Ordered

\* Taking the head off its connection keeps the order of a device, if a
\* delivery at the head is shown by then and a message shown is that delivery.
LEMMA OrderReceive ==
  ASSUME OInv, TypeOK', NEW c \in Devices, conn[c] # NoSession, down[conn[c]] # <<>>,
         down' = [down EXCEPT ![conn[c]] = Tail(@)],
         UNCHANGED <<id, via, acked, phase, window, conn>>,
         NEW x, down[conn[c]][1] = x,
         \/ shown' = shown /\ \A m \in Messages : x = Frame("notify", m) => m \in Elems(shown[c])
         \/ \E m \in Messages : /\ x = Frame("notify", m) /\ m \notin Elems(shown[c])
                                /\ shown' = [shown EXCEPT ![c] = Append(@, m)]
  PROVE  Ordered'
  <1> DEFINE s == conn[c]
  <1>0. /\ TypeOK /\ Soundness /\ Unopened /\ WindowIsSent /\ SentInOrder /\ ShownInOrder
        /\ ShownOnce
    BY Zenon DEF OInv, IInv, Ordered
  <1>1. /\ s \in Sessions /\ SessionDevice[s] = c /\ conn[c] = s
        /\ \A d \in Devices \ {c} : conn[d] # s
    BY <1>0, ZenonT(60) DEF TypeOK, Soundness, ConnSound
  <1>2. /\ \A t \in Sessions \ {s} : down'[t] = down[t]
        /\ Len(down[s]) \in Nat \ {0} /\ Len(down'[s]) = Len(down[s]) - 1
        /\ \A i \in 1 .. Len(down'[s]) : i + 1 \in 1 .. Len(down[s]) /\ down'[s][i] = down[s][i + 1]
    <2>1. down[s] \in Seq(Frames) /\ down[s] # <<>> BY <1>0, <1>1, Zenon DEF TypeOK
    <2>2. down'[s] = Tail(down[s]) /\ \A t \in Sessions \ {s} : down'[t] = down[t]
      BY <1>0, <1>1, ZenonT(60) DEF TypeOK
    <2> HIDE DEF s
    <2>3. /\ Len(down[s]) \in Nat \ {0} /\ Len(Tail(down[s])) = Len(down[s]) - 1
          /\ \A i \in 1 .. Len(Tail(down[s])) :
               i + 1 \in 1 .. Len(down[s]) /\ Tail(down[s])[i] = down[s][i + 1]
      <3>1. Len(down[s]) \in Nat \ {0} /\ Len(Tail(down[s])) = Len(down[s]) - 1
        BY <2>1, TailLength, ZenonT(60)
      <3>2. \A i \in 1 .. Len(Tail(down[s])) :
              i + 1 \in 1 .. Len(down[s]) /\ Tail(down[s])[i] = down[s][i + 1]
        BY <2>1, TailFacts, ZenonT(60)
      <3> QED BY <3>1, <3>2, Zenon
    <2> QED BY <2>2, <2>3, Zenon
  <1>3. /\ \A d \in Devices \ {c} : shown'[d] = shown[d]
        /\ shown[c] \in Seq(Messages) /\ shown'[c] \in Seq(Messages)
        /\ \/ /\ shown'[c] = shown[c]
              /\ \A m \in Messages : x = Frame("notify", m) => m \in Elems(shown[c])
           \/ \E m \in Messages : /\ x = Frame("notify", m) /\ m \notin Elems(shown[c])
                                  /\ shown'[c] = Append(shown[c], m)
    BY <1>0, SMTT(60) DEF TypeOK
  <1>4. down[s][1] = x OBVIOUS
  <1>5. RowsDistinct' /\ Rows' = Rows /\ \A k, m \in Messages : Before(k, m)' <=> Before(k, m)
    BY RowsStay, Zenon
  <1>6. UNCHANGED <<acked, phase, window, conn>> OBVIOUS
  <1> HIDE DEF s
  <1>7. \A d \in Devices : Elems(shown[d]) \subseteq Elems(shown'[d])
    <2>1. Elems(shown[c]) \subseteq Elems(shown'[c]) BY <1>3, SMTT(60) DEF Elems
    <2> QED BY <1>3, <2>1, Zenon
  <1>8. \A k \in Messages : x = Frame("notify", k) => k \in Elems(shown'[c])
    <2> SUFFICES ASSUME NEW k \in Messages, x = Frame("notify", k), k \notin Elems(shown[c])
                 PROVE  k \in Elems(shown'[c])
      BY <1>7, Zenon
    <2>1. shown'[c] = Append(shown[c], k) BY <1>3, NotifyFrame, ZenonT(60)
    <2>2. Len(shown[c]) + 1 \in DOMAIN shown'[c] /\ shown'[c][Len(shown[c]) + 1] = k
      BY <1>3, <2>1
    <2> QED BY <2>2, Zenon DEF Elems
  <1>9. ASSUME NEW t \in Sessions, conn[SessionDevice[t]] = t, t # s
        PROVE  /\ SessionDevice[t] \in Devices /\ SessionDevice[t] # c
               /\ down'[t] = down[t] /\ shown'[SessionDevice[t]] = shown[SessionDevice[t]]
    BY <1>1, <1>2, <1>3, <1>9, Topology, Zenon
  <1>10. Unopened'
    <2>1. phase[s] # "none" BY <1>0, <1>1, Distinct, Zenon DEF Unopened
    <2> QED BY <1>0, <1>2, <1>6, <2>1, ZenonT(60) DEF Unopened
  <1>11. WindowIsSent'
    <2> SUFFICES ASSUME NEW t \in Sessions, conn[SessionDevice[t]] = t, NEW k \in window[t]
                 PROVE  \/ k \in Elems(shown'[SessionDevice[t]])
                        \/ \E i \in 1 .. Len(down'[t]) : down'[t][i] = Frame("notify", k)
      BY <1>6, Zenon DEF WindowIsSent, InFlight, Carries
    <2>1. \/ k \in Elems(shown[SessionDevice[t]])
          \/ \E i \in 1 .. Len(down[t]) : down[t][i] = Frame("notify", k)
      BY <1>0, Zenon DEF WindowIsSent, InFlight, Carries
    <2>2. CASE t # s BY <1>9, <2>1, <2>2, ZenonT(60)
    <2>3. CASE t = s
      <3>1. k \in Messages BY <1>0, ZenonT(60) DEF TypeOK
      <3>2. CASE k \in Elems(shown[c]) BY <1>1, <1>7, <2>3, <3>2, ZenonT(60)
      <3>3. ASSUME NEW i \in 1 .. Len(down[s]), down[s][i] = Frame("notify", k)
            PROVE  \/ k \in Elems(shown'[c])
                   \/ \E j \in 1 .. Len(down'[s]) : down'[s][j] = Frame("notify", k)
        <4>1. CASE i = 1 BY <1>4, <1>8, <3>1, <3>3, <4>1, ZenonT(60)
        <4>2. CASE i # 1
          <5>1. i - 1 \in 1 .. Len(down'[s]) /\ (i - 1) + 1 = i BY <1>2, <4>2
          <5> QED BY <1>2, <3>3, <5>1, ZenonT(60)
        <4> QED BY <4>1, <4>2, ZenonT(60)
      <3> QED BY <1>1, <2>1, <2>3, <3>2, <3>3, ZenonT(60)
    <2> QED BY <2>2, <2>3, Zenon
  <1>12. SentInOrder'
    <2> SUFFICES ASSUME NEW t \in Sessions, conn'[SessionDevice[t]] = t,
                        NEW i \in 1 .. Len(down'[t]), NEW k \in Messages, NEW m \in Messages,
                        Carries(t, i, m)', Before(k, m)'
                 PROVE  \/ k \in Elems(shown'[SessionDevice[t]])
                        \/ \E j \in 1 .. i - 1 : Carries(t, j, k)'
                        \/ k \in acked' /\ \A j \in i .. Len(down'[t]) : ~Carries(t, j, k)'
      BY ZenonT(60) DEF SentInOrder
    <2> SUFFICES ASSUME down'[t][i] = Frame("notify", m)
                 PROVE  \/ k \in Elems(shown'[SessionDevice[t]])
                        \/ \E j \in 1 .. i - 1 : down'[t][j] = Frame("notify", k)
                        \/ k \in acked' /\ \A j \in i .. Len(down'[t]) : down'[t][j] # Frame("notify", k)
      BY Zenon DEF Carries
    <2>0. conn[SessionDevice[t]] = t /\ Before(k, m) /\ acked' = acked BY <1>5, <1>6, ZenonT(60)
    <2>1. CASE t # s
      <3>1. down'[t] = down[t] /\ shown'[SessionDevice[t]] = shown[SessionDevice[t]]
        BY <1>9, <2>0, <2>1, ZenonT(60)
      <3>2. i \in 1 .. Len(down[t]) /\ down[t][i] = Frame("notify", m) BY <3>1, ZenonT(60)
      <3>3. \/ k \in Elems(shown[SessionDevice[t]])
            \/ \E j \in 1 .. i - 1 : down[t][j] = Frame("notify", k)
            \/ k \in acked /\ \A j \in i .. Len(down[t]) : down[t][j] # Frame("notify", k)
        BY <1>0, <2>0, <3>2, ZenonT(60) DEF SentInOrder, Carries
      <3> QED BY <2>0, <3>1, <3>3, ZenonT(60)
    <2>2. CASE t = s
      <3>1. i + 1 \in 1 .. Len(down[s]) /\ down[s][i + 1] = Frame("notify", m) BY <1>2, <2>2, ZenonT(60)
      <3>2. \/ k \in Elems(shown[c])
            \/ \E j \in 1 .. (i + 1) - 1 : down[s][j] = Frame("notify", k)
            \/ k \in acked /\ \A j \in i + 1 .. Len(down[s]) : down[s][j] # Frame("notify", k)
        BY <1>0, <1>1, <2>0, <3>1, SMTT(60) DEF SentInOrder, Carries
      <3>3. CASE k \in Elems(shown[c]) BY <1>1, <1>7, <2>2, <3>3, Zenon
      <3>4. ASSUME NEW j \in 1 .. (i + 1) - 1, down[s][j] = Frame("notify", k)
            PROVE  \/ k \in Elems(shown'[c])
                   \/ \E l \in 1 .. i - 1 : down'[s][l] = Frame("notify", k)
        <4>1. CASE j = 1 BY <1>4, <1>8, <3>4, <4>1, Zenon
        <4>2. CASE j # 1
          <5>1. j - 1 \in 1 .. i - 1 /\ j - 1 \in 1 .. Len(down'[s]) /\ (j - 1) + 1 = j
            BY <1>2, <2>2, <4>2, SMTT(60)
          <5>2. down'[s][j - 1] = Frame("notify", k) BY <1>2, <3>4, <5>1, ZenonT(60)
          <5> QED BY <5>1, <5>2, Zenon
        <4> QED BY <4>1, <4>2, Zenon
      <3>5. ASSUME \A j \in i + 1 .. Len(down[s]) : down[s][j] # Frame("notify", k),
                   NEW j \in i .. Len(down'[s])
            PROVE  down'[s][j] # Frame("notify", k)
        <4>1. j \in 1 .. Len(down'[s]) /\ j + 1 \in i + 1 .. Len(down[s]) BY <1>2, <2>2, SMTT(60)
        <4> QED BY <1>2, <3>5, <4>1, ZenonT(60)
      <3> QED BY <1>1, <2>0, <2>2, <3>2, <3>3, <3>4, <3>5, ZenonT(60)
    <2> QED BY <2>1, <2>2, Zenon
  <1>13. ASSUME NEW k, ~InFlight(s, k) PROVE ~InFlight(s, k)'
    <2>1. \A i \in 1 .. Len(down[s]) : down[s][i] # Frame("notify", k)
      BY <1>13, Zenon DEF InFlight, Carries
    <2>2. s' = s BY <1>6, ZenonT(60) DEF s
    <2>3. \A i \in 1 .. Len(down'[s]) : down'[s][i] # Frame("notify", k) BY <1>2, <2>1, SMTT(60)
    <2> QED BY <2>2, <2>3, ZenonT(60) DEF InFlight, Carries
  <1>14. ShownInOrder'
    <2> SUFFICES ASSUME NEW d \in Devices, NEW i \in 1 .. Len(shown'[d]), NEW k \in Messages,
                        Before(k, shown[d][i])'
                 PROVE  \/ \E j \in 1 .. i - 1 : shown'[d][j] = k
                        \/ /\ k \in acked /\ k \notin Elems(shown'[d])
                           /\ conn[d] # NoSession => ~InFlight(conn[d], k)'
      BY <1>6, ZenonT(60) DEF ShownInOrder
    <2>1. shown'[d] \in Seq(Messages) /\ shown'[d][i] \in Messages BY SMTT(60) DEF TypeOK
    <2>2. Before(k, shown'[d][i]) BY <1>5, <2>1, Zenon
    <2>3. CASE d # c
      <3>1. shown'[d] = shown[d] BY <1>3, <2>3, ZenonT(60)
      <3>2. \/ \E j \in 1 .. i - 1 : shown[d][j] = k
            \/ /\ k \in acked /\ k \notin Elems(shown[d])
               /\ conn[d] # NoSession => ~InFlight(conn[d], k)
        BY <1>0, <2>2, <3>1, ZenonT(60) DEF ShownInOrder
      <3>3. ASSUME conn[d] # NoSession, ~InFlight(conn[d], k) PROVE ~InFlight(conn[d], k)'
        <4>1. conn[d] \in Sessions \ {s} BY <1>0, <1>1, <2>3, <3>3, ZenonT(60) DEF TypeOK
        <4>2. down'[conn[d]] = down[conn[d]] /\ conn'[d] = conn[d] BY <1>2, <1>6, <4>1, ZenonT(60)
        <4> QED BY <3>3, <4>2, ZenonT(60) DEF InFlight, Carries
      <3> QED BY <3>1, <3>2, <3>3, ZenonT(60)
    <2>4. CASE d = c /\ shown'[c] = shown[c]
      <3>1. \/ \E j \in 1 .. i - 1 : shown[c][j] = k
            \/ k \in acked /\ k \notin Elems(shown[c]) /\ ~InFlight(s, k)
        BY <1>0, <1>1, <2>2, <2>4, Distinct, SMTT(60) DEF ShownInOrder
      <3>2. ~InFlight(s, k) => ~InFlight(conn[d], k)' BY <1>1, <1>6, <1>13, <2>4, ZenonT(60) DEF s
      <3> QED BY <2>4, <3>1, <3>2, ZenonT(60)
    <2>5. ASSUME d = c, NEW m \in Messages, x = Frame("notify", m), m \notin Elems(shown[c]),
                 shown'[c] = Append(shown[c], m)
          PROVE  \/ \E j \in 1 .. i - 1 : shown'[c][j] = k
                 \/ k \in acked /\ k \notin Elems(shown'[c]) /\ ~InFlight(s, k)
      <3>1. /\ Len(shown[c]) \in Nat /\ Len(shown'[c]) = Len(shown[c]) + 1
            /\ shown'[c][Len(shown[c]) + 1] = m
            /\ \A j \in 1 .. Len(shown[c]) : shown'[c][j] = shown[c][j]
        BY <1>3, <2>5, SMTT(60)
      <3>2. k # m /\ k \notin Elems(shown[c]) => k \notin Elems(shown'[c])
        BY <1>3, <2>5, <3>1, SMTT(60) DEF Elems
      <3>3. CASE i \in 1 .. Len(shown[c])
        <4>1. Before(k, shown[c][i]) BY <2>2, <2>5, <3>1, <3>3, ZenonT(60)
        <4>2. \/ \E j \in 1 .. i - 1 : shown[c][j] = k
              \/ k \in acked /\ k \notin Elems(shown[c]) /\ ~InFlight(s, k)
          BY <1>0, <1>1, <3>3, <4>1, Distinct, SMTT(60) DEF ShownInOrder
        <4>3. InFlight(s, m)
          <5>1. 1 \in 1 .. Len(down[s]) BY <1>2, SMTT(60)
          <5> QED BY <1>4, <2>5, <5>1, ZenonT(60) DEF InFlight, Carries
        <4>4. ASSUME NEW j \in 1 .. i - 1, shown[c][j] = k PROVE shown'[c][j] = k
          BY <3>1, <3>3, <4>4, SMTT(60)
        <4> QED BY <3>2, <4>2, <4>3, <4>4, ZenonT(60)
      <3>4. CASE i = Len(shown[c]) + 1
        <4>1. Before(k, m) BY <2>2, <2>5, <3>1, <3>4, Zenon
        <4>2. k # m
          <5>1. id[k] < id[m] BY <4>1, Zenon DEF Before
          <5>2. id[m] \in Nat BY <1>0, Zenon DEF TypeOK
          <5> QED BY <5>1, <5>2, SMTT(60)
        <4>3. 1 \in 1 .. Len(down[s]) /\ down[s][1] = Frame("notify", m) BY <1>2, <1>4, <2>5, SMTT(60)
        <4>4. \/ k \in Elems(shown[c])
              \/ \E j \in 1 .. 1 - 1 : down[s][j] = Frame("notify", k)
              \/ k \in acked /\ \A j \in 1 .. Len(down[s]) : down[s][j] # Frame("notify", k)
          BY <1>0, <1>1, <4>1, <4>3, ZenonT(60) DEF SentInOrder, Carries
        <4>5. CASE k \in Elems(shown[c])
          <5>1. PICK j \in 1 .. Len(shown[c]) : shown[c][j] = k BY <1>3, <4>5, SMTT(60) DEF Elems
          <5> QED BY <3>1, <3>4, <5>1, SMTT(60)
        <4>6. CASE k \notin Elems(shown[c])
          <5>1. k \in acked /\ ~InFlight(s, k) BY <4>4, <4>6, SMTT(60) DEF InFlight, Carries
          <5> QED BY <3>2, <4>2, <4>6, <5>1, ZenonT(60)
        <4> QED BY <4>5, <4>6, Zenon
      <3> QED BY <2>5, <3>1, <3>3, <3>4, SMTT(60)
    <2>6. CASE d = c /\ shown'[c] # shown[c]
      <3>1. \/ \E j \in 1 .. i - 1 : shown'[c][j] = k
            \/ k \in acked /\ k \notin Elems(shown'[c]) /\ ~InFlight(s, k)
        BY <1>3, <2>5, <2>6, ZenonT(60)
      <3>2. ~InFlight(s, k) => ~InFlight(conn[d], k)' BY <1>1, <1>6, <1>13, <2>6, ZenonT(60) DEF s
      <3> QED BY <2>6, <3>1, <3>2, ZenonT(60)
    <2> QED BY <2>3, <2>4, <2>6, ZenonT(60)
  <1>15. ShownOnce'
    <2> SUFFICES ASSUME NEW d \in Devices, NEW i \in 1 .. Len(shown'[d]),
                        NEW j \in 1 .. Len(shown'[d]), shown'[d][i] = shown'[d][j]
                 PROVE  i = j
      BY Zenon DEF ShownOnce
    <2>1. CASE shown'[d] = shown[d] BY <1>0, <2>1, ZenonT(60) DEF ShownOnce
    <2>2. ASSUME d = c, NEW m \in Messages, m \notin Elems(shown[c]),
                 shown'[c] = Append(shown[c], m)
          PROVE  i = j
      <3>1. /\ Len(shown[c]) \in Nat /\ Len(shown'[c]) = Len(shown[c]) + 1
            /\ shown'[c][Len(shown[c]) + 1] = m
            /\ \A l \in 1 .. Len(shown[c]) : shown'[c][l] = shown[c][l] /\ shown[c][l] # m
        BY <1>3, <2>2, SMTT(60) DEF Elems
      <3>2. CASE i \in 1 .. Len(shown[c]) /\ j \in 1 .. Len(shown[c])
        BY <1>0, <2>2, <3>1, <3>2, ZenonT(60) DEF ShownOnce
      <3>3. CASE i = Len(shown[c]) + 1 \/ j = Len(shown[c]) + 1 BY <2>2, <3>1, <3>3
      <3> QED BY <2>2, <3>1, <3>2, <3>3, SMTT(60)
    <2> QED BY <1>3, <2>1, <2>2, ZenonT(60)
  <1> QED BY <1>5, <1>10, <1>11, <1>12, <1>14, <1>15, ZenonT(60) DEF Ordered

\* A lost connection takes with it what was on the wire.
LEMMA OrderDisconnect ==
  ASSUME OInv, TypeOK', NEW c \in Devices, Disconnect(c)
  PROVE  Ordered'
  <1> DEFINE s == conn[c]
  <1>0. /\ TypeOK /\ Soundness /\ Unopened /\ WindowIsSent /\ SentInOrder /\ ShownInOrder
        /\ ShownOnce
    BY Zenon DEF OInv, IInv, Ordered
  <1>1. /\ s # NoSession /\ conn' = [conn EXCEPT ![c] = NoSession]
        /\ down' = [down EXCEPT ![s] = <<>>]
        /\ id' = id /\ via' = via /\ acked' = acked /\ window' = window /\ phase' = phase
        /\ shown' = shown
    BY ZenonT(60) DEF Disconnect, dbvars, deliveryvars, sessionvars
  <1>2. /\ s \in Sessions /\ SessionDevice[s] = c
        /\ \A d \in Devices \ {c} : conn[d] # s
    <2>1. conn[c] \in Sessions BY <1>0, <1>1, ZenonT(60) DEF TypeOK
    <2>2. \A d \in Devices : ConnSound(d) BY <1>0, Zenon DEF Soundness
    <2>3. \A d \in Devices : conn[d] # NoSession => SessionDevice[conn[d]] = d
      BY <2>2, ZenonT(60) DEF ConnSound
    <2> QED BY <1>1, <2>1, <2>3, ZenonT(60)
  <1> HIDE DEF s
  <1>3. conn'[c] = NoSession /\ \A d \in Devices \ {c} : conn'[d] = conn[d]
    BY <1>0, <1>1, ZenonT(60) DEF TypeOK
  <1>4. down'[s] = <<>> /\ \A t \in Sessions \ {s} : down'[t] = down[t]
    BY <1>0, <1>1, <1>2, ZenonT(60) DEF TypeOK
  <1>5. RowsDistinct' /\ \A k, x \in Messages : Before(k, x)' <=> Before(k, x)
    BY <1>1, RowsStay, ZenonT(60)
  <1>6. ASSUME NEW t \in Sessions, conn'[SessionDevice[t]] = t
        PROVE  conn[SessionDevice[t]] = t /\ t # s /\ down'[t] = down[t]
    <2>1. SessionDevice[t] \in Devices /\ t # NoSession BY Topology, Distinct, Zenon
    <2>2. SessionDevice[t] # c BY <1>3, <1>6, <2>1, Zenon
    <2> QED BY <1>2, <1>3, <1>4, <1>6, <2>1, <2>2, ZenonT(60)
  <1>7. Unopened' BY <1>0, <1>1, <1>3, <1>4, ZenonT(60) DEF Unopened
  <1>8. WindowIsSent'
    <2> SUFFICES ASSUME NEW t \in Sessions, conn'[SessionDevice[t]] = t, NEW k \in window'[t]
                 PROVE  k \in Elems(shown'[SessionDevice[t]]) \/ InFlight(t, k)'
      BY Zenon DEF WindowIsSent
    <2>1. k \in Elems(shown[SessionDevice[t]]) \/ InFlight(t, k)
      BY <1>0, <1>1, <1>6, ZenonT(60) DEF WindowIsSent
    <2>2. InFlight(t, k)' <=> InFlight(t, k) BY <1>6, Zenon DEF InFlight, Carries
    <2> QED BY <1>1, <2>1, <2>2, ZenonT(60)
  <1>9. SentInOrder'
    <2> SUFFICES ASSUME NEW t \in Sessions, conn'[SessionDevice[t]] = t,
                        NEW i \in 1 .. Len(down'[t]), NEW k \in Messages, NEW m \in Messages,
                        Carries(t, i, m)', Before(k, m)'
                 PROVE  \/ k \in Elems(shown'[SessionDevice[t]])
                        \/ \E j \in 1 .. i - 1 : Carries(t, j, k)'
                        \/ k \in acked' /\ \A j \in i .. Len(down'[t]) : ~Carries(t, j, k)'
      BY ZenonT(60) DEF SentInOrder
    <2>1. conn[SessionDevice[t]] = t /\ down'[t] = down[t] BY <1>6, Zenon
    <2>2. \A j : \A x : Carries(t, j, x)' <=> Carries(t, j, x) BY <2>1, Zenon DEF Carries
    <2>3. i \in 1 .. Len(down[t]) /\ Carries(t, i, m) /\ Before(k, m) BY <1>5, <2>1, <2>2, ZenonT(60)
    <2>4. \/ k \in Elems(shown[SessionDevice[t]])
          \/ \E j \in 1 .. i - 1 : Carries(t, j, k)
          \/ k \in acked /\ \A j \in i .. Len(down[t]) : ~Carries(t, j, k)
      BY <1>0, <2>1, <2>3, ZenonT(60) DEF SentInOrder
    <2> QED BY <1>1, <2>1, <2>2, <2>4, ZenonT(60)
  <1>10. ShownInOrder'
    <2> SUFFICES ASSUME NEW d \in Devices, NEW i \in 1 .. Len(shown'[d]), NEW k \in Messages,
                        Before(k, shown[d][i])'
                 PROVE  \/ \E j \in 1 .. i - 1 : shown'[d][j] = k
                        \/ /\ k \in acked' /\ k \notin Elems(shown'[d])
                           /\ conn'[d] # NoSession => ~InFlight(conn[d], k)'
      BY ZenonT(60) DEF ShownInOrder
    <2>1. shown'[d] = shown[d] /\ shown[d][i] \in Messages BY <1>0, <1>1, SMTT(60) DEF TypeOK
    <2>2. Before(k, shown[d][i]) BY <1>5, <2>1, Zenon
    <2>3. \/ \E j \in 1 .. i - 1 : shown[d][j] = k
          \/ /\ k \in acked /\ k \notin Elems(shown[d])
             /\ conn[d] # NoSession => ~InFlight(conn[d], k)
      BY <1>0, <2>1, <2>2, ZenonT(60) DEF ShownInOrder
    <2>4. ASSUME conn'[d] # NoSession, conn[d] # NoSession => ~InFlight(conn[d], k)
          PROVE  ~InFlight(conn[d], k)'
      <3>1. d # c /\ conn'[d] = conn[d] BY <1>3, <2>4, ZenonT(60)
      <3>2. conn[d] \in Sessions \ {s} BY <1>0, <1>2, <2>4, <3>1, ZenonT(60) DEF TypeOK
      <3>3. down'[conn[d]] = down[conn[d]] BY <1>4, <3>2, ZenonT(60)
      <3> QED BY <2>4, <3>1, <3>3, ZenonT(60) DEF InFlight, Carries
    <2> QED BY <1>1, <2>1, <2>3, <2>4, ZenonT(60)
  <1>11. ShownOnce' BY <1>0, <1>1, ZenonT(60) DEF ShownOnce
  <1> QED BY <1>5, <1>7, <1>8, <1>9, <1>10, <1>11, Zenon DEF Ordered

-----------------------------------------------------------------------------
(* Steps of the servers: they add to what is in flight. *)

\* What a step of a server may do to the rows and to a session.
Steady ==
  /\ conn' = conn /\ shown' = shown /\ acked \subseteq acked'
  /\ \A k, m \in Messages : Before(k, m)' /\ m \in Rows => Before(k, m)

Follows(s) ==
  /\ phase'[s] = "none" =>
       phase[s] = "none" /\ down'[s] = down[s] /\ window'[s] \subseteq window[s]
  /\ Len(down[s]) <= Len(down'[s])
  /\ \A i \in 1 .. Len(down[s]) : down'[s][i] = down[s][i]
  /\ \A i \in Len(down[s]) + 1 .. Len(down'[s]), m \in Messages : down'[s][i] = Frame("notify", m) =>
       /\ m \in Rows /\ m \notin acked'
       /\ \A k \in Messages : Before(k, m) =>
            \/ k \in window[s] \/ k \in acked'
            \/ \E j \in Len(down[s]) + 1 .. i - 1 : down'[s][j] = Frame("notify", k)
  /\ \A k \in window'[s] :
       k \in window[s] \/ \E i \in 1 .. Len(down'[s]) : down'[s][i] = Frame("notify", k)

\* Such a step keeps the order: what is added follows what is there, and is
\* not settled.
LEMMA OrderFollows ==
  ASSUME OInv, TypeOK', RowsDistinct', Steady, \A s \in Sessions : Follows(s)
  PROVE  Ordered'
  <1>0. /\ TypeOK /\ Soundness /\ Unopened /\ WindowIsSent /\ SentInOrder /\ ShownInOrder
        /\ ShownOnce /\ conn' = conn /\ shown' = shown /\ acked \subseteq acked'
    BY ZenonT(60) DEF OInv, IInv, Ordered, Steady
  <1>1. \A s \in Sessions : Len(down[s]) \in Nat /\ Len(down'[s]) \in Nat
    BY <1>0, SMTT(60) DEF TypeOK
  <1>2. \A s \in Sessions, k \in Messages : InFlight(s, k) =>
          \E j \in 1 .. Len(down[s]) : j \in 1 .. Len(down'[s]) /\ down'[s][j] = Frame("notify", k)
    BY <1>1 DEF InFlight, Carries, Follows
  <1>3. Unopened'
    <2>1. ASSUME NEW s \in Sessions, phase'[s] = "none"
          PROVE  down'[s] = <<>> /\ window'[s] = {}
      BY <1>0, <2>1, ZenonT(60) DEF Unopened, Follows
    <2>2. ASSUME NEW d \in Devices, conn[d] # NoSession PROVE phase'[conn[d]] # "none"
      <3>1. conn[d] \in Sessions /\ phase[conn[d]] # "none" BY <1>0, <2>2, ZenonT(60) DEF TypeOK, Unopened
      <3> QED BY <3>1, ZenonT(60) DEF Follows
    <2> QED BY <1>0, <2>1, <2>2, ZenonT(60) DEF Unopened
  <1>4. WindowIsSent'
    <2> SUFFICES ASSUME NEW s \in Sessions, conn[SessionDevice[s]] = s, NEW k \in window'[s]
                 PROVE  k \in Elems(shown[SessionDevice[s]]) \/ InFlight(s, k)'
      BY <1>0, ZenonT(60) DEF WindowIsSent
    <2>0. k \in Messages BY <1>0, ZenonT(60) DEF TypeOK
    <2>1. CASE k \in window[s]
      <3>1. k \in Elems(shown[SessionDevice[s]]) \/ InFlight(s, k) BY <1>0, <2>1, ZenonT(60) DEF WindowIsSent
      <3> QED BY <1>2, <2>0, <3>1, ZenonT(60) DEF InFlight, Carries
    <2>2. CASE \E i \in 1 .. Len(down'[s]) : down'[s][i] = Frame("notify", k)
      BY <2>2, ZenonT(60) DEF InFlight, Carries
    <2> QED BY <2>1, <2>2, ZenonT(60) DEF Follows
  <1>5. SentInOrder'
    <2> SUFFICES ASSUME NEW s \in Sessions, conn[SessionDevice[s]] = s, NEW i \in 1 .. Len(down'[s]),
                        NEW k \in Messages, NEW m \in Messages,
                        down'[s][i] = Frame("notify", m), Before(k, m)'
                 PROVE  \/ k \in Elems(shown[SessionDevice[s]])
                        \/ \E j \in 1 .. i - 1 : down'[s][j] = Frame("notify", k)
                        \/ k \in acked' /\ \A j \in i .. Len(down'[s]) : down'[s][j] # Frame("notify", k)
      BY <1>0, ZenonT(60) DEF SentInOrder, Carries
    <2>0. /\ Follows(s) /\ Len(down[s]) \in Nat /\ Len(down'[s]) \in Nat /\ i \in Nat
      BY <1>1
    <2>1. \A j \in Len(down[s]) + 1 .. Len(down'[s]) : k \in acked' => down'[s][j] # Frame("notify", k)
      BY <2>0, Zenon DEF Follows
    <2>2. CASE i \in 1 .. Len(down[s])
      <3>1. down[s][i] = Frame("notify", m) BY <2>0, <2>2, ZenonT(60) DEF Follows
      <3>2. m \in Rows
        <4>1. DownSound(s, down[s][i]) BY <1>0, <2>2, Zenon DEF Soundness
        <4> QED BY <3>1, <4>1, NotifyFrame, ZenonT(60) DEF DownSound
      <3>3. Before(k, m) BY <3>2, ZenonT(60) DEF Steady
      <3>4. \/ k \in Elems(shown[SessionDevice[s]])
            \/ \E j \in 1 .. i - 1 : down[s][j] = Frame("notify", k)
            \/ k \in acked /\ \A j \in i .. Len(down[s]) : down[s][j] # Frame("notify", k)
        BY <1>0, <2>2, <3>1, <3>3, ZenonT(60) DEF SentInOrder, Carries
      <3>5. CASE \E j \in 1 .. i - 1 : down[s][j] = Frame("notify", k)
        BY <2>0, <2>2, <3>5, SMTT(60) DEF Follows
      <3>6. CASE k \in acked /\ \A j \in i .. Len(down[s]) : down[s][j] # Frame("notify", k)
        <4>1. k \in acked' BY <1>0, <3>6, Zenon
        <4>2. ASSUME NEW j \in i .. Len(down'[s]) PROVE down'[s][j] # Frame("notify", k)
          <5>1. CASE j <= Len(down[s]) BY <2>0, <2>2, <3>6, <5>1, SMTT(60) DEF Follows
          <5>2. CASE j > Len(down[s])
            <6>1. j \in Len(down[s]) + 1 .. Len(down'[s]) BY <2>0, <5>2
            <6> QED BY <2>1, <4>1, <6>1, ZenonT(60)
          <5> QED BY <2>0, <5>1, <5>2, SMTT(60)
        <4> QED BY <4>1, <4>2, Zenon
      <3> QED BY <3>4, <3>5, <3>6, ZenonT(60)
    <2>3. CASE i \in Len(down[s]) + 1 .. Len(down'[s])
      <3>1. m \in Rows BY <2>0, <2>3, ZenonT(60) DEF Follows
      <3>2. Before(k, m) BY <3>1, ZenonT(60) DEF Steady
      <3>3. \/ k \in window[s] \/ k \in acked'
            \/ \E j \in Len(down[s]) + 1 .. i - 1 : down'[s][j] = Frame("notify", k)
        BY <2>0, <2>3, <3>2, SMTT(60) DEF Follows
      <3>4. CASE k \in window[s]
        <4>1. k \in Elems(shown[SessionDevice[s]]) \/ InFlight(s, k) BY <1>0, <3>4, ZenonT(60) DEF WindowIsSent
        <4>2. CASE InFlight(s, k)
          <5>1. PICK j \in 1 .. Len(down[s]) : down'[s][j] = Frame("notify", k) BY <1>2, <4>2, ZenonT(60)
          <5>2. j \in 1 .. i - 1 BY <2>0, <2>3, SMTT(60)
          <5> QED BY <5>1, <5>2, ZenonT(60)
        <4> QED BY <4>1, <4>2, ZenonT(60)
      <3>5. CASE k \in acked'
        <4>1. \A j \in i .. Len(down'[s]) : j \in Len(down[s]) + 1 .. Len(down'[s]) BY <2>0, <2>3, SMTT(60)
        <4> QED BY <2>1, <3>5, <4>1, ZenonT(60)
      <3>6. CASE \E j \in Len(down[s]) + 1 .. i - 1 : down'[s][j] = Frame("notify", k)
        BY <2>0, <3>6, SMTT(60)
      <3> QED BY <3>3, <3>4, <3>5, <3>6, ZenonT(60)
    <2> QED BY <2>0, <2>2, <2>3
  <1>6. ShownInOrder'
    <2> SUFFICES ASSUME NEW d \in Devices, NEW i \in 1 .. Len(shown[d]), NEW k \in Messages,
                        Before(k, shown[d][i])'
                 PROVE  \/ \E j \in 1 .. i - 1 : shown[d][j] = k
                        \/ /\ k \in acked' /\ k \notin Elems(shown[d])
                           /\ conn[d] # NoSession => ~InFlight(conn[d], k)'
      BY <1>0, ZenonT(60) DEF ShownInOrder
    <2>1. shown[d][i] \in Messages /\ shown[d][i] \in Elems(shown[d])
      <3>1. shown[d] \in Seq(Messages) BY <1>0, Zenon DEF TypeOK
      <3> QED BY <3>1, SMTT(60) DEF Elems
    <2>2. shown[d][i] \in Rows BY <1>0, <2>1, Zenon DEF Soundness, StoreSound
    <2>3. Before(k, shown[d][i]) BY <1>0, <2>1, <2>2, ZenonT(60) DEF Steady
    <2>4. \/ \E j \in 1 .. i - 1 : shown[d][j] = k
          \/ /\ k \in acked /\ k \notin Elems(shown[d])
             /\ conn[d] # NoSession => ~InFlight(conn[d], k)
      BY <1>0, <2>3, ZenonT(60) DEF ShownInOrder
    <2>5. ASSUME k \in acked, conn[d] # NoSession, ~InFlight(conn[d], k)
          PROVE  ~InFlight(conn[d], k)'
      <3>1. conn[d] \in Sessions /\ k \in acked' BY <1>0, <2>5, ZenonT(60) DEF TypeOK
      <3>2. SUFFICES ASSUME NEW j \in 1 .. Len(down'[conn[d]]) PROVE down'[conn[d]][j] # Frame("notify", k)
        BY <1>0, ZenonT(60) DEF InFlight, Carries
      <3>3. CASE j \in 1 .. Len(down[conn[d]])
        BY <2>5, <3>1, <3>3, ZenonT(60) DEF InFlight, Carries, Follows
      <3>4. CASE j \in Len(down[conn[d]]) + 1 .. Len(down'[conn[d]])
        BY <3>1, <3>4, ZenonT(60) DEF Follows
      <3> QED BY <1>1, <3>1, <3>3, <3>4, SMTT(60)
    <2> QED BY <1>0, <2>4, <2>5, ZenonT(60)
  <1>7. ShownOnce' BY <1>0, ZenonT(60) DEF ShownOnce
  <1> QED BY <1>3, <1>4, <1>5, <1>6, <1>7, ZenonT(60) DEF Ordered

\* A session whose frames stay as they are follows itself.
LEMMA QuietFollows ==
  ASSUME TypeOK, NEW s \in Sessions, down'[s] = down[s], window'[s] \subseteq window[s],
         phase'[s] = "none" => phase[s] = "none"
  PROVE  Follows(s)
  <1>1. Len(down[s]) \in Nat BY DEF TypeOK
  <1>2. Len(down[s]) + 1 .. Len(down'[s]) = {} BY <1>1
  <1> QED BY <1>1, <1>2, SMTT(60) DEF Follows

\* So does one that is sent a frame that is not a delivery.
LEMMA SendFollows ==
  ASSUME TypeOK, NEW s \in Sessions, NEW f \in Frames, f.type # "notify",
         down' = Send(s, f), window' = window, phase' = phase
  PROVE  \A t \in Sessions : Follows(t)
  <1>1. CASE ~CanSend(s)
    <2>1. down' = down BY <1>1, Zenon DEF Send
    <2> QED BY <2>1, QuietFollows, ZenonT(60)
  <1>2. CASE CanSend(s)
    <2>0. down' = [down EXCEPT ![s] = Append(down[s], f)] /\ phase[s] = "open"
      BY <1>2, ZenonT(60) DEF Send, CanSend
    <2>1. down \in [Sessions -> Seq(Frames)] BY Zenon DEF TypeOK
    <2>2. \A t \in Sessions \ {s} : Follows(t) BY <2>0, <2>1, QuietFollows, ZenonT(60)
    <2>3. down'[s] = Append(down[s], f) BY <2>0, <2>1, ZenonT(60)
    <2>4. /\ Len(down[s]) \in Nat /\ Len(down'[s]) = Len(down[s]) + 1
          /\ \A i \in 1 .. Len(down[s]) : down'[s][i] = down[s][i]
          /\ down'[s][Len(down[s]) + 1] = f
      BY <2>1, <2>3
    <2>5. \A i \in Len(down[s]) + 1 .. Len(down'[s]), m \in Messages : down'[s][i] # Frame("notify", m)
      <3>1. \A m : f # Frame("notify", m) BY NotifyFrame, ZenonT(60)
      <3>2. \A i \in Len(down[s]) + 1 .. Len(down'[s]) : i = Len(down[s]) + 1 BY <2>4, SMTT(60)
      <3> QED BY <2>4, <3>1, <3>2, ZenonT(60)
    <2>6. Follows(s) BY <2>0, <2>4, <2>5, SMTT(60) DEF Follows
    <2> QED BY <2>2, <2>6, ZenonT(60)
  <1> QED BY <1>1, <1>2, ZenonT(60)

\* A crash empties windows and queues, a wake-up changes neither.
LEMMA OrderNode ==
  ASSUME OInv, TypeOK', NEW n \in Nodes, NodeStep(n)
  PROVE  Ordered'
  <1> USE DEF dbvars, sessionvars, deliveryvars, queuevars, clientvars
  <1>0. TypeOK BY Zenon DEF OInv, IInv
  <1>1. UNCHANGED <<id, via, acked, conn, shown, down>>
    BY Zenon DEF NodeStep, Crash, NotifyRecipient
  <1>2. ASSUME NEW t \in Sessions
        PROVE  window'[t] \subseteq window[t] /\ (phase'[t] = "none" => phase[t] = "none")
    <2>1. CASE Crash(n)
      <3>1. /\ window'[t] = {} \/ window'[t] = window[t]
            /\ phase'[t] = "cleared" \/ phase'[t] = phase[t]
        BY <2>1, ZenonT(60) DEF Crash
      <3> QED BY <3>1, ZenonT(60)
    <2>2. CASE \E u \in Users : NotifyRecipient(n, u) BY <2>2, ZenonT(60) DEF NotifyRecipient
    <2> QED BY <2>1, <2>2, ZenonT(60) DEF NodeStep
  <1>3. \A t \in Sessions : Follows(t) BY <1>0, <1>1, <1>2, QuietFollows, ZenonT(60)
  <1> QED BY <1>1, <1>3, RowsStay, OrderFollows, ZenonT(60) DEF Steady

\* A step of a client keeps the order: a redelivery is not shown again, and a
\* device never meets a message of its own as a delivery.
LEMMA OrderClient ==
  ASSUME OInv, TypeOK', NEW c \in Devices, ClientStep(c)
  PROVE  Ordered'
  <1> USE DEF dbvars, sessionvars, deliveryvars, queuevars, clientvars
  <1>0. TypeOK /\ IInv /\ Soundness BY Zenon DEF OInv, IInv
  <1>1. CASE Disconnect(c) BY <1>1, OrderDisconnect, ZenonT(60)
  <1>2. CASE \E m \in Messages : EnqueueText(c, m) \/ FlushOutbox(c, m)
    <2>1. UNCHANGED <<id, via, acked, phase, window, down, conn, shown>>
      BY <1>2, ZenonT(60) DEF EnqueueText, FlushOutbox
    <2>2. \A t \in Sessions : Follows(t) BY <1>0, <2>1, QuietFollows, ZenonT(60)
    <2> QED BY <2>1, <2>2, RowsStay, OrderFollows, ZenonT(60) DEF Steady
  <1>3. ASSUME NEW type, Receiving(c, type)
        PROVE  /\ conn[c] # NoSession /\ down[conn[c]] # <<>> /\ conn[c] \in Sessions
               /\ down' = [down EXCEPT ![conn[c]] = Tail(@)]
               /\ Head(down[conn[c]]) = down[conn[c]][1] /\ Head(down[conn[c]]) \in Frames
               /\ Head(down[conn[c]]).type = type
    <2>1. /\ conn[c] # NoSession /\ down[conn[c]] # <<>>
          /\ down' = [down EXCEPT ![conn[c]] = Tail(@)] /\ Head(down[conn[c]]).type = type
      BY <1>3, ZenonT(60) DEF Receiving
    <2>2. conn[c] \in Sessions /\ down[conn[c]] \in Seq(Frames) BY <1>0, <2>1, ZenonT(60) DEF TypeOK
    <2> QED BY <2>1, <2>2, TailFacts, ZenonT(60)
  <1>4. ASSUME NEW type, type # "notify", Receiving(c, type),
               UNCHANGED <<id, via, acked, phase, window, conn, shown>>
        PROVE  Ordered'
    <2>1. \A m \in Messages : down[conn[c]][1] # Frame("notify", m)
      BY <1>3, <1>4, NotifyFrame
    <2> QED BY <1>3, <1>4, <2>1, OrderReceive, Zenon
  <1>5. CASE RecvLoginRsp(c) BY <1>4, <1>5, Zenon DEF RecvLoginRsp
  <1>6. CASE RecvError(c) BY <1>4, <1>6, Zenon DEF RecvError
  <1>7. CASE \E saved \in BOOLEAN : RecvTextRsp(c, saved) BY <1>4, <1>7, Zenon DEF RecvTextRsp
  <1>8. CASE RecvNotify(c)
    <2> DEFINE f == Head(down[conn[c]])
               m == f.msg
    <2>1. /\ Receiving(c, "notify") /\ Receiver[m] = DeviceUser[c]
          /\ shown' = IF store[c][m] = "absent" THEN [shown EXCEPT ![c] = Append(@, m)] ELSE shown
          /\ UNCHANGED <<id, via, acked, phase, window, conn>>
      BY <1>8, Zenon DEF RecvNotify
    <2>2. f \in Frames /\ f.type = "notify" /\ f = down[conn[c]][1] /\ conn[c] \in Sessions
      BY <1>3, <2>1, ZenonT(60)
    <2>3. m \in Messages BY <1>0, <1>3, <2>1, <2>2, HeadFacts, ZenonT(60) DEF DownSound, Rows
    <2>4. f = Frame("notify", m) BY <2>2, ZenonT(60) DEF Frames, Frame
    <2> HIDE DEF f, m
    <2>5. Origin[m] # c BY <2>1, <2>3, NotToOneself, ZenonT(60)
    <2>6. StoreSound(c, m) BY <1>0, <2>3, ZenonT(60) DEF Soundness
    <2>7. store[c][m] \in {"absent", "pending", "accepted", "received"} BY <1>0, <2>3, SMTT(60) DEF TypeOK
    <2>8. store[c][m] = "absent" <=> m \notin Elems(shown[c]) BY <2>5, <2>6, <2>7, ZenonT(60) DEF StoreSound
    <2>9. \/ shown' = shown /\ \A k \in Messages : f = Frame("notify", k) => k \in Elems(shown[c])
          \/ \E k \in Messages : /\ f = Frame("notify", k) /\ k \notin Elems(shown[c])
                                 /\ shown' = [shown EXCEPT ![c] = Append(@, k)]
      BY <2>1, <2>3, <2>4, <2>8, NotifyFrame, ZenonT(60)
    <2>10. /\ conn[c] # NoSession /\ down[conn[c]] # <<>>
           /\ down' = [down EXCEPT ![conn[c]] = Tail(@)]
      BY <1>3, <2>1, ZenonT(60)
    <2>11. UNCHANGED <<id, via, acked, phase, window, conn>> BY <2>1, ZenonT(60)
    <2>12. down[conn[c]][1] = f BY <2>2, ZenonT(60)
    <2> QED BY <2>9, <2>10, <2>11, <2>12, OrderReceive, Zenon
  <1> QED BY <1>1, <1>2, <1>5, <1>6, <1>7, <1>8, ZenonT(60) DEF ClientStep

-----------------------------------------------------------------------------
(* The deliveries of a session (DeliverPendingTextMessages).  A pass sends a *)
(* prefix of the unacknowledged rows, so a row has those its session         *)
(* committed before it in the window, in the queue or settled.               *)

\* GetPendingTextMessages returns a prefix of the unacknowledged rows: with a
\* row every unacknowledged one of a smaller id.
PendingIsPrefix(u, acks) ==
  \A m \in Pending(u, acks), k \in Unacked(u, acks) : id[k] < id[m] => k \in Pending(u, acks)

\* A pass of DeliverPendingTextMessages sends unacknowledged rows in the order
\* of their ids, none ahead of one that the window does not take for sent.
LEMMA DeliverFollows ==
  ASSUME OInv, TypeOK', NEW s \in Sessions, PendingIsPrefix(SessionUser(s), acked'),
         NEW queried, NEW q \in Seq(Frames),
         q = down[s] \/ q = Append(down[s], Frame("loginRsp", NoMessage)),
         DeliverPendingTextMessages(s, acked', q, queried), phase' = phase, phase[s] = "open"
  PROVE  \A t \in Sessions : Follows(t)
  <1>0. TypeOK BY Zenon DEF OInv, IInv
  <1>1. /\ Len(down[s]) \in Nat /\ Len(q) \in Nat /\ Len(down[s]) <= Len(q)
        /\ \A i \in 1 .. Len(down[s]) : q[i] = down[s][i]
        /\ \A i \in Len(down[s]) + 1 .. Len(q), m \in Messages : q[i] # Frame("notify", m)
    <2>0. down[s] \in Seq(Frames) BY <1>0, ZenonT(60) DEF TypeOK
    <2>1. CASE q = down[s] BY <2>0, <2>1, SMTT(60)
    <2>2. CASE q = Append(down[s], Frame("loginRsp", NoMessage))
      <3> DEFINE f == Frame("loginRsp", NoMessage)
      <3>1. \A m : f # Frame("notify", m) BY Zenon DEF Frame
      <3> HIDE DEF f
      <3>2. q = Append(down[s], f) BY <2>2, ZenonT(60) DEF f
      <3>3. /\ Len(q) = Len(down[s]) + 1 /\ q[Len(down[s]) + 1] = f
            /\ \A i \in 1 .. Len(down[s]) : q[i] = down[s][i]
        BY <2>0, <3>2, SMTT(60)
      <3>4. \A i \in Len(down[s]) + 1 .. Len(q) : i = Len(down[s]) + 1 BY <2>0, <3>3, SMTT(60)
      <3> QED BY <2>0, <3>1, <3>3, <3>4, SMTT(60)
    <2> QED BY <2>1, <2>2, ZenonT(60)
  <1>2. \A t \in Sessions \ {s} : Follows(t)
    <2>1. \A t \in Sessions \ {s} : down'[t] = down[t] /\ window'[t] = window[t]
      <3>1. CASE ~queried BY <1>0, <3>1, ZenonT(60) DEF DeliverPendingTextMessages, TypeOK
      <3>2. CASE queried
        <4>1. PICK b \in Batches :
                /\ window' = [window EXCEPT ![s] =
                     (@ \cap Pending(SessionUser(s), acked')) \cup Elems(b)]
                /\ down' = [down EXCEPT ![s] = q \o Notifications(b)]
          BY <3>2, ZenonT(60) DEF DeliverPendingTextMessages
        <4> QED BY <1>0, <4>1, ZenonT(60) DEF TypeOK
      <3> QED BY <3>1, <3>2, ZenonT(60)
    <2> QED BY <1>0, <2>1, QuietFollows, ZenonT(60)
  <1>3. Follows(s)
    <2>1. CASE ~queried
      <3>1. down'[s] = q /\ window' = window BY <1>0, <2>1, ZenonT(60) DEF DeliverPendingTextMessages, TypeOK
      <3> QED BY <1>1, <3>1, ZenonT(60) DEF Follows
    <2>2. CASE queried
      <3> DEFINE pending == Pending(SessionUser(s), acked')
      <3>1. PICK b \in Batches :
              /\ IsBatch(b, pending, window[s] \cap pending, SendLimit - Len(q))
              /\ window' = [window EXCEPT ![s] = (@ \cap pending) \cup Elems(b)]
              /\ down' = [down EXCEPT ![s] = q \o Notifications(b)]
        BY <2>2, Zenon DEF DeliverPendingTextMessages
      <3>2. PICK n \in 0 .. Capacity : b \in [1 .. n -> Messages] BY <3>1, ZenonT(60) DEF Batches
      <3>3. n \in Nat /\ DOMAIN b = 1 .. n /\ Len(b) = n /\ b \in Seq(Messages) BY <3>2, Limits, SMTT(60)
      <3>4. /\ pending \subseteq Unacked(SessionUser(s), acked')
            /\ \A m \in Unacked(SessionUser(s), acked') :
                 m \in Rows /\ m \notin acked' /\ Receiver[m] = SessionUser(s)
        BY Zenon DEF Pending, Unacked, Rows
      <3>5. \A i \in 1 .. n : b[i] \in pending /\ b[i] \in Elems(b)
        BY <3>1, <3>3, ZenonT(60) DEF IsBatch, Elems
      <3>6. /\ Notifications(b) \in Seq(Frames) /\ Len(Notifications(b)) = n
            /\ \A i \in 1 .. n : Notifications(b)[i] = Frame("notify", b[i])
        <4>1. \A i \in 1 .. n : Frame("notify", b[i]) \in Frames BY <3>2, FrameType, ZenonT(60) DEF FrameTypes
        <4>2. Notifications(b) \in [1 .. n -> Frames] BY <3>3, <4>1, ZenonT(60) DEF Notifications
        <4> QED BY <3>3, <4>2, SMTT(60) DEF Notifications
      <3>7. /\ down'[s] = q \o Notifications(b)
            /\ window'[s] = (window[s] \cap pending) \cup Elems(b)
        <4> HIDE DEF pending
        <4> QED BY <1>0, <3>1, ZenonT(60) DEF TypeOK
      <3>8. /\ Len(down'[s]) = Len(q) + n
            /\ \A i \in 1 .. Len(q) : down'[s][i] = q[i]
            /\ \A i \in 1 .. n : down'[s][Len(q) + i] = Frame("notify", b[i])
        <4> HIDE DEF pending
        <4> DEFINE w == Notifications(b)
        <4>1. w \in Seq(Frames) /\ Len(w) = n /\ \A i \in 1 .. n : w[i] = Frame("notify", b[i])
          BY <3>6, ZenonT(60)
        <4>2. down'[s] = q \o w BY <3>7, ZenonT(60)
        <4> HIDE DEF w
        <4>3. /\ Len(q \o w) = Len(q) + n
              /\ \A i \in 1 .. Len(q) : (q \o w)[i] = q[i]
              /\ \A i \in 1 .. n : (q \o w)[Len(q) + i] = w[i]
          BY <3>3, <4>1, SMTT(60)
        <4> QED BY <4>1, <4>2, <4>3, ZenonT(60)
      <3>9. \A i, j \in 1 .. n : i < j => id[b[i]] < id[b[j]] BY <3>1, <3>3, Zenon DEF IsBatch
      <3>10. \A m \in pending \ ((window[s] \cap pending) \cup Elems(b)) : n > 0 => id[m] > id[b[n]]
        <4>1. n > 0 => b # <<>> BY <3>3
        <4> HIDE DEF pending
        <4> QED BY <3>1, <3>3, <4>1, ZenonT(60) DEF IsBatch
      <3>11. ASSUME NEW i \in Len(down[s]) + 1 .. Len(down'[s]), NEW m \in Messages,
                    down'[s][i] = Frame("notify", m)
             PROVE  /\ m \in Rows /\ m \notin acked'
                    /\ \A k \in Messages : Before(k, m) =>
                         \/ k \in window[s] \/ k \in acked'
                         \/ \E j \in Len(down[s]) + 1 .. i - 1 : down'[s][j] = Frame("notify", k)
        <4>1. i > Len(q)
          <5> SUFFICES ASSUME i <= Len(q) PROVE FALSE BY <1>1, <3>8, SMTT(60)
          <5>1. i \in 1 .. Len(q) /\ i \in Len(down[s]) + 1 .. Len(q) BY <1>1, SMTT(60)
          <5> QED BY <1>1, <3>8, <3>11, <5>1, ZenonT(60)
        <4>2. /\ i - Len(q) \in 1 .. n /\ i = Len(q) + (i - Len(q)) BY <1>1, <3>3, <3>8, <4>1, SMTT(60)
        <4>3. b[i - Len(q)] = m
          <5>1. down'[s][i] = Frame("notify", b[i - Len(q)]) BY <3>8, <4>2, ZenonT(60)
          <5> QED BY <3>11, <5>1, NotifyFrame, ZenonT(60)
        <4>4. m \in pending BY <3>5, <4>2, <4>3, ZenonT(60)
        <4>5. m \in Rows /\ m \notin acked' /\ Receiver[m] = SessionUser(s) BY <3>4, <4>4, ZenonT(60)
        <4>6. ASSUME NEW k \in Messages, Before(k, m), k \notin window[s], k \notin acked'
              PROVE  \E j \in Len(down[s]) + 1 .. i - 1 : down'[s][j] = Frame("notify", k)
          <5>1. k \in Unacked(SessionUser(s), acked') /\ id[k] < id[m]
            BY <4>5, <4>6, ZenonT(60) DEF Before, Unacked, Rows
          <5>2. k \in pending BY <4>4, <5>1, ZenonT(60) DEF PendingIsPrefix
          <5>3. id \in [Messages -> Nat] BY <1>0, ZenonT(60) DEF TypeOK
          <5>4. k \in Elems(b)
            <6> SUFFICES ASSUME k \notin Elems(b) PROVE FALSE OBVIOUS
            <6>1. n > 0 /\ n \in 1 .. n /\ b[n] \in Messages BY <3>2, <3>3, <4>2, SMTT(60)
            <6>2. id[k] > id[b[n]]
              <7> HIDE DEF pending
              <7> QED BY <3>10, <4>6, <5>2, <6>1, ZenonT(60)
            <6>3. id[m] <= id[b[n]]
              <7>1. CASE i - Len(q) = n BY <4>3, <5>3, <6>1, <7>1, SMTT(60)
              <7>2. CASE i - Len(q) # n
                <8>1. i - Len(q) < n BY <3>3, <4>2, <7>2, SMTT(60)
                <8>2. id[b[i - Len(q)]] < id[b[n]] BY <3>9, <4>2, <6>1, <8>1, Zenon
                <8> QED BY <4>3, <5>3, <6>1, <8>2, SMTT(60)
              <7> QED BY <7>1, <7>2, ZenonT(60)
            <6> QED BY <5>1, <5>3, <6>1, <6>2, <6>3, SMTT(60)
          <5>5. PICK j \in 1 .. n : b[j] = k BY <3>3, <5>4, Zenon DEF Elems
          <5>6. j < i - Len(q)
            <6> SUFFICES ASSUME ~(j < i - Len(q)) PROVE FALSE OBVIOUS
            <6>1. CASE j = i - Len(q) BY <4>3, <5>1, <5>3, <5>5, <6>1
            <6>2. CASE i - Len(q) < j
              <7>1. id[m] < id[k] BY <3>9, <4>2, <4>3, <5>5, <6>2, ZenonT(60)
              <7> QED BY <5>1, <5>3, <7>1, SMTT(60)
            <6> QED BY <3>3, <4>2, <6>1, <6>2, SMTT(60)
          <5>7. Len(q) + j \in Len(down[s]) + 1 .. i - 1 BY <1>1, <3>3, <4>2, <5>6, SMTT(60)
          <5>8. down'[s][Len(q) + j] = Frame("notify", k) BY <3>8, <5>5, ZenonT(60)
          <5> QED BY <5>7, <5>8, ZenonT(60)
        <4> QED BY <4>5, <4>6, ZenonT(60)
      <3>12. ASSUME NEW k \in window'[s]
             PROVE  k \in window[s] \/ \E i \in 1 .. Len(down'[s]) : down'[s][i] = Frame("notify", k)
        <4>1. CASE k \in Elems(b)
          <5>1. PICK j \in 1 .. n : b[j] = k BY <3>3, <4>1, ZenonT(60) DEF Elems
          <5>2. Len(q) + j \in 1 .. Len(down'[s]) BY <1>1, <3>3, <3>8, SMTT(60)
          <5> QED BY <3>8, <5>1, <5>2, ZenonT(60)
        <4> QED BY <3>7, <4>1, ZenonT(60)
      <3>13. /\ Len(down[s]) <= Len(down'[s])
             /\ \A i \in 1 .. Len(down[s]) : down'[s][i] = down[s][i]
        BY <1>1, <3>3, <3>8, SMTT(60)
      <3> HIDE DEF pending
      <3> QED BY <3>11, <3>12, <3>13, Zenon DEF Follows
    <2> QED BY <2>1, <2>2, ZenonT(60)
  <1> QED BY <1>2, <1>3, ZenonT(60)

\* A step of a session or its handlers keeps the order.
LEMMA OrderSession ==
  ASSUME OInv, TypeOK', NEW s \in Sessions, SessionStep(s), PendingIsPrefix(SessionUser(s), acked')
  PROVE  Ordered'
  <1> USE DEF dbvars, sessionvars, deliveryvars, queuevars, clientvars
  <1>0. TypeOK /\ IInv BY Zenon DEF OInv, IInv
  <1>1. CASE Connect(s) BY <1>1, OrderConnect, ZenonT(60)
  <1>2. ASSUME UNCHANGED <<id, via>>, conn' = conn, shown' = shown, acked \subseteq acked',
               \A t \in Sessions : Follows(t)
        PROVE  Ordered'
    BY <1>2, RowsStay, OrderFollows, ZenonT(60) DEF Steady
  <1>3. ASSUME UNCHANGED <<id, via>>, conn' = conn, shown' = shown, acked \subseteq acked',
               down' = down, \A t \in Sessions : window'[t] \subseteq window[t],
               \A t \in Sessions : phase'[t] = "none" => phase[t] = "none"
        PROVE  Ordered'
    <2>1. \A t \in Sessions : Follows(t) BY <1>0, <1>3, QuietFollows, ZenonT(60)
    <2> QED BY <1>2, <1>3, <2>1, ZenonT(60)
  <1>4. CASE Close(s) \/ ClearSession(s)
    <2>1. /\ UNCHANGED <<id, via, acked, conn, shown, down, window>>
          /\ phase' = [phase EXCEPT ![s] = "closing"] \/ phase' = [phase EXCEPT ![s] = "cleared"]
      BY <1>4, ZenonT(60) DEF Close, ClearSession
    <2>2. \A t \in Sessions : phase'[t] = "none" => phase[t] = "none"
      BY <1>0, <2>1, SMTT(60) DEF TypeOK
    <2> QED BY <1>3, <2>1, <2>2, ZenonT(60)
  <1>5. CASE TickErase(s)
    <2>1. /\ UNCHANGED <<id, via, acked, conn, shown, down, phase>>
          /\ window' = [window EXCEPT ![s] = {}]
      BY <1>5, ZenonT(60) DEF TickErase
    <2>2. \A t \in Sessions : window'[t] \subseteq window[t] BY <1>0, <2>1, ZenonT(60) DEF TypeOK
    <2> QED BY <1>3, <2>1, <2>2, ZenonT(60)
  <1>6. CASE LoginSetUserId(s) \/ LoginSetNode(s) \/ LoginSetUserSession(s)
    <2>1. UNCHANGED <<id, via, acked, conn, shown, down, phase, window>>
      BY <1>6, ZenonT(60) DEF LoginSetUserId, LoginSetNode, LoginSetUserSession
    <2> QED BY <1>3, <2>1, ZenonT(60)
  <1>7. ASSUME NEW type \in FrameTypes \ {"notify"}, NEW m \in Messages \cup {NoMessage},
               down' = Send(s, Frame(type, m)), window' = window, phase' = phase
        PROVE  \A t \in Sessions : Follows(t)
    <2>1. Frame(type, m) \in Frames /\ Frame(type, m).type # "notify" BY FrameType, Zenon
    <2> QED BY <1>0, <1>7, <2>1, SendFollows, ZenonT(60)
  <1>8. CASE LoginReject(s)
    <2>1. /\ down' = Send(s, Frame("loginErr", NoMessage))
          /\ UNCHANGED <<id, via, acked, conn, shown, phase, window>>
      BY <1>8, ZenonT(60) DEF LoginReject
    <2>2. "loginErr" \in FrameTypes \ {"notify"} BY Zenon DEF FrameTypes
    <2> QED BY <1>2, <1>7, <2>1, <2>2, ZenonT(60)
  <1>9. CASE TextAccepted(s) \/ TextUnavailable(s) \/ TextRefused(s)
    <2> DEFINE m == Head(up[s]).msg
    <2>1. /\ PersistTextMessages(s, m) \/ UNCHANGED <<id, via>>
          /\ down' = Send(s, Frame("textRsp", m)) \/ down' = Send(s, Frame("textErr", m))
          /\ UNCHANGED <<acked, conn, shown, phase, window>>
          /\ up[s] # <<>> /\ Head(up[s]).type = "text"
      BY <1>9, ZenonT(60) DEF TextAccepted, TextUnavailable, TextRefused, Authorized, Dealing
    <2>2. m \in Messages BY <1>0, <2>1, HeadFacts, ZenonT(60) DEF UpSound
    <2> HIDE DEF m
    <2>3. \A t \in Sessions : Follows(t) BY <1>7, <2>1, <2>2, ZenonT(60) DEF FrameTypes
    <2>4. RowsDistinct' /\ \A k, x \in Messages : Before(k, x)' /\ x \in Rows => Before(k, x)
      BY <2>1, <2>2, PersistKeepsOrder, ZenonT(60)
    <2>5. Steady BY <2>1, <2>4, ZenonT(60) DEF Steady
    <2> QED BY <2>3, <2>4, <2>5, OrderFollows, ZenonT(60)
  <1>10. ASSUME Authorized(s, "ack")
         PROVE  acked \subseteq Acknowledged(s, Head(up[s]).msg)
    BY Zenon DEF Acknowledged
  <1>11. CASE AckFailed(s)
    <2>1. UNCHANGED <<id, via, conn, shown, down, phase, window>> BY <1>11, ZenonT(60) DEF AckFailed
    <2>2. acked \subseteq acked' BY <1>10, <1>11, ZenonT(60) DEF AckFailed
    <2> QED BY <1>3, <2>1, <2>2, ZenonT(60)
  <1>12. ASSUME NEW queried \in BOOLEAN, DeliverPendingTextMessages(s, acked', down[s], queried),
                phase' = phase, phase[s] = "open",
                UNCHANGED <<id, via, conn, shown>>, acked \subseteq acked'
         PROVE  Ordered'
    <2>1. down[s] \in Seq(Frames) BY <1>0, ZenonT(60) DEF TypeOK
    <2>2. \A t \in Sessions : Follows(t) BY <1>12, <2>1, DeliverFollows, ZenonT(60)
    <2> QED BY <1>2, <1>12, <2>2, ZenonT(60)
  <1>13. ASSUME NEW queried \in BOOLEAN, TickDeliver(s, queried) PROVE Ordered'
    <2>1. acked' = acked BY <1>13, ZenonT(60) DEF TickDeliver
    <2> QED BY <1>12, <1>13, <2>1, ZenonT(60) DEF TickDeliver
  <1>14. ASSUME NEW queried \in BOOLEAN, RunWake(s, queried) PROVE Ordered'
    <2>1. UNCHANGED <<id, via, acked, conn, shown, phase>> BY <1>14, ZenonT(60) DEF RunWake
    <2>2. CASE phase[s] = "open" /\ DeliverPendingTextMessages(s, acked, down[s], queried)
      BY <1>12, <2>1, <2>2, ZenonT(60)
    <2>3. CASE UNCHANGED <<deliveryvars, down>> BY <1>3, <2>1, <2>3, ZenonT(60)
    <2> QED BY <1>14, <2>2, <2>3, ZenonT(60) DEF RunWake
  <1>15. ASSUME NEW queried \in BOOLEAN, AckCommitted(s, queried) PROVE Ordered'
    <2>1. /\ UNCHANGED <<id, via, conn, shown, phase>> /\ Authorized(s, "ack")
          /\ acked' = Acknowledged(s, Head(up[s]).msg)
          /\ DeliverPendingTextMessages(s, acked', down[s], queried)
      BY <1>15, ZenonT(60) DEF AckCommitted
    <2>2. phase[s] = "open" /\ acked \subseteq acked'
      BY <1>10, <2>1, ZenonT(60) DEF Authorized, Dealing
    <2> QED BY <1>12, <2>1, <2>2, ZenonT(60)
  <1>16. ASSUME NEW queried \in BOOLEAN, LoginReply(s, queried) PROVE Ordered'
    <2> DEFINE q == Append(down[s], Frame("loginRsp", NoMessage))
    <2>1. UNCHANGED <<id, via, acked, conn, shown, phase>> BY <1>16, ZenonT(60) DEF LoginReply
    <2>2. CASE UNCHANGED <<deliveryvars, down>> BY <1>3, <2>1, <2>2, ZenonT(60)
    <2>3. CASE CanSend(s) /\ DeliverPendingTextMessages(s, acked, q, queried)
      <3>1. q \in Seq(Frames)
        <4>1. Frame("loginRsp", NoMessage) \in Frames BY FrameType, ZenonT(60) DEF FrameTypes
        <4>2. down[s] \in Seq(Frames) BY <1>0, ZenonT(60) DEF TypeOK
        <4> QED BY <4>1, <4>2, AppendFacts, ZenonT(60)
      <3>2. phase[s] = "open" BY <2>3, ZenonT(60) DEF CanSend
      <3>3. \A t \in Sessions : Follows(t)
        <4>1. DeliverPendingTextMessages(s, acked', q, queried) BY <2>1, <2>3, ZenonT(60)
        <4>2. q = down[s] \/ q = Append(down[s], Frame("loginRsp", NoMessage)) OBVIOUS
        <4> HIDE DEF q
        <4> QED BY <2>1, <3>1, <3>2, <4>1, <4>2, DeliverFollows, ZenonT(60)
      <3> QED BY <1>2, <2>1, <3>3, ZenonT(60)
    <2> QED BY <1>16, <2>2, <2>3, ZenonT(60) DEF LoginReply
  <1> QED BY <1>1, <1>4, <1>5, <1>6, <1>8, <1>9, <1>11, <1>13, <1>14, <1>15, <1>16, ZenonT(60) DEF SessionStep

\* What is in order in flight, in the windows and on the devices is shown once
\* and in order.
LEMMA OrderShows == OInv => ShownOnceInOrder
  <1> SUFFICES ASSUME OInv, NEW d \in Devices, NEW i \in DOMAIN shown[d],
                      NEW j \in DOMAIN shown[d], i < j
               PROVE  /\ shown[d][i] # shown[d][j]
                      /\ via[shown[d][i]] = via[shown[d][j]] => id[shown[d][i]] < id[shown[d][j]]
    BY Zenon DEF ShownOnceInOrder
  <1> DEFINE x == shown[d][i]
             y == shown[d][j]
  <1>0. TypeOK /\ Soundness /\ RowsDistinct /\ ShownInOrder /\ ShownOnce
    BY ZenonT(60) DEF OInv, IInv, Ordered
  <1>1. /\ shown[d] \in Seq(Messages) /\ x \in Messages /\ y \in Messages
        /\ i \in 1 .. Len(shown[d]) /\ j \in 1 .. Len(shown[d])
    BY <1>0, SMTT(60) DEF TypeOK
  <1>2. x # y BY <1>0, <1>1 DEF ShownOnce
  <1>3. x \in Elems(shown[d]) /\ y \in Elems(shown[d]) BY ZenonT(60) DEF Elems
  <1>4. {x, y} \subseteq Rows /\ Receiver[x] = Receiver[y]
    BY <1>0, <1>1, <1>3, SMTT(60) DEF Soundness, StoreSound
  <1>5. id[x] \in Nat /\ id[y] \in Nat BY <1>0, <1>1, ZenonT(60) DEF TypeOK
  <1>6. ASSUME via[x] = via[y] PROVE id[x] < id[y]
    <2>1. id[x] # id[y] BY <1>0, <1>2, <1>4, ZenonT(60) DEF RowsDistinct
    <2>2. ~Before(y, x)
      <3> SUFFICES ASSUME Before(y, x) PROVE FALSE OBVIOUS
      <3>1. \/ \E l \in 1 .. i - 1 : shown[d][l] = y
            \/ y \notin Elems(shown[d])
        BY <1>0, <1>1, ZenonT(60) DEF ShownInOrder
      <3>2. PICK l \in 1 .. i - 1 : shown[d][l] = y BY <1>3, <3>1, ZenonT(60)
      <3>3. l \in 1 .. Len(shown[d]) /\ l # j BY <1>1, <3>2, SMTT(60)
      <3> QED BY <1>0, <1>1, <3>2, <3>3, ZenonT(60) DEF ShownOnce
    <2>3. ~(id[y] < id[x]) BY <1>4, <1>6, <2>2, ZenonT(60) DEF Before
    <2> HIDE DEF x, y
    <2> QED BY <1>5, <2>1, <2>3, SMTT(60)
  <1> QED BY <1>2, <1>6, ZenonT(60)

-----------------------------------------------------------------------------
(* The theorems.  Only here are cardinalities needed. *)

INSTANCE FiniteSetTheorems

\* LIMIT cuts the unacknowledged rows after the first ones in id order.
LEMMA PendingPrefix ==
  ASSUME TypeOK, NEW u, NEW acks
  PROVE  PendingIsPrefix(u, acks)
  <1> SUFFICES ASSUME NEW m \in Pending(u, acks), NEW k \in Unacked(u, acks), id[k] < id[m]
               PROVE  k \in Pending(u, acks)
    BY ZenonT(60) DEF PendingIsPrefix
  <1> DEFINE UpTo(x) == {y \in Unacked(u, acks) : id[y] <= id[x]}
  <1>0. Capacity \in Nat /\ k \in Messages /\ m \in Messages /\ id \in [Messages -> Nat]
    BY Limits, ZenonT(60) DEF Pending, Unacked, TypeOK
  <1>1. UpTo(k) \subseteq UpTo(m) BY <1>0, SMTT(60) DEF Unacked
  <1>2. IsFiniteSet(UpTo(m))
    <2>1. UpTo(m) \subseteq Messages BY ZenonT(60) DEF Unacked
    <2>2. IsFiniteSet(Messages) BY Topology, ZenonT(60)
    <2> HIDE DEF UpTo
    <2> QED BY <2>1, <2>2, FS_Subset, ZenonT(60)
  <1>3. Cardinality(UpTo(m)) <= Capacity BY ZenonT(60) DEF Pending
  <1>4. Cardinality(UpTo(k)) <= Cardinality(UpTo(m))
    <2> HIDE DEF UpTo
    <2> QED BY <1>1, <1>2, FS_Subset, ZenonT(60)
  <1>5. Cardinality(UpTo(k)) \in Nat /\ Cardinality(UpTo(m)) \in Nat
    <2> HIDE DEF UpTo
    <2> QED BY <1>1, <1>2, FS_Subset, FS_CardinalityType, ZenonT(60)
  <1>6. Cardinality(UpTo(k)) <= Capacity
    <2> HIDE DEF UpTo
    <2> QED BY <1>0, <1>3, <1>4, <1>5, SMTT(60)
  <1> QED BY <1>6, ZenonT(60) DEF Pending

\* Every step of the system keeps what is shown and in flight in order.
LEMMA OInvStep == OInv /\ [Next]_vars => OInv'
  <1> SUFFICES ASSUME OInv, [Next]_vars PROVE OInv' OBVIOUS
  <1>1. IInv' BY IInvStep, ZenonT(60) DEF OInv
  <1>2. TypeOK' BY <1>1, ZenonT(60) DEF IInv
  <1> SUFFICES Ordered' BY <1>1, ZenonT(60) DEF OInv
  <1>3. CASE \E s \in Sessions : SessionStep(s)
    <2>1. TypeOK BY ZenonT(60) DEF OInv, IInv
    <2>2. \A s \in Sessions : PendingIsPrefix(SessionUser(s), acked') BY <2>1, PendingPrefix, ZenonT(60)
    <2> QED BY <1>2, <1>3, <2>2, OrderSession, ZenonT(60)
  <1>4. CASE \E d \in Devices : ClientStep(d) BY <1>2, <1>4, OrderClient, ZenonT(60)
  <1>5. CASE \E n \in Nodes : NodeStep(n) BY <1>2, <1>5, OrderNode, ZenonT(60)
  <1>6. CASE UNCHANGED vars
    <2>1. UNCHANGED <<id, via, acked, phase, window, down, conn, shown>>
      BY <1>6, ZenonT(60) DEF vars, dbvars, sessionvars, deliveryvars, clientvars
    <2>2. \A t \in Sessions : Follows(t) BY <2>1, QuietFollows, ZenonT(60) DEF OInv, IInv
    <2> QED BY <1>2, <2>1, <2>2, RowsStay, OrderFollows, ZenonT(60) DEF Steady
  <1> QED BY <1>3, <1>4, <1>5, <1>6, ZenonT(60) DEF Next

\* In every reachable state what was shown, what is in flight and what a window
\* takes for sent are in order together.
THEOREM OrderInvariance == Spec => []OInv
  <1>1. Init => OInv BY TypeInit, SoundInit, OrderInit, ZenonT(60) DEF OInv, IInv
  <1> QED BY <1>1, OInvStep, PTL DEF Spec

\* A device shows no message twice, and what one session of a sender committed
\* in the order of its rows, whatever is lost, repeated, reconnected or crashes.
THEOREM ShownCorrect == Spec => []ShownOnceInOrder
  BY OrderShows, OrderInvariance, PTL
=============================================================================
