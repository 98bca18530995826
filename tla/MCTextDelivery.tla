-------------------------- MODULE MCTextDelivery --------------------------
(* Instances of TextDelivery for TLC. *)
EXTENDS TextDelivery

CONSTANTS n1, n2, ann, bob, a, b, b2, sa, sb, sc, m1, m2, cat, m3

MCDeviceUser == [d \in Devices |-> IF d = a THEN ann ELSE bob]
MCOrigin == [m \in Messages |-> a]
\* cat is nobody's friend.
MCReceiver == [m \in Messages |-> IF m = m3 THEN cat ELSE bob]
MCFriends == {<<ann, bob>>, <<bob, ann>>}
MCBacklog == <<m1>>

\* sa is the sender's; sb and sc are the receiver's.
MCOneDevice == [s \in Sessions |-> IF s = sa THEN a ELSE b]
MCTwoDevices == [s \in Sessions |-> IF s = sb THEN b ELSE b2]
MCCrossNode == [s \in Sessions |-> IF s = sa THEN n1 ELSE n2]
MCOneNode == [s \in Sessions |-> n1]
=============================================================================
