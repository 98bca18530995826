-------------------------- MODULE MCDeliveryOrder --------------------------
(***************************************************************************)
(* What a receiver of two messages sees, for TLC: a device that reconnects *)
(* to another node when one crashes or the connection is lost, and two     *)
(* devices of one user.  The part chosen at the start says which of the    *)
(* sessions of the instance are opened.                                    *)
(***************************************************************************)
EXTENDS TextDelivery

CONSTANTS n1, n2, ann, bob, a, b, b2, sb, sc, sd, m1, m2

VARIABLE chosen

MCDeviceUser == [d \in Devices |-> IF d = a THEN ann ELSE bob]
MCSessionDevice == [s \in Sessions |-> IF s = sd THEN b2 ELSE b]
MCSessionNode == [s \in Sessions |-> IF s = sc THEN n2 ELSE n1]
MCOrigin == [m \in Messages |-> a]
MCReceiver == [m \in Messages |-> bob]
MCFriends == {<<ann, bob>>, <<bob, ann>>}
MCBacklog == <<m1, m2>>

\* sb and sc are of one device, on two nodes; sb and sd of two devices, on one
\* node, where the device of sd stays connected.
Bounds ==
  \/ /\ chosen = "reconnect" /\ phase[sd] = "none"
     /\ phase[sc] # "none" => phase[sb] # "none"
  \/ /\ chosen = "two devices" /\ phase[sc] = "none" /\ crashes = 0
     /\ phase[sd] \in {"none", "open"}
     /\ phase[sd] = "open" => conn[b2] = sd

PartInit == Init /\ chosen \in {"reconnect", "two devices"}
PartNext == Next /\ UNCHANGED chosen /\ Bounds'
PartSpec == PartInit /\ [][PartNext]_<<chosen, vars>>
=============================================================================
