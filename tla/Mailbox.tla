------------------------------ MODULE Mailbox ------------------------------
(***************************************************************************)
(* What the message service promises its users: a message is accepted at   *)
(* most once and for good, every device of its receiver shows it at most   *)
(* once and only after it was accepted, and it is settled (never sent      *)
(* again) only after one of them showed it.  Messages accepted earlier may  *)
(* be waiting at the start.                                                *)
(***************************************************************************)
EXTENDS Sequences, Naturals

CONSTANTS Messages, Devices, DeviceUser, Receiver

VARIABLES accepted, shown, settled

mailvars == <<accepted, shown, settled>>

Shown(d) == {shown[d][i] : i \in DOMAIN shown[d]}

Init ==
  /\ accepted \subseteq Messages /\ settled = {}
  /\ shown = [d \in Devices |-> <<>>]

Accept(m) ==
  /\ m \notin accepted
  /\ accepted' = accepted \cup {m}
  /\ UNCHANGED <<shown, settled>>

Show(d, m) ==
  /\ m \in accepted /\ DeviceUser[d] = Receiver[m] /\ m \notin Shown(d)
  /\ shown' = [shown EXCEPT ![d] = Append(@, m)]
  /\ UNCHANGED <<accepted, settled>>

Settle(m) ==
  /\ m \in accepted
  /\ \E d \in Devices : DeviceUser[d] = Receiver[m] /\ m \in Shown(d)
  /\ settled' = settled \cup {m}
  /\ UNCHANGED <<accepted, shown>>

Next ==
  \E m \in Messages : Accept(m) \/ Settle(m) \/ \E d \in Devices : Show(d, m)

Spec == Init /\ [][Next]_mailvars
=============================================================================
