---------------------------- MODULE MCResource ----------------------------
(***************************************************************************)
(* The resource server for TLC: transfers (ResourceUpload) and avatars     *)
(* (AvatarUpdate).  They share no state, so a behaviour of the run is one  *)
(* of the part chosen at the start.  Transfers have their own variables    *)
(* and three parts, each with bounds of its own; v1, v2, ... hold the      *)
(* variables of the avatars, 0 in the other parts.                         *)
(***************************************************************************)
EXTENDS ResourceUpload, TLC

CONSTANTS x1, x2, y1, y2, z1, z2, i1, i2, a, b

VARIABLES chosen, v1, v2, v3, v4, v5, v6, v7, v8, v9, v10

slots == <<v1, v2, v3, v4, v5, v6, v7, v8, v9, v10>>

MCOriginal == <<a, b>>

Avatar == INSTANCE AvatarUpdate WITH
  Servers <- {x1, x2}, Ids <- {y1, y2, "i3"}, Sizes <- {z1, z2}, MaxFaults <- 1,
  row <- v1, files <- v2, partial <- v3, avatar <- v4, version <- v5, lock <- v6, put <- v7, sweep <- v8,
  used <- v9, faults <- v10

ASSUME Avatar!AvatarConstants

\* One PUT with all that is missing, and no wrong content.
PlainUpload ==
  \A s \in Servers : job[s].pc = "part" => job[s].parts = SubSeq(Original, job[s].at + 1, Total)
Announcing == \E s \in Servers : sweep[s].pc = "notify"

\* One transfer with any chunks and two faults, before it is announced; its
\* announcement to both peers with one fault; two transfers without faults.
Bounds ==
  \/ chosen = "upload" /\ Cardinality(used) <= 1 /\ ~Announcing
  \/ chosen = "announce" /\ Cardinality(used) <= 1 /\ PlainUpload /\ faults <= 1
  \/ chosen = "create" /\ PlainUpload /\ ~Announcing /\ faults = 0

Off == v1 = 0 /\ v2 = 0 /\ v3 = 0 /\ v4 = 0 /\ v5 = 0 /\ v6 = 0 /\ v7 = 0 /\ v8 = 0 /\ v9 = 0 /\ v10 = 0

PartInit ==
  /\ Init
  /\ \/ chosen \in {"upload", "announce", "create"} /\ Off
     \/ chosen = "avatar" /\ Avatar!Init

PartNext ==
  \/ chosen # "avatar" /\ Next /\ UNCHANGED <<chosen, slots>> /\ Bounds'
  \/ chosen = "avatar" /\ Avatar!Next /\ UNCHANGED <<chosen, vars>>

PartSpec == PartInit /\ [][PartNext]_<<chosen, vars, slots>>

Symmetry ==
  Permutations({x1, x2}) \cup Permutations({y1, y2}) \cup Permutations({z1, z2}) \cup Permutations({i1, i2})

\* AvatarUpdate, put: an avatar replaces only the one its put had seen.
NoLostUpdate == [][chosen = "avatar" => Avatar!Switches]_slots
===========================================================================
