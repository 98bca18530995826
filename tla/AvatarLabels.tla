---------------------------- MODULE AvatarLabels ----------------------------
(***************************************************************************)
(* The client's AvatarLoader: labels that show the avatar of the user they *)
(* are bound to, and are bound to other users, while metadata and image    *)
(* requests are under way and change notifications arrive late, twice or   *)
(* out of order.  An avatar is named by its user and its version.          *)
(***************************************************************************)
EXTENDS Naturals, FiniteSets

CONSTANTS
  Labels, Users, Me,  \* Me: the user of this client
  MaxVersion,         \* bound: changes of an avatar
  MaxLoads,           \* bound: requests of a label under way at once
  MaxFaults, None

LabelConstants ==
  /\ Me \in Users /\ MaxVersion \in Nat /\ MaxLoads \in Nat /\ MaxFaults \in Nat /\ None \notin Users

VARIABLES
  label,     \* user a label is bound to, picture shown, whether its last load failed
  metas,     \* GET /users/<uid>/avatar under way: the label, its user, the answer
  images,    \* GET /avatars/<id>/<size> under way
  versions,  \* versions_
  cache,     \* cache_ and the disk cache of the account
  cur,       \* avatar_version of each user in the database (0: no avatar)
  news,      \* ID_AVATAR_CHANGED frames on their way
  edit,      \* chooseAndUpload: where it is and the version it has read
  faults

vars == <<label, metas, images, versions, cache, cur, news, edit, faults>>

Avatars == Users \X (1 .. MaxVersion)
Unbound == [uid |-> None, pic |-> None, failed |-> FALSE]
NoEdit == [pc |-> "idle", v |-> 0]

Init ==
  /\ label = [l \in Labels |-> Unbound] /\ metas = {} /\ images = {}
  /\ versions = [u \in Users |-> 0] /\ cache = {} /\ cur = [u \in Users |-> 0]
  /\ news = {} /\ edit = NoEdit /\ faults = 0

Fault == faults < MaxFaults /\ faults' = faults + 1
Loads(l) == {m \in metas \cup images : m.l = l}

\* load() of the labels ls, all bound to u: the fallback, and a request each.
\* Requests are told apart by n.
Free(l) == CHOOSE n \in 1 .. MaxLoads : \A m \in Loads(l) : m.n # n
Meta(l, u, n) == [l |-> l, u |-> u, n |-> n, v |-> None]
load(ls, u) ==
  /\ \A l \in ls : Cardinality(Loads(l)) < MaxLoads
  /\ label' = [l \in Labels |-> IF l \in ls THEN [uid |-> u, pic |-> None, failed |-> FALSE] ELSE label[l]]
  /\ metas' = metas \cup {Meta(l, u, Free(l)) : l \in ls}

Bind(l, u) ==
  /\ label[l].uid # u /\ load({l}, u)
  /\ UNCHANGED <<images, versions, cache, cur, news, edit, faults>>

Bound(u) == {l \in Labels : label[l].uid = u}

\* sig_avatar_changed: frames may overtake each other.
Changed(f) ==
  /\ f \in news /\ news' = news \ {f}
  /\ versions' = [versions EXCEPT ![f[1]] = f[2]]
  /\ load(Bound(f[1]), f[1])
  /\ UNCHANGED <<images, cache, cur, edit, faults>>

\* The server reads the version; the answer arrives later.
ServeMeta(m) ==
  /\ m \in metas /\ m.v = None
  /\ metas' = (metas \ {m}) \cup {[m EXCEPT !.v = cur[m.u]]}
  /\ UNCHANGED <<label, images, versions, cache, cur, news, edit, faults>>

Shown(l, u, v) == [label EXCEPT ![l].pic = <<u, v>>]

MetaArrivesAnyLabel(m) ==  \* the label's user is not compared
  /\ m \in metas /\ m.v # None /\ metas' = metas \ {m}
  /\ IF m.v < versions[m.u] THEN UNCHANGED <<label, images, versions>>
     ELSE /\ versions' = [versions EXCEPT ![m.u] = m.v]
          /\ IF m.v = 0 THEN UNCHANGED <<label, images>>
             ELSE IF <<m.u, m.v>> \in cache THEN label' = Shown(m.l, m.u, m.v) /\ UNCHANGED images
             ELSE images' = images \cup {m} /\ UNCHANGED label
  /\ UNCHANGED <<cache, cur, news, edit, faults>>

\* The first callback of load().
MetaArrives(m) ==
  /\ m \in metas /\ m.v # None /\ metas' = metas \ {m}
  /\ IF label[m.l].uid # m.u \/ m.v < versions[m.u] THEN UNCHANGED <<label, images, versions>>
     ELSE /\ versions' = [versions EXCEPT ![m.u] = m.v]
          /\ IF m.v = 0 THEN UNCHANGED <<label, images>>
             ELSE IF <<m.u, m.v>> \in cache THEN label' = Shown(m.l, m.u, m.v) /\ UNCHANGED images
             ELSE images' = images \cup {m} /\ UNCHANGED label
  /\ UNCHANGED <<cache, cur, news, edit, faults>>

ImageArrivesAnyVersion(m) ==  \* a newer version seen meanwhile is not considered
  /\ m \in images /\ images' = images \ {m}
  /\ IF label[m.l].uid # m.u THEN UNCHANGED <<label, cache>>
     ELSE label' = Shown(m.l, m.u, m.v) /\ cache' = cache \cup {<<m.u, m.v>>}
  /\ UNCHANGED <<metas, versions, cur, news, edit, faults>>

\* The second callback of load().
ImageArrives(m) ==
  /\ m \in images /\ images' = images \ {m}
  /\ IF label[m.l].uid # m.u \/ m.v < versions[m.u] THEN UNCHANGED <<label, cache>>
     ELSE label' = Shown(m.l, m.u, m.v) /\ cache' = cache \cup {<<m.u, m.v>>}
  /\ UNCHANGED <<metas, versions, cur, news, edit, faults>>

\* Any status but 200, or data that is no image.
LoadFails(m) ==
  /\ m \in metas \cup images /\ Fault
  /\ metas' = metas \ {m} /\ images' = images \ {m}
  /\ label' = [label EXCEPT ![m.l].failed = @ \/ label[m.l].uid = m.u]
  /\ UNCHANGED <<versions, cache, cur, news, edit>>

-----------------------------------------------------------------------------
\* The avatar of u changes, from another device or another client.
Replaced(u) ==
  /\ cur[u] < MaxVersion
  /\ cur' = [cur EXCEPT ![u] = @ + 1] /\ news' = news \cup {<<u, cur[u] + 1>>}

OtherChange(u) == Replaced(u) /\ UNCHANGED <<label, metas, images, versions, cache, edit, faults>>

\* chooseAndUpload: read the version, put with If-Match, reload on success.
EditRead ==
  /\ edit.pc = "idle" /\ edit' = [pc |-> "put", v |-> cur[Me]]
  /\ UNCHANGED <<label, metas, images, versions, cache, cur, news, faults>>

EditPut ==
  /\ edit.pc = "put"
  /\ IF cur[Me] = edit.v THEN Replaced(Me) /\ edit' = [edit EXCEPT !.pc = "done"]
     ELSE edit' = NoEdit /\ UNCHANGED <<cur, news>>
  /\ UNCHANGED <<label, metas, images, versions, cache, faults>>

EditDone ==
  /\ edit.pc = "done" /\ edit' = NoEdit /\ load(Bound(Me), Me)
  /\ UNCHANGED <<images, versions, cache, cur, news, faults>>

\* resetAccount: the window and its labels go, requests are dropped.
Logout ==
  /\ Fault
  /\ label' = [l \in Labels |-> Unbound] /\ metas' = {} /\ images' = {} /\ news' = {} /\ edit' = NoEdit
  /\ versions' = [u \in Users |-> 0] /\ UNCHANGED <<cache, cur>>

Next ==
  \/ \E l \in Labels, u \in Users : Bind(l, u)
  \/ \E f \in news : Changed(f)
  \/ \E m \in metas : ServeMeta(m) \/ MetaArrives(m)
  \/ \E m \in images : ImageArrives(m)
  \/ \E m \in metas \cup images : LoadFails(m)
  \/ \E u \in Users : OtherChange(u)
  \/ EditRead \/ EditPut \/ EditDone \/ Logout

Spec == Init /\ [][Next]_vars

-----------------------------------------------------------------------------
\* Labels, requests and versions are well formed.
TypeOK ==
  /\ label \in [Labels -> [uid : Users \cup {None}, pic : Avatars \cup {None}, failed : BOOLEAN]]
  /\ \A m \in metas \cup images : m.l \in Labels /\ m.u \in Users /\ m.n \in 1 .. MaxLoads
  /\ \A m \in images : m.v \in 1 .. MaxVersion
  /\ versions \in [Users -> 0 .. MaxVersion] /\ cache \subseteq Avatars
  /\ cur \in [Users -> 0 .. MaxVersion] /\ news \subseteq Avatars
  /\ edit.pc \in {"idle", "put", "done"} /\ faults \in 0 .. MaxFaults

\* Once nothing is under way, a label whose last load did not fail shows the
\* avatar its user has now, in whatever order notifications and answers came.
LabelIsUpToDate ==
  \A l \in Labels :
    LET u == label[l].uid IN
    (u # None /\ ~label[l].failed /\ Loads(l) = {} /\ edit.pc # "done" /\ ~\E v \in 1 .. MaxVersion : <<u, v>> \in news)
      => label[l].pic = (IF cur[u] = 0 THEN None ELSE <<u, cur[u]>>)
=============================================================================
