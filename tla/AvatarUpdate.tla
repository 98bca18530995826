---------------------------- MODULE AvatarUpdate ----------------------------
(***************************************************************************)
(* Avatars on the resource server: the PUT and GET routes of               *)
(* Service::avatar, the profile route of handle and the avatar half of     *)
(* maintenance.  A PUT reserves a row that expires in a day, writes one    *)
(* file per size, and then switches the user's avatar_id if the version    *)
(* is still the one the client saw.  Maintenance removes expired avatars   *)
(* that no user refers to.  One user, several server processes and         *)
(* crashes at any point; ids and lock as in ResourceUpload.                *)
(***************************************************************************)
EXTENDS Integers, FiniteSets

CONSTANTS
  Servers,     \* resource server processes
  Ids,         \* ids uuid() may return
  Sizes,       \* thumbnail sizes (64, 128, 256)
  MaxFaults,   \* bound: crashes and failed calls
  None

AvatarConstants == MaxFaults \in Nat /\ None \notin Ids \cup (Servers \X {"put", "sweep"})

VARIABLES
  row,      \* resource_avatar: expires ("none" without a row) and variants of each id
  files,    \* sizes whose file is completely written
  partial,  \* sizes whose file exists, complete or not
  avatar,   \* user.avatar_id
  version,  \* user.avatar_version
  lock,     \* ResourceLock: the holder
  put,      \* the PUT a server works on
  sweep,    \* where the maintenance thread of a server is
  used,     \* ids already given out
  faults

vars == <<row, files, partial, avatar, version, lock, put, sweep, used, faults>>

NoRow == [expires |-> "none", variants |-> {}]
NoPut == [pc |-> "idle", id |-> None, todo |-> {}, expected |-> 0, saw |-> None]
Asleep == [pc |-> "list", id |-> None, left |-> {}]

Init ==
  /\ row = [id \in Ids |-> NoRow] /\ files = [id \in Ids |-> {}] /\ partial = [id \in Ids |-> {}]
  /\ avatar = None /\ version = 0 /\ lock = [id \in Ids |-> None]
  /\ put = [s \in Servers |-> NoPut] /\ sweep = [s \in Servers |-> Asleep]
  /\ used = {} /\ faults = 0

Acquire(id, who) == lock[id] = None /\ lock' = [lock EXCEPT ![id] = who]
Without(who) == [id \in Ids |-> IF lock[id] \in who THEN None ELSE lock[id]]
Finish(s) == put' = [put EXCEPT ![s] = NoPut] /\ lock' = Without({<<s, "put">>})

\* A client reads its profile and then sends the version it saw as If-Match.
PutBegin(s) ==
  /\ put[s].pc = "idle"
  /\ put' = [put EXCEPT ![s] = [NoPut EXCEPT !.pc = "reserve", !.expected = version, !.saw = avatar]]
  /\ UNCHANGED <<row, files, partial, avatar, version, lock, sweep, used, faults>>

\* INSERT before any file is written, so that a PUT that is cut short can be reclaimed.
PutReserve(s) ==
  /\ put[s].pc = "reserve"
  /\ \E id \in Ids \ used :
       /\ used' = used \cup {id}
       /\ row' = [row EXCEPT ![id].expires = "day"]
       /\ put' = [put EXCEPT ![s].pc = "lock", ![s].id = id, ![s].todo = Sizes]
  /\ UNCHANGED <<files, partial, avatar, version, lock, sweep, faults>>

PutLock(s) ==
  /\ put[s].pc = "lock" /\ Acquire(put[s].id, <<s, "put">>)
  /\ put' = [put EXCEPT ![s].pc = "record"]
  /\ UNCHANGED <<row, files, partial, avatar, version, sweep, used, faults>>

\* Each variant is named in the row before its file is created.
PutRecord(s) ==
  /\ put[s].pc = "record"
  /\ \E size \in put[s].todo :
       /\ row' = [row EXCEPT ![put[s].id].variants = @ \cup {size}]
       /\ put' = [put EXCEPT ![s].pc = "create", ![s].todo = @ \ {size}]
  /\ UNCHANGED <<files, partial, avatar, version, lock, sweep, used, faults>>

PutCreate(s) ==
  /\ put[s].pc = "create"
  /\ partial' = [partial EXCEPT ![put[s].id] = Sizes \ put[s].todo]
  /\ put' = [put EXCEPT ![s].pc = "write"]
  /\ UNCHANGED <<row, files, avatar, version, lock, sweep, used, faults>>

PutWrite(s) ==
  /\ put[s].pc = "write"
  /\ files' = [files EXCEPT ![put[s].id] = Sizes \ put[s].todo]
  /\ put' = [put EXCEPT ![s].pc = IF put[s].todo = {} THEN "switch" ELSE "record"]
  /\ UNCHANGED <<row, partial, avatar, version, lock, sweep, used, faults>>

PutSwitch_anyVersion(s) ==  \* If-Match is not compared under the row lock
  LET id == put[s].id IN
  /\ put[s].pc = "switch"
  /\ avatar' = id /\ version' = version + 1
  /\ row' = [i \in Ids |-> IF i = id THEN [row[i] EXCEPT !.expires = "never"] ELSE IF i = avatar THEN [row[i] EXCEPT !.expires = "day"] ELSE row[i]]
  /\ Finish(s)
  /\ UNCHANGED <<files, partial, sweep, used, faults>>

PutSwitch_keepsOld(s) ==  \* the former avatar never expires
  LET id == put[s].id IN
  /\ put[s].pc = "switch" /\ version = put[s].expected
  /\ avatar' = id /\ version' = version + 1
  /\ row' = [i \in Ids |-> IF i = id THEN [row[i] EXCEPT !.expires = "never"] ELSE row[i]]
  /\ Finish(s)
  /\ UNCHANGED <<files, partial, sweep, used, faults>>

\* One transaction on the locked user row; 412 when the version has moved on.
PutSwitch(s) ==
  LET id == put[s].id IN
  /\ put[s].pc = "switch" /\ version = put[s].expected
  /\ avatar' = id /\ version' = version + 1
  /\ row' = [i \in Ids |-> IF i = id THEN [row[i] EXCEPT !.expires = "never"]
                           ELSE IF i = avatar THEN [row[i] EXCEPT !.expires = "day"] ELSE row[i]]
  /\ Finish(s)
  /\ UNCHANGED <<files, partial, sweep, used, faults>>

PutRefused(s) ==
  /\ put[s].pc = "switch" /\ version # put[s].expected
  /\ Finish(s)
  /\ UNCHANGED <<row, files, partial, avatar, version, sweep, used, faults>>

-----------------------------------------------------------------------------
(* maintenance: expired avatars are listed, and removed under their lock   *)
(* if they are still expired and no user refers to them.                   *)
SweepList(s) ==
  /\ sweep[s].pc = "list"
  /\ sweep' = [sweep EXCEPT ![s].pc = "clean", ![s].left = {id \in Ids : row[id].expires = "over"}]
  /\ UNCHANGED <<row, files, partial, avatar, version, lock, put, used, faults>>

SweepLook(s, id) ==
  /\ sweep[s].pc = "clean" /\ id \in sweep[s].left /\ lock[id] = None
  /\ IF row[id].expires = "over" /\ avatar # id
     THEN Acquire(id, <<s, "sweep">>) /\ sweep' = [sweep EXCEPT ![s].pc = "remove", ![s].id = id]
     ELSE UNCHANGED lock /\ sweep' = [sweep EXCEPT ![s].left = @ \ {id}]
  /\ UNCHANGED <<row, files, partial, avatar, version, put, used, faults>>

\* The files of the variants the row names go one by one, then the row.
SweepRemove(s) ==
  LET id == sweep[s].id IN
  /\ sweep[s].pc = "remove"
  /\ \E size \in partial[id] \cap row[id].variants :
       /\ partial' = [partial EXCEPT ![id] = @ \ {size}] /\ files' = [files EXCEPT ![id] = @ \ {size}]
  /\ UNCHANGED <<row, avatar, version, lock, put, sweep, used, faults>>

SweepDelete(s) ==
  LET id == sweep[s].id IN
  /\ sweep[s].pc = "remove" /\ partial[id] \cap row[id].variants = {}
  /\ row' = [row EXCEPT ![id] = NoRow] /\ lock' = Without({<<s, "sweep">>})
  /\ sweep' = [sweep EXCEPT ![s].pc = "clean", ![s].id = None, ![s].left = @ \ {id}]
  /\ UNCHANGED <<files, partial, avatar, version, put, used, faults>>

SweepEnd(s) ==
  /\ sweep[s].pc = "clean" /\ sweep[s].left = {}
  /\ sweep' = [sweep EXCEPT ![s] = Asleep]
  /\ UNCHANGED <<row, files, partial, avatar, version, lock, put, used, faults>>

-----------------------------------------------------------------------------
Fault == faults < MaxFaults /\ faults' = faults + 1

\* An exception ends the PUT, the round, or (with all) the process.
Fails(s, what) ==
  /\ Fault
  /\ put' = IF what = "sweep" THEN put ELSE [put EXCEPT ![s] = NoPut]
  /\ sweep' = IF what = "put" THEN sweep ELSE [sweep EXCEPT ![s] = Asleep]
  /\ lock' = Without(IF what = "all" THEN {<<s, "put">>, <<s, "sweep">>} ELSE {<<s, what>>})
  /\ UNCHANGED <<row, files, partial, avatar, version, used>>

\* A day passes; no request lasts as long as that.
Expire(id) ==
  /\ row[id].expires = "day" /\ \A s \in Servers : put[s].id # id
  /\ row' = [row EXCEPT ![id].expires = "over"]
  /\ UNCHANGED <<files, partial, avatar, version, lock, put, sweep, used, faults>>

Put(s) ==
  \/ PutReserve(s) \/ PutLock(s) \/ PutRecord(s) \/ PutCreate(s) \/ PutWrite(s)
  \/ PutSwitch(s) \/ PutRefused(s)
Sweep(s) ==
  \/ SweepList(s) \/ (\E id \in Ids : SweepLook(s, id))
  \/ SweepRemove(s) \/ SweepDelete(s) \/ SweepEnd(s)

Next ==
  \/ \E s \in Servers : PutBegin(s) \/ Put(s) \/ Sweep(s) \/ (\E what \in {"put", "sweep", "all"} : Fails(s, what))
  \/ \E id \in Ids : Expire(id)

\* Threads run, a day does pass, and a sweep gets the lock in the end.
Fairness ==
  /\ \A s \in Servers : WF_vars(Put(s)) /\ WF_vars(Sweep(s))
  /\ \A s \in Servers, id \in Ids : SF_vars(SweepLook(s, id)) /\ WF_vars(Expire(id))

Spec == Init /\ [][Next]_vars
FairSpec == Spec /\ Fairness

-----------------------------------------------------------------------------
\* The variables hold what their declarations say.
TypeOK ==
  /\ row \in [Ids -> [expires : {"none", "day", "over", "never"}, variants : SUBSET Sizes]]
  /\ files \in [Ids -> SUBSET Sizes] /\ partial \in [Ids -> SUBSET Sizes]
  /\ avatar \in Ids \cup {None} /\ version \in Nat /\ lock \in [Ids -> (Servers \X {"put", "sweep"}) \cup {None}]
  /\ used \subseteq Ids /\ faults \in 0 .. MaxFaults

\* PUT: an avatar only ever replaces the one its client had seen; of two
\* concurrent PUTs of a user the second is refused.
Switches == avatar' # avatar => \E s \in Servers : put[s].id = avatar' /\ put[s].saw = avatar
NoLostUpdate == [][Switches]_vars

\* maintenance: the files and rows of superseded avatars and of PUTs that
\* were refused or cut short go away.
UnusedIsReclaimed ==
  \A id \in Ids : (id \in used /\ avatar # id) ~> (avatar = id \/ (row[id] = NoRow /\ partial[id] = {}))
=============================================================================
