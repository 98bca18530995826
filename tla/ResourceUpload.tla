--------------------------- MODULE ResourceUpload ---------------------------
(***************************************************************************)
(* Attachments on the resource server: Service::create, chunk, complete,   *)
(* the DELETE, downloaded and content routes of handle, and the outbox and *)
(* clean-up halves of maintenance, over the table file_transfer, the       *)
(* ciphertext files of EncryptedFileStore and the table resource_outbox.   *)
(*                                                                         *)
(* Several server processes share the database and the directory.  Each    *)
(* has one request in progress (job) and one maintenance thread (sweep); a *)
(* ResourceLock on the id keeps them apart, and a crash releases it.  A    *)
(* file is the sequence of its records, one per plaintext chunk; a record  *)
(* that was only partly written is Torn.  All uploads are of one sender,   *)
(* whose file has the content Original.                                    *)
(***************************************************************************)
EXTENDS Integers, Sequences, FiniteSets

CONSTANTS
  Servers,    \* resource server processes
  Peers,      \* chat nodes of [PeerServer]
  Ids,        \* ids uuid() may return
  Keys,       \* idempotency keys of the sender
  Chunks,     \* contents of a chunk
  Original,   \* the content whose sha256 the upload declares
  Quota,      \* active transfers of a sender (16)
  MaxParts,   \* chunks in one PUT (256 KiB / PlainChunkBytes)
  MaxFaults,  \* bound: crashes and failed calls
  Torn, None

Total == Len(Original)

Records == Chunks \cup {Torn}
Actors == Servers \X {"job", "sweep"}

ASSUME UploadConstants ==
  /\ Original \in Seq(Chunks) /\ Torn \notin Chunks /\ IsFiniteSet(Ids)
  /\ Quota \in Nat /\ MaxParts \in Nat /\ MaxFaults \in Nat
  /\ None \notin Ids \cup Keys \cup Servers \cup Actors \cup Seq(Records)

VARIABLES
  row,     \* file_transfer: status, offset, expired, key of each id
  file,    \* records of <id>.enc, or None
  event,   \* resource_outbox row "file:<id>": "none", "pending", "delivered"
  claim,   \* the server whose transaction has locked that row
  told,    \* peers that have handled NotifyFileAvailable for the id
  lock,    \* ResourceLock: the holder
  user,    \* the server whose transaction has locked the sender's row
  used,    \* ids already given out
  job,     \* the request a server works on
  sweep,   \* where the maintenance thread of a server is
  late,    \* ids published although they expired during complete
  faults

vars == <<row, file, event, claim, told, lock, user, used, job, sweep, late, faults>>

Statuses == {"none", "uploading", "available", "downloaded", "cancelled"}
NoRow == [status |-> "none", offset |-> 0, expired |-> FALSE, key |-> None]
Idle == [pc |-> "idle", id |-> None, at |-> 0, parts |-> << >>, key |-> None]
Asleep == [pc |-> "claim", id |-> None, left |-> {}, sent |-> TRUE]

Published(id) == row[id].status \in {"available", "downloaded"}
\* The rows the quota query counts.
Active == {id \in Ids : row[id].status \in {"uploading", "available", "downloaded"} /\ ~row[id].expired}

Init ==
  /\ row = [id \in Ids |-> NoRow] /\ file = [id \in Ids |-> None]
  /\ event = [id \in Ids |-> "none"] /\ claim = [id \in Ids |-> None]
  /\ told = [id \in Ids |-> {}] /\ lock = [id \in Ids |-> None]
  /\ user = None /\ used = {} /\ late = {} /\ faults = 0
  /\ job = [s \in Servers |-> Idle] /\ sweep = [s \in Servers |-> Asleep]

Fault == faults < MaxFaults /\ faults' = faults + 1

\* The constructor polls flock for at most 5 s; the destructor and the death
\* of the process release it.
Acquire(id, who) == lock[id] = None /\ lock' = [lock EXCEPT ![id] = who]
Release(id) == lock' = [lock EXCEPT ![id] = None]
HoldOn(s, pc) == job' = [job EXCEPT ![s].pc = pc]
\* The request ends, with any answer: locks and transaction go with it.
Finish(s) ==
  /\ job' = [job EXCEPT ![s] = Idle]
  /\ lock' = [id \in Ids |-> IF lock[id] = <<s, "job">> THEN None ELSE lock[id]]
  /\ user' = IF user = s THEN None ELSE user

-----------------------------------------------------------------------------
(* create: the sender's row is locked, then either the transfer with this  *)
(* key is returned or a file and then its row are made.                    *)
Prior(k) == {id \in Ids : row[id].status # "none" /\ row[id].key = k}

CreateBegin_unlocked(s, k) ==  \* the sender's row is read without FOR UPDATE
  /\ job[s].pc = "idle"
  /\ job' = [job EXCEPT ![s] = [Idle EXCEPT !.pc = "prior", !.key = k]]
  /\ UNCHANGED <<row, file, event, claim, told, lock, user, used, sweep, late, faults>>

CreateBegin(s, k) ==
  /\ job[s].pc = "idle" /\ user = None
  /\ user' = s /\ job' = [job EXCEPT ![s] = [Idle EXCEPT !.pc = "prior", !.key = k]]
  /\ UNCHANGED <<row, file, event, claim, told, lock, used, sweep, late, faults>>

CreateReturn(s) ==  \* a retry, 409, 410 or 429
  /\ job[s].pc = "prior"
  /\ Prior(job[s].key) # {} \/ Cardinality(Active) >= Quota
  /\ Finish(s)
  /\ UNCHANGED <<row, file, event, claim, told, used, sweep, late, faults>>

CreateFile(s) ==
  /\ job[s].pc = "prior"
  /\ Prior(job[s].key) = {} /\ Cardinality(Active) < Quota
  /\ \E id \in Ids \ used :
       /\ Acquire(id, <<s, "job">>)
       /\ used' = used \cup {id}
       /\ file' = [file EXCEPT ![id] = << >>]
       /\ job' = [job EXCEPT ![s].pc = "insert", ![s].id = id]
  /\ UNCHANGED <<row, event, claim, told, user, sweep, late, faults>>

\* INSERT and COMMIT; the unique key uk_file_sender_idempotency would refuse a second row.
CreateInsert(s) ==
  /\ job[s].pc = "insert" /\ Prior(job[s].key) = {}
  /\ row' = [row EXCEPT ![job[s].id] = [NoRow EXCEPT !.status = "uploading", !.key = job[s].key]]
  /\ Finish(s)
  /\ UNCHANGED <<file, event, claim, told, used, sweep, late, faults>>

-----------------------------------------------------------------------------
(* chunk: up to MaxParts records from a chunk boundary on.                 *)
Open(id) == row[id].status = "uploading" /\ ~row[id].expired

ChunkBegin(s, id, at, parts) ==
  /\ job[s].pc = "idle" /\ Open(id)
  /\ at <= row[id].offset /\ at + Len(parts) <= Total
  /\ Acquire(id, <<s, "job">>)
  /\ job' = [job EXCEPT ![s] = [Idle EXCEPT !.pc = "part", !.id = id, !.at = at, !.parts = parts]]
  /\ UNCHANGED <<row, file, event, claim, told, user, used, sweep, late, faults>>

\* The loop goes on with the next part; after the last one the offset is answered.
Advance(s) ==
  IF Len(job[s].parts) = 1 THEN Finish(s)
  ELSE /\ job' = [job EXCEPT ![s].pc = "part", ![s].at = @ + 1, ![s].parts = Tail(@)]
       /\ UNCHANGED <<lock, user>>

\* read of the record at a chunk offset.
Stored(id, at) == file[id][at + 1]

\* A part below the confirmed offset must repeat what is stored.
PartKnown(s) ==
  LET j == job[s] IN
  /\ j.pc = "part" /\ j.at < row[j.id].offset
  /\ IF Stored(j.id, j.at) = Head(j.parts) THEN Advance(s) ELSE Finish(s)
  /\ UNCHANGED <<row, file, event, claim, told, used, sweep, late, faults>>

\* append accepts a record at the end of the file, or one that is already there.
Appending(s) == job[s].pc = "part" /\ job[s].at >= row[job[s].id].offset
AtEnd(s) == Len(file[job[s].id]) = job[s].at
Replayed_anyTail(s) == Len(file[job[s].id]) > job[s].at  \* the tail is taken for the record

Replayed(s) == Len(file[job[s].id]) > job[s].at /\ Stored(job[s].id, job[s].at) = Head(job[s].parts)
WithRecord(s, r) == [file EXCEPT ![job[s].id] = Append(@, r)]

PartAppend(s) ==
  /\ Appending(s)
  /\ \/ AtEnd(s) /\ file' = WithRecord(s, Head(job[s].parts)) /\ HoldOn(s, "commit") /\ UNCHANGED <<lock, user>>
     \/ Replayed(s) /\ HoldOn(s, "commit") /\ UNCHANGED <<file, lock, user>>
     \/ ~AtEnd(s) /\ ~Replayed(s) /\ Finish(s) /\ UNCHANGED file
  /\ UNCHANGED <<row, event, claim, told, used, sweep, late, faults>>

PartCommit(s) ==
  LET j == job[s] IN
  /\ j.pc = "commit"
  /\ IF Open(j.id) /\ row[j.id].offset = j.at
     THEN row' = [row EXCEPT ![j.id].offset = j.at + 1] /\ Advance(s)
     ELSE UNCHANGED row /\ Finish(s)
  /\ UNCHANGED <<file, event, claim, told, used, sweep, late, faults>>

-----------------------------------------------------------------------------
(* complete: the stored bytes are hashed, then the row is published and    *)
(* its outbox event written in one transaction.                            *)
Sha256Matches(id) == Len(file[id]) >= Total /\ SubSeq(file[id], 1, Total) = Original

CompleteVerify(s, id) ==
  /\ job[s].pc = "idle" /\ Open(id)
  /\ row[id].offset = Total /\ Sha256Matches(id)
  /\ Acquire(id, <<s, "job">>)
  /\ job' = [job EXCEPT ![s] = [Idle EXCEPT !.pc = "publish", !.id = id]]
  /\ UNCHANGED <<row, file, event, claim, told, user, used, sweep, late, faults>>

CompletePublish(s) ==
  LET id == job[s].id IN
  /\ job[s].pc = "publish" /\ row[id].status = "uploading"
  /\ row' = [row EXCEPT ![id].status = "available", ![id].expired = FALSE]
  /\ event' = [event EXCEPT ![id] = IF @ = "none" THEN "pending" ELSE @]
  /\ late' = IF row[id].expired THEN late \cup {id} ELSE late
  /\ Finish(s)
  /\ UNCHANGED <<file, claim, told, used, sweep, faults>>

-----------------------------------------------------------------------------
(* The other routes of handle.  The uploads group withdraws only what is   *)
(* not yet published, the files group anything not expired.                *)
Cancel(s, id, group) ==
  /\ job[s].pc = "idle" /\ lock[id] = None
  /\ row[id].status \notin {"none", "cancelled"} /\ ~row[id].expired
  /\ group = "uploads" => row[id].status = "uploading"
  /\ row' = [row EXCEPT ![id].status = "cancelled", ![id].expired = TRUE]
  /\ UNCHANGED <<file, event, claim, told, lock, user, used, job, sweep, late, faults>>

Downloaded_unchecked(s, id) ==  \* a cancelled or expired transfer is not refused
  /\ job[s].pc = "idle" /\ lock[id] = None /\ row[id].status \notin {"none", "uploading"}
  /\ row' = [row EXCEPT ![id].status = "downloaded"]
  /\ UNCHANGED <<file, event, claim, told, lock, user, used, job, sweep, late, faults>>

Downloaded(s, id) ==
  /\ job[s].pc = "idle" /\ lock[id] = None /\ Published(id) /\ ~row[id].expired
  /\ row' = [row EXCEPT ![id].status = "downloaded"]
  /\ UNCHANGED <<file, event, claim, told, lock, user, used, job, sweep, late, faults>>

\* Content from chunk at on; Connection::next then reads chunk by chunk, and
\* read takes the lock and checks the row again each time.
ContentBegin(s, id, at) ==
  /\ job[s].pc = "idle" /\ lock[id] = None /\ Published(id) /\ ~row[id].expired
  /\ job' = [job EXCEPT ![s] = [Idle EXCEPT !.pc = "stream", !.id = id, !.at = at]]
  /\ UNCHANGED <<row, file, event, claim, told, lock, user, used, sweep, late, faults>>

ContentNext(s) ==
  LET j == job[s] IN
  /\ j.pc = "stream" /\ lock[j.id] = None
  /\ IF j.at < Total /\ Published(j.id) /\ ~row[j.id].expired
     THEN /\ job' = [job EXCEPT ![s].at = @ + 1, ![s].parts = Append(@, Stored(j.id, j.at))]
          /\ UNCHANGED <<lock, user>>
     ELSE Finish(s)
  /\ UNCHANGED <<row, file, event, claim, told, used, sweep, late, faults>>

-----------------------------------------------------------------------------
(* maintenance, about once a second: one outbox event is claimed, sent to  *)
(* every peer and settled; then dead transfers are listed and removed one  *)
(* by one, each under its lock and after a second look at the row.         *)
Dead(id) == row[id].status # "none" /\ (row[id].expired \/ row[id].status = "cancelled")

\* FOR UPDATE SKIP LOCKED; an event that was tried is due again 10 s later.
SweepClaim(s, id) ==
  /\ sweep[s].pc = "claim" /\ event[id] = "pending" /\ claim[id] = None
  /\ claim' = [claim EXCEPT ![id] = s]
  /\ sweep' = [sweep EXCEPT ![s] = [pc |-> "notify", id |-> id, left |-> Peers, sent |-> TRUE]]
  /\ UNCHANGED <<row, file, event, told, lock, user, used, job, late, faults>>

SweepNothingDue(s) ==
  /\ sweep[s].pc = "claim"
  /\ sweep' = [sweep EXCEPT ![s].pc = "list"]
  /\ UNCHANGED <<row, file, event, claim, told, lock, user, used, job, late, faults>>

Notified_lastCounts(s, p) == [sweep EXCEPT ![s].left = @ \ {p}, ![s].sent = TRUE]

Notified(s, p) == [sweep EXCEPT ![s].left = @ \ {p}]
Unnotified(s, p) == [sweep EXCEPT ![s].left = @ \ {p}, ![s].sent = FALSE]

SweepNotify(s, p) ==
  LET id == sweep[s].id IN
  /\ sweep[s].pc = "notify" /\ p \in sweep[s].left
  /\ \/ told' = [told EXCEPT ![id] = @ \cup {p}] /\ sweep' = Notified(s, p) /\ UNCHANGED faults
     \/ /\ Fault  \* no answer within 2 s: the peer may have handled it or not
        /\ told' \in {told, [told EXCEPT ![id] = @ \cup {p}]} /\ sweep' = Unnotified(s, p)
  /\ UNCHANGED <<row, file, event, claim, lock, user, used, job, late>>

SweepSettle(s) ==
  LET w == sweep[s] IN
  /\ w.pc = "notify" /\ w.left = {}
  /\ event' = [event EXCEPT ![w.id] = IF w.sent THEN "delivered" ELSE "pending"]
  /\ claim' = [claim EXCEPT ![w.id] = None]
  /\ sweep' = [sweep EXCEPT ![s] = [Asleep EXCEPT !.pc = "list"]]
  /\ UNCHANGED <<row, file, told, lock, user, used, job, late, faults>>

SweepList(s) ==
  /\ sweep[s].pc = "list"
  /\ sweep' = [sweep EXCEPT ![s].pc = "clean", ![s].left = {id \in Ids : Dead(id)}]
  /\ UNCHANGED <<row, file, event, claim, told, lock, user, used, job, late, faults>>

SweepLook_trusting(s, id) ==  \* the row is not looked at again under the lock
  /\ sweep[s].pc = "clean" /\ id \in sweep[s].left
  /\ Acquire(id, <<s, "sweep">>) /\ sweep' = [sweep EXCEPT ![s].pc = "remove", ![s].id = id]
  /\ UNCHANGED <<row, file, event, claim, told, user, used, job, late, faults>>

SweepLook(s, id) ==
  /\ sweep[s].pc = "clean" /\ id \in sweep[s].left /\ lock[id] = None
  /\ IF Dead(id)
     THEN Acquire(id, <<s, "sweep">>) /\ sweep' = [sweep EXCEPT ![s].pc = "remove", ![s].id = id]
     ELSE UNCHANGED lock /\ sweep' = [sweep EXCEPT ![s].left = @ \ {id}]
  /\ UNCHANGED <<row, file, event, claim, told, user, used, job, late, faults>>

\* The file goes first; the two DELETEs commit together, the one of the
\* event after the transaction that has claimed it.
SweepRemove(s) ==
  /\ sweep[s].pc = "remove"
  /\ file' = [file EXCEPT ![sweep[s].id] = None]
  /\ sweep' = [sweep EXCEPT ![s].pc = "delete"]
  /\ UNCHANGED <<row, event, claim, told, lock, user, used, job, late, faults>>

SweepDelete(s) ==
  LET id == sweep[s].id IN
  /\ sweep[s].pc = "delete" /\ claim[id] = None
  /\ row' = [row EXCEPT ![id] = NoRow] /\ event' = [event EXCEPT ![id] = "none"]
  /\ Release(id)
  /\ sweep' = [sweep EXCEPT ![s].pc = "clean", ![s].id = None, ![s].left = @ \ {id}]
  /\ UNCHANGED <<file, claim, told, user, used, job, late, faults>>

SweepEnd(s) ==
  /\ sweep[s].pc = "clean" /\ sweep[s].left = {}
  /\ sweep' = [sweep EXCEPT ![s] = Asleep]
  /\ UNCHANGED <<row, file, event, claim, told, lock, user, used, job, late, faults>>

-----------------------------------------------------------------------------
(* Faults and time.                                                        *)
\* What a write that fails or is cut short may leave behind.
Damage(s) ==
  {file} \cup IF Appending(s) /\ AtEnd(s) THEN {WithRecord(s, Torn), WithRecord(s, Head(job[s].parts))} ELSE {}

\* An exception ends the request: 503, or 409 from append.
RequestFails(s) ==
  /\ Fault /\ job[s].pc # "idle"
  /\ file' \in Damage(s) /\ Finish(s)
  /\ UNCHANGED <<row, event, claim, told, used, sweep, late>>

SweepStops_inTransaction(s) ==  \* the claim is not rolled back
  sweep' = [sweep EXCEPT ![s] = Asleep] /\ UNCHANGED claim

\* An exception ends the round: its transaction rolls back, its lock is released.
SweepStops(s) ==
  /\ sweep' = [sweep EXCEPT ![s] = Asleep]
  /\ claim' = [id \in Ids |-> IF claim[id] = s THEN None ELSE claim[id]]

SweepFails_locked(s) ==  \* the lock outlives the exception
  /\ Fault /\ sweep[s].pc # "claim" /\ SweepStops(s)
  /\ UNCHANGED <<row, file, event, told, lock, user, used, job, late>>

SweepFails(s) ==
  /\ Fault /\ sweep[s].pc # "claim" /\ SweepStops(s)
  /\ lock' = [id \in Ids |-> IF lock[id] = <<s, "sweep">> THEN None ELSE lock[id]]
  /\ UNCHANGED <<row, file, event, told, user, used, job, late>>

\* The process dies; the flocks and the open transactions die with it.
Crash(s) ==
  /\ Fault /\ file' \in Damage(s) /\ SweepStops(s)
  /\ job' = [job EXCEPT ![s] = Idle] /\ user' = IF user = s THEN None ELSE user
  /\ lock' = [id \in Ids |-> IF lock[id] \in {<<s, "job">>, <<s, "sweep">>} THEN None ELSE lock[id]]
  /\ UNCHANGED <<row, event, told, used, late>>

\* expires_at <= NOW() from now on.
Expire(id) ==
  /\ row[id].status # "none" /\ ~row[id].expired
  /\ row' = [row EXCEPT ![id].expired = TRUE]
  /\ UNCHANGED <<file, event, claim, told, lock, user, used, job, sweep, late, faults>>

Parts == UNION {[1 .. n -> Chunks] : n \in 1 .. MaxParts}

Request(s) ==
  \/ \E k \in Keys : CreateBegin(s, k)
  \/ \E id \in Ids, at \in 0 .. Total, parts \in Parts : ChunkBegin(s, id, at, parts)
  \/ \E id \in Ids : CompleteVerify(s, id)
  \/ \E id \in Ids, g \in {"uploads", "files"} : Cancel(s, id, g)
  \/ \E id \in Ids : Downloaded(s, id)
  \/ \E id \in Ids, at \in 0 .. Total - 1 : ContentBegin(s, id, at)

Work(s) ==
  \/ CreateReturn(s) \/ CreateFile(s) \/ CreateInsert(s)
  \/ PartKnown(s) \/ PartAppend(s) \/ PartCommit(s)
  \/ CompletePublish(s) \/ ContentNext(s)

Maintain(s) ==
  \/ (\E id \in Ids : SweepClaim(s, id)) \/ SweepNothingDue(s)
  \/ (\E p \in Peers : SweepNotify(s, p)) \/ SweepSettle(s)
  \/ SweepList(s) \/ (\E id \in Ids : SweepLook(s, id))
  \/ SweepRemove(s) \/ SweepDelete(s) \/ SweepEnd(s)

Next ==
  \/ \E s \in Servers : Request(s) \/ Work(s) \/ Maintain(s) \/ RequestFails(s) \/ SweepFails(s) \/ Crash(s)
  \/ \E id \in Ids : Expire(id)

Spec == Init /\ [][Next]_vars

\* Threads run.  A sweep gets a lock that requests hold for moments at a time,
\* and an event that is not delivered comes first again once the later ones
\* wait for their 10 s.
Fairness ==
  /\ \A s \in Servers : WF_vars(Work(s)) /\ WF_vars(Maintain(s))
  /\ \A s \in Servers, id \in Ids : SF_vars(SweepClaim(s, id)) /\ SF_vars(SweepLook(s, id))

FairSpec == Spec /\ Fairness

-----------------------------------------------------------------------------
Row == [status : Statuses, offset : 0 .. Total, expired : BOOLEAN, key : Keys \cup {None}]
Job ==
  [pc : {"idle", "prior", "insert", "part", "commit", "publish", "stream"}, id : Ids \cup {None}, at : 0 .. Total,
   parts : Seq(Records), key : Keys \cup {None}]
Round ==
  [pc : {"claim", "notify", "list", "clean", "remove", "delete"}, id : Ids \cup {None}, left : SUBSET (Ids \cup Peers),
   sent : BOOLEAN]

\* The variables hold what their declarations say.
TypeOK ==
  /\ row \in [Ids -> Row] /\ file \in [Ids -> {None} \cup Seq(Records)]
  /\ event \in [Ids -> {"none", "pending", "delivered"}]
  /\ claim \in [Ids -> Servers \cup {None}] /\ user \in Servers \cup {None}
  /\ told \in [Ids -> SUBSET Peers] /\ lock \in [Ids -> Actors \cup {None}]
  /\ used \subseteq Ids /\ late \subseteq Ids /\ faults \in 0 .. MaxFaults
  /\ job \in [Servers -> Job] /\ sweep \in [Servers -> Round]

\* chunk: the offset a client may resume from never runs ahead of whole,
\* readable records, whatever crashed between the append and the UPDATE.
OffsetIsBacked ==
  \A id \in Ids : Open(id) =>
    /\ file[id] # None /\ Len(file[id]) >= row[id].offset
    /\ \A i \in 1 .. row[id].offset : file[id][i] \in Chunks

\* complete: a transfer that can be downloaded has exactly the declared
\* content on disk, although clean-up of other servers, torn writes and an
\* expiry in the middle of complete race with it.
PublishedIsIntact ==
  \A id \in Ids : Published(id) /\ ~row[id].expired => file[id] # None /\ Sha256Matches(id)

\* create: concurrent creates of one sender on different servers never pass
\* the quota together.  A transfer whose expiry fell inside complete is not
\* counted: complete revives it whatever was created meanwhile.
QuotaHolds == Cardinality(Active \ late) <= Quota

\* maintenance: an event is settled only once every peer has handled it,
\* although replies get lost and other servers retry the same event.
DeliveredMeansTold == \A id \in Ids : event[id] = "delivered" => told[id] = Peers

\* DELETE, maintenance: what was withdrawn stays withdrawn until its row is
\* gone, whatever requests were under way.
KeepsCancelled ==
  \A id \in Ids : row[id].status = "cancelled" => row'[id].status \in {"cancelled", "none"}
CancelledStaysCancelled == [][KeepsCancelled]_vars

\* maintenance: once failures stop, every published transfer that stays
\* alive is announced to all peers.
PublishedIsAnnounced == \A id \in Ids : Published(id) ~> (event[id] = "delivered" \/ ~Published(id) \/ row[id].expired)

\* maintenance: an expired or cancelled transfer loses its file and its row,
\* unless a complete that was already verifying it publishes it first.
DeadIsReclaimed ==
  \A id \in Ids : Dead(id) ~> ((row[id].status = "none" /\ file[id] = None) \/ (Published(id) /\ ~row[id].expired))

\* The comment in create: "maintenance removes only confirmed orphans", that
\* is, ciphertext that was left without a row is removed some day.
OrphanIsRemoved ==
  \A id \in Ids : (file[id] # None /\ row[id].status = "none" /\ lock[id] = None) ~> file[id] = None
=============================================================================
