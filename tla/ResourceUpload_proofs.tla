------------------------ MODULE ResourceUpload_proofs ------------------------
(***************************************************************************)
(* OffsetIsBacked, PublishedIsIntact, DeliveredMeansTold, QuotaHolds and   *)
(* CancelledStaysCancelled hold for any servers, peers, ids, keys, content,*)
(* quota and number of faults.                                             *)
(*                                                                         *)
(* The argument for the files: whoever changes a file holds its lock, so   *)
(* what a request has seen of it stays true until the request ends         *)
(* (Working), and maintenance removes only what was dead when it took the  *)
(* lock and cannot have been revived since (Removing): the one step that   *)
(* revives a dead transfer, the publication after its expiry, needs the    *)
(* lock as well.  Quotas rest on the lock of the sender's row, which the   *)
(* request holds from the count to the INSERT (Creating).                  *)
(*                                                                         *)
(* At the end: no change of an avatar is lost (AvatarUpdate).              *)
(***************************************************************************)
EXTENDS ResourceUpload, FiniteSetTheorems, TLAPS

\* A request that changes a file or publishes it holds the lock, and the file
\* is as the request found or left it.
WorkingOf(s) ==
  /\ job[s].pc = "stream" => job[s].id \in Ids
  /\ job[s].pc \in {"insert", "part", "commit", "publish"} =>
       /\ job[s].id \in Ids /\ lock[job[s].id] = <<s, "job">> /\ file[job[s].id] \in Seq(Records)
       /\ job[s].pc = "insert" => row[job[s].id].status = "none" /\ job[s].id \in used
       /\ job[s].pc \in {"part", "commit"} =>
            job[s].parts \in Seq(Chunks) /\ job[s].parts # << >> /\ job[s].at + Len(job[s].parts) <= Total
       /\ job[s].pc = "commit" => Len(file[job[s].id]) > job[s].at /\ Stored(job[s].id, job[s].at) \in Chunks
       /\ job[s].pc = "publish" => Sha256Matches(job[s].id)
Working == \A s \in Servers : WorkingOf(s)

\* Maintenance holds the lock of a dead transfer it removes.
RemovingOf(s) ==
  sweep[s].pc \in {"remove", "delete"} =>
    sweep[s].id \in Ids /\ lock[sweep[s].id] = <<s, "sweep">> /\ Dead(sweep[s].id)
Removing == \A s \in Servers : RemovingOf(s)

\* The peers that maintenance has dealt with and that have answered were told.
Notifying ==
  \A s \in Servers : sweep[s].pc = "notify" =>
    sweep[s].id \in Ids /\ (sweep[s].sent => Peers \ sweep[s].left \subseteq told[sweep[s].id])

\* A create holds the sender's row, and below the quota from its count on.
CreatingOf(s) ==
  job[s].pc \in {"prior", "insert"} =>
    /\ user = s
    /\ job[s].pc = "insert" => Cardinality(Active \ late) < Quota
Creating == \A s \in Servers : CreatingOf(s)

\* A row belongs to an id that was given out.
RowsAreUsed == \A id \in Ids : row[id].status # "none" => id \in used

IInv ==
  /\ TypeOK /\ Working /\ Removing /\ Notifying /\ Creating /\ RowsAreUsed
  /\ OffsetIsBacked /\ PublishedIsIntact /\ DeliveredMeansTold /\ QuotaHolds

-----------------------------------------------------------------------------
(* Types.                                                                  *)

\* The declared content is a sequence of chunks.
LEMMA TotalIsNat == Total \in Nat /\ Original \in Seq(Chunks) /\ Chunks \subseteq Records
  BY UploadConstants DEF Total, Records

\* Chunks are records: a PUT carries nothing a file could not hold.
LEMMA ChunksAreRecords == \A q \in Seq(Chunks) : q \in Seq(Records)
  BY DEF Records

\* The parts of a PUT that are left after the first one (the loop of chunk).
LEMMA TailOf ==
  ASSUME NEW q \in Seq(Chunks), q # << >>
  PROVE  /\ Head(q) \in Chunks /\ Tail(q) \in Seq(Chunks) /\ Tail(q) \in Seq(Records)
         /\ Len(Tail(q)) = Len(q) - 1 /\ Len(q) \in Nat /\ (Len(q) # 1 => Tail(q) # << >>)
  <1>1. Head(q) \in Chunks /\ Tail(q) \in Seq(Chunks) /\ Len(Tail(q)) = Len(q) - 1 /\ Len(q) \in Nat
    OBVIOUS
  <1>2. Tail(q) \in Seq(Records)
    BY <1>1, ChunksAreRecords, Zenon
  <1>3. Len(q) # 1 => Len(Tail(q)) # 0
    BY <1>1
  <1>4. Len(<< >>) = 0
    OBVIOUS
  <1> QED  BY <1>1, <1>2, <1>3, <1>4, Zenon

\* What a PUT may carry.
LEMMA PartsAreChunks == \A parts \in Parts : parts \in Seq(Chunks) /\ parts # << >>
  <1> SUFFICES ASSUME NEW n \in 1 .. MaxParts, NEW parts \in [1 .. n -> Chunks]
               PROVE  parts \in Seq(Chunks) /\ parts # << >>
    BY Zenon DEF Parts
  <1>1. n \in Nat \ {0}
    BY UploadConstants
  <1> QED  BY <1>1

\* The end of a request (Finish): locks and the sender's row are freed.
LEMMA FinishTypes ==
  ASSUME TypeOK, NEW s \in Servers, Finish(s)
  PROVE  /\ job' \in [Servers -> Job] /\ lock' \in [Ids -> Actors \cup {None}] /\ user' \in Servers \cup {None}
         /\ job'[s] = Idle /\ \A t \in Servers \ {s} : job'[t] = job[t]
  <1>1. Idle \in Job
    BY TotalIsNat DEF Idle, Job
  <1> QED  BY <1>1, Zenon DEF Finish, TypeOK

\* The next part of a PUT (Advance): the request ends, or the rest of it is next.
LEMMA AdvanceStep ==
  ASSUME IInv, NEW s \in Servers, job[s].pc \in {"part", "commit"}, Advance(s)
  PROVE  /\ job' \in [Servers -> Job] /\ lock' \in [Ids -> Actors \cup {None}] /\ user' \in Servers \cup {None}
         /\ \/ Finish(s)
            \/ /\ job' = [job EXCEPT ![s] = [job[s] EXCEPT !.pc = "part", !.at = job[s].at + 1,
                                                           !.parts = Tail(job[s].parts)]]
               /\ Tail(job[s].parts) \in Seq(Chunks) /\ Tail(job[s].parts) # << >>
               /\ job[s].at + 1 + Len(Tail(job[s].parts)) <= Total
               /\ UNCHANGED <<lock, user>>
  <1>1. CASE Len(job[s].parts) = 1
    BY <1>1, FinishTypes, Zenon DEF Advance, IInv
  <1>2. CASE Len(job[s].parts) # 1
    <2>1. /\ job[s] \in Job /\ job[s].parts \in Seq(Chunks) /\ job[s].parts # << >>
          /\ job[s].at + Len(job[s].parts) <= Total
      BY Zenon DEF IInv, Working, WorkingOf, TypeOK
    <2>2. /\ Tail(job[s].parts) \in Seq(Chunks) /\ Tail(job[s].parts) \in Seq(Records)
          /\ Len(Tail(job[s].parts)) = Len(job[s].parts) - 1 /\ Len(job[s].parts) \in Nat
          /\ Tail(job[s].parts) # << >>
      BY <1>2, <2>1, TailOf, Zenon
    <2>3. job[s].at + 1 \in 0 .. Total
      BY <2>1, TotalIsNat DEF Job
    <2> DEFINE j == [job[s] EXCEPT !.pc = "part", !.at = job[s].at + 1, !.parts = Tail(job[s].parts)]
    <2>4. j \in Job
      BY <2>1, <2>2, <2>3, Zenon DEF Job
    <2>5. job' = [job EXCEPT ![s] = j] /\ UNCHANGED <<lock, user>>
      BY <1>2, Zenon DEF Advance, IInv, TypeOK
    <2>6. job[s].at + 1 + Len(Tail(job[s].parts)) <= Total
      BY <2>1, <2>2, <2>3, TotalIsNat DEF Job
    <2> QED  BY <2>2, <2>4, <2>5, <2>6, Zenon DEF IInv, TypeOK
  <1> QED  BY <1>1, <1>2, Zenon

\* The steps that start a request keep the types.
LEMMA RequestTypes ==
  ASSUME IInv, NEW s \in Servers, Request(s)
  PROVE  TypeOK'
  <1> USE TotalIsNat DEF IInv, TypeOK
  <1>0. Idle \in Job
    BY DEF Idle, Job
  <1>1. ASSUME NEW k \in Keys, CreateBegin(s, k) PROVE TypeOK'
    <2>1. [Idle EXCEPT !.pc = "prior", !.key = k] \in Job
      BY <1>0, Zenon DEF Idle, Job
    <2> QED  BY <1>1, <2>1, Zenon DEF CreateBegin
  <1>2. ASSUME NEW id \in Ids, NEW at \in 0 .. Total, NEW parts \in Parts, ChunkBegin(s, id, at, parts) PROVE TypeOK'
    <2>1. parts \in Seq(Records)
      BY <1>2, PartsAreChunks, ChunksAreRecords, Zenon
    <2>2. [Idle EXCEPT !.pc = "part", !.id = id, !.at = at, !.parts = parts] \in Job
      BY <1>0, <2>1, Zenon DEF Idle, Job
    <2> QED  BY <1>2, <2>2, Zenon DEF ChunkBegin, Acquire, Actors
  <1>3. ASSUME NEW id \in Ids, CompleteVerify(s, id) PROVE TypeOK'
    <2>1. [Idle EXCEPT !.pc = "publish", !.id = id] \in Job
      BY <1>0, Zenon DEF Idle, Job
    <2> QED  BY <1>3, <2>1, Zenon DEF CompleteVerify, Acquire, Actors
  <1>4. ASSUME NEW id \in Ids, NEW g \in {"uploads", "files"}, Cancel(s, id, g) PROVE TypeOK'
    <2>1. row[id] \in Row
      OBVIOUS
    <2>2. [row[id] EXCEPT !.status = "cancelled", !.expired = TRUE] \in Row
      BY <2>1, Zenon DEF Row, Statuses
    <2> QED  BY <1>4, <2>2, Zenon DEF Cancel
  <1>5. ASSUME NEW id \in Ids, Downloaded(s, id) PROVE TypeOK'
    <2>1. row[id] \in Row
      OBVIOUS
    <2>2. [row[id] EXCEPT !.status = "downloaded"] \in Row
      BY <2>1, Zenon DEF Row, Statuses
    <2> QED  BY <1>5, <2>2, Zenon DEF Downloaded
  <1>6. ASSUME NEW id \in Ids, NEW at \in 0 .. Total - 1, ContentBegin(s, id, at) PROVE TypeOK'
    <2>1. at \in 0 .. Total
      OBVIOUS
    <2>2. [Idle EXCEPT !.pc = "stream", !.id = id, !.at = at] \in Job
      BY <1>0, <2>1, Zenon DEF Idle, Job
    <2> QED  BY <1>6, <2>2, Zenon DEF ContentBegin
  <1> QED  BY <1>1, <1>2, <1>3, <1>4, <1>5, <1>6, Zenon DEF Request

\* append adds one record and leaves the ones before it.
LEMMA AppendRecord ==
  ASSUME NEW q \in Seq(Records), NEW r \in Records
  PROVE  /\ Append(q, r) \in Seq(Records) /\ Len(Append(q, r)) = Len(q) + 1 /\ Len(q) \in Nat
         /\ \A i \in 1 .. Len(q) : Append(q, r)[i] = q[i]
         /\ Append(q, r)[Len(q) + 1] = r
  OBVIOUS

\* read of a record that is there.
LEMMA ReadRecord ==
  ASSUME NEW q \in Seq(Records), NEW n \in Nat, Len(q) > n
  PROVE  q[n + 1] \in Records
  OBVIOUS

\* The steps of a request in progress keep the types.
LEMMA WorkTypes ==
  ASSUME IInv, NEW s \in Servers, Work(s)
  PROVE  TypeOK'
  <1> USE TotalIsNat DEF IInv
  <1>0. job[s] \in Job /\ TypeOK
    BY Zenon DEF TypeOK
  <1>f. ASSUME Finish(s) PROVE /\ job' \in [Servers -> Job] /\ lock' \in [Ids -> Actors \cup {None}]
                               /\ user' \in Servers \cup {None}
    BY <1>f, FinishTypes, Zenon
  <1>1. CASE CreateReturn(s)
    BY <1>1, <1>f, Zenon DEF CreateReturn, TypeOK
  <1>2. CASE CreateFile(s)
    <2>1. PICK id \in Ids \ used :
            /\ Acquire(id, <<s, "job">>) /\ used' = used \cup {id} /\ file' = [file EXCEPT ![id] = << >>]
            /\ job' = [job EXCEPT ![s].pc = "insert", ![s].id = id]
      BY <1>2, Zenon DEF CreateFile
    <2>2. [job[s] EXCEPT !.pc = "insert", !.id = id] \in Job
      BY <1>0, Zenon DEF Job
    <2>3. job' = [job EXCEPT ![s] = [job[s] EXCEPT !.pc = "insert", !.id = id]]
      BY <2>1, Zenon DEF TypeOK
    <2>4. job' \in [Servers -> Job] /\ used' \subseteq Ids
      BY <2>1, <2>2, <2>3, ZenonT(60) DEF TypeOK
    <2>5. << >> \in Seq(Records)
      OBVIOUS
    <2>6. file' \in [Ids -> {None} \cup Seq(Records)]
      BY <2>1, <2>5, Zenon DEF TypeOK
    <2>7. lock' \in [Ids -> Actors \cup {None}]
      BY <2>1, Zenon DEF Acquire, Actors, TypeOK
    <2> QED  BY <1>2, <2>4, <2>6, <2>7, Zenon DEF CreateFile, TypeOK
  <1>3. CASE CreateInsert(s)
    <2>0. 0 \in 0 .. Total /\ job[s].key \in Keys \cup {None}
      BY <1>0 DEF Job
    <2>1. [NoRow EXCEPT !.status = "uploading", !.key = job[s].key] \in Row
      BY <2>0, Zenon DEF NoRow, Row, Statuses
    <2>2. row' \in [Ids -> Row]
      BY <1>3, <2>1, Zenon DEF CreateInsert, TypeOK
    <2> QED  BY <1>3, <1>f, <2>2, Zenon DEF CreateInsert, TypeOK
  <1>4. CASE PartKnown(s)
    BY <1>4, <1>f, AdvanceStep, Zenon DEF PartKnown, TypeOK
  <1>5. CASE PartAppend(s)
    <2>1. job[s].pc = "part" /\ job[s].id \in Ids /\ file[job[s].id] \in Seq(Records) /\ Head(job[s].parts) \in Records
      BY <1>5, <1>0, TailOf, Zenon DEF PartAppend, Appending, Working, WorkingOf, Records
    <2>2. WithRecord(s, Head(job[s].parts)) \in [Ids -> {None} \cup Seq(Records)]
      BY <2>1, AppendRecord, Zenon DEF WithRecord, TypeOK
    <2>3. [job[s] EXCEPT !.pc = "commit"] \in Job
      BY <1>0, Zenon DEF Job
    <2>4. [job EXCEPT ![s].pc = "commit"] \in [Servers -> Job]
      BY <2>3, Zenon DEF TypeOK
    <2> QED  BY <1>5, <1>f, <2>2, <2>4, Zenon DEF PartAppend, HoldOn, TypeOK
  <1>6. CASE PartCommit(s)
    <2>1. ASSUME row[job[s].id].offset = job[s].at, job[s].id \in Ids, Advance(s)
          PROVE  [row EXCEPT ![job[s].id].offset = job[s].at + 1] \in [Ids -> Row]
      <3>1. job[s].at + 1 \in 0 .. Total /\ row[job[s].id] \in Row
        <4>1. job[s].parts \in Seq(Chunks) /\ job[s].parts # << >> /\ job[s].at + Len(job[s].parts) <= Total
          BY <1>6, Zenon DEF PartCommit, Working, WorkingOf
        <4>2. Len(job[s].parts) \in Nat \ {0}
          BY <4>1
        <4> QED  BY <1>0, <2>1, <4>1, <4>2 DEF TypeOK, Job
      <3>2. [row[job[s].id] EXCEPT !.offset = job[s].at + 1] \in Row
        BY <3>1, Zenon DEF Row
      <3> QED  BY <2>1, <3>2, Zenon DEF TypeOK
    <2>2. job[s].id \in Ids
      BY <1>6, Zenon DEF PartCommit, Working, WorkingOf
    <2> QED  BY <1>6, <1>f, <2>1, <2>2, AdvanceStep, Zenon DEF PartCommit, TypeOK
  <1>7. CASE CompletePublish(s)
    <2>1. job[s].id \in Ids
      BY <1>7, Zenon DEF CompletePublish, Working, WorkingOf
    <2>0. row[job[s].id] \in Row
      BY <2>1, Zenon DEF TypeOK
    <2>2. [row[job[s].id] EXCEPT !.status = "available", !.expired = FALSE] \in Row
      BY <2>0, Zenon DEF Row, Statuses
    <2>3. row' \in [Ids -> Row]
      BY <1>7, <2>1, <2>2, Zenon DEF CompletePublish, TypeOK
    <2>4. event' \in [Ids -> {"none", "pending", "delivered"}] /\ late' \subseteq Ids
      BY <1>7, <2>1, Zenon DEF CompletePublish, TypeOK
    <2> QED  BY <1>7, <1>f, <2>3, <2>4, Zenon DEF CompletePublish, TypeOK
  <1>8. CASE ContentNext(s)
    <2>1. CASE /\ job[s].at < Total /\ Published(job[s].id) /\ ~row[job[s].id].expired
               /\ job' = [job EXCEPT ![s].at = @ + 1, ![s].parts = Append(@, Stored(job[s].id, job[s].at))]
               /\ UNCHANGED <<lock, user>>
      <3>1. job[s].id \in Ids
        BY <1>8, Zenon DEF ContentNext, Working, WorkingOf
      <3>2. file[job[s].id] \in Seq(Records) /\ Len(file[job[s].id]) >= Total
        BY <2>1, <3>1, Zenon DEF PublishedIsIntact, Sha256Matches, TypeOK
      <3>3. Stored(job[s].id, job[s].at) \in Records
        BY <1>0, <2>1, <3>2, ReadRecord DEF Stored, Job
      <3>4. Append(job[s].parts, Stored(job[s].id, job[s].at)) \in Seq(Records) /\ job[s].at + 1 \in 0 .. Total
        BY <1>0, <2>1, <3>3, AppendRecord DEF Job
      <3>5. [job[s] EXCEPT !.at = job[s].at + 1, !.parts = Append(job[s].parts, Stored(job[s].id, job[s].at))] \in Job
        BY <1>0, <3>4, Zenon DEF Job
      <3>6. job' = [job EXCEPT ![s] = [job[s] EXCEPT !.at = job[s].at + 1,
                                         !.parts = Append(job[s].parts, Stored(job[s].id, job[s].at))]]
        BY <2>1, Zenon DEF TypeOK
      <3> QED  BY <1>8, <2>1, <3>5, <3>6, ZenonT(60) DEF ContentNext, TypeOK
    <2> QED  BY <1>8, <1>f, <2>1, Zenon DEF ContentNext, TypeOK
  <1> QED  BY <1>1, <1>2, <1>3, <1>4, <1>5, <1>6, <1>7, <1>8, Zenon DEF Work

\* Where a round of maintenance starts.
LEMMA AsleepType == Asleep \in Round
  BY Zenon DEF Asleep, Round

\* The steps of maintenance keep the types.
LEMMA MaintainTypes ==
  ASSUME IInv, NEW s \in Servers, Maintain(s)
  PROVE  TypeOK'
  <1> USE DEF IInv
  <1>0. sweep[s] \in Round /\ TypeOK
    BY Zenon DEF TypeOK
  <1>1. ASSUME NEW id \in Ids, SweepClaim(s, id) PROVE TypeOK'
    <2>1. [pc |-> "notify", id |-> id, left |-> Peers, sent |-> TRUE] \in Round
      BY Zenon DEF Round
    <2> QED  BY <1>1, <2>1, Zenon DEF SweepClaim, TypeOK
  <1>2. CASE SweepNothingDue(s)
    <2>1. [sweep[s] EXCEPT !.pc = "list"] \in Round
      BY <1>0, Zenon DEF Round
    <2>2. sweep' \in [Servers -> Round]
      BY <1>2, <2>1, Zenon DEF SweepNothingDue, TypeOK
    <2> QED  BY <1>2, <2>2, Zenon DEF SweepNothingDue, TypeOK
  <1>3. ASSUME NEW p \in Peers, SweepNotify(s, p) PROVE TypeOK'
    <2>1. sweep[s].id \in Ids
      BY <1>3, Zenon DEF SweepNotify, Notifying
    <2>2. ASSUME NEW b \in BOOLEAN PROVE [sweep[s] EXCEPT !.left = sweep[s].left \ {p}, !.sent = b] \in Round
      BY <1>0, Zenon DEF Round
    <2>3. [sweep[s] EXCEPT !.left = sweep[s].left \ {p}] \in Round
      BY <1>0, Zenon DEF Round
    <2>4. Notified(s, p) \in [Servers -> Round] /\ Unnotified(s, p) \in [Servers -> Round]
      BY <2>2, <2>3, Zenon DEF Notified, Unnotified, TypeOK
    <2>5. [told EXCEPT ![sweep[s].id] = @ \cup {p}] \in [Ids -> SUBSET Peers]
      BY <2>1, Zenon DEF TypeOK
    <2>6. faults' \in 0 .. MaxFaults
      BY <1>3, UploadConstants DEF SweepNotify, Fault, TypeOK
    <2> QED  BY <1>3, <2>4, <2>5, <2>6, Zenon DEF SweepNotify, TypeOK
  <1>4. CASE SweepSettle(s)
    <2>1. [Asleep EXCEPT !.pc = "list"] \in Round
      BY Zenon DEF Asleep, Round
    <2> QED  BY <1>4, <2>1, Zenon DEF SweepSettle, TypeOK
  <1>5. CASE SweepList(s)
    <2>1. [sweep[s] EXCEPT !.pc = "clean", !.left = {id \in Ids : Dead(id)}] \in Round
      BY <1>0, Zenon DEF Round
    <2>2. sweep' \in [Servers -> Round]
      BY <1>5, <2>1, Zenon DEF SweepList, TypeOK
    <2> QED  BY <1>5, <2>2, Zenon DEF SweepList, TypeOK
  <1>6. ASSUME NEW id \in Ids, SweepLook(s, id) PROVE TypeOK'
    <2>1. [sweep[s] EXCEPT !.pc = "remove", !.id = id] \in Round /\ [sweep[s] EXCEPT !.left = sweep[s].left \ {id}] \in Round
      BY <1>0, Zenon DEF Round
    <2>2. /\ [sweep EXCEPT ![s].pc = "remove", ![s].id = id] \in [Servers -> Round]
          /\ [sweep EXCEPT ![s].left = @ \ {id}] \in [Servers -> Round]
      BY <2>1, Zenon DEF TypeOK
    <2>3. lock' \in [Ids -> Actors \cup {None}]
      BY <1>6 DEF SweepLook, Acquire, Actors, TypeOK
    <2>4. sweep' \in [Servers -> Round]
      BY <1>6, <2>2, Zenon DEF SweepLook
    <2> QED  BY <1>6, <2>3, <2>4, Zenon DEF SweepLook, TypeOK
  <1>7. CASE SweepRemove(s)
    <2>1. [sweep[s] EXCEPT !.pc = "delete"] \in Round
      BY <1>0, Zenon DEF Round
    <2>2. sweep' \in [Servers -> Round]
      BY <1>7, <2>1, Zenon DEF SweepRemove, TypeOK
    <2> QED  BY <1>7, <2>2, Zenon DEF SweepRemove, TypeOK
  <1>8. CASE SweepDelete(s)
    <2>1. [sweep[s] EXCEPT !.pc = "clean", !.id = None, !.left = sweep[s].left \ {sweep[s].id}] \in Round
      BY <1>0, Zenon DEF Round
    <2>2. sweep' \in [Servers -> Round]
      BY <1>8, <2>1, Zenon DEF SweepDelete, TypeOK
    <2>3. NoRow \in Row
      BY TotalIsNat DEF NoRow, Row, Statuses
    <2>4. row' \in [Ids -> Row] /\ event' \in [Ids -> {"none", "pending", "delivered"}]
      BY <1>8, <2>3, Zenon DEF SweepDelete, TypeOK
    <2>5. lock' \in [Ids -> Actors \cup {None}]
      BY <1>8, Zenon DEF SweepDelete, Release, TypeOK
    <2> QED  BY <1>8, <2>2, <2>4, <2>5, Zenon DEF SweepDelete, TypeOK
  <1>9. CASE SweepEnd(s)
    BY <1>9, AsleepType, Zenon DEF SweepEnd, TypeOK
  <1> QED  BY <1>1, <1>2, <1>3, <1>4, <1>5, <1>6, <1>7, <1>8, <1>9, Zenon DEF Maintain

\* What a crash or a failure does to the files (Damage).
LEMMA DamageTypes ==
  ASSUME IInv, NEW s \in Servers, file' \in Damage(s)
  PROVE  \/ file' = file
         \/ /\ job[s].pc = "part" /\ job[s].id \in Ids /\ lock[job[s].id] = <<s, "job">>
            /\ file[job[s].id] \in Seq(Records)
            /\ \E r \in Records : file' = [file EXCEPT ![job[s].id] = Append(@, r)]
  <1>1. CASE Appending(s)
    <2>1. /\ job[s].pc = "part" /\ job[s].id \in Ids /\ lock[job[s].id] = <<s, "job">>
          /\ file[job[s].id] \in Seq(Records) /\ job[s].parts \in Seq(Chunks) /\ job[s].parts # << >>
      BY <1>1, Zenon DEF Appending, IInv, Working, WorkingOf
    <2>2. Head(job[s].parts) \in Records /\ Torn \in Records
      BY <2>1, TailOf, Zenon DEF Records
    <2> QED  BY <2>1, <2>2, Zenon DEF Damage, WithRecord
  <1>2. CASE ~Appending(s)
    BY <1>2, Zenon DEF Damage
  <1> QED  BY <1>1, <1>2, Zenon

\* Failures, crashes and expiry keep the types.
LEMMA FaultTypes ==
  ASSUME IInv
  PROVE  /\ \A s \in Servers : RequestFails(s) \/ SweepFails(s) \/ Crash(s) => TypeOK'
         /\ \A id \in Ids : Expire(id) => TypeOK'
  <1> USE DEF IInv
  <1>0. TypeOK /\ Idle \in Job
    BY TotalIsNat DEF Idle, Job
  <1>1. ASSUME NEW s \in Servers, file' \in Damage(s) PROVE file' \in [Ids -> {None} \cup Seq(Records)]
    <2>1. CASE file' = file
      BY <2>1, Zenon DEF TypeOK
    <2>2. ASSUME job[s].id \in Ids, file[job[s].id] \in Seq(Records),
                 NEW r \in Records, file' = [file EXCEPT ![job[s].id] = Append(@, r)]
          PROVE  file' \in [Ids -> {None} \cup Seq(Records)]
      <3>1. Append(file[job[s].id], r) \in Seq(Records)
        BY <2>2, AppendRecord, Zenon
      <3> QED  BY <2>2, <3>1, Zenon DEF TypeOK
    <2> QED  BY <1>1, <2>1, <2>2, DamageTypes, Zenon
  <1>2. ASSUME Fault PROVE faults' \in 0 .. MaxFaults
    BY <1>2, UploadConstants DEF Fault, TypeOK
  <1>3. ASSUME NEW s \in Servers, SweepStops(s)
        PROVE  sweep' \in [Servers -> Round] /\ claim' \in [Ids -> Servers \cup {None}]
    BY <1>3, AsleepType, Zenon DEF SweepStops, TypeOK
  <1>4. ASSUME NEW s \in Servers, RequestFails(s) PROVE TypeOK'
    BY <1>4, <1>1, <1>2, FinishTypes, Zenon DEF RequestFails, TypeOK
  <1>5. ASSUME NEW s \in Servers, SweepFails(s) PROVE TypeOK'
    BY <1>5, <1>2, <1>3, Zenon DEF SweepFails, TypeOK
  <1>6. ASSUME NEW s \in Servers, Crash(s) PROVE TypeOK'
    BY <1>6, <1>0, <1>1, <1>2, <1>3, Zenon DEF Crash, TypeOK
  <1>7. ASSUME NEW id \in Ids, Expire(id) PROVE TypeOK'
    <2>0. row[id] \in Row
      BY Zenon DEF TypeOK
    <2>1. [row[id] EXCEPT !.expired = TRUE] \in Row
      BY <2>0, Zenon DEF Row
    <2>2. row' \in [Ids -> Row]
      BY <1>7, <2>1, Zenon DEF Expire, TypeOK
    <2> QED  BY <1>7, <2>2, Zenon DEF Expire, TypeOK
  <1> QED  BY <1>4, <1>5, <1>6, <1>7, Zenon

-----------------------------------------------------------------------------
(* What a step of some servers leaves to the others.                       *)

\* The requests of the servers that are not in S go on as before: a step takes
\* no lock from them and changes nothing they have locked.
SparesJobs(S) ==
  /\ \A t \in Servers \ S : job'[t] = job[t]
  /\ \A t \in Servers \ S, id \in Ids : lock[id] = <<t, "job">> =>
       lock'[id] = lock[id] /\ file'[id] = file[id] /\ row'[id].status = row[id].status
  /\ used \subseteq used'

SparesSweeps(S) ==
  /\ \A t \in Servers \ S : sweep'[t] = sweep[t]
  /\ \A t \in Servers \ S, id \in Ids : lock[id] = <<t, "sweep">> =>
       lock'[id] = lock[id] /\ (Dead(id) => Dead(id)')

\* No transfer is added to those the quota counts.
AddsNone == Active' \ late' \subseteq Active \ late

SparesUser(S) ==
  /\ \A t \in Servers \ S : job'[t] = job[t] /\ (user = t => user' = t)
  /\ AddsNone

\* The requests a step spares keep what they know of their files.
LEMMA OthersWork ==
  ASSUME Working, NEW S \in SUBSET Servers, SparesJobs(S), \A s \in S : WorkingOf(s)'
  PROVE  Working'
  <1> SUFFICES ASSUME NEW t \in Servers \ S PROVE WorkingOf(t)'
    BY Zenon DEF Working
  <1>1. job'[t] = job[t] /\ WorkingOf(t)
    BY Zenon DEF SparesJobs, Working
  <1>2. CASE job[t].pc \in {"insert", "part", "commit", "publish"}
    <2>1. job[t].id \in Ids /\ lock[job[t].id] = <<t, "job">>
      BY <1>1, <1>2, Zenon DEF WorkingOf
    <2>2. /\ lock'[job[t].id] = <<t, "job">> /\ file'[job[t].id] = file[job[t].id]
          /\ row'[job[t].id].status = row[job[t].id].status /\ used \subseteq used'
      BY <2>1, Zenon DEF SparesJobs
    <2> QED  BY <1>1, <1>2, <2>1, <2>2, Zenon DEF WorkingOf, Stored, Sha256Matches
  <1>3. CASE job[t].pc \notin {"insert", "part", "commit", "publish"}
    BY <1>1, <1>3, Zenon DEF WorkingOf
  <1> QED  BY <1>2, <1>3, Zenon

\* The rounds of maintenance a step spares keep their lock on a dead transfer.
LEMMA OthersRemove ==
  ASSUME Removing, NEW S \in SUBSET Servers, SparesSweeps(S), \A s \in S : RemovingOf(s)'
  PROVE  Removing'
  <1> SUFFICES ASSUME NEW t \in Servers \ S PROVE RemovingOf(t)'
    BY Zenon DEF Removing
  <1>1. sweep'[t] = sweep[t] /\ RemovingOf(t)
    BY Zenon DEF SparesSweeps, Removing
  <1> QED  BY <1>1, Zenon DEF RemovingOf, SparesSweeps

\* The counted transfers are finitely many, so fewer of them count less.
LEMMA QuotaStep ==
  ASSUME AddsNone
  PROVE  /\ Cardinality(Active' \ late') <= Cardinality(Active \ late)
         /\ Cardinality(Active \ late) \in Nat /\ Cardinality(Active' \ late') \in Nat
         /\ QuotaHolds => QuotaHolds'
  <1>1. IsFiniteSet(Active \ late)
    <2>1. IsFiniteSet(Ids) /\ Active \ late \subseteq Ids
      BY UploadConstants, Zenon DEF Active
    <2> QED  BY <2>1, FS_Subset, Zenon
  <1>2. /\ IsFiniteSet(Active' \ late') /\ Cardinality(Active' \ late') <= Cardinality(Active \ late)
    BY <1>1, FS_Subset, Zenon DEF AddsNone
  <1>3. Cardinality(Active \ late) \in Nat /\ Cardinality(Active' \ late') \in Nat
    BY <1>1, <1>2, FS_CardinalityType, Zenon
  <1> QED  BY <1>2, <1>3, UploadConstants DEF QuotaHolds

\* The creates a step spares keep the row of the sender and stay below the quota.
LEMMA OthersCreate ==
  ASSUME Creating, NEW S \in SUBSET Servers, SparesUser(S), \A s \in S : CreatingOf(s)'
  PROVE  Creating'
  <1> SUFFICES ASSUME NEW t \in Servers \ S PROVE CreatingOf(t)'
    BY Zenon DEF Creating
  <1>1. job'[t] = job[t] /\ CreatingOf(t) /\ (user = t => user' = t) /\ AddsNone
    BY Zenon DEF SparesUser, Creating
  <1>2. Cardinality(Active \ late) < Quota => Cardinality(Active' \ late') < Quota
    BY <1>1, QuotaStep, UploadConstants
  <1> QED  BY <1>1, <1>2, Zenon DEF CreatingOf

\* A step of a request of server s.
LEMMA JobStep ==
  ASSUME IInv, NEW s \in Servers, SparesJobs({s}), SparesSweeps({}), SparesUser({s}), WorkingOf(s)', CreatingOf(s)'
  PROVE  Working' /\ Removing' /\ Creating'
  <1>1. {s} \in SUBSET Servers /\ {} \in SUBSET Servers /\ Working /\ Removing /\ Creating
    BY Zenon DEF IInv
  <1>2. (\A t \in {s} : WorkingOf(t)') /\ (\A t \in {} : RemovingOf(t)') /\ \A t \in {s} : CreatingOf(t)'
    OBVIOUS
  <1> QED  BY <1>1, <1>2, OthersWork, OthersRemove, OthersCreate, Zenon

\* A step of neither a request nor a round of maintenance.
LEMMA OtherStep ==
  ASSUME IInv, SparesJobs({}), SparesSweeps({}), SparesUser({})
  PROVE  Working' /\ Removing' /\ Creating'
  <1>1. {} \in SUBSET Servers /\ Working /\ Removing /\ Creating
    BY Zenon DEF IInv
  <1>2. (\A t \in {} : WorkingOf(t)') /\ (\A t \in {} : RemovingOf(t)') /\ \A t \in {} : CreatingOf(t)'
    OBVIOUS
  <1> QED  BY <1>1, <1>2, OthersWork, OthersRemove, OthersCreate, Zenon

\* What does not change the table or the files keeps what is said of them.
LEMMA StorageFrame ==
  ASSUME IInv, UNCHANGED <<row, file, used, late>>
  PROVE  RowsAreUsed' /\ OffsetIsBacked' /\ PublishedIsIntact' /\ QuotaHolds' /\ AddsNone
  BY Zenon DEF IInv, RowsAreUsed, OffsetIsBacked, Open, PublishedIsIntact, Published, Sha256Matches, QuotaHolds, Active,
         AddsNone

\* What does not touch the outbox keeps what is said of it.
LEMMA EventFrame ==
  ASSUME IInv, UNCHANGED <<event, told, sweep>>
  PROVE  Notifying' /\ DeliveredMeansTold'
  BY Zenon DEF IInv, Notifying, DeliveredMeansTold

\* The end of a request (Finish) concerns its server only.
LEMMA FinishSpares ==
  ASSUME TypeOK, NEW s \in Servers, Finish(s)
  PROVE  /\ \A t \in Servers \ {s} : job'[t] = job[t] /\ (user = t => user' = t)
         /\ \A t \in Servers \ {s}, id \in Ids : lock[id] = <<t, "job">> => lock'[id] = lock[id]
         /\ \A t \in Servers, id \in Ids : lock[id] = <<t, "sweep">> => lock'[id] = lock[id]
         /\ WorkingOf(s)' /\ CreatingOf(s)'
  <1>1. job'[s] = Idle /\ \A t \in Servers \ {s} : job'[t] = job[t]
    BY FinishTypes, Zenon
  <1>2. job'[s].pc = "idle"
    BY <1>1 DEF Idle
  <1>3. WorkingOf(s)' /\ CreatingOf(s)'
    BY <1>2, Zenon DEF WorkingOf, CreatingOf
  <1> QED  BY <1>1, <1>3 DEF Finish

-----------------------------------------------------------------------------
(* Requests.                                                               *)

\* The steps that start a request, and the routes that are one step (DELETE,
\* downloaded), keep the invariant.
LEMMA RequestSteps ==
  ASSUME IInv, NEW s \in Servers, Request(s)
  PROVE  IInv'
  <1>0. TypeOK /\ TypeOK' /\ Working /\ Removing /\ Creating
    BY RequestTypes, Zenon DEF IInv
  <1>n. \A id \in Ids : lock[id] = None => \A t \in Servers : lock[id] # <<t, "job">> /\ lock[id] # <<t, "sweep">>
    BY UploadConstants DEF Actors
  <1>1. ASSUME NEW k \in Keys, CreateBegin(s, k) PROVE IInv'
    <2>1. UNCHANGED <<row, file, event, told, lock, used, sweep, late>> /\ user = None /\ user' = s
      BY <1>1, Zenon DEF CreateBegin
    <2>2. job'[s].pc = "prior" /\ \A t \in Servers \ {s} : job'[t] = job[t]
      BY <1>0, <1>1, Zenon DEF CreateBegin, TypeOK, Idle
    <2>3. SparesJobs({s}) /\ SparesSweeps({})
      BY <2>1, <2>2, Zenon DEF SparesJobs, SparesSweeps, Dead
    <2>4. SparesUser({s})
      BY <2>1, <2>2, StorageFrame, UploadConstants, Zenon DEF SparesUser
    <2>5. WorkingOf(s)' /\ CreatingOf(s)'
      BY <2>1, <2>2, Zenon DEF WorkingOf, CreatingOf
    <2> QED  BY <1>0, <2>1, <2>3, <2>4, <2>5, JobStep, StorageFrame, EventFrame, Zenon DEF IInv
  <1>2. ASSUME NEW id \in Ids, NEW at \in 0 .. Total, NEW parts \in Parts, ChunkBegin(s, id, at, parts) PROVE IInv'
    <2>1. UNCHANGED <<row, file, event, told, user, used, sweep, late>> /\ lock[id] = None
          /\ lock' = [lock EXCEPT ![id] = <<s, "job">>]
      BY <1>2, Zenon DEF ChunkBegin, Acquire
    <2>2. /\ job'[s] = [Idle EXCEPT !.pc = "part", !.id = id, !.at = at, !.parts = parts]
          /\ \A t \in Servers \ {s} : job'[t] = job[t]
      BY <1>0, <1>2, Zenon DEF ChunkBegin, TypeOK
    <2>3. job'[s].pc = "part" /\ job'[s].id = id /\ job'[s].at = at /\ job'[s].parts = parts
      BY <2>2, Zenon DEF Idle
    <2>4. file[id] \in Seq(Records)
      BY <1>0, <1>2, Zenon DEF ChunkBegin, IInv, OffsetIsBacked, TypeOK
    <2>5. WorkingOf(s)'
      <3>1. lock'[id] = <<s, "job">> /\ file'[id] \in Seq(Records)
        BY <1>0, <2>1, <2>4, Zenon DEF TypeOK
      <3>2. parts \in Seq(Chunks) /\ parts # << >> /\ at + Len(parts) <= Total
        BY <1>2, PartsAreChunks, Zenon DEF ChunkBegin
      <3> QED  BY <2>3, <3>1, <3>2, Zenon DEF WorkingOf
    <2>6. SparesJobs({s}) /\ SparesSweeps({})
      BY <1>0, <1>n, <2>1, <2>2 DEF SparesJobs, SparesSweeps, TypeOK, Dead
    <2>7. SparesUser({s}) /\ CreatingOf(s)'
      BY <2>1, <2>2, <2>3, StorageFrame, Zenon DEF SparesUser, CreatingOf
    <2> QED  BY <1>0, <2>1, <2>5, <2>6, <2>7, JobStep, StorageFrame, EventFrame, Zenon DEF IInv
  <1>3. ASSUME NEW id \in Ids, CompleteVerify(s, id) PROVE IInv'
    <2>1. UNCHANGED <<row, file, event, told, user, used, sweep, late>> /\ lock[id] = None
          /\ lock' = [lock EXCEPT ![id] = <<s, "job">>]
      BY <1>3, Zenon DEF CompleteVerify, Acquire
    <2>2. /\ job'[s] = [Idle EXCEPT !.pc = "publish", !.id = id]
          /\ \A t \in Servers \ {s} : job'[t] = job[t]
      BY <1>0, <1>3, Zenon DEF CompleteVerify, TypeOK
    <2>3. job'[s].pc = "publish" /\ job'[s].id = id
      BY <2>2, Zenon DEF Idle
    <2>4. file[id] \in Seq(Records) /\ Sha256Matches(id)
      BY <1>0, <1>3, Zenon DEF CompleteVerify, IInv, OffsetIsBacked, TypeOK
    <2>5. WorkingOf(s)'
      <3>1. lock'[id] = <<s, "job">> /\ file'[id] \in Seq(Records) /\ Sha256Matches(id)'
        BY <1>0, <2>1, <2>4, Zenon DEF TypeOK, Sha256Matches
      <3> QED  BY <2>3, <3>1, Zenon DEF WorkingOf
    <2>6. SparesJobs({s}) /\ SparesSweeps({})
      BY <1>0, <1>n, <2>1, <2>2 DEF SparesJobs, SparesSweeps, TypeOK, Dead
    <2>7. SparesUser({s}) /\ CreatingOf(s)'
      BY <2>1, <2>2, <2>3, StorageFrame, Zenon DEF SparesUser, CreatingOf
    <2> QED  BY <1>0, <2>1, <2>5, <2>6, <2>7, JobStep, StorageFrame, EventFrame, Zenon DEF IInv
  <1>4. ASSUME NEW id \in Ids, NEW g \in {"uploads", "files"}, Cancel(s, id, g) PROVE IInv'
    <2>1. /\ UNCHANGED <<file, event, told, lock, user, used, job, sweep, late>> /\ lock[id] = None
          /\ row[id].status # "none"
          /\ row' = [row EXCEPT ![id].status = "cancelled", ![id].expired = TRUE]
      BY <1>4, Zenon DEF Cancel
    <2>2. /\ row'[id].status = "cancelled" /\ row'[id].expired = TRUE
          /\ \A i \in Ids \ {id} : row'[i] = row[i]
      BY <1>0, <2>1, Zenon DEF TypeOK, Row
    <2>3. SparesJobs({}) /\ SparesSweeps({})
      BY <1>n, <2>1, <2>2, Zenon DEF SparesJobs, SparesSweeps, Dead
    <2>4. AddsNone
      BY <2>1, <2>2, Zenon DEF AddsNone, Active
    <2>5. RowsAreUsed' /\ OffsetIsBacked' /\ PublishedIsIntact'
      BY <2>1, <2>2, Zenon DEF IInv, RowsAreUsed, OffsetIsBacked, Open, PublishedIsIntact, Published, Sha256Matches
    <2>6. SparesUser({})
      BY <2>1, <2>4, Zenon DEF SparesUser
    <2> QED  BY <1>0, <2>1, <2>3, <2>4, <2>5, <2>6, OtherStep, QuotaStep, EventFrame, ZenonT(60) DEF IInv
  <1>5. ASSUME NEW id \in Ids, Downloaded(s, id) PROVE IInv'
    <2>1. /\ UNCHANGED <<file, event, told, lock, user, used, job, sweep, late>> /\ lock[id] = None
          /\ Published(id) /\ ~row[id].expired
          /\ row' = [row EXCEPT ![id].status = "downloaded"]
      BY <1>5, Zenon DEF Downloaded
    <2>2. /\ row'[id].status = "downloaded" /\ row'[id].expired = row[id].expired
          /\ \A i \in Ids \ {id} : row'[i] = row[i]
      BY <1>0, <2>1, ZenonT(60) DEF TypeOK, Row
    <2>3. SparesJobs({}) /\ SparesSweeps({})
      BY <1>n, <2>1, <2>2, Zenon DEF SparesJobs, SparesSweeps, Dead
    <2>4. AddsNone
      BY <2>1, <2>2, Zenon DEF AddsNone, Active, Published
    <2>5. RowsAreUsed' /\ OffsetIsBacked' /\ PublishedIsIntact'
      BY <2>1, <2>2, Zenon DEF IInv, RowsAreUsed, OffsetIsBacked, Open, PublishedIsIntact, Published, Sha256Matches
    <2>6. SparesUser({})
      BY <2>1, <2>4, Zenon DEF SparesUser
    <2> QED  BY <1>0, <2>1, <2>3, <2>4, <2>5, <2>6, OtherStep, QuotaStep, EventFrame, ZenonT(60) DEF IInv
  <1>6. ASSUME NEW id \in Ids, NEW at \in 0 .. Total - 1, ContentBegin(s, id, at) PROVE IInv'
    <2>1. UNCHANGED <<row, file, event, told, lock, user, used, sweep, late>>
      BY <1>6, Zenon DEF ContentBegin
    <2>2. job'[s].pc = "stream" /\ job'[s].id = id /\ \A t \in Servers \ {s} : job'[t] = job[t]
      BY <1>0, <1>6, Zenon DEF ContentBegin, TypeOK, Idle
    <2>3. SparesJobs({s}) /\ SparesSweeps({})
      BY <2>1, <2>2, Zenon DEF SparesJobs, SparesSweeps, Dead
    <2>4. SparesUser({s})
      BY <2>1, <2>2, StorageFrame, Zenon DEF SparesUser
    <2>5. WorkingOf(s)' /\ CreatingOf(s)'
      BY <2>2, Zenon DEF WorkingOf, CreatingOf
    <2> QED  BY <1>0, <2>1, <2>3, <2>4, <2>5, JobStep, StorageFrame, EventFrame, Zenon DEF IInv
  <1> QED  BY <1>1, <1>2, <1>3, <1>4, <1>5, <1>6, Zenon DEF Request

-----------------------------------------------------------------------------
(* The steps of a request.                                                 *)

\* A request that ends changes at most what it has locked.
LEMMA FinishStep ==
  ASSUME IInv, NEW s \in Servers, Finish(s), UNCHANGED <<used, sweep>>,
         \A id \in Ids : lock[id] # <<s, "job">> => file'[id] = file[id] /\ row'[id] = row[id]
  PROVE  Working' /\ Removing' /\ CreatingOf(s)' /\ (AddsNone => Creating')
  <1>1. TypeOK
    BY Zenon DEF IInv
  <1>2. SparesJobs({s})
    <2>1. \A t \in Servers \ {s}, id \in Ids : lock[id] = <<t, "job">> => lock[id] # <<s, "job">>
      OBVIOUS
    <2> QED  BY <1>1, <2>1, FinishSpares, Zenon DEF SparesJobs
  <1>3. SparesSweeps({})
    BY <1>1, FinishSpares DEF SparesSweeps, Dead
  <1>4. WorkingOf(s)' /\ CreatingOf(s)'
    BY <1>1, FinishSpares, Zenon
  <1>5. Working' /\ Removing'
    <2>1. {s} \in SUBSET Servers /\ {} \in SUBSET Servers /\ Working /\ Removing
      BY Zenon DEF IInv
    <2>2. (\A t \in {s} : WorkingOf(t)') /\ (\A t \in {} : RemovingOf(t)')
      BY <1>4, Zenon
    <2> QED  BY <1>2, <1>3, <2>1, <2>2, OthersWork, OthersRemove, Zenon
  <1>6. ASSUME AddsNone PROVE Creating'
    <2>1. SparesUser({s})
      BY <1>1, <1>6, FinishSpares, Zenon DEF SparesUser
    <2> QED  BY <1>2, <1>3, <1>4, <2>1, JobStep, Zenon
  <1> QED  BY <1>4, <1>5, <1>6, Zenon

\* A record at the end leaves the content before it.
LEMMA AppendPrefix ==
  ASSUME NEW q \in Seq(Records), NEW r \in Records, NEW n \in Nat, n <= Len(q)
  PROVE  SubSeq(Append(q, r), 1, n) = SubSeq(q, 1, n)
  <1>1. \A i \in 1 .. n : Append(q, r)[i] = q[i]
    BY AppendRecord
  <1> QED  BY <1>1

\* A record at the end of a file spoils nothing that is confirmed or published.
LEMMA AppendKeeps ==
  ASSUME IInv, UNCHANGED <<row, used, late>>, NEW id \in Ids, file[id] \in Seq(Records), NEW r \in Records,
         file' = [file EXCEPT ![id] = Append(@, r)]
  PROVE  RowsAreUsed' /\ OffsetIsBacked' /\ PublishedIsIntact' /\ QuotaHolds' /\ AddsNone
  <1>1. /\ file'[id] \in Seq(Records) /\ Len(file'[id]) = Len(file[id]) + 1 /\ Len(file[id]) \in Nat
        /\ \A i \in 1 .. Len(file[id]) : file'[id][i] = file[id][i]
    BY AppendRecord DEF IInv, TypeOK
  <1>2. \A i \in Ids \ {id} : file'[i] = file[i]
    BY Zenon DEF IInv, TypeOK
  <1>3. RowsAreUsed' /\ QuotaHolds' /\ AddsNone
    BY Zenon DEF IInv, RowsAreUsed, QuotaHolds, Active, AddsNone
  <1>4. OffsetIsBacked'
    <2> SUFFICES ASSUME NEW i \in Ids, Open(i)
                 PROVE  /\ file'[i] # None /\ Len(file'[i]) >= row[i].offset
                        /\ \A k \in 1 .. row[i].offset : file'[i][k] \in Chunks
      BY Zenon DEF OffsetIsBacked, Open
    <2>1. /\ file[i] # None /\ Len(file[i]) >= row[i].offset
          /\ \A k \in 1 .. row[i].offset : file[i][k] \in Chunks
      BY Zenon DEF IInv, OffsetIsBacked
    <2>2. row[i].offset \in Nat
      BY TotalIsNat DEF IInv, TypeOK, Row
    <2>3. CASE i = id
      <3>1. file'[i] # None
        BY <1>1, <2>3, UploadConstants, Zenon
      <3>2. Len(file'[i]) >= row[i].offset
        BY <1>1, <2>1, <2>2, <2>3
      <3>3. \A k \in 1 .. row[i].offset : k \in 1 .. Len(file[i])
        BY <1>1, <2>1, <2>2, <2>3
      <3> QED  BY <1>1, <2>1, <2>3, <3>1, <3>2, <3>3, Zenon
    <2> QED  BY <1>2, <2>1, <2>3, Zenon
  <1>5. PublishedIsIntact'
    <2> SUFFICES ASSUME NEW i \in Ids, Published(i), ~row[i].expired
                 PROVE  file'[i] # None /\ Sha256Matches(i)'
      BY Zenon DEF PublishedIsIntact, Published
    <2>1. file[i] # None /\ Len(file[i]) >= Total /\ SubSeq(file[i], 1, Total) = Original
      BY Zenon DEF IInv, PublishedIsIntact, Sha256Matches
    <2>2. CASE i = id
      <3>1. file'[i] # None /\ Len(file'[i]) >= Total
        BY <1>1, <2>1, <2>2, UploadConstants, TotalIsNat, SMTT(60)
      <3>2. SubSeq(file'[i], 1, Total) = Original
        <4>1. file'[i] = Append(file[i], r)
          BY <2>2, Zenon DEF IInv, TypeOK
        <4> QED  BY <2>1, <2>2, <4>1, AppendPrefix, TotalIsNat
      <3> QED  BY <3>1, <3>2, Zenon DEF Sha256Matches
    <2> QED  BY <1>2, <2>1, <2>2, Zenon DEF Sha256Matches
  <1> QED  BY <1>3, <1>4, <1>5, Zenon

\* create, after the row of the sender is locked: the retry, the file, the row.
LEMMA CreateSteps ==
  ASSUME IInv, NEW s \in Servers, TypeOK', CreateReturn(s) \/ CreateFile(s) \/ CreateInsert(s)
  PROVE  IInv'
  <1>0. TypeOK /\ Working /\ Removing /\ Creating /\ WorkingOf(s) /\ CreatingOf(s)
    BY Zenon DEF IInv, Working, Creating
  <1>n. \A id \in Ids : lock[id] = None => \A t \in Servers : lock[id] # <<t, "job">> /\ lock[id] # <<t, "sweep">>
    BY UploadConstants DEF Actors
  <1>1. CASE CreateReturn(s)
    <2>1. Finish(s) /\ UNCHANGED <<row, file, event, told, used, sweep, late>>
      BY <1>1, Zenon DEF CreateReturn
    <2> QED  BY <2>1, FinishStep, StorageFrame, EventFrame, Zenon DEF IInv
  <1>2. CASE CreateFile(s)
    <2>1. PICK id \in Ids \ used :
            /\ Acquire(id, <<s, "job">>) /\ used' = used \cup {id} /\ file' = [file EXCEPT ![id] = << >>]
            /\ job' = [job EXCEPT ![s].pc = "insert", ![s].id = id]
      BY <1>2, Zenon DEF CreateFile
    <2>2. /\ UNCHANGED <<row, event, told, user, sweep, late>> /\ job[s].pc = "prior" /\ Cardinality(Active) < Quota
          /\ lock[id] = None /\ lock' = [lock EXCEPT ![id] = <<s, "job">>]
      BY <1>2, <2>1, Zenon DEF CreateFile, Acquire
    <2>3. job'[s].pc = "insert" /\ job'[s].id = id /\ \A t \in Servers \ {s} : job'[t] = job[t]
      BY <1>0, <2>1, ZenonT(60) DEF TypeOK, Job
    <2>4. row[id].status = "none" /\ file'[id] = << >> /\ lock'[id] = <<s, "job">> /\ id \in used'
      BY <1>0, <2>1, <2>2, Zenon DEF IInv, RowsAreUsed, TypeOK
    <2>5. \A i \in Ids \ {id} : file'[i] = file[i] /\ lock'[i] = lock[i]
      BY <1>0, <2>1, <2>2, Zenon DEF TypeOK
    <2>6. SparesJobs({s})
      BY <1>n, <2>1, <2>2, <2>3, <2>5, Zenon DEF SparesJobs
    <2>7. SparesSweeps({})
      BY <1>n, <2>2, <2>5, Zenon DEF SparesSweeps, Dead
    <2>8. AddsNone /\ QuotaHolds'
      BY <2>2, Zenon DEF AddsNone, Active, IInv, QuotaHolds
    <2>9. SparesUser({s})
      BY <2>2, <2>3, <2>8, Zenon DEF SparesUser
    <2>10. WorkingOf(s)'
      <3>1. << >> \in Seq(Records)
        OBVIOUS
      <3> QED  BY <2>2, <2>3, <2>4, <3>1, Zenon DEF WorkingOf
    <2>11. CreatingOf(s)'
      <3>1. Cardinality(Active \ late) < Quota
        <4>1. IsFiniteSet(Active)
          <5>1. Active \subseteq Ids /\ IsFiniteSet(Ids)
            BY UploadConstants, Zenon DEF Active
          <5> QED  BY <5>1, FS_Subset, Zenon
        <4>2. Cardinality(Active \ late) <= Cardinality(Active) /\ IsFiniteSet(Active \ late)
          BY <4>1, FS_Subset, Zenon
        <4>3. Cardinality(Active) \in Nat /\ Cardinality(Active \ late) \in Nat
          BY <4>1, <4>2, FS_CardinalityType, Zenon
        <4> QED  BY <2>2, <4>2, <4>3, UploadConstants
      <3>2. Active' \ late' = Active \ late /\ user' = s
        BY <1>0, <2>2, Zenon DEF Active, CreatingOf
      <3> QED  BY <3>1, <3>2, Zenon DEF CreatingOf
    <2>12. RowsAreUsed'
      BY <2>1, <2>2, Zenon DEF IInv, RowsAreUsed
    <2>13. OffsetIsBacked' /\ PublishedIsIntact'
      BY <2>2, <2>4, <2>5, Zenon DEF IInv, OffsetIsBacked, Open, PublishedIsIntact, Published, Sha256Matches
    <2>14. UNCHANGED <<event, told, sweep>>
      BY <2>2, Zenon
    <2> QED  BY <2>6, <2>7, <2>8, <2>9, <2>10, <2>11, <2>12, <2>13, <2>14, JobStep, EventFrame, ZenonT(60) DEF IInv
  <1>3. CASE CreateInsert(s)
    <2> DEFINE id == job[s].id
    <2>1. /\ Finish(s) /\ UNCHANGED <<file, event, told, used, sweep, late>> /\ job[s].pc = "insert"
          /\ row' = [row EXCEPT ![id] = [NoRow EXCEPT !.status = "uploading", !.key = job[s].key]]
      BY <1>3, Zenon DEF CreateInsert
    <2>2. id \in Ids /\ lock[id] = <<s, "job">> /\ file[id] \in Seq(Records) /\ row[id].status = "none" /\ id \in used
      BY <1>0, <2>1, Zenon DEF WorkingOf
    <2>3. row'[id].status = "uploading" /\ row'[id].offset = 0 /\ \A i \in Ids \ {id} : row'[i] = row[i]
      BY <1>0, <2>1, <2>2, Zenon DEF TypeOK, NoRow
    <2> HIDE DEF id
    <2>4. Working' /\ Removing' /\ CreatingOf(s)'
      BY <2>1, <2>2, <2>3, FinishStep, Zenon
    <2>5. Creating'
      <3>1. \A t \in Servers \ {s} : job'[t] = job[t] /\ job[t].pc \notin {"prior", "insert"}
        BY <1>0, <2>1, FinishSpares, Zenon DEF Creating, CreatingOf
      <3> QED  BY <2>4, <3>1, Zenon DEF Creating, CreatingOf
    <2>6. QuotaHolds'
      <3>1. Active' \ late' \subseteq (Active \ late) \cup {id}
        BY <2>1, <2>3, Zenon DEF Active
      <3>2. IsFiniteSet(Active \ late)
        <4>1. Active \ late \subseteq Ids /\ IsFiniteSet(Ids)
          BY UploadConstants, Zenon DEF Active
        <4> QED  BY <4>1, FS_Subset, Zenon
      <3>3. /\ IsFiniteSet((Active \ late) \cup {id}) /\ Cardinality(Active \ late) \in Nat
            /\ Cardinality((Active \ late) \cup {id}) <= Cardinality(Active \ late) + 1
        <4> DEFINE counted == Active \ late
        <4>1. IsFiniteSet(counted)
          BY <3>2, Zenon
        <4> HIDE DEF counted
        <4>2. /\ IsFiniteSet(counted \cup {id})
              /\ Cardinality(counted \cup {id}) = IF id \in counted THEN Cardinality(counted) ELSE Cardinality(counted) + 1
          BY <4>1, FS_AddElement, Zenon
        <4>3. Cardinality(counted) \in Nat
          BY <4>1, FS_CardinalityType, Zenon
        <4>4. IsFiniteSet(counted \cup {id}) /\ Cardinality(counted \cup {id}) <= Cardinality(counted) + 1
          BY <4>2, <4>3
        <4> QED  BY <4>3, <4>4, Zenon DEF counted
      <3>4. IsFiniteSet(Active' \ late') /\ Cardinality(Active' \ late') <= Cardinality((Active \ late) \cup {id})
        BY <3>1, <3>3, FS_Subset, Zenon
      <3>5. Cardinality(Active' \ late') \in Nat /\ Cardinality((Active \ late) \cup {id}) \in Nat
        BY <3>3, <3>4, FS_CardinalityType, Zenon
      <3>6. Cardinality(Active \ late) < Quota
        BY <1>0, <2>1, Zenon DEF CreatingOf
      <3> QED  BY <3>3, <3>4, <3>5, <3>6, UploadConstants DEF QuotaHolds
    <2>7. RowsAreUsed' /\ PublishedIsIntact'
      BY <2>1, <2>2, <2>3, Zenon DEF IInv, RowsAreUsed, PublishedIsIntact, Published, Sha256Matches
    <2>8. OffsetIsBacked'
      <3>1. file'[id] # None /\ Len(file'[id]) >= row'[id].offset
            /\ \A i \in 1 .. row'[id].offset : file'[id][i] \in Chunks
        BY <2>1, <2>2, <2>3, UploadConstants
      <3>2. ASSUME NEW i \in Ids \ {id}, Open(i)'
            PROVE  file'[i] # None /\ Len(file'[i]) >= row'[i].offset
                   /\ \A k \in 1 .. row'[i].offset : file'[i][k] \in Chunks
        <4>1. row'[i] = row[i] /\ file'[i] = file[i] /\ Open(i)
          BY <2>1, <2>3, <3>2, Zenon DEF Open
        <4> QED  BY <4>1, Zenon DEF IInv, OffsetIsBacked
      <3> QED  BY <3>1, <3>2, Zenon DEF OffsetIsBacked
    <2> QED  BY <2>1, <2>4, <2>5, <2>6, <2>7, <2>8, EventFrame, Zenon DEF IInv
  <1> QED  BY <1>1, <1>2, <1>3, Zenon

\* chunk: the comparison with a stored part, the append and the UPDATE.
LEMMA PartSteps ==
  ASSUME IInv, NEW s \in Servers, TypeOK', PartKnown(s) \/ PartAppend(s) \/ PartCommit(s)
  PROVE  IInv'
  <1> DEFINE id == job[s].id
  <1>0. TypeOK /\ Working /\ Removing /\ Creating /\ WorkingOf(s) /\ CreatingOf(s) /\ job[s] \in Job
    BY ZenonT(60) DEF IInv, Working, Creating, TypeOK
  <1>p. /\ job[s].pc \in {"part", "commit"} /\ id \in Ids /\ lock[id] = <<s, "job">> /\ file[id] \in Seq(Records)
        /\ job[s].parts \in Seq(Chunks) /\ job[s].parts # << >> /\ job[s].at + Len(job[s].parts) <= Total
        /\ job[s].at \in Nat
    <2>1. job[s].pc \in {"part", "commit"}
      BY Zenon DEF PartKnown, PartAppend, PartCommit, Appending
    <2> QED  BY <1>0, <2>1, TotalIsNat DEF WorkingOf, Job
  <1> HIDE DEF id
  \* The rest of a PUT goes on under the lock.
  <1>a. ASSUME Advance(s), UNCHANGED <<file, used, sweep>>, AddsNone,
               \A i \in Ids : row'[i].status = row[i].status /\ row'[i].expired = row[i].expired,
               \A i \in Ids \ {id} : row'[i] = row[i]
        PROVE  Working' /\ Removing' /\ Creating'
    <2>1. CASE Finish(s)
      BY <1>a, <1>p, <2>1, FinishStep, Zenon
    <2>2. CASE /\ job' = [job EXCEPT ![s] = [job[s] EXCEPT !.pc = "part", !.at = job[s].at + 1,
                                                           !.parts = Tail(job[s].parts)]]
               /\ Tail(job[s].parts) \in Seq(Chunks) /\ Tail(job[s].parts) # << >>
               /\ job[s].at + 1 + Len(Tail(job[s].parts)) <= Total
               /\ UNCHANGED <<lock, user>>
      <3>1. /\ job'[s].pc = "part" /\ job'[s].id = id /\ job'[s].at = job[s].at + 1
            /\ job'[s].parts = Tail(job[s].parts) /\ \A t \in Servers \ {s} : job'[t] = job[t]
        BY <1>0, <2>2, Zenon DEF TypeOK, Job, id
      <3>2. WorkingOf(s)' /\ CreatingOf(s)'
        BY <1>a, <1>p, <2>2, <3>1, Zenon DEF WorkingOf, CreatingOf
      <3>3. SparesJobs({s}) /\ SparesSweeps({}) /\ SparesUser({s})
        BY <1>a, <2>2, <3>1, Zenon DEF SparesJobs, SparesSweeps, SparesUser, Dead
      <3> QED  BY <3>2, <3>3, JobStep, Zenon
    <2> QED  BY <1>a, <1>p, <2>1, <2>2, AdvanceStep, Zenon
  <1>1. CASE PartKnown(s)
    <2>1. UNCHANGED <<row, file, event, told, used, sweep, late>> /\ (Advance(s) \/ Finish(s))
      BY <1>1, Zenon DEF PartKnown
    <2>2. Working' /\ Removing' /\ Creating'
      BY <1>a, <2>1, FinishStep, StorageFrame, Zenon
    <2> QED  BY <2>1, <2>2, StorageFrame, EventFrame, Zenon DEF IInv
  <1>2. CASE PartAppend(s)
    <2>1. UNCHANGED <<row, event, told, used, sweep, late>> /\ job[s].pc = "part"
      BY <1>2, Zenon DEF PartAppend, Appending
    <2>2. ASSUME HoldOn(s, "commit"), UNCHANGED <<lock, user>>, AddsNone, file'[id] \in Seq(Records),
                 Len(file'[id]) > job[s].at, file'[id][job[s].at + 1] \in Chunks,
                 \A i \in Ids \ {id} : file'[i] = file[i]
          PROVE  Working' /\ Removing' /\ Creating'
      <3>1. /\ job'[s].pc = "commit" /\ job'[s].id = id /\ job'[s].at = job[s].at
            /\ job'[s].parts = job[s].parts /\ \A t \in Servers \ {s} : job'[t] = job[t]
        BY <1>0, <2>2, Zenon DEF HoldOn, TypeOK, Job, id
      <3>2. WorkingOf(s)' /\ CreatingOf(s)'
        BY <1>p, <2>1, <2>2, <3>1, Zenon DEF WorkingOf, CreatingOf, Stored
      <3>3. SparesJobs({s}) /\ SparesSweeps({}) /\ SparesUser({s})
        <4>1. \A t \in Servers \ {s}, i \in Ids : lock[i] = <<t, "job">> => i # id
          BY <1>p
        <4> QED  BY <2>1, <2>2, <3>1, <4>1, ZenonT(60) DEF SparesJobs, SparesSweeps, SparesUser, Dead
      <3> QED  BY <3>2, <3>3, JobStep, Zenon
    <2>3. CASE AtEnd(s) /\ file' = WithRecord(s, Head(job[s].parts)) /\ HoldOn(s, "commit") /\ UNCHANGED <<lock, user>>
      <3>1. Head(job[s].parts) \in Chunks /\ Head(job[s].parts) \in Records
        BY <1>p, TailOf, TotalIsNat, Zenon
      <3>2. file' = [file EXCEPT ![id] = Append(@, Head(job[s].parts))] /\ Len(file[id]) = job[s].at
        BY <2>3, Zenon DEF WithRecord, AtEnd, id
      <3>3. RowsAreUsed' /\ OffsetIsBacked' /\ PublishedIsIntact' /\ QuotaHolds' /\ AddsNone
        BY <1>p, <2>1, <3>1, <3>2, AppendKeeps, ZenonT(60)
      <3>4. file'[id] = Append(file[id], Head(job[s].parts)) /\ \A i \in Ids \ {id} : file'[i] = file[i]
        BY <1>0, <1>p, <3>2, ZenonT(60) DEF TypeOK
      <3>5. file'[id] \in Seq(Records) /\ Len(file'[id]) > job[s].at /\ file'[id][job[s].at + 1] \in Chunks
        BY <1>p, <3>1, <3>2, <3>4, AppendRecord
      <3>6. Working' /\ Removing' /\ Creating'
        BY <2>2, <2>3, <3>3, <3>4, <3>5, Zenon
      <3> QED  BY <2>1, <3>3, <3>6, EventFrame, Zenon DEF IInv
    <2>4. CASE Replayed(s) /\ HoldOn(s, "commit") /\ UNCHANGED <<file, lock, user>>
      <3>1. Len(file'[id]) > job[s].at /\ file'[id][job[s].at + 1] \in Chunks
        BY <1>p, <2>4, TailOf, Zenon DEF Replayed, Stored, id
      <3>2. Working' /\ Removing' /\ Creating'
        BY <1>p, <2>1, <2>2, <2>4, <3>1, StorageFrame, Zenon
      <3> QED  BY <2>1, <2>4, <3>2, StorageFrame, EventFrame, Zenon DEF IInv
    <2>5. CASE Finish(s) /\ UNCHANGED file
      BY <2>1, <2>5, FinishStep, StorageFrame, EventFrame, Zenon DEF IInv
    <2> QED  BY <1>2, <2>3, <2>4, <2>5, Zenon DEF PartAppend
  <1>3. CASE PartCommit(s)
    <2>1. UNCHANGED <<file, event, told, used, sweep, late>> /\ job[s].pc = "commit"
      BY <1>3, Zenon DEF PartCommit
    <2>2. CASE UNCHANGED row /\ Finish(s)
      BY <2>1, <2>2, FinishStep, StorageFrame, EventFrame, Zenon DEF IInv
    <2>3. CASE /\ Open(id) /\ row[id].offset = job[s].at
               /\ row' = [row EXCEPT ![id].offset = job[s].at + 1] /\ Advance(s)
      <3>1. /\ row'[id].status = row[id].status /\ row'[id].expired = row[id].expired /\ row'[id].offset = job[s].at + 1
            /\ \A i \in Ids \ {id} : row'[i] = row[i]
        BY <1>0, <1>p, <2>3 DEF TypeOK, Row
      <3>2. AddsNone
        BY <2>1, <3>1, Zenon DEF AddsNone, Active
      <3>3. Working' /\ Removing' /\ Creating'
        BY <1>a, <2>1, <2>3, <3>1, <3>2, Zenon
      <3>4. RowsAreUsed' /\ PublishedIsIntact'
        BY <2>1, <3>1, Zenon DEF IInv, RowsAreUsed, PublishedIsIntact, Published, Sha256Matches
      <3>5. OffsetIsBacked'
        <4>1. Len(file[id]) > job[s].at /\ file[id][job[s].at + 1] \in Chunks
          BY <1>0, <2>1, ZenonT(60) DEF WorkingOf, Stored, id
        <4>2. file'[id] # None /\ Len(file'[id]) >= row'[id].offset
          BY <1>p, <2>1, <3>1, <4>1, UploadConstants
        <4>3. \A i \in 1 .. row[id].offset : file[id][i] \in Chunks
          BY <1>p, <2>3, Zenon DEF IInv, OffsetIsBacked
        <4>4. \A i \in 1 .. row'[id].offset : file'[id][i] \in Chunks
          BY <1>p, <2>1, <2>3, <3>1, <4>1, <4>3
        <4>5. ASSUME NEW i \in Ids \ {id}, Open(i)'
              PROVE  file'[i] # None /\ Len(file'[i]) >= row'[i].offset
                     /\ \A k \in 1 .. row'[i].offset : file'[i][k] \in Chunks
          <5>1. row'[i] = row[i] /\ file'[i] = file[i] /\ Open(i)
            BY <2>1, <3>1, <4>5, Zenon DEF Open
          <5> QED  BY <5>1, Zenon DEF IInv, OffsetIsBacked
        <4> QED  BY <4>2, <4>4, <4>5, Zenon DEF OffsetIsBacked
      <3> QED  BY <2>1, <3>2, <3>3, <3>4, <3>5, QuotaStep, EventFrame, ZenonT(60) DEF IInv
    <2> QED  BY <1>3, <2>2, <2>3, Zenon DEF PartCommit, id
  <1> QED  BY <1>1, <1>2, <1>3, Zenon

\* The publication after the hash was checked, and a download.
LEMMA CompleteSteps ==
  ASSUME IInv, NEW s \in Servers, TypeOK', CompletePublish(s) \/ ContentNext(s)
  PROVE  IInv'
  <1>0. TypeOK /\ Working /\ WorkingOf(s) /\ job[s] \in Job
    BY Zenon DEF IInv, Working, TypeOK
  <1>1. CASE CompletePublish(s)
    <2> DEFINE id == job[s].id
    <2>1. /\ Finish(s) /\ UNCHANGED <<file, told, used, sweep>> /\ job[s].pc = "publish" /\ row[id].status = "uploading"
          /\ row' = [row EXCEPT ![id].status = "available", ![id].expired = FALSE]
          /\ event' = [event EXCEPT ![id] = IF @ = "none" THEN "pending" ELSE @]
          /\ late' = IF row[id].expired THEN late \cup {id} ELSE late
      BY <1>1, Zenon DEF CompletePublish
    <2>2. id \in Ids /\ lock[id] = <<s, "job">> /\ file[id] \in Seq(Records) /\ Sha256Matches(id)
      BY <1>0, <2>1, Zenon DEF WorkingOf
    <2> HIDE DEF id
    <2>3. row'[id].status = "available" /\ \A i \in Ids \ {id} : row'[i] = row[i]
      BY <1>0, <2>1, <2>2, Zenon DEF TypeOK, Row
    <2>4. AddsNone
      <3>1. ASSUME NEW i \in Active', i \notin late' PROVE i \in Active /\ i \notin late
        <4>1. CASE i = id
          BY <2>1, <2>2, <3>1, <4>1, Zenon DEF Active
        <4>2. CASE i # id
          BY <2>1, <2>3, <3>1, <4>2, Zenon DEF Active
        <4> QED  BY <4>1, <4>2, Zenon
      <3> QED  BY <3>1, Zenon DEF AddsNone
    <2>5. Working' /\ Removing' /\ Creating'
      BY <2>1, <2>2, <2>3, <2>4, FinishStep, Zenon
    <2>6. RowsAreUsed'
      BY <2>1, <2>2, <2>3, Zenon DEF IInv, RowsAreUsed
    <2>7. OffsetIsBacked'
      BY <2>1, <2>3, Zenon DEF IInv, OffsetIsBacked, Open
    <2>8. PublishedIsIntact'
      <3>1. file'[id] # None /\ Len(file'[id]) >= Total /\ SubSeq(file'[id], 1, Total) = Original
        BY <2>1, <2>2, UploadConstants, Zenon DEF Sha256Matches
      <3>2. ASSUME NEW i \in Ids \ {id}, Published(i)', ~row'[i].expired
            PROVE  file'[i] # None /\ Sha256Matches(i)'
        BY <2>1, <2>3, <3>2, Zenon DEF IInv, PublishedIsIntact, Published, Sha256Matches
      <3> QED  BY <3>1, <3>2, Zenon DEF PublishedIsIntact, Sha256Matches
    <2>9. Notifying'
      BY <2>1, Zenon DEF IInv, Notifying
    <2>10. DeliveredMeansTold'
      <3>1. \A i \in Ids : event'[i] = "delivered" => event[i] = "delivered"
        BY <1>0, <2>1, <2>2, Zenon DEF TypeOK
      <3> QED  BY <2>1, <3>1, Zenon DEF IInv, DeliveredMeansTold
    <2> QED  BY <2>4, <2>5, <2>6, <2>7, <2>8, <2>9, <2>10, QuotaStep, ZenonT(60) DEF IInv
  <1>2. CASE ContentNext(s)
    <2>1. UNCHANGED <<row, file, event, told, used, sweep, late>> /\ job[s].pc = "stream"
      BY <1>2, Zenon DEF ContentNext
    <2>2. CASE Finish(s)
      BY <2>1, <2>2, FinishStep, StorageFrame, EventFrame, Zenon DEF IInv
    <2>3. CASE UNCHANGED <<lock, user>> /\ \E r : job' = [job EXCEPT ![s].at = @ + 1, ![s].parts = Append(@, r)]
      <3>1. job'[s].pc = "stream" /\ job'[s].id = job[s].id /\ \A t \in Servers \ {s} : job'[t] = job[t]
        BY <1>0, <2>1, <2>3 DEF TypeOK, Job
      <3>2. WorkingOf(s)' /\ CreatingOf(s)'
        BY <1>0, <2>1, <3>1, Zenon DEF WorkingOf, CreatingOf
      <3>3. SparesJobs({s}) /\ SparesSweeps({}) /\ SparesUser({s})
        BY <2>1, <2>3, <3>1, StorageFrame, Zenon DEF SparesJobs, SparesSweeps, SparesUser, Dead
      <3> QED  BY <2>1, <3>2, <3>3, JobStep, StorageFrame, EventFrame, ZenonT(60) DEF IInv
    <2> QED  BY <1>2, <2>2, <2>3, Zenon DEF ContentNext
  <1> QED  BY <1>1, <1>2, Zenon

-----------------------------------------------------------------------------
(* Maintenance.                                                            *)

\* A step of the maintenance of server s that leaves requests alone.
LEMMA SweepStep ==
  ASSUME IInv, NEW s \in Servers, SparesJobs({}), SparesSweeps({s}), SparesUser({}), RemovingOf(s)'
  PROVE  Working' /\ Removing' /\ Creating'
  <1>1. {s} \in SUBSET Servers /\ {} \in SUBSET Servers /\ Working /\ Removing /\ Creating
    BY Zenon DEF IInv
  <1>2. (\A t \in {} : WorkingOf(t)') /\ (\A t \in {s} : RemovingOf(t)') /\ \A t \in {} : CreatingOf(t)'
    OBVIOUS
  <1> QED  BY <1>1, <1>2, OthersWork, OthersRemove, OthersCreate, Zenon

\* The outbox half: claiming, sending and settling an event.
LEMMA OutboxSteps ==
  ASSUME IInv, NEW s \in Servers, TypeOK',
         (\E id \in Ids : SweepClaim(s, id)) \/ SweepNothingDue(s) \/ (\E p \in Peers : SweepNotify(s, p)) \/ SweepSettle(s)
  PROVE  IInv'
  <1>0. TypeOK /\ sweep[s] \in Round
    BY Zenon DEF IInv, TypeOK
  <1>1. UNCHANGED <<row, file, lock, user, used, job, late>>
    BY ZenonT(60) DEF SweepClaim, SweepNothingDue, SweepNotify, SweepSettle
  <1>2. \A t \in Servers \ {s} : sweep'[t] = sweep[t]
    BY <1>0, ZenonT(60) DEF SweepClaim, SweepNothingDue, SweepNotify, Notified, Unnotified, SweepSettle, TypeOK
  <1>3. sweep'[s].pc \in {"notify", "list"}
    <2>1. ASSUME NEW id \in Ids, SweepClaim(s, id) PROVE sweep'[s].pc = "notify"
      BY <1>0, <2>1, Zenon DEF SweepClaim, TypeOK
    <2>2. ASSUME NEW p \in Peers, SweepNotify(s, p) PROVE sweep'[s].pc = "notify"
      BY <1>0, <2>2 DEF SweepNotify, Notified, Unnotified, TypeOK, Round
    <2>3. CASE SweepNothingDue(s) \/ SweepSettle(s)
      BY <1>0, <2>3 DEF SweepNothingDue, SweepSettle, TypeOK, Asleep, Round
    <2> QED  BY <2>1, <2>2, <2>3, Zenon
  <1>4. SparesJobs({}) /\ SparesUser({}) /\ SparesSweeps({s}) /\ RemovingOf(s)'
    BY <1>1, <1>2, <1>3, StorageFrame, Zenon DEF SparesJobs, SparesUser, SparesSweeps, RemovingOf, Dead
  <1>5. \A id \in Ids : told[id] \subseteq told'[id] /\ told'[id] \subseteq Peers
    <2>1. \A id \in Ids : told'[id] \subseteq Peers
      BY Zenon DEF TypeOK
    <2>2. CASE told' = told
      BY <2>1, <2>2, ZenonT(60)
    <2>3. ASSUME NEW p \in Peers, SweepNotify(s, p) PROVE \A id \in Ids : told[id] \subseteq told'[id]
      BY <1>0, <2>3 DEF SweepNotify, TypeOK
    <2> QED  BY <2>1, <2>2, <2>3, Zenon DEF SweepClaim, SweepNothingDue, SweepSettle
  <1>6. Notifying'
    <2> SUFFICES ASSUME sweep'[s].pc = "notify"
                 PROVE  sweep'[s].id \in Ids /\ (sweep'[s].sent => Peers \ sweep'[s].left \subseteq told'[sweep'[s].id])
      BY <1>2, <1>5, Zenon DEF IInv, Notifying
    <2>1. ASSUME NEW id \in Ids, SweepClaim(s, id)
          PROVE  sweep'[s].id \in Ids /\ Peers \ sweep'[s].left = {}
      BY <1>0, <2>1, ZenonT(60) DEF SweepClaim, TypeOK
    <2>2. ASSUME NEW p \in Peers, SweepNotify(s, p)
          PROVE  sweep'[s].id \in Ids /\ (sweep'[s].sent => Peers \ sweep'[s].left \subseteq told'[sweep'[s].id])
      <3>1. sweep[s].id \in Ids /\ (sweep[s].sent => Peers \ sweep[s].left \subseteq told[sweep[s].id])
        BY <2>2, Zenon DEF SweepNotify, IInv, Notifying
      <3>2. CASE told' = [told EXCEPT ![sweep[s].id] = @ \cup {p}] /\ sweep' = Notified(s, p)
        <4>1. sweep'[s].id = sweep[s].id /\ sweep'[s].sent = sweep[s].sent /\ sweep'[s].left = sweep[s].left \ {p}
          BY <1>0, <3>2, Zenon DEF Notified, TypeOK, Round
        <4>2. told'[sweep[s].id] = told[sweep[s].id] \cup {p}
          BY <1>0, <3>1, <3>2, Zenon DEF TypeOK
        <4> QED  BY <3>1, <4>1, <4>2, Zenon
      <3>3. CASE sweep' = Unnotified(s, p)
        BY <1>0, <3>1, <3>3, ZenonT(60) DEF Unnotified, TypeOK, Round
      <3> QED  BY <2>2, <3>2, <3>3, Zenon DEF SweepNotify
    <2>3. CASE SweepNothingDue(s) \/ SweepSettle(s)
      BY <1>0, <2>3 DEF SweepNothingDue, SweepSettle, TypeOK, Asleep, Round
    <2> QED  BY <2>1, <2>2, <2>3, Zenon
  <1>7. DeliveredMeansTold'
    <2>1. CASE event' = event
      BY <1>5, <2>1, Zenon DEF IInv, DeliveredMeansTold
    <2>2. CASE SweepSettle(s)
      <3>1. sweep[s].id \in Ids /\ (sweep[s].sent => Peers \ sweep[s].left \subseteq told[sweep[s].id]) /\ sweep[s].left = {}
        BY <2>2, Zenon DEF SweepSettle, IInv, Notifying
      <3>2. sweep[s].sent => told[sweep[s].id] = Peers
        BY <1>0, <3>1, Zenon DEF TypeOK
      <3>3. told' = told /\ event' = [event EXCEPT ![sweep[s].id] = IF sweep[s].sent THEN "delivered" ELSE "pending"]
        BY <2>2, Zenon DEF SweepSettle
      <3> QED  BY <1>0, <3>1, <3>2, <3>3, Zenon DEF IInv, DeliveredMeansTold, TypeOK
    <2> QED  BY <2>1, <2>2, Zenon DEF SweepClaim, SweepNothingDue, SweepNotify
  <1> QED  BY <1>1, <1>4, <1>6, <1>7, SweepStep, StorageFrame, Zenon DEF IInv

\* The clean-up half: dead transfers are listed, looked at again and removed.
LEMMA CleanSteps ==
  ASSUME IInv, NEW s \in Servers, TypeOK',
         SweepList(s) \/ (\E id \in Ids : SweepLook(s, id)) \/ SweepRemove(s) \/ SweepDelete(s) \/ SweepEnd(s)
  PROVE  IInv'
  <1> DEFINE here == sweep[s].id
  <1>0. TypeOK /\ sweep[s] \in Round /\ RemovingOf(s)
    BY Zenon DEF IInv, TypeOK, Removing
  <1>n. \A id \in Ids : lock[id] = None => \A t \in Servers : lock[id] # <<t, "job">> /\ lock[id] # <<t, "sweep">>
    BY UploadConstants DEF Actors
  <1>1. UNCHANGED <<told, user, used, job, late>> /\ \A t \in Servers \ {s} : sweep'[t] = sweep[t]
    BY <1>0, ZenonT(60) DEF SweepList, SweepLook, SweepRemove, SweepDelete, SweepEnd, TypeOK
  <1>2. sweep'[s].pc # "notify"
    BY <1>0 DEF SweepList, SweepLook, SweepRemove, SweepDelete, SweepEnd, TypeOK, Asleep, Round
  <1>3. Notifying' /\ DeliveredMeansTold'
    <2>1. Notifying'
      BY <1>1, <1>2, Zenon DEF IInv, Notifying
    <2>2. \A id \in Ids : event'[id] = "delivered" => event[id] = "delivered"
      BY <1>0, Zenon DEF SweepList, SweepLook, SweepRemove, SweepDelete, SweepEnd, TypeOK
    <2> QED  BY <1>1, <2>1, <2>2, Zenon DEF IInv, DeliveredMeansTold
  <1>4. CASE SweepList(s) \/ SweepEnd(s)
    <2>1. UNCHANGED <<row, file, lock>> /\ sweep'[s].pc \in {"clean", "claim"}
      BY <1>0, <1>4 DEF SweepList, SweepEnd, TypeOK, Asleep, Round
    <2>2. SparesJobs({}) /\ SparesUser({}) /\ SparesSweeps({s}) /\ RemovingOf(s)'
      BY <1>1, <2>1, StorageFrame, Zenon DEF SparesJobs, SparesUser, SparesSweeps, RemovingOf, Dead
    <2> QED  BY <1>1, <1>3, <2>1, <2>2, SweepStep, StorageFrame, ZenonT(60) DEF IInv
  <1>5. ASSUME NEW id \in Ids, SweepLook(s, id) PROVE IInv'
    <2>1. UNCHANGED <<row, file>> /\ lock[id] = None
      BY <1>5, Zenon DEF SweepLook
    <2>2. CASE Dead(id) /\ Acquire(id, <<s, "sweep">>) /\ sweep' = [sweep EXCEPT ![s].pc = "remove", ![s].id = id]
      <3>1. sweep'[s].id = id /\ lock'[id] = <<s, "sweep">> /\ \A i \in Ids \ {id} : lock'[i] = lock[i]
        BY <1>0, <2>2, Zenon DEF Acquire, TypeOK, Round
      <3>2. SparesJobs({}) /\ SparesUser({}) /\ SparesSweeps({s}) /\ RemovingOf(s)'
        BY <1>1, <1>n, <2>1, <2>2, <3>1, StorageFrame, ZenonT(60) DEF SparesJobs, SparesUser, SparesSweeps, RemovingOf, Dead
      <3> QED  BY <1>1, <1>3, <2>1, <3>2, SweepStep, StorageFrame, ZenonT(60) DEF IInv
    <2>3. CASE UNCHANGED lock /\ sweep' = [sweep EXCEPT ![s].left = @ \ {id}]
      <3>1. sweep'[s].pc = sweep[s].pc /\ sweep'[s].id = sweep[s].id
        BY <1>0, <2>3, Zenon DEF TypeOK, Round
      <3>2. SparesJobs({}) /\ SparesUser({}) /\ SparesSweeps({s}) /\ RemovingOf(s)'
        BY <1>0, <1>1, <2>1, <2>3, <3>1, StorageFrame, ZenonT(60) DEF SparesJobs, SparesUser, SparesSweeps, RemovingOf, Dead
      <3> QED  BY <1>1, <1>3, <2>1, <3>2, SweepStep, StorageFrame, ZenonT(60) DEF IInv
    <2> QED  BY <1>5, <2>2, <2>3, Zenon DEF SweepLook
  <1>6. CASE SweepRemove(s)
    <2>1. UNCHANGED <<row, lock>> /\ file' = [file EXCEPT ![here] = None] /\ sweep' = [sweep EXCEPT ![s].pc = "delete"]
      BY <1>6, Zenon DEF SweepRemove
    <2>2. here \in Ids /\ lock[here] = <<s, "sweep">> /\ Dead(here)
      BY <1>0, <1>6, Zenon DEF SweepRemove, RemovingOf
    <2> HIDE DEF here
    <2>3. \A i \in Ids \ {here} : file'[i] = file[i]
      BY <1>0, <2>1, Zenon DEF TypeOK
    <2>4. sweep'[s].id = here /\ sweep'[s].pc = "delete"
      BY <1>0, <2>1, Zenon DEF TypeOK, Round, here
    <2>5. AddsNone /\ QuotaHolds' /\ RowsAreUsed'
      BY <1>1, <2>1, Zenon DEF AddsNone, Active, IInv, QuotaHolds, RowsAreUsed
    <2>6. SparesJobs({})
      <3>1. \A t \in Servers, i \in Ids : lock[i] = <<t, "job">> => i # here
        BY <2>2
      <3> QED  BY <1>1, <2>1, <2>3, <3>1, Zenon DEF SparesJobs
    <2>7. SparesUser({}) /\ SparesSweeps({s}) /\ RemovingOf(s)'
      BY <1>1, <2>1, <2>2, <2>4, <2>5, Zenon DEF SparesUser, SparesSweeps, RemovingOf, Dead
    <2>8. OffsetIsBacked' /\ PublishedIsIntact'
      <3>1. ~Open(here) /\ ~(Published(here) /\ ~row[here].expired)
        BY <2>2, Zenon DEF Dead, Open, Published
      <3>2. OffsetIsBacked'
        BY <2>1, <2>3, <3>1, Zenon DEF IInv, OffsetIsBacked, Open
      <3>3. PublishedIsIntact'
        BY <2>1, <2>3, <3>1, Zenon DEF IInv, PublishedIsIntact, Published, Sha256Matches
      <3> QED  BY <3>2, <3>3, Zenon
    <2> QED  BY <1>3, <2>5, <2>6, <2>7, <2>8, SweepStep, ZenonT(60) DEF IInv
  <1>7. CASE SweepDelete(s)
    <2>1. /\ UNCHANGED file /\ row' = [row EXCEPT ![here] = NoRow] /\ lock' = [lock EXCEPT ![here] = None]
          /\ sweep'[s].pc = "clean"
      BY <1>0, <1>7 DEF SweepDelete, Release, TypeOK, Round
    <2>2. here \in Ids /\ lock[here] = <<s, "sweep">>
      BY <1>0, <1>7, Zenon DEF SweepDelete, RemovingOf
    <2> HIDE DEF here
    <2>3. row'[here].status = "none" /\ \A i \in Ids \ {here} : row'[i] = row[i] /\ lock'[i] = lock[i]
      BY <1>0, <2>1, <2>2, Zenon DEF TypeOK, NoRow
    <2>4. AddsNone
      BY <1>1, <2>2, <2>3, Zenon DEF AddsNone, Active
    <2>5. SparesJobs({})
      <3>1. \A t \in Servers, i \in Ids : lock[i] = <<t, "job">> => i # here
        BY <2>2
      <3> QED  BY <1>1, <2>1, <2>3, <3>1, Zenon DEF SparesJobs
    <2>6. SparesUser({}) /\ SparesSweeps({s}) /\ RemovingOf(s)'
      <3>1. \A t \in Servers \ {s}, i \in Ids : lock[i] = <<t, "sweep">> => i # here
        BY <2>2
      <3> QED  BY <1>1, <2>1, <2>3, <2>4, <3>1, ZenonT(60) DEF SparesUser, SparesSweeps, RemovingOf, Dead
    <2>7. RowsAreUsed'
      BY <1>1, <2>3, Zenon DEF IInv, RowsAreUsed
    <2>8. OffsetIsBacked'
      BY <2>1, <2>3, Zenon DEF IInv, OffsetIsBacked, Open
    <2>9. PublishedIsIntact'
      BY <2>1, <2>3, Zenon DEF IInv, PublishedIsIntact, Published, Sha256Matches
    <2> QED  BY <1>3, <2>4, <2>5, <2>6, <2>7, <2>8, <2>9, SweepStep, QuotaStep, ZenonT(60) DEF IInv
  <1> QED  BY <1>4, <1>5, <1>6, <1>7, Zenon

-----------------------------------------------------------------------------
(* Faults and time.                                                        *)

\* What a failed write leaves behind harms neither what is confirmed nor what is
\* published, and no file but the one the request has locked.
LEMMA DamageKeeps ==
  ASSUME IInv, NEW s \in Servers, file' \in Damage(s), UNCHANGED <<row, used, late>>
  PROVE  /\ RowsAreUsed' /\ OffsetIsBacked' /\ PublishedIsIntact' /\ QuotaHolds' /\ AddsNone
         /\ \A id \in Ids : lock[id] # <<s, "job">> => file'[id] = file[id]
  <1>1. CASE file' = file
    BY <1>1, StorageFrame, Zenon
  <1>2. ASSUME job[s].id \in Ids, lock[job[s].id] = <<s, "job">>, file[job[s].id] \in Seq(Records), NEW r \in Records,
               file' = [file EXCEPT ![job[s].id] = Append(@, r)]
        PROVE  /\ RowsAreUsed' /\ OffsetIsBacked' /\ PublishedIsIntact' /\ QuotaHolds' /\ AddsNone
               /\ \A id \in Ids : lock[id] # <<s, "job">> => file'[id] = file[id]
    <2>1. RowsAreUsed' /\ OffsetIsBacked' /\ PublishedIsIntact' /\ QuotaHolds' /\ AddsNone
      BY <1>2, AppendKeeps, Zenon
    <2> QED  BY <1>2, <2>1, Zenon DEF IInv, TypeOK
  <1> QED  BY <1>1, <1>2, DamageTypes, Zenon

\* The death of a process, a request or a round of maintenance that fails.
LEMMA FaultSteps ==
  ASSUME IInv, NEW s \in Servers, TypeOK', RequestFails(s) \/ SweepFails(s) \/ Crash(s)
  PROVE  IInv'
  <1>0. TypeOK /\ Asleep.pc = "claim" /\ Idle.pc = "idle"
    BY Zenon DEF IInv, Asleep, Idle
  <1>1. CASE RequestFails(s)
    <2>1. file' \in Damage(s) /\ Finish(s) /\ UNCHANGED <<row, event, told, used, sweep, late>>
      BY <1>1, Zenon DEF RequestFails
    <2> QED  BY <2>1, DamageKeeps, FinishStep, EventFrame, Zenon DEF IInv
  <1>2. ASSUME SweepStops(s), UNCHANGED <<event, told>> PROVE
          /\ Notifying' /\ DeliveredMeansTold' /\ RemovingOf(s)' /\ \A t \in Servers \ {s} : sweep'[t] = sweep[t]
    <2>1. sweep'[s].pc = "claim" /\ \A t \in Servers \ {s} : sweep'[t] = sweep[t]
      BY <1>0, <1>2, Zenon DEF SweepStops, TypeOK
    <2> QED  BY <1>2, <2>1, Zenon DEF IInv, Notifying, DeliveredMeansTold, RemovingOf
  <1>3. CASE SweepFails(s)
    <2>1. /\ SweepStops(s) /\ UNCHANGED <<row, file, event, told, user, used, job, late>>
          /\ lock' = [id \in Ids |-> IF lock[id] = <<s, "sweep">> THEN None ELSE lock[id]]
      BY <1>3, Zenon DEF SweepFails
    <2>2. SparesJobs({}) /\ SparesUser({}) /\ SparesSweeps({s})
      BY <1>2, <2>1, StorageFrame DEF SparesJobs, SparesUser, SparesSweeps, Dead
    <2> QED  BY <1>2, <2>1, <2>2, SweepStep, StorageFrame, Zenon DEF IInv
  <1>4. CASE Crash(s)
    <2>1. /\ SweepStops(s) /\ file' \in Damage(s) /\ UNCHANGED <<row, event, told, used, late>>
          /\ job' = [job EXCEPT ![s] = Idle] /\ user' = IF user = s THEN None ELSE user
          /\ lock' = [id \in Ids |-> IF lock[id] \in {<<s, "job">>, <<s, "sweep">>} THEN None ELSE lock[id]]
      BY <1>4, Zenon DEF Crash
    <2>2. job'[s].pc = "idle" /\ \A t \in Servers \ {s} : job'[t] = job[t]
      BY <1>0, <2>1, Zenon DEF TypeOK
    <2>3. AddsNone /\ \A id \in Ids : lock[id] # <<s, "job">> => file'[id] = file[id]
      BY <2>1, DamageKeeps, Zenon
    <2>4. SparesJobs({s})
      <3>1. \A t \in Servers \ {s}, id \in Ids : lock[id] = <<t, "job">> =>
              lock[id] # <<s, "job">> /\ lock[id] # <<s, "sweep">>
        OBVIOUS
      <3> QED  BY <2>1, <2>2, <2>3, <3>1, Zenon DEF SparesJobs
    <2>5. SparesSweeps({s})
      <3>1. \A t \in Servers \ {s}, id \in Ids : lock[id] = <<t, "sweep">> =>
              lock[id] # <<s, "job">> /\ lock[id] # <<s, "sweep">>
        OBVIOUS
      <3> QED  BY <1>2, <2>1, <3>1, Zenon DEF SparesSweeps, Dead
    <2>6. SparesUser({s})
      BY <2>1, <2>2, <2>3, Zenon DEF SparesUser
    <2>7. WorkingOf(s)' /\ CreatingOf(s)'
      BY <2>2, Zenon DEF WorkingOf, CreatingOf
    <2>8. Working' /\ Removing' /\ Creating'
      <3>1. {s} \in SUBSET Servers /\ Working /\ Removing /\ Creating
        BY Zenon DEF IInv
      <3>2. (\A t \in {s} : WorkingOf(t)') /\ (\A t \in {s} : RemovingOf(t)') /\ \A t \in {s} : CreatingOf(t)'
        BY <1>2, <2>1, <2>7, Zenon
      <3> QED  BY <2>4, <2>5, <2>6, <3>1, <3>2, OthersWork, OthersRemove, OthersCreate, ZenonT(60)
    <2> QED  BY <1>2, <2>1, <2>8, DamageKeeps, Zenon DEF IInv
  <1> QED  BY <1>1, <1>3, <1>4, Zenon

\* expires_at passes.
LEMMA ExpireStep ==
  ASSUME IInv, NEW id \in Ids, TypeOK', Expire(id)
  PROVE  IInv'
  <1>0. TypeOK
    BY Zenon DEF IInv
  <1>1. /\ UNCHANGED <<file, event, told, lock, user, used, job, sweep, late>>
        /\ row' = [row EXCEPT ![id].expired = TRUE]
    BY Zenon DEF Expire
  <1>2. /\ row'[id].status = row[id].status /\ row'[id].expired /\ row'[id].offset = row[id].offset
        /\ \A i \in Ids \ {id} : row'[i] = row[i]
    BY <1>0, <1>1 DEF TypeOK, Row
  <1>3. AddsNone
    BY <1>1, <1>2, Zenon DEF AddsNone, Active
  <1>4. SparesJobs({}) /\ SparesSweeps({}) /\ SparesUser({})
    BY <1>1, <1>2, <1>3, Zenon DEF SparesJobs, SparesSweeps, SparesUser, Dead
  <1>5. RowsAreUsed'
    BY <1>1, <1>2, Zenon DEF IInv, RowsAreUsed
  <1>6. OffsetIsBacked'
    BY <1>1, <1>2, ZenonT(60) DEF IInv, OffsetIsBacked, Open
  <1>7. PublishedIsIntact'
    BY <1>1, <1>2, Zenon DEF IInv, PublishedIsIntact, Published, Sha256Matches
  <1> QED  BY <1>1, <1>3, <1>4, <1>5, <1>6, <1>7, OtherStep, QuotaStep, EventFrame, ZenonT(60) DEF IInv

-----------------------------------------------------------------------------
(* The theorems.                                                           *)

\* The invariant holds at the start, when there is no row, file or request.
LEMMA InitIInv == Init => IInv
  <1> SUFFICES ASSUME Init PROVE IInv
    OBVIOUS
  <1>1. NoRow \in Row /\ Idle \in Job /\ Asleep \in Round
    BY TotalIsNat DEF NoRow, Row, Statuses, Idle, Job, Asleep, Round
  <1>2. TypeOK
    BY <1>1, UploadConstants DEF Init, TypeOK
  <1>3. \A id \in Ids : row[id].status = "none" /\ event[id] = "none"
    BY Zenon DEF Init, NoRow
  <1>4. \A s \in Servers : job[s].pc = "idle" /\ sweep[s].pc = "claim"
    BY Zenon DEF Init, Idle, Asleep
  <1>5. Working /\ Removing /\ Notifying /\ Creating /\ RowsAreUsed /\ OffsetIsBacked /\ PublishedIsIntact
        /\ DeliveredMeansTold
    BY <1>3, <1>4, Zenon DEF Working, WorkingOf, Removing, RemovingOf, Notifying, Creating, CreatingOf, RowsAreUsed,
         OffsetIsBacked, Open, PublishedIsIntact, Published, DeliveredMeansTold
  <1>6. QuotaHolds
    <2>1. Active \ late = {}
      BY <1>3, Zenon DEF Active
    <2>2. Cardinality(Active \ late) = 0
      BY <2>1, FS_EmptySet, Zenon
    <2> QED  BY <2>2, UploadConstants DEF QuotaHolds
  <1> QED  BY <1>2, <1>5, <1>6, Zenon DEF IInv

\* Every step of requests, maintenance, faults and time keeps the invariant.
LEMMA NextIInv == IInv /\ [Next]_vars => IInv'
  <1> SUFFICES ASSUME IInv, [Next]_vars PROVE IInv'
    OBVIOUS
  <1>1. CASE UNCHANGED vars
    <2>1. SparesJobs({}) /\ SparesSweeps({}) /\ SparesUser({}) /\ TypeOK'
      BY <1>1, StorageFrame, Zenon DEF vars, SparesJobs, SparesSweeps, SparesUser, Dead, IInv, TypeOK
    <2> QED  BY <1>1, <2>1, OtherStep, StorageFrame, EventFrame, Zenon DEF vars, IInv
  <1>2. ASSUME NEW s \in Servers, Request(s) PROVE IInv'
    BY <1>2, RequestSteps, Zenon
  <1>3. ASSUME NEW s \in Servers, Work(s) PROVE IInv'
    <2>1. TypeOK'
      BY <1>3, WorkTypes, Zenon
    <2> QED  BY <1>3, <2>1, CreateSteps, PartSteps, CompleteSteps, Zenon DEF Work
  <1>4. ASSUME NEW s \in Servers, Maintain(s) PROVE IInv'
    <2>1. TypeOK'
      BY <1>4, MaintainTypes, Zenon
    <2> QED  BY <1>4, <2>1, OutboxSteps, CleanSteps, Zenon DEF Maintain
  <1>5. ASSUME NEW s \in Servers, RequestFails(s) \/ SweepFails(s) \/ Crash(s) PROVE IInv'
    BY <1>5, FaultTypes, FaultSteps, Zenon
  <1>6. ASSUME NEW id \in Ids, Expire(id) PROVE IInv'
    BY <1>6, FaultTypes, ExpireStep, Zenon
  <1> QED  BY <1>1, <1>2, <1>3, <1>4, <1>5, <1>6, ZenonT(60) DEF Next

\* The invariant holds in every reachable state.
LEMMA UploadInvariant == Spec => []IInv
  BY InitIInv, NextIInv, PTL DEF Spec

\* chunk: the offset a client resumes from is backed by whole records in the
\* file, through crashes between the append and the UPDATE.
THEOREM OffsetBacked == Spec => []OffsetIsBacked
  <1>1. IInv => OffsetIsBacked
    BY Zenon DEF IInv
  <1> QED  BY <1>1, UploadInvariant, PTL

\* complete: a transfer that can be downloaded has the declared content on disk,
\* whatever maintenance of other servers, torn writes and late expiry do.
THEOREM PublishedIntact == Spec => []PublishedIsIntact
  <1>1. IInv => PublishedIsIntact
    BY Zenon DEF IInv
  <1> QED  BY <1>1, UploadInvariant, PTL

\* maintenance: an event is marked delivered only after every peer handled it.
THEOREM DeliveredTold == Spec => []DeliveredMeansTold
  <1>1. IInv => DeliveredMeansTold
    BY Zenon DEF IInv
  <1> QED  BY <1>1, UploadInvariant, PTL

\* create: concurrent creates of one sender stay within the quota.
THEOREM QuotaKept == Spec => []QuotaHolds
  <1>1. IInv => QuotaHolds
    BY Zenon DEF IInv
  <1> QED  BY <1>1, UploadInvariant, PTL

\* DELETE: a cancelled transfer stays cancelled until maintenance deletes its
\* row: a request under way when it was cancelled finds the row closed.
THEOREM CancelledStays == Spec => CancelledStaysCancelled
  <1>1. IInv /\ [Next]_vars => [KeepsCancelled]_vars
    <2> SUFFICES ASSUME IInv, Next PROVE KeepsCancelled
      OBVIOUS
    <2> SUFFICES ASSUME NEW id \in Ids, row[id].status = "cancelled" PROVE row'[id].status \in {"cancelled", "none"}
      BY Zenon DEF KeepsCancelled
    <2>0. TypeOK /\ row[id] \in Row
      BY Zenon DEF IInv, TypeOK
    <2>1. ASSUME NEW s \in Servers, Request(s) PROVE row'[id].status \in {"cancelled", "none"}
      BY <2>0, <2>1, ZenonT(60) DEF Request, CreateBegin, ChunkBegin, CompleteVerify, Cancel, Downloaded, ContentBegin, Published,
           TypeOK, Row
    <2>2. ASSUME NEW s \in Servers, Work(s) PROVE row'[id].status \in {"cancelled", "none"}
      <3>1. WorkingOf(s)
        BY Zenon DEF IInv, Working
      <3>2. CASE CreateInsert(s)
        <4>1. job[s].id # id
          BY <3>1, <3>2, Zenon DEF CreateInsert, WorkingOf
        <4> QED  BY <2>0, <3>2, <4>1, Zenon DEF CreateInsert, TypeOK
      <3>3. CASE PartCommit(s)
        <4>1. Open(job[s].id) => job[s].id # id
          BY Zenon DEF Open
        <4>2. row'[id] = row[id]
          BY <2>0, <3>3, <4>1, ZenonT(60) DEF PartCommit, TypeOK
        <4> QED  BY <4>2, Zenon
      <3>4. CASE CompletePublish(s)
        BY <2>0, <3>4, ZenonT(60) DEF CompletePublish, TypeOK, Row
      <3> QED  BY <2>2, <3>2, <3>3, <3>4, Zenon DEF Work, CreateReturn, CreateFile, PartKnown, PartAppend, ContentNext
    <2>3. ASSUME NEW s \in Servers, Maintain(s) PROVE row'[id].status \in {"cancelled", "none"}
      BY <2>0, <2>3 DEF Maintain, SweepClaim, SweepNothingDue, SweepNotify, SweepSettle, SweepList, SweepLook,
           SweepRemove, SweepDelete, SweepEnd, NoRow, TypeOK
    <2>4. ASSUME NEW s \in Servers, RequestFails(s) \/ SweepFails(s) \/ Crash(s) PROVE row' = row
      BY <2>4, Zenon DEF RequestFails, SweepFails, Crash
    <2>5. ASSUME NEW i \in Ids, Expire(i) PROVE row'[id].status = row[id].status
      BY <2>0, <2>5, Zenon DEF Expire, TypeOK, Row
    <2> QED  BY <2>1, <2>2, <2>3, <2>4, <2>5, Zenon DEF Next
  <1> QED  BY <1>1, UploadInvariant, PTL DEF Spec, CancelledStaysCancelled

-----------------------------------------------------------------------------
(* Avatars, which the same server keeps: AvatarUpdate.  It shares its       *)
(* processes and its ids with ResourceUpload, the rest is its own.          *)

CONSTANT Sizes

VARIABLES avatarRow, files, partial, avatar, version, avatarLock, put, avatarSweep, avatarIds, avatarFaults

Avatar == INSTANCE AvatarUpdate WITH
  row <- avatarRow, lock <- avatarLock, sweep <- avatarSweep, used <- avatarIds, faults <- avatarFaults

Puts == [pc : {"idle", "reserve", "lock", "record", "create", "write", "switch"}, id : Ids \cup {None},
         todo : SUBSET Sizes, expected : Nat, saw : Ids \cup {None}]

\* A PUT that still has the current version has seen the current avatar.
SeenIsCurrent(s) ==
  put[s].pc # "idle" => put[s].expected <= version /\ (put[s].expected = version => put[s].saw = avatar)
AInv ==
  /\ put \in [Servers -> Puts] /\ version \in Nat /\ avatar \in Ids \cup {None}
  /\ \A s \in Servers : SeenIsCurrent(s)

\* Steps of a PUT, or its end, while the user's row stays.
LEMMA PutMoves ==
  ASSUME AInv, NEW s \in Servers, NEW p \in Puts, put' = [put EXCEPT ![s] = p], UNCHANGED <<avatar, version>>,
         p.pc = "idle" \/ (put[s].pc # "idle" /\ p.expected = put[s].expected /\ p.saw = put[s].saw)
  PROVE  AInv'
  <1>1. put' \in [Servers -> Puts] BY Zenon DEF AInv
  <1>2. ASSUME NEW r \in Servers PROVE SeenIsCurrent(r)'
    <2>1. put'[r] = IF r = s THEN p ELSE put[r] BY Zenon DEF AInv
    <2>2. SeenIsCurrent(r) BY Zenon DEF AInv
    <2> QED BY <2>1, <2>2, Zenon DEF SeenIsCurrent
  <1> QED BY <1>1, <1>2, ZenonT(60) DEF AInv

\* The steps of a PUT up to the switch.
LEMMA PutSteps ==
  ASSUME AInv, NEW s \in Servers,
         Avatar!PutReserve(s) \/ Avatar!PutLock(s) \/ Avatar!PutRecord(s) \/ Avatar!PutCreate(s) \/ Avatar!PutWrite(s)
  PROVE  AInv' /\ UNCHANGED avatar
  <1>0. put[s] \in Puts BY Zenon DEF AInv
  <1>1. UNCHANGED <<avatar, version>>
    BY Zenon DEF Avatar!PutReserve, Avatar!PutLock, Avatar!PutRecord, Avatar!PutCreate, Avatar!PutWrite
  <1>2. \E p \in Puts : put' = [put EXCEPT ![s] = p] /\ p.pc # "idle" /\ p.expected = put[s].expected /\ p.saw = put[s].saw
    <2>1. CASE Avatar!PutReserve(s)
      <3>1. PICK id \in Ids : put' = [put EXCEPT ![s].pc = "lock", ![s].id = id, ![s].todo = Sizes]
        BY <2>1, Zenon DEF Avatar!PutReserve
      <3> DEFINE p == [put[s] EXCEPT !.pc = "lock", !.id = id, !.todo = Sizes]
      <3>2. p \in Puts /\ p.pc = "lock" /\ p.expected = put[s].expected /\ p.saw = put[s].saw BY <1>0, Zenon DEF Puts
      <3>3. put' = [put EXCEPT ![s] = p] BY <3>1, Zenon
      <3> QED BY <3>2, <3>3, ZenonT(60)
    <2>2. CASE Avatar!PutLock(s)
      <3> DEFINE p == [put[s] EXCEPT !.pc = "record"]
      <3>1. p \in Puts /\ p.pc = "record" /\ p.expected = put[s].expected /\ p.saw = put[s].saw BY <1>0, Zenon DEF Puts
      <3>2. put' = [put EXCEPT ![s] = p] BY <2>2, Zenon DEF Avatar!PutLock
      <3> QED BY <3>1, <3>2, Zenon
    <2>3. CASE Avatar!PutRecord(s)
      <3>1. PICK size \in put[s].todo : put' = [put EXCEPT ![s].pc = "create", ![s].todo = @ \ {size}]
        BY <2>3, Zenon DEF Avatar!PutRecord
      <3> DEFINE p == [put[s] EXCEPT !.pc = "create", !.todo = @ \ {size}]
      <3>2. p \in Puts /\ p.pc = "create" /\ p.expected = put[s].expected /\ p.saw = put[s].saw BY <1>0, Zenon DEF Puts
      <3>3. put' = [put EXCEPT ![s] = p] BY <3>1, Zenon
      <3> QED BY <3>2, <3>3, Zenon
    <2>4. CASE Avatar!PutCreate(s)
      <3> DEFINE p == [put[s] EXCEPT !.pc = "write"]
      <3>1. p \in Puts /\ p.pc = "write" /\ p.expected = put[s].expected /\ p.saw = put[s].saw BY <1>0, Zenon DEF Puts
      <3>2. put' = [put EXCEPT ![s] = p] BY <2>4, Zenon DEF Avatar!PutCreate
      <3> QED BY <3>1, <3>2, Zenon
    <2>5. CASE Avatar!PutWrite(s)
      <3> DEFINE at == IF put[s].todo = {} THEN "switch" ELSE "record"
                 p == [put[s] EXCEPT !.pc = at]
      <3>1. at \in {"switch", "record"} BY Zenon
      <3>2. put' = [put EXCEPT ![s] = p] BY <2>5, Zenon DEF Avatar!PutWrite
      <3> HIDE DEF at
      <3>3. p \in Puts /\ p.pc = at /\ p.expected = put[s].expected /\ p.saw = put[s].saw BY <1>0, <3>1, ZenonT(60) DEF Puts
      <3> QED BY <3>1, <3>2, <3>3, ZenonT(60)
    <2> QED BY <2>1, <2>2, <2>3, <2>4, <2>5, ZenonT(60)
  <1>3. put[s].pc # "idle"
    BY Zenon DEF Avatar!PutReserve, Avatar!PutLock, Avatar!PutRecord, Avatar!PutCreate, Avatar!PutWrite
  <1> QED BY <1>1, <1>2, <1>3, PutMoves, ZenonT(60)

\* The switch, of which there is one for a version.
LEMMA SwitchStep ==
  ASSUME AInv, NEW s \in Servers, Avatar!PutSwitch(s)
  PROVE  AInv' /\ put[s].id = avatar' /\ put[s].saw = avatar
  <1>1. /\ put[s].pc = "switch" /\ version = put[s].expected /\ avatar' = put[s].id /\ version' = version + 1
        /\ put' = [put EXCEPT ![s] = Avatar!NoPut]
    BY Zenon DEF Avatar!PutSwitch, Avatar!Finish
  <1>2. put[s] \in Puts /\ version \in Nat /\ SeenIsCurrent(s) BY Zenon DEF AInv
  <1>3. put[s].saw = avatar BY <1>1, <1>2, ZenonT(60) DEF SeenIsCurrent
  <1>4. Avatar!NoPut \in Puts /\ Avatar!NoPut.pc = "idle" BY Zenon DEF Avatar!NoPut, Puts
  <1>5. put' \in [Servers -> Puts] BY <1>1, <1>4, ZenonT(60) DEF AInv
  <1>6. version' \in Nat /\ avatar' \in Ids \cup {None} BY <1>1, <1>2 DEF Puts
  <1>7. ASSUME NEW r \in Servers PROVE SeenIsCurrent(r)'
    <2>1. put'[r] = IF r = s THEN Avatar!NoPut ELSE put[r] BY <1>1, Zenon DEF AInv
    <2>2. CASE r = s BY <1>4, <2>1, <2>2, ZenonT(60) DEF SeenIsCurrent
    <2>3. CASE r # s
      <3>1. put[r].expected \in Nat BY Zenon DEF AInv, Puts
      <3>2. put[r].pc # "idle" => put[r].expected <= version BY Zenon DEF AInv, SeenIsCurrent
      <3>3. put[r].pc # "idle" => put[r].expected <= version' /\ put[r].expected # version' BY <1>1, <1>2, <3>1, <3>2, SMTT(60)
      <3> QED BY <2>1, <2>3, <3>3, ZenonT(60) DEF SeenIsCurrent
    <2> QED BY <2>2, <2>3, ZenonT(60)
  <1> QED BY <1>1, <1>3, <1>5, <1>6, <1>7, ZenonT(60) DEF AInv

\* A PUT that begins, ends without a switch, or fails, and everything else.
LEMMA OtherSteps ==
  ASSUME AInv,
         \/ \E s \in Servers : Avatar!PutBegin(s) \/ Avatar!PutRefused(s) \/ Avatar!Sweep(s)
                                 \/ \E what \in {"put", "sweep", "all"} : Avatar!Fails(s, what)
         \/ \E id \in Ids : Avatar!Expire(id)
         \/ UNCHANGED Avatar!vars
  PROVE  AInv' /\ UNCHANGED avatar
  <1>0. put \in [Servers -> Puts] /\ version \in Nat /\ avatar \in Ids \cup {None} BY Zenon DEF AInv
  <1>1. UNCHANGED <<avatar, version>>
    BY ZenonT(60) DEF Avatar!PutBegin, Avatar!PutRefused, Avatar!Sweep, Avatar!Fails, Avatar!Expire, Avatar!vars,
         Avatar!SweepList, Avatar!SweepLook, Avatar!SweepRemove, Avatar!SweepDelete, Avatar!SweepEnd
  <1>2. Avatar!NoPut \in Puts /\ Avatar!NoPut.pc = "idle" BY Zenon DEF Avatar!NoPut, Puts
  <1>3. CASE UNCHANGED put
    BY <1>1, <1>3, Zenon DEF AInv, SeenIsCurrent
  <1>4. ASSUME NEW s \in Servers, put' = [put EXCEPT ![s] = Avatar!NoPut] PROVE AInv'
    BY <1>1, <1>2, <1>4, PutMoves, ZenonT(60)
  <1>5. ASSUME NEW s \in Servers, Avatar!PutBegin(s) PROVE AInv'
    <2> DEFINE p == [Avatar!NoPut EXCEPT !.pc = "reserve", !.expected = version, !.saw = avatar]
    <2>1. p \in Puts /\ p.pc = "reserve" /\ p.expected = version /\ p.saw = avatar BY <1>0, Zenon DEF Avatar!NoPut, Puts
    <2>2. put' = [put EXCEPT ![s] = p] BY <1>5, Zenon DEF Avatar!PutBegin
    <2> HIDE DEF p
    <2>3. put' \in [Servers -> Puts] BY <1>0, <2>1, <2>2, ZenonT(60)
    <2>4. ASSUME NEW r \in Servers PROVE SeenIsCurrent(r)'
      <3>1. put'[r] = IF r = s THEN p ELSE put[r] BY <1>0, <2>2, Zenon
      <3>2. SeenIsCurrent(r) BY Zenon DEF AInv
      <3>3. version <= version BY <1>0
      <3> QED BY <1>1, <2>1, <3>1, <3>2, <3>3, ZenonT(60) DEF SeenIsCurrent
    <2> QED BY <1>0, <1>1, <2>3, <2>4, ZenonT(60) DEF AInv
  <1>6. \/ UNCHANGED put \/ (\E s \in Servers : put' = [put EXCEPT ![s] = Avatar!NoPut])
        \/ \E s \in Servers : Avatar!PutBegin(s)
    BY ZenonT(60) DEF Avatar!PutRefused, Avatar!Finish, Avatar!Sweep, Avatar!Fails, Avatar!Expire, Avatar!vars,
         Avatar!SweepList, Avatar!SweepLook, Avatar!SweepRemove, Avatar!SweepDelete, Avatar!SweepEnd
  <1> QED BY <1>1, <1>3, <1>4, <1>5, <1>6, ZenonT(60)

\* Service::avatar, PUT: whatever the other processes do meanwhile, an avatar
\* only replaces the one its client had seen.
THEOREM AvatarNotLost == Avatar!Spec => Avatar!NoLostUpdate
  <1>1. Avatar!Init => AInv
    <2> SUFFICES ASSUME Avatar!Init PROVE AInv OBVIOUS
    <2>1. Avatar!NoPut \in Puts /\ Avatar!NoPut.pc = "idle" BY Zenon DEF Avatar!NoPut, Puts
    <2>2. put = [s \in Servers |-> Avatar!NoPut] /\ avatar = None /\ version = 0 BY Zenon DEF Avatar!Init
    <2>3. version \in Nat BY <2>2, Zenon
    <2> QED BY <2>1, <2>2, <2>3, Zenon DEF AInv, SeenIsCurrent
  <1>2. AInv /\ [Avatar!Next]_(Avatar!vars) => AInv' /\ [Avatar!Switches]_(Avatar!vars)
    <2> SUFFICES ASSUME AInv, [Avatar!Next]_(Avatar!vars) PROVE AInv' /\ Avatar!Switches OBVIOUS
    <2>1. CASE \E s \in Servers : Avatar!PutSwitch(s)
      BY <2>1, SwitchStep, Zenon DEF Avatar!Switches
    <2>2. CASE ~ \E s \in Servers : Avatar!PutSwitch(s)
      BY <2>2, PutSteps, OtherSteps, Zenon DEF Avatar!Switches, Avatar!Next, Avatar!Put
    <2> QED BY <2>1, <2>2, Zenon
  <1> QED BY <1>1, <1>2, PTL DEF Avatar!Spec, Avatar!NoLostUpdate
==============================================================================
