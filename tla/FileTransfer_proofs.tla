------------------------ MODULE FileTransfer_proofs ------------------------
(***************************************************************************)
(* SentIsPublished, NeverAhead and SavedIsWhole hold for any files, paths, *)
(* sizes and numbers of faults.                                            *)
(*                                                                         *)
(* Of an upload (UploadsKept): the request in progress is about the file   *)
(* of up; an answer of 200 confirms no more than the server's row does,    *)
(* now and later, and that of a "complete" confirms a published file; a    *)
(* chunk, sent or withdrawn, starts at an offset the row has reached.  Of  *)
(* a download (DownloadsKept): a request in progress has a file and a path *)
(* to save it to, and a path holds nothing or the whole of a file.         *)
(*                                                                         *)
(* At the end, the client's other use of the resource server: a label      *)
(* shows the current avatar of its user (AvatarLabels), and a request      *)
(* calls back only whoever still waits for it (ResourceHttp).              *)
(***************************************************************************)
EXTENDS FileTransfer, TLAPS

Rows == [st : {"none", "uploading", "available", "cancelled"}, off : 0 .. N]
Asked == [kind : {"create", "query", "chunk", "complete"}, f : Locals, at : 0 .. N]
Sent == [kind : {"create", "query", "chunk", "complete", "delete", "downloaded"}, f : Files, at : 0 .. N]
Uploads == [f : Locals \cup {None}, hashed : BOOLEAN, known : BOOLEAN, off : 0 .. N]
Answers == [code : {200, 409, 503}, off : 0 .. N]

\* What a row has confirmed it keeps.
Reached(f, n) == srv[f].st # "none" /\ n <= srv[f].off
Behind(q) == q.kind = "chunk" => q.at < N /\ Reached(q.f, q.at)

RequestKept == req # None => req \in Asked /\ req.f = up.f /\ Behind(req)
AnswerKept ==
  ans # None =>
    /\ req # None /\ ans \in Answers
    /\ ans.code = 200 =>
         Reached(req.f, ans.off) /\ (req.kind = "complete" => srv[req.f].st = "available")
LooseKept == loose \subseteq Sent /\ \A q \in loose : Behind(q)

UploadsKept ==
  /\ up \in Uploads /\ srv \in [Files -> Rows] /\ avail \subseteq Files
  /\ RequestKept /\ AnswerKept /\ LooseKept /\ SentIsPublished

Whole == {<< >>} \cup {Content(f) : f \in Incoming}
DownloadsKept ==
  /\ down.f # None => down.f \in Incoming /\ down.path \in Paths
  /\ dreq => down.f # None
  /\ target \in [Paths -> Whole]

-----------------------------------------------------------------------------
(* The server's rows.                                                      *)

\* What the provers need of the constants.
LEMMA Constants ==
  /\ N \in Nat /\ 0 \in 0 .. N /\ None \notin Files /\ Locals \subseteq Files /\ Incoming \subseteq Files
  /\ \A n : n \in 0 .. N <=> n \in Nat /\ n <= N
  BY TransferConstants DEF Files

\* A request leaves a published row alone and takes nothing back that a row
\* has confirmed.
LEMMA AppliedKeeps ==
  ASSUME srv \in [Files -> Rows], NEW q \in Sent, Behind(q)
  PROVE  /\ Applied(q) \in Rows
         /\ srv[q.f].st = "available" => Applied(q) = srv[q.f]
         /\ srv[q.f].st # "none" => Applied(q).st # "none" /\ srv[q.f].off <= Applied(q).off
  <1>1. srv[q.f] \in Rows /\ q.f \in Files /\ q.at \in Nat
    BY Constants, Zenon DEF Sent
  <1>2. CASE q.kind = "create"
    BY <1>1, <1>2, Constants DEF Applied, Row, Rows
  <1>3. CASE q.kind = "chunk"
    BY <1>1, <1>3, Constants DEF Applied, Row, Rows, Behind
  <1>4. CASE q.kind = "complete"
    BY <1>1, <1>4, Constants DEF Applied, Row, Rows
  <1>5. CASE q.kind = "delete"
    BY <1>1, <1>5, Constants, SMTT(60) DEF Applied, Row, Rows
  <1>6. CASE q.kind \in {"query", "downloaded"}
    <2>1. Applied(q) = srv[q.f] BY <1>6, ZenonT(60) DEF Applied, Row
    <2>2. srv[q.f].off \in Nat BY <1>1, Constants, Zenon DEF Rows
    <2>3. srv[q.f].off <= srv[q.f].off BY <2>2
    <2> QED BY <1>1, <2>1, <2>3, SMTT(60)
  <1> QED BY <1>2, <1>3, <1>4, <1>5, <1>6, Zenon DEF Sent

\* A request that was sent is carried out: rows only move forward.
LEMMA RowsAdvance ==
  ASSUME srv \in [Files -> Rows], NEW q \in Sent, Behind(q), srv' = [srv EXCEPT ![q.f] = Applied(q)]
  PROVE  /\ srv' \in [Files -> Rows] /\ srv'[q.f] = Applied(q)
         /\ \A f \in Files : srv[f].st = "available" => srv'[f].st = "available"
         /\ \A f \in Files, n \in Nat : Reached(f, n) => Reached(f, n)'
  <1>1. q.f \in Files
    BY Zenon DEF Sent
  <1>2. Applied(q) \in Rows /\ srv'[q.f] = Applied(q)
    BY <1>1, AppliedKeeps, Zenon
  <1>3. srv' \in [Files -> Rows]
    BY <1>1, <1>2, Zenon
  <1>4. ASSUME NEW f \in Files PROVE srv[f].st = "available" => srv'[f].st = "available"
    BY <1>1, <1>2, AppliedKeeps, Zenon
  <1>5. ASSUME NEW f \in Files, NEW n \in Nat, Reached(f, n) PROVE Reached(f, n)'
    <2>1. CASE f = q.f
      <3>1. srv[f].off \in Nat /\ Applied(q).off \in Nat
        BY <1>1, <1>2, <2>1, Constants, Zenon DEF Rows
      <3> QED BY <1>2, <1>5, <2>1, <3>1, AppliedKeeps DEF Reached
    <2>2. CASE f # q.f
      BY <1>5, <2>2, Zenon DEF Reached
    <2> QED BY <2>1, <2>2, Zenon
  <1> QED BY <1>2, <1>3, <1>4, <1>5, Zenon

-----------------------------------------------------------------------------
(* Uploads.                                                                *)

\* A new request is well formed, and the one it withdraws stays behind its row.
LEMMA AskKeeps ==
  ASSUME UploadsKept, UNCHANGED srv,
         NEW kind \in {"create", "query", "chunk", "complete"}, NEW f \in Locals, NEW n \in 0 .. N,
         kind = "chunk" => n < N /\ Reached(f, n), Ask(kind, f, n), up'.f = f
  PROVE  RequestKept' /\ AnswerKept' /\ LooseKept'
  <1>1. req' = [kind |-> kind, f |-> f, at |-> n] /\ ans' = None
    BY Zenon DEF Ask
  <1>2. RequestKept'
    BY <1>1, Zenon DEF RequestKept, Asked, Behind, Reached
  <1>3. AnswerKept'
    BY <1>1, Zenon DEF AnswerKept
  <1>4. loose' \subseteq loose \cup {req} /\ (req = None => loose' = loose)
    BY Zenon DEF Ask
  <1>5. req # None => req \in Sent /\ Behind(req)
    BY Constants, Zenon DEF UploadsKept, RequestKept, Asked, Sent
  <1>6. LooseKept'
    BY <1>4, <1>5, Zenon DEF UploadsKept, LooseKept, Behind, Reached
  <1> QED BY <1>2, <1>3, <1>6, Zenon

\* What is left of an upload that is closed: no request, no answer.
LEMMA CloseKeeps ==
  ASSUME UploadsKept, UNCHANGED srv, CloseUpload
  PROVE  /\ up' \in Uploads /\ RequestKept' /\ AnswerKept'
         /\ \A S \in SUBSET {req} : loose' = loose \cup S /\ None \notin S => LooseKept'
  <1>1. up' \in Uploads /\ RequestKept' /\ AnswerKept'
    BY Constants, Zenon DEF CloseUpload, Closed, Uploads, RequestKept, AnswerKept
  <1>2. ASSUME NEW S \in SUBSET {req}, loose' = loose \cup S, None \notin S PROVE LooseKept'
    <2>1. req # None => req \in Sent /\ Behind(req)
      BY Constants, Zenon DEF UploadsKept, RequestKept, Asked, Sent
    <2> QED BY <1>2, <2>1, Zenon DEF UploadsKept, LooseKept, Behind, Reached
  <1> QED BY <1>1, <1>2, Zenon

\* Steps that do not touch the upload.
LEMMA UploadsFrame ==
  ASSUME UploadsKept, UNCHANGED <<up, req, ans, loose, avail, srv>> PROVE UploadsKept'
  BY Zenon DEF UploadsKept, RequestKept, AnswerKept, LooseKept, SentIsPublished, Behind, Reached

\* chooseFile: no request is in progress when an upload begins.
LEMMA UploadStartUpload ==
  ASSUME UploadsKept, NEW f \in Locals, StartUpload(f) PROVE UploadsKept'
  <1>1. up.f = None /\ up' = [Closed EXCEPT !.f = f] /\ UNCHANGED <<req, ans, loose, avail, srv>>
    BY Zenon DEF StartUpload
  <1>2. req = None
    BY <1>1, Constants, Zenon DEF UploadsKept, RequestKept, Asked
  <1>3. up' \in Uploads
    BY <1>1, Constants, Zenon DEF Closed, Uploads
  <1> QED BY <1>1, <1>2, <1>3, Zenon DEF UploadsKept, RequestKept, AnswerKept, LooseKept, SentIsPublished, Behind, Reached

\* The file is hashed: sendUploadInit.
LEMMA UploadHashed ==
  ASSUME UploadsKept, Hashed PROVE UploadsKept'
  <1>1. up.f \in Locals /\ up' = [up EXCEPT !.hashed = TRUE] /\ UNCHANGED <<avail, srv>>
    BY Zenon DEF Hashed, UploadsKept, Uploads
  <1>2. up' \in Uploads /\ up'.f = up.f
    BY <1>1, Zenon DEF UploadsKept, Uploads
  <1>3. Ask("create", up.f, 0)
    BY Zenon DEF Hashed, sendUploadInit
  <1>4. RequestKept' /\ AnswerKept' /\ LooseKept'
    BY <1>1, <1>2, <1>3, AskKeeps, Constants, Zenon
  <1> QED BY <1>1, <1>2, <1>4, Zenon DEF UploadsKept, SentIsPublished

\* resumeActiveTransfers: the upload is asked for again.
LEMMA UploadResume ==
  ASSUME UploadsKept, ResumeUpload PROVE UploadsKept'
  <1>1. up.f \in Locals /\ UNCHANGED <<up, avail, srv>>
    BY Zenon DEF ResumeUpload, UploadsKept, Uploads
  <1>2. Ask("create", up.f, 0) \/ Ask("query", up.f, 0)
    BY Zenon DEF ResumeUpload, sendUploadInit
  <1>3. RequestKept' /\ AnswerKept' /\ LooseKept'
    BY <1>1, <1>2, AskKeeps, Constants, Zenon
  <1> QED BY <1>1, <1>3, Zenon DEF UploadsKept, SentIsPublished

\* failUpload, from an answer or from uploadAckTimer_.
LEMMA UploadFails ==
  ASSUME UploadsKept, failUpload, UNCHANGED srv PROVE UploadsKept'
  <1>1. CloseUpload /\ UNCHANGED avail /\ loose' = loose \cup (IF req = None THEN {} ELSE {req})
    BY Zenon DEF failUpload
  <1>2. up' \in Uploads /\ RequestKept' /\ AnswerKept' /\ LooseKept'
    BY <1>1, CloseKeeps, ZenonT(60)
  <1> QED BY <1>1, <1>2, Zenon DEF UploadsKept, SentIsPublished

\* handleFrame: the next request starts where the answer says.
LEMMA UploadGoesOn ==
  ASSUME UploadsKept, ans # None, ans.code = 200, up' \in Uploads, up'.f = up.f,
         sendNextUploadChunk(up.f, ans.off), UNCHANGED <<avail, srv>>
  PROVE  UploadsKept'
  <1>1. req \in Asked /\ req.f = up.f /\ ans.off \in 0 .. N /\ Reached(req.f, ans.off)
    BY ZenonT(60) DEF UploadsKept, RequestKept, AnswerKept, Answers
  <1>2. up.f \in Locals
    BY <1>1, Zenon DEF Asked
  <1>3. \/ Ask("complete", up.f, ans.off)
        \/ ans.off # N /\ Ask("chunk", up.f, ans.off)
    BY Zenon DEF sendNextUploadChunk
  <1>4. ans.off # N => ans.off < N
    BY <1>1, Constants
  <1>5. CASE Ask("complete", up.f, ans.off)
    BY <1>1, <1>2, <1>5, AskKeeps DEF UploadsKept, SentIsPublished
  <1>6. CASE ans.off # N /\ Ask("chunk", up.f, ans.off)
    BY <1>1, <1>2, <1>4, <1>6, AskKeeps DEF UploadsKept, SentIsPublished
  <1> QED BY <1>3, <1>5, <1>6, Zenon

\* The callback of httpJson: a file is listed as sent on the answer of 200 to
\* "complete", after which the row is and stays published.
LEMMA UploadOnAnswer ==
  ASSUME UploadsKept, OnAnswer PROVE UploadsKept'
  <1>1. ans # None /\ UNCHANGED srv
    BY Zenon DEF OnAnswer
  <1>2. req # None /\ req \in Asked /\ req.f = up.f /\ ans \in Answers /\ up \in Uploads
    BY <1>1, Zenon DEF UploadsKept, AnswerKept, RequestKept
  <1>3. CASE failUpload
    BY <1>1, <1>3, UploadFails, Zenon
  <1>4. CASE ans.code = 200 /\ Registered
    <2>1. up' = [up EXCEPT !.known = TRUE, !.off = ans.off] /\ sendNextUploadChunk(up.f, ans.off) /\ UNCHANGED avail
      BY <1>4, Zenon DEF Registered
    <2>2. up' \in Uploads /\ up'.f = up.f
      BY <1>2, <2>1, ZenonT(60) DEF Uploads, Answers
    <2> QED BY <1>1, <1>4, <2>1, <2>2, UploadGoesOn, Zenon
  <1>5. CASE ans.code = 200 /\ Progressed
    <2>1. up' = [up EXCEPT !.off = ans.off] /\ sendNextUploadChunk(up.f, ans.off) /\ UNCHANGED avail
      BY <1>5, Zenon DEF Progressed
    <2>2. up' \in Uploads /\ up'.f = up.f
      BY <1>2, <2>1, ZenonT(60) DEF Uploads, Answers
    <2> QED BY <1>1, <1>5, <2>1, <2>2, UploadGoesOn, Zenon
  <1>6. CASE ans.code = 200 /\ req.kind = "complete" /\ Finished
    <2>1. avail' = avail \cup {up.f} /\ CloseUpload /\ UNCHANGED loose
      BY <1>6, Zenon DEF Finished
    <2>2. up' \in Uploads /\ RequestKept' /\ AnswerKept' /\ LooseKept'
      <3>1. loose' = loose \cup {}
        BY <2>1, Zenon
      <3> QED BY <1>1, <2>1, <3>1, CloseKeeps, Zenon
    <2>3. srv[up.f].st = "available" /\ up.f \in Files
      BY <1>1, <1>2, <1>6, Constants, ZenonT(60) DEF UploadsKept, AnswerKept, Asked
    <2>4. SentIsPublished' /\ avail' \subseteq Files
      BY <1>1, <2>1, <2>3, Zenon DEF UploadsKept, SentIsPublished
    <2> QED BY <1>1, <2>2, <2>4, Zenon DEF UploadsKept
  <1> QED BY <1>3, <1>4, <1>5, <1>6, Zenon DEF OnAnswer

\* The cancel button; a deletion is sent once the id is known.
LEMMA UploadCancel ==
  ASSUME UploadsKept, NEW f \in Locals, CancelUpload(f) PROVE UploadsKept'
  <1>1. CloseUpload /\ UNCHANGED <<avail, srv>>
    BY Zenon DEF CancelUpload
  <1>2. up' \in Uploads /\ RequestKept' /\ AnswerKept'
    BY <1>1, CloseKeeps, Zenon
  <1> DEFINE del == [kind |-> "delete", f |-> f, at |-> 0]
  <1>3. del \in Sent /\ Behind(del)
    BY Constants, Zenon DEF Sent, Behind
  <1>4. req # None => req \in Sent /\ Behind(req)
    BY Constants, Zenon DEF UploadsKept, RequestKept, Asked, Sent
  <1>5. \A q \in loose' : q \in loose \/ (q = req /\ req # None) \/ q = del
    BY Zenon DEF CancelUpload
  <1> HIDE DEF del
  <1>6. \A q \in loose' : q \in Sent /\ Behind(q)
    BY <1>3, <1>4, <1>5, Zenon DEF UploadsKept, LooseKept
  <1>7. LooseKept'
    BY <1>1, <1>6, Zenon DEF LooseKept, Behind, Reached
  <1> QED BY <1>1, <1>2, <1>7, Zenon DEF UploadsKept, SentIsPublished

\* resetAccount withdraws the request and forgets what was listed.
LEMMA UploadLogout ==
  ASSUME UploadsKept, Logout PROVE UploadsKept'
  <1>1. CloseUpload /\ avail' = {} /\ UNCHANGED srv /\ loose' = loose \cup (IF req = None THEN {} ELSE {req})
    BY Zenon DEF Logout
  <1>2. up' \in Uploads /\ RequestKept' /\ AnswerKept' /\ LooseKept'
    BY <1>1, CloseKeeps, ZenonT(60)
  <1> QED BY <1>1, <1>2, Zenon DEF UploadsKept, SentIsPublished

\* sig_file_available names a published file.
LEMMA UploadNotified ==
  ASSUME UploadsKept, NEW f \in Files, Notified(f) PROVE UploadsKept'
  <1>1. srv[f].st = "available" /\ avail' = avail \cup {f} /\ UNCHANGED <<up, req, ans, loose, srv>>
    BY Zenon DEF Notified
  <1>2. SentIsPublished' /\ avail' \subseteq Files
    BY <1>1, Zenon DEF UploadsKept, SentIsPublished
  <1>3. RequestKept' /\ AnswerKept' /\ LooseKept'
    BY <1>1, Zenon DEF UploadsKept, RequestKept, AnswerKept, LooseKept, Behind, Reached
  <1> QED BY <1>1, <1>2, <1>3, Zenon DEF UploadsKept

\* The server carries a request out: what was confirmed stays confirmed.
LEMMA ServedKeeps ==
  ASSUME UploadsKept, NEW q \in Sent, Behind(q), srv' = [srv EXCEPT ![q.f] = Applied(q)],
         UNCHANGED <<up, req, avail>>, loose' \subseteq loose
  PROVE  srv' \in [Files -> Rows] /\ RequestKept' /\ LooseKept' /\ SentIsPublished'
  <1>1. srv \in [Files -> Rows] /\ avail \subseteq Files /\ SentIsPublished /\ LooseKept /\ RequestKept
    BY Zenon DEF UploadsKept
  <1>2. srv' \in [Files -> Rows]
    BY <1>1, RowsAdvance, Zenon
  <1>3. \A f \in Files : srv[f].st = "available" => srv'[f].st = "available"
    BY <1>1, RowsAdvance, Zenon
  <1>4. \A f \in Files, n \in Nat : Reached(f, n) => Reached(f, n)'
    BY <1>1, RowsAdvance, Zenon
  <1>5. SentIsPublished'
    BY <1>1, <1>3, Zenon DEF SentIsPublished
  <1>6. ASSUME NEW r \in Sent, Behind(r) PROVE Behind(r)'
    <2>1. r.f \in Files /\ r.at \in Nat
      BY Constants, Zenon DEF Sent
    <2> QED BY <1>4, <1>6, <2>1, Zenon DEF Behind
  <1>7. LooseKept'
    BY <1>1, <1>6, Zenon DEF LooseKept
  <1>8. RequestKept'
    <2>1. SUFFICES ASSUME req # None PROVE req \in Asked /\ req.f = up.f /\ Behind(req)'
      BY Zenon DEF RequestKept, Behind, Reached
    <2>2. req \in Asked /\ req.f = up.f /\ Behind(req)
      BY <1>1, <2>1, Zenon DEF RequestKept
    <2>3. req \in Sent
      BY <2>2, Constants, Zenon DEF Asked, Sent
    <2>4. req.f \in Files /\ req.at \in Nat
      BY <2>3, Constants, Zenon DEF Sent
    <2>5. req.kind = "chunk" => Reached(req.f, req.at)'
      BY <1>4, <2>2, <2>4, Zenon DEF Behind
    <2> QED BY <2>2, <2>5, Zenon DEF Behind, Reached
  <1> QED BY <1>2, <1>5, <1>7, <1>8, Zenon

\* The resource server answers the request in progress.
LEMMA UploadServe ==
  ASSUME UploadsKept, Serve PROVE UploadsKept'
  <1>1. /\ req # None /\ srv' = [srv EXCEPT ![req.f] = Applied(req)]
        /\ ans' = [code |-> IF Accepted(req) THEN 200 ELSE 409, off |-> Applied(req).off]
        /\ UNCHANGED <<up, req, loose, avail>>
    BY Zenon DEF Serve
  <1>2. req \in Asked /\ Behind(req) /\ srv \in [Files -> Rows]
    BY <1>1, Zenon DEF UploadsKept, RequestKept
  <1>3. req \in Sent /\ req.f \in Files
    BY <1>2, Constants, Zenon DEF Asked, Sent
  <1>4. srv' \in [Files -> Rows] /\ RequestKept' /\ LooseKept' /\ SentIsPublished'
    BY <1>1, <1>2, <1>3, ServedKeeps, Zenon
  <1>5. srv'[req.f] = Applied(req) /\ Applied(req) \in Rows
    BY <1>1, <1>2, <1>3, RowsAdvance, AppliedKeeps, Zenon
  <1>6. ans' \in Answers
    BY <1>1, <1>5, Constants, ZenonT(60) DEF Answers, Rows
  <1>7. Accepted(req) => Applied(req).st # "none" /\ (req.kind = "complete" => Applied(req).st = "available")
    <2>1. CASE req.kind \in {"create", "query"}
      BY <2>1, Zenon DEF Accepted
    <2>2. CASE req.kind = "chunk"
      BY <1>2, <1>3, <2>2, AppliedKeeps, Zenon DEF Behind, Reached
    <2>3. CASE req.kind = "complete"
      BY <2>3, Zenon DEF Accepted
    <2> QED BY <1>2, <2>1, <2>2, <2>3, Zenon DEF Asked
  <1>8. AnswerKept'
    <2>1. SUFFICES ASSUME ans'.code = 200
                   PROVE  Reached(req.f, ans.off)' /\ (req.kind = "complete" => srv'[req.f].st = "available")
      BY <1>1, <1>6, ZenonT(60) DEF AnswerKept
    <2>2. Accepted(req)
      BY <1>1, <2>1
    <2>3. srv'[req.f].off \in Nat /\ ans'.off = srv'[req.f].off
      BY <1>1, <1>5, Constants, Zenon DEF Rows
    <2> QED BY <1>1, <1>5, <1>7, <2>2, <2>3 DEF Reached
  <1> QED BY <1>1, <1>4, <1>8, Zenon DEF UploadsKept

\* An answer that is not 200 confirms nothing.
LEMMA UploadUnserved ==
  ASSUME UploadsKept, Unserved PROVE UploadsKept'
  <1>1. req # None /\ ans' = [code |-> 503, off |-> 0] /\ UNCHANGED <<up, req, loose, avail, srv>>
    BY Zenon DEF Unserved
  <1>2. AnswerKept'
    BY <1>1, Constants DEF AnswerKept, Answers
  <1>3. RequestKept' /\ LooseKept' /\ SentIsPublished'
    BY <1>1, Zenon DEF UploadsKept, RequestKept, LooseKept, SentIsPublished, Behind, Reached
  <1> QED BY <1>1, <1>2, <1>3, Zenon DEF UploadsKept

\* A withdrawn request is carried out late.
LEMMA UploadServeLoose ==
  ASSUME UploadsKept, NEW q \in loose, ServeLoose(q) PROVE UploadsKept'
  <1>1. /\ loose' = loose \ {q} /\ srv' = [srv EXCEPT ![q.f] = Applied(q)]
        /\ UNCHANGED <<up, req, ans, avail>>
    BY Zenon DEF ServeLoose, manager
  <1>2. q \in Sent /\ Behind(q) /\ srv \in [Files -> Rows]
    BY Zenon DEF UploadsKept, LooseKept
  <1>3. srv' \in [Files -> Rows] /\ RequestKept' /\ LooseKept' /\ SentIsPublished'
    BY <1>1, <1>2, ServedKeeps, Zenon
  <1>4. AnswerKept'
    <2>1. SUFFICES ASSUME ans # None, ans.code = 200
                   PROVE  Reached(req.f, ans.off)' /\ (req.kind = "complete" => srv'[req.f].st = "available")
      BY <1>1, ZenonT(60) DEF UploadsKept, AnswerKept
    <2>2. req \in Asked /\ ans \in Answers /\ Reached(req.f, ans.off)
      BY <2>1, Zenon DEF UploadsKept, AnswerKept, RequestKept
    <2>3. req.f \in Files /\ ans.off \in Nat
      BY <2>2, Constants DEF Asked, Answers
    <2>4. Reached(req.f, ans.off)'
      <3>1. \A f \in Files, n \in Nat : Reached(f, n) => Reached(f, n)'
        BY <1>1, <1>2, RowsAdvance, Zenon
      <3> QED BY <1>1, <2>2, <2>3, <3>1, Zenon DEF Reached
    <2>5. req.kind = "complete" => srv'[req.f].st = "available"
      <3>1. \A f \in Files : srv[f].st = "available" => srv'[f].st = "available"
        BY <1>1, <1>2, RowsAdvance, Zenon
      <3> QED BY <2>1, <2>3, <3>1, Zenon DEF UploadsKept, AnswerKept
    <2> QED BY <2>4, <2>5, Zenon
  <1> QED BY <1>1, <1>3, <1>4, Zenon DEF UploadsKept

-----------------------------------------------------------------------------
(* Downloads.                                                              *)

\* Steps that do not touch the download.
LEMMA DownloadsFrame ==
  ASSUME DownloadsKept, UNCHANGED <<down, dreq, target>> PROVE DownloadsKept'
  BY Zenon DEF DownloadsKept

\* A download that is closed, with the saved files as they were.
LEMMA DownloadCloses ==
  ASSUME DownloadsKept, down' = NotLoading, dreq' = FALSE, target' \in [Paths -> Whole] PROVE DownloadsKept'
  BY Zenon DEF DownloadsKept, NotLoading

\* What the end of a download does: a file takes its place only if its sha256
\* matches; the one it replaces is gone if the rename fails.
LEMMA CompleteSaves ==
  ASSUME DownloadsKept, NEW f \in Incoming, NEW p \in Paths, NEW data, Complete(f, p, data)
  PROVE  /\ DownloadsKept'
         /\ loose' \subseteq loose \cup {[kind |-> "downloaded", f |-> f, at |-> 0]} /\ loose \subseteq loose'
  <1>1. down' = NotLoading /\ dreq' = FALSE /\ target \in [Paths -> Whole]
    BY Zenon DEF Complete, DownloadsKept
  <1>2. \/ UNCHANGED <<target, loose>>
        \/ /\ data = Content(f) /\ target' = [target EXCEPT ![p] = data]
           /\ loose' = loose \cup {[kind |-> "downloaded", f |-> f, at |-> 0]}
        \/ target' = [target EXCEPT ![p] = << >>] /\ UNCHANGED loose
    BY Zenon DEF Complete, Sha256Matches
  <1>3. target' \in [Paths -> Whole]
    BY <1>1, <1>2, Zenon DEF Whole
  <1> QED BY <1>1, <1>2, <1>3, DownloadCloses, Zenon

\* requestDownloadChunk: the next range is asked for, or the download ends.
LEMMA FetchSaves ==
  ASSUME DownloadsKept, NEW f \in Incoming, NEW p \in Paths, NEW n, NEW data, Fetch(f, p, n, data)
  PROVE  /\ DownloadsKept'
         /\ loose' \subseteq loose \cup {[kind |-> "downloaded", f |-> f, at |-> 0]} /\ loose \subseteq loose'
  <1>1. CASE n = N
    BY <1>1, CompleteSaves, Zenon DEF Fetch
  <1>2. CASE n # N
    <2>1. down' = [f |-> f, path |-> p, off |-> n] /\ dreq' = TRUE /\ UNCHANGED <<target, loose>>
      BY <1>2, Zenon DEF Fetch
    <2>2. down'.f = f /\ down'.path = p /\ f # None
      BY <2>1, Constants, Zenon
    <2> QED BY <2>1, <2>2, Zenon DEF DownloadsKept
  <1> QED BY <1>1, <1>2, Zenon

\* The confirmation of a download is no upload request.
LEMMA ConfirmationKeeps ==
  ASSUME UploadsKept, NEW f \in Incoming, UNCHANGED <<up, req, ans, avail, srv>>,
         loose' \subseteq loose \cup {[kind |-> "downloaded", f |-> f, at |-> 0]}
  PROVE  UploadsKept'
  <1> DEFINE done == [kind |-> "downloaded", f |-> f, at |-> 0]
  <1>1. done \in Sent /\ Behind(done)
    BY Constants, Zenon DEF Sent, Behind
  <1> HIDE DEF done
  <1>2. \A q \in loose' : q \in Sent /\ Behind(q)
    BY <1>1, Zenon DEF UploadsKept, LooseKept, done
  <1>3. LooseKept'
    BY <1>2, Zenon DEF LooseKept, Behind, Reached
  <1>4. RequestKept' /\ AnswerKept' /\ SentIsPublished'
    BY Zenon DEF UploadsKept, RequestKept, AnswerKept, SentIsPublished, Behind, Reached
  <1> QED BY <1>3, <1>4, Zenon DEF UploadsKept

\* The inductive invariant.
IInv == UploadsKept /\ DownloadsKept

\* The download button.
LEMMA StartDownloadKeeps ==
  ASSUME IInv, NEW f \in Incoming, NEW p \in Paths, StartDownload(f, p) PROVE IInv'
  <1>1. UNCHANGED <<up, req, ans, avail, srv>>
    BY Zenon DEF StartDownload
  <1>2. \/ UNCHANGED <<down, dreq, target, loose>>
        \/ Fetch(f, p, Len(Kept(p)), Kept(p))
    BY Zenon DEF StartDownload
  <1>3. CASE UNCHANGED <<down, dreq, target, loose>>
    BY <1>1, <1>3, UploadsFrame, DownloadsFrame, Zenon DEF IInv
  <1>4. CASE Fetch(f, p, Len(Kept(p)), Kept(p))
    BY <1>1, <1>4, FetchSaves, ConfirmationKeeps, Zenon DEF IInv
  <1> QED BY <1>2, <1>3, <1>4, Zenon

\* A range arrives.
LEMMA ChunkArrivesKeeps ==
  ASSUME IInv, ChunkArrives PROVE IInv'
  <1>1. UNCHANGED <<up, req, ans, avail, srv>> /\ dreq
    BY Zenon DEF ChunkArrives
  <1>2. down.f \in Incoming /\ down.path \in Paths
    BY <1>1, Zenon DEF IInv, DownloadsKept
  <1>3. PICK data : Fetch(down.f, down.path, down.off + 1, data)
    BY Zenon DEF ChunkArrives
  <1> QED BY <1>1, <1>2, <1>3, FetchSaves, ConfirmationKeeps, Zenon DEF IInv

\* The other steps of a download: an answer that ends it, a failed write, a
\* reconnection.
LEMMA DownloadStops ==
  ASSUME IInv, ChunkRefused \/ WriteFails \/ ResumeDownload PROVE IInv'
  <1>1. UNCHANGED <<up, req, ans, loose, avail, srv, target>>
    BY Zenon DEF ChunkRefused, WriteFails, ResumeDownload
  <1>2. UploadsKept'
    BY <1>1, UploadsFrame, Zenon DEF IInv
  <1>3. CASE ChunkRefused
    BY <1>1, <1>2, <1>3, DownloadCloses, Zenon DEF IInv, ChunkRefused, DownloadsKept
  <1>4. CASE WriteFails
    BY <1>1, <1>2, <1>4, Zenon DEF IInv, WriteFails, DownloadsKept
  <1>5. CASE ResumeDownload
    BY <1>1, <1>2, <1>5, Zenon DEF IInv, ResumeDownload, DownloadsKept
  <1> QED BY <1>3, <1>4, <1>5, Zenon

-----------------------------------------------------------------------------
(* The invariant, and what follows from it.                                *)

\* A client that has just started satisfies it.
LEMMA InitKeeps == Init => IInv
  <1> SUFFICES ASSUME Init PROVE IInv
    OBVIOUS
  <1>1. up = Closed /\ req = None /\ ans = None /\ loose = {} /\ avail = {} /\ down = NotLoading /\ dreq = FALSE
    BY Zenon DEF Init
  <1>2. srv \in [Files -> Rows]
    BY Constants DEF Init, Rows
  <1>3. target \in [Paths -> Whole]
    BY Zenon DEF Init, Whole
  <1>4. up \in Uploads
    BY <1>1, Constants, Zenon DEF Closed, Uploads
  <1>5. UploadsKept
    BY <1>1, <1>2, <1>4, Zenon DEF UploadsKept, RequestKept, AnswerKept, LooseKept, SentIsPublished
  <1>6. DownloadsKept
    BY <1>1, <1>3, Zenon DEF DownloadsKept, NotLoading
  <1> QED BY <1>5, <1>6, Zenon DEF IInv

\* Every step of the manager, of the user and of the server keeps it.
LEMMA StepKeeps == IInv /\ [Next]_vars => IInv'
  <1> SUFFICES ASSUME IInv, [Next]_vars PROVE IInv'
    OBVIOUS
  <1>1. UploadsKept /\ DownloadsKept
    BY Zenon DEF IInv
  <1>2. ASSUME NEW f \in Locals, StartUpload(f) PROVE IInv'
    BY <1>1, <1>2, UploadStartUpload, DownloadsFrame, Zenon DEF IInv, StartUpload
  <1>3. ASSUME NEW f \in Locals, CancelUpload(f) PROVE IInv'
    BY <1>1, <1>3, UploadCancel, DownloadsFrame, Zenon DEF IInv, CancelUpload
  <1>4. CASE Hashed
    BY <1>1, <1>4, UploadHashed, DownloadsFrame, Zenon DEF IInv, Hashed
  <1>5. CASE OnAnswer
    BY <1>1, <1>5, UploadOnAnswer, DownloadsFrame, Zenon DEF IInv, OnAnswer
  <1>6. CASE AckTimeout
    BY <1>1, <1>6, UploadFails, DownloadsFrame, Zenon DEF IInv, AckTimeout
  <1>7. ASSUME NEW f \in Incoming, NEW p \in Paths, StartDownload(f, p) PROVE IInv'
    BY <1>7, StartDownloadKeeps, Zenon
  <1>8. CASE ChunkArrives
    BY <1>8, ChunkArrivesKeeps, Zenon
  <1>9. CASE ChunkRefused \/ WriteFails \/ ResumeDownload
    BY <1>9, DownloadStops, Zenon
  <1>10. CASE ResumeUpload
    BY <1>1, <1>10, UploadResume, DownloadsFrame, Zenon DEF IInv, ResumeUpload
  <1>11. CASE Logout
    <2>1. down' = NotLoading /\ dreq' = FALSE /\ UNCHANGED target
      BY <1>11, Zenon DEF Logout
    <2>2. target' \in [Paths -> Whole]
      BY <1>1, <2>1, Zenon DEF DownloadsKept
    <2> QED BY <1>1, <1>11, <2>1, <2>2, UploadLogout, DownloadCloses, Zenon DEF IInv
  <1>12. ASSUME NEW f \in Files, Notified(f) PROVE IInv'
    BY <1>1, <1>12, UploadNotified, DownloadsFrame, Zenon DEF IInv, Notified
  <1>13. ASSUME NEW p \in Peers, OpenPage(p) PROVE IInv'
    BY <1>1, <1>13, UploadsFrame, DownloadsFrame, Zenon DEF IInv, OpenPage, manager
  <1>14. CASE Serve
    BY <1>1, <1>14, UploadServe, DownloadsFrame, Zenon DEF IInv, Serve
  <1>15. CASE Unserved
    BY <1>1, <1>15, UploadUnserved, DownloadsFrame, Zenon DEF IInv, Unserved
  <1>16. ASSUME NEW q \in loose, ServeLoose(q) PROVE IInv'
    BY <1>1, <1>16, UploadServeLoose, DownloadsFrame, Zenon DEF IInv, ServeLoose, manager
  <1>17. CASE UNCHANGED vars
    BY <1>1, <1>17, UploadsFrame, DownloadsFrame, Zenon DEF IInv, vars, manager
  <1> QED BY <1>2, <1>3, <1>4, <1>5, <1>6, <1>7, <1>8, <1>9, <1>10, <1>11, <1>12, <1>13, <1>14, <1>15, <1>16, <1>17,
             Zenon DEF Next

\* It holds throughout every behaviour.
LEMMA Invariance == Spec => []IInv
  BY InitKeeps, StepKeeps, PTL DEF Spec

\* A file that the client lists as sent is published (ID_UPLOAD_FILE_FINISH_RSP,
\* sig_file_available), however requests are answered, repeated, withdrawn and
\* carried out late.
THEOREM SentPublished == Spec => []SentIsPublished
  <1>1. IInv => SentIsPublished
    BY Zenon DEF IInv, UploadsKept
  <1> QED BY <1>1, Invariance, PTL

\* No chunk, in progress or withdrawn, starts beyond the offset that the server
\* has confirmed (sendNextUploadChunk, resumeActiveTransfers).
THEOREM ChunksNeverAhead == Spec => []NeverAhead
  <1>1. IInv => NeverAhead
    BY Zenon DEF IInv, UploadsKept, RequestKept, LooseKept, Behind, Reached, NeverAhead
  <1> QED BY <1>1, Invariance, PTL

\* A path holds nothing or the whole of a file somebody sent, although part
\* files of several downloads are continued, writes are torn and renames fail
\* (handleFrame with "complete").
THEOREM SavedWhole == Spec => []SavedIsWhole
  <1>1. IInv => SavedIsWhole
    BY Zenon DEF IInv, DownloadsKept, Whole, SavedIsWhole
  <1> QED BY <1>1, Invariance, PTL

-----------------------------------------------------------------------------
(* The labels that show the avatars of users: AvatarLabels, with constants  *)
(* and variables of its own but for None and the bound on faults.           *)

CONSTANTS Labels, Users, Me, MaxVersion, MaxLoads

VARIABLES label, metas, images, versions, cache, cur, news, edit, labelFaults

Pictures == INSTANCE AvatarLabels WITH faults <- labelFaults

Bindings == [uid : Users \cup {None}, pic : (Users \X (1 .. MaxVersion)) \cup {None}, failed : BOOLEAN]

\* Versions are seen, announced and answered after the database has them.
Load(m) ==
  /\ m = [l |-> m.l, u |-> m.u, n |-> m.n, v |-> m.v] /\ m.l \in Labels /\ m.u \in Users
  /\ m.v = None \/ m.v \in 0 .. cur[m.u]
Image(m) == Load(m) /\ m.v \in 1 .. cur[m.u]
News(f) == \E u \in Users : \E v \in 1 .. cur[u] : f = <<u, v>>
Picture(l) ==
  label[l].uid # None => label[l].pic = None \/ \E v \in 1 .. cur[label[l].uid] : label[l].pic = <<label[l].uid, v>>
VersionsKept ==
  /\ label \in [Labels -> Bindings] /\ cur \in [Users -> 0 .. MaxVersion]
  /\ versions \in [Users -> Nat] /\ \A u \in Users : versions[u] <= cur[u]
  /\ \A m \in metas : Load(m)
  /\ \A m \in images : Image(m)
  /\ \A f \in news : News(f)
  /\ \A l \in Labels : Picture(l)

\* A label is up to date, is fetching the current version, or has a request whose
\* answer will name it.  In the first two cases the client knows the version, so
\* that no older answer can replace the picture.
Told(u) == ~ \E v \in 1 .. MaxVersion : <<u, v>> \in news
Asks(l, u) == \E m \in metas : m.l = l /\ m.u = u /\ (m.v = None \/ m.v = cur[u])
Fetches(l, u) == \E m \in images : m.l = l /\ m.u = u /\ m.v = cur[u]
Right(l, u) == label[l].pic = IF cur[u] = 0 THEN None ELSE <<u, cur[u]>>
Follows(l, u) == Asks(l, u) \/ (versions[u] = cur[u] /\ (Fetches(l, u) \/ Right(l, u)))
LabelFollows(l) ==
  \A u \in Users : label[l].uid = u /\ ~label[l].failed /\ Told(u) => Follows(l, u)
VInv == VersionsKept /\ \A l \in Labels : LabelFollows(l)

\* What concerns a label stays while its binding and its user's version do and
\* the requests it has are kept.
LEMMA FollowsOn ==
  ASSUME NEW l, NEW u, Follows(l, u),
         cur'[u] = cur[u], versions'[u] = versions[u], label'[l].pic = label[l].pic,
         \A m \in metas : m.l = l /\ m.u = u => m \in metas',
         \A m \in images : m.l = l /\ m.u = u => m \in images'
  PROVE  Follows(l, u)'
  <1>1. Asks(l, u) => Asks(l, u)' BY Zenon DEF Asks
  <1>2. Fetches(l, u) => Fetches(l, u)' BY Zenon DEF Fetches
  <1>3. Right(l, u) => Right(l, u)' BY Zenon DEF Right
  <1> QED BY <1>1, <1>2, <1>3, Zenon DEF Follows

\* A step that binds no label keeps VersionsKept if the versions only grow and
\* nothing under way was added.
LEMMA VersionsKeptOn ==
  ASSUME VersionsKept, cur' \in [Users -> 0 .. MaxVersion], \A u \in Users : cur[u] <= cur'[u],
         label' \in [Labels -> Bindings], versions' \in [Users -> Nat], \A u \in Users : versions'[u] <= cur'[u],
         \A m \in metas' : m \in metas \/ Load(m)', \A m \in images' : m \in images \/ Image(m)',
         \A f \in news' : f \in news \/ News(f)', \A l \in Labels : label'[l] = label[l] \/ Picture(l)'
  PROVE  VersionsKept'
  <1>1. \A u \in Users : cur[u] \in Nat /\ cur'[u] \in Nat /\ \A v : v \in 0 .. cur[u] => v \in 0 .. cur'[u]
    BY DEF VersionsKept
  <1>2. \A u \in Users : \A v : v \in 1 .. cur[u] => v \in 1 .. cur'[u]
    BY DEF VersionsKept
  <1>3. \A m : Load(m) => Load(m)' BY <1>1, Zenon DEF Load
  <1>4. \A m : Image(m) => Image(m)' BY <1>2, <1>3, Zenon DEF Image, Load
  <1>5. \A f : News(f) => News(f)' BY <1>2, Zenon DEF News
  <1>6. ASSUME NEW l \in Labels, label'[l] = label[l] PROVE Picture(l)'
    <2>1. Picture(l) /\ label[l].uid \in Users \cup {None} BY Zenon DEF VersionsKept, Bindings
    <2> QED BY <1>2, <1>6, <2>1, Zenon DEF Picture
  <1>7. (\A m \in metas' : Load(m)') /\ (\A m \in images' : Image(m)') /\ \A f \in news' : News(f)'
    BY <1>3, <1>4, <1>5, Zenon DEF VersionsKept
  <1>8. \A l \in Labels : Picture(l)' BY <1>6, Zenon
  <1> QED BY <1>7, <1>8, Zenon DEF VersionsKept

\* load() binds the labels to the user and sends a request for each.
LEMMA Loaded ==
  ASSUME VInv, NEW ls \in SUBSET Labels, NEW u \in Users, Pictures!load(ls, u), UNCHANGED <<images, cur>>,
         versions' \in [Users -> Nat], \A w \in Users : versions'[w] <= cur'[w], news' \subseteq news,
         \A w \in Users, l \in Labels \ ls : label[l].uid = w => versions'[w] = versions[w] /\ (Told(w)' => Told(w))
  PROVE  VInv'
  <1> DEFINE bound == [uid |-> u, pic |-> None, failed |-> FALSE]
             asked(l) == [l |-> l, u |-> u, n |-> Pictures!Free(l), v |-> None]
  <1>1. label' = [l \in Labels |-> IF l \in ls THEN bound ELSE label[l]] BY Zenon DEF Pictures!load
  <1>2. metas' = metas \cup {asked(l) : l \in ls} BY Zenon DEF Pictures!load, Pictures!Meta
  <1>3. bound \in Bindings /\ bound.uid = u /\ bound.pic = None BY Zenon DEF Bindings
  <1>4. \A l \in ls : asked(l).l = l /\ asked(l).u = u /\ asked(l).v = None
                     /\ asked(l) = [l |-> asked(l).l, u |-> asked(l).u, n |-> asked(l).n, v |-> asked(l).v]
    OBVIOUS
  <1> HIDE DEF bound, asked
  <1>5. \A l \in Labels : label'[l] = IF l \in ls THEN bound ELSE label[l] BY <1>1, Zenon
  <1>6. label' \in [Labels -> Bindings] BY <1>1, <1>3, Zenon DEF VInv, VersionsKept
  <1>7. \A m : (\E l \in ls : m = asked(l)) => Load(m)' BY <1>4, ZenonT(60) DEF Load
  <1>8. \A l \in ls : Picture(l)' BY <1>3, <1>5, Zenon DEF Picture
  <1>9. VersionsKept'
    <2>1. VersionsKept /\ cur \in [Users -> 0 .. MaxVersion] BY Zenon DEF VInv, VersionsKept
    <2>2. \A w \in Users : cur[w] <= cur'[w]
      <3>1. \A w \in Users : cur[w] \in Nat BY <2>1
      <3> QED BY <3>1
    <2>3. \A l \in Labels : label'[l] = label[l] \/ Picture(l)' BY <1>5, <1>8, Zenon
    <2>4. \A m \in metas' : m \in metas \/ Load(m)' BY <1>2, <1>7, Zenon
    <2>5. \A f \in news' : f \in news BY Zenon
    <2> QED BY <1>6, <2>1, <2>2, <2>3, <2>4, <2>5, VersionsKeptOn, Zenon
  <1>10. ASSUME NEW l \in Labels, NEW w \in Users, label'[l].uid = w, ~label'[l].failed, Told(w)' PROVE Follows(l, w)'
    <2>1. CASE l \in ls
      <3>1. w = u BY <1>3, <1>5, <1>10, <2>1, Zenon
      <3>2. asked(l) \in metas' BY <1>2, <2>1, Zenon
      <3>3. Asks(l, w)' BY <1>4, <2>1, <3>1, <3>2, Zenon DEF Asks
      <3> QED BY <3>3, Zenon DEF Follows
    <2>2. CASE l \notin ls
      <3>1. label'[l] = label[l] BY <1>5, <2>2, Zenon
      <3>2. versions'[w] = versions[w] /\ Told(w) BY <1>10, <2>2, <3>1, Zenon
      <3>3. Follows(l, w) BY <1>10, <3>1, <3>2, Zenon DEF VInv, LabelFollows
      <3>4. \A m \in metas : m \in metas' BY <1>2, Zenon
      <3> QED BY <3>1, <3>2, <3>3, <3>4, FollowsOn, Zenon
    <2> QED BY <2>1, <2>2
  <1> QED BY <1>9, <1>10, Zenon DEF VInv, LabelFollows

\* A label is bound, a notification arrives, or the user's own change is done.
LEMMA LoadSteps ==
  ASSUME Pictures!LabelConstants, VInv,
         \/ \E l \in Labels, u \in Users : Pictures!Bind(l, u)
         \/ \E f \in news : Pictures!Changed(f)
         \/ Pictures!EditDone
  PROVE  VInv'
  <1>0. /\ versions \in [Users -> Nat] /\ cur \in [Users -> 0 .. MaxVersion] /\ \A u \in Users : versions[u] <= cur[u]
    BY Zenon DEF VInv, VersionsKept
  <1>1. CASE \E l \in Labels, u \in Users : Pictures!Bind(l, u)
    <2>1. PICK l \in Labels, u \in Users : Pictures!Bind(l, u) BY <1>1
    <2>2. Pictures!load({l}, u) /\ UNCHANGED <<images, versions, cur, news>> BY <2>1, Zenon DEF Pictures!Bind
    <2>3. \A w : Told(w)' => Told(w) BY <2>2, Zenon DEF Told
    <2> QED BY <1>0, <2>2, <2>3, Loaded, Zenon
  <1>2. CASE \E f \in news : Pictures!Changed(f)
    <2>1. PICK f \in news : Pictures!Changed(f) BY <1>2
    <2>2. PICK u \in Users : \E v \in 1 .. cur[u] : f = <<u, v>> BY Zenon DEF VInv, VersionsKept, News
    <2>3. PICK v \in 1 .. cur[u] : f = <<u, v>> BY <2>2
    <2>4. f[1] = u /\ f[2] = v BY <2>3
    <2>5. /\ news' = news \ {f} /\ versions' = [versions EXCEPT ![u] = v]
          /\ Pictures!load(Pictures!Bound(u), u) /\ UNCHANGED <<images, cur>>
      BY <2>1, <2>4, Zenon DEF Pictures!Changed
    <2>6. v \in Nat /\ v <= cur[u] BY <1>0, <2>3
    <2>7. \A w \in Users : versions'[w] = IF w = u THEN v ELSE versions[w] BY <1>0, <2>5, Zenon
    <2>8. versions' \in [Users -> Nat] /\ \A w \in Users : versions'[w] <= cur'[w]
      BY <1>0, <2>5, <2>6, <2>7, Zenon
    <2>9. ASSUME NEW w \in Users, NEW l \in Labels \ Pictures!Bound(u), label[l].uid = w
          PROVE  versions'[w] = versions[w] /\ (Told(w)' => Told(w))
      <3>1. w # u BY <2>9, Zenon DEF Pictures!Bound
      <3>2. \A x : <<w, x>> # f
        <4>1. \A x : <<w, x>>[1] = w OBVIOUS
        <4> QED BY <2>4, <3>1, <4>1
      <3>3. \A x : <<w, x>> \in news => <<w, x>> \in news' BY <2>5, <3>2, Zenon
      <3> QED BY <2>7, <3>1, <3>3, Zenon DEF Told
    <2>10. Pictures!Bound(u) \in SUBSET Labels BY Zenon DEF Pictures!Bound
    <2>11. news' \subseteq news BY <2>5, Zenon
    <2> QED BY <2>5, <2>8, <2>9, <2>10, <2>11, Loaded, Zenon
  <1>3. CASE Pictures!EditDone
    <2>1. Pictures!load(Pictures!Bound(Me), Me) /\ UNCHANGED <<images, versions, cur, news>>
      BY <1>3, Zenon DEF Pictures!EditDone
    <2>2. Pictures!Bound(Me) \in SUBSET Labels /\ Me \in Users BY Zenon DEF Pictures!Bound, Pictures!LabelConstants
    <2>3. \A w : Told(w)' => Told(w) BY <2>1, Zenon DEF Told
    <2> QED BY <1>0, <2>1, <2>2, <2>3, Loaded, Zenon
  <1> QED BY <1>1, <1>2, <1>3

\* The avatar of u is replaced: its labels follow when the notification arrives.
LEMMA ReplacedStep ==
  ASSUME Pictures!LabelConstants, VInv, NEW r \in Users, Pictures!Replaced(r), UNCHANGED <<label, metas, images, versions>>
  PROVE  VInv'
  <1> DEFINE now == cur[r] + 1
  <1>0. /\ VersionsKept /\ cur \in [Users -> 0 .. MaxVersion] /\ versions \in [Users -> Nat] /\ MaxVersion \in Nat
        /\ label \in [Labels -> Bindings] /\ \A u \in Users : versions[u] <= cur[u]
    BY Zenon DEF VInv, VersionsKept, Pictures!LabelConstants
  <1>1. cur[r] < MaxVersion /\ cur' = [cur EXCEPT ![r] = now] /\ news' = news \cup {<<r, now>>}
    BY Zenon DEF Pictures!Replaced
  <1>2. now \in 1 .. MaxVersion /\ now \in 0 .. MaxVersion /\ cur[r] <= now /\ cur[r] \in Nat BY <1>0, <1>1
  <1> HIDE DEF now
  <1>3. \A u \in Users : cur'[u] = IF u = r THEN now ELSE cur[u] BY <1>0, <1>1, Zenon
  <1>4. cur' \in [Users -> 0 .. MaxVersion] BY <1>0, <1>1, <1>2, Zenon
  <1>5. \A u \in Users : cur[u] <= cur'[u] /\ versions'[u] <= cur'[u]
    <2>1. \A u \in Users : cur[u] \in Nat /\ versions[u] \in Nat /\ versions[u] <= cur[u] BY <1>0
    <2> QED BY <1>2, <1>3, <2>1
  <1>6. \A f : f = <<r, now>> => News(f)'
    <2>1. now \in 1 .. cur'[r] BY <1>2, <1>3
    <2> QED BY <2>1, Zenon DEF News
  <1>7. VersionsKept'
    <2>1. \A f \in news' : f \in news \/ News(f)' BY <1>1, <1>6, Zenon
    <2> QED BY <1>0, <1>4, <1>5, <2>1, VersionsKeptOn, Zenon
  <1>8. ASSUME NEW l \in Labels, NEW u \in Users, label'[l].uid = u, ~label'[l].failed, Told(u)' PROVE Follows(l, u)'
    <2>1. u # r BY <1>1, <1>2, <1>8, Zenon DEF Told
    <2>2. Told(u) BY <1>1, <1>8, Zenon DEF Told
    <2>3. Follows(l, u) BY <1>8, <2>2, Zenon DEF VInv, LabelFollows
    <2> QED BY <1>3, <2>1, <2>3, FollowsOn, Zenon
  <1> QED BY <1>7, <1>8, Zenon DEF VInv, LabelFollows

\* The server answers a request with the version it has now.
LEMMA ServeStep ==
  ASSUME VInv, NEW m \in metas, Pictures!ServeMeta(m) PROVE VInv'
  <1> DEFINE a == [m EXCEPT !.v = cur[m.u]]
  <1>0. VersionsKept /\ Load(m) /\ cur \in [Users -> 0 .. MaxVersion] BY Zenon DEF VInv, VersionsKept
  <1>1. m.v = None /\ metas' = (metas \ {m}) \cup {a} /\ UNCHANGED <<label, images, versions, cur, news>>
    BY Zenon DEF Pictures!ServeMeta
  <1>2. /\ a = [l |-> a.l, u |-> a.u, n |-> a.n, v |-> a.v] /\ a.l = m.l /\ a.u = m.u /\ a.v = cur[m.u]
        /\ m.l \in Labels /\ m.u \in Users
    <2>1. m = [l |-> m.l, u |-> m.u, n |-> m.n, v |-> m.v] /\ m.l \in Labels /\ m.u \in Users BY <1>0, Zenon DEF Load
    <2>2. a = [l |-> m.l, u |-> m.u, n |-> m.n, v |-> cur[m.u]] BY <2>1
    <2> QED BY <2>1, <2>2
  <1> HIDE DEF a
  <1>3. \A x : x = a => Load(x)'
    <2>1. cur[m.u] \in 0 .. cur'[m.u] BY <1>0, <1>1, <1>2
    <2> QED BY <1>1, <1>2, <2>1, Zenon DEF Load
  <1>4. VersionsKept'
    <2>1. \A u \in Users : cur[u] <= cur'[u]
      <3>1. \A u \in Users : cur[u] \in Nat BY <1>0
      <3> QED BY <1>1, <3>1
    <2>2. \A x \in metas' : x \in metas \/ Load(x)' BY <1>1, <1>3, Zenon
    <2> QED BY <1>0, <1>1, <2>1, <2>2, VersionsKeptOn, Zenon DEF VersionsKept
  <1>5. ASSUME NEW l \in Labels, NEW u \in Users, label'[l].uid = u, ~label'[l].failed, Told(u)' PROVE Follows(l, u)'
    <2>1. Follows(l, u) BY <1>1, <1>5, Zenon DEF VInv, LabelFollows, Told
    <2>2. CASE m.l = l /\ m.u = u
      <3>1. a \in metas' BY <1>1, Zenon
      <3>2. Asks(l, u)' BY <1>1, <1>2, <2>2, <3>1, Zenon DEF Asks
      <3> QED BY <3>2, Zenon DEF Follows
    <2>3. CASE ~(m.l = l /\ m.u = u)
      <3>1. \A x \in metas : x.l = l /\ x.u = u => x \in metas' BY <1>1, <2>3, Zenon
      <3> QED BY <1>1, <2>1, <3>1, FollowsOn, Zenon
    <2> QED BY <2>2, <2>3
  <1> QED BY <1>4, <1>5, Zenon DEF VInv, LabelFollows

\* A label shows a picture of its user that the database has had.
LEMMA PictureShown ==
  ASSUME Pictures!LabelConstants, VInv, NEW m, Image(m), label[m.l].uid = m.u, label' = Pictures!Shown(m.l, m.u, m.v), UNCHANGED cur
  PROVE  /\ label' \in [Labels -> Bindings]
         /\ \A l \in Labels : l # m.l => label'[l] = label[l]
         /\ label'[m.l].uid = m.u /\ label'[m.l].failed = label[m.l].failed /\ label'[m.l].pic = <<m.u, m.v>>
         /\ Picture(m.l)'
  <1> DEFINE s == [label[m.l] EXCEPT !.pic = <<m.u, m.v>>]
  <1>1. m.l \in Labels /\ m.u \in Users /\ m.v \in 1 .. cur[m.u] BY Zenon DEF Image, Load
  <1>2. label \in [Labels -> Bindings] /\ label[m.l] \in Bindings /\ cur[m.u] \in 0 .. MaxVersion
    BY <1>1, Zenon DEF VInv, VersionsKept
  <1>3. m.v \in 1 .. MaxVersion BY <1>1, <1>2 DEF Pictures!LabelConstants
  <1>4. s \in Bindings /\ s.uid = m.u /\ s.failed = label[m.l].failed /\ s.pic = <<m.u, m.v>>
    BY <1>1, <1>2, <1>3 DEF Bindings
  <1>5. label' = [label EXCEPT ![m.l] = s] BY <1>1, <1>2, Zenon DEF Pictures!Shown
  <1> HIDE DEF s
  <1>6. label' \in [Labels -> Bindings] /\ label'[m.l] = s /\ \A l \in Labels : l # m.l => label'[l] = label[l]
    BY <1>1, <1>2, <1>4, <1>5, Zenon
  <1>7. Picture(m.l)' BY <1>1, <1>4, <1>6, Zenon DEF Picture
  <1> QED BY <1>4, <1>6, <1>7, Zenon

\* An answer with the version of an avatar arrives.
LEMMA MetaStep ==
  ASSUME Pictures!LabelConstants, VInv, NEW m \in metas, Pictures!MetaArrives(m) PROVE VInv'
  <1>0. /\ VersionsKept /\ Load(m) /\ cur \in [Users -> 0 .. MaxVersion] /\ versions \in [Users -> Nat]
        /\ label \in [Labels -> Bindings] /\ \A u \in Users : versions[u] <= cur[u]
    BY Zenon DEF VInv, VersionsKept
  <1>1. m.v # None /\ metas' = metas \ {m} /\ UNCHANGED <<cur, news>> BY Zenon DEF Pictures!MetaArrives
  <1>2. m.l \in Labels /\ m.u \in Users /\ m.v \in 0 .. cur[m.u] BY <1>0, <1>1, Zenon DEF Load
  <1>3. \A u \in Users : cur[u] \in Nat /\ cur[u] <= cur'[u] /\ versions[u] \in Nat BY <1>0, <1>1
  <1>4. CASE label[m.l].uid # m.u \/ m.v < versions[m.u]
    <2>1. UNCHANGED <<label, images, versions>> BY <1>4, Zenon DEF Pictures!MetaArrives
    <2>2. VersionsKept' BY <1>0, <1>1, <1>3, <2>1, VersionsKeptOn, Zenon
    <2>3. ASSUME NEW l \in Labels, NEW u \in Users, label'[l].uid = u, ~label'[l].failed, Told(u)' PROVE Follows(l, u)'
      <3>1. Follows(l, u) BY <1>1, <2>1, <2>3, Zenon DEF VInv, LabelFollows, Told
      <3>2. ASSUME m.l = l, m.u = u PROVE m.v # cur[u]
        <4>1. m.v < versions[u] BY <1>4, <2>1, <2>3, <3>2, Zenon
        <4>2. versions[u] <= cur[u] /\ versions[u] \in Nat /\ cur[u] \in Nat /\ m.v \in 0 .. cur[u]
          BY <1>0, <1>2, <1>3, <3>2, Zenon
        <4> QED BY <4>1, <4>2
      <3>3. Asks(l, u) => Asks(l, u)' BY <1>1, <3>2, Zenon DEF Asks
      <3>4. Fetches(l, u) => Fetches(l, u)' BY <1>1, <2>1, Zenon DEF Fetches
      <3>5. Right(l, u) => Right(l, u)' BY <1>1, <2>1, Zenon DEF Right
      <3> QED BY <1>1, <2>1, <3>1, <3>3, <3>4, <3>5, Zenon DEF Follows
    <2> QED BY <2>2, <2>3, Zenon DEF VInv, LabelFollows
  <1>5. CASE ~(label[m.l].uid # m.u \/ m.v < versions[m.u])
    <2>1. /\ label[m.l].uid = m.u /\ versions' = [versions EXCEPT ![m.u] = m.v]
          /\ \/ m.v = 0 /\ UNCHANGED <<label, images>>
             \/ m.v # 0 /\ label' = Pictures!Shown(m.l, m.u, m.v) /\ UNCHANGED images
             \/ m.v # 0 /\ images' = images \cup {m} /\ UNCHANGED label
      BY <1>5, Zenon DEF Pictures!MetaArrives
    <2>2. \A u \in Users : versions'[u] = IF u = m.u THEN m.v ELSE versions[u] BY <1>0, <2>1, Zenon
    <2>3. m.v \in Nat /\ m.v <= cur[m.u] /\ versions[m.u] <= m.v /\ (m.v # 0 => m.v \in 1 .. cur[m.u])
      BY <1>2, <1>3, <1>5
    <2>4. m.v # 0 => Image(m) BY <1>0, <2>3, Zenon DEF Image
    <2>5. versions' \in [Users -> Nat] /\ \A u \in Users : versions'[u] <= cur'[u]
      BY <1>0, <1>1, <2>1, <2>2, <2>3, Zenon
    <2>6. /\ label' \in [Labels -> Bindings] /\ \A l \in Labels : label'[l] = label[l] \/ Picture(l)'
          /\ \A l \in Labels : l # m.l => label'[l] = label[l]
          /\ label'[m.l].uid = m.u /\ label'[m.l].failed = label[m.l].failed
      BY <1>0, <1>1, <2>1, <2>4, PictureShown, Zenon
    <2>7. VersionsKept'
      <3>1. \A x \in images' : x \in images \/ Image(x)'
        <4>1. m.v # 0 => Image(m)' BY <1>1, <2>4, Zenon DEF Image, Load
        <4> QED BY <2>1, <4>1, Zenon
      <3>2. \A x \in metas' : x \in metas BY <1>1, Zenon
      <3>3. cur' \in [Users -> 0 .. MaxVersion] /\ \A f \in news' : f \in news BY <1>0, <1>1, Zenon
      <3> QED BY <1>0, <1>3, <2>5, <2>6, <3>1, <3>2, <3>3, VersionsKeptOn, ZenonT(60)
    <2>8. ASSUME NEW l \in Labels, NEW u \in Users, label'[l].uid = u, ~label'[l].failed, Told(u)' PROVE Follows(l, u)'
      <3>0. label[l].uid = u /\ ~label[l].failed /\ Told(u) BY <1>1, <2>1, <2>6, <2>8, Zenon DEF Told
      <3>1. Follows(l, u) BY <3>0, Zenon DEF VInv, LabelFollows
      <3>2. versions[u] = cur[u] => versions'[u] = cur'[u]
        <4>1. versions[u] \in Nat /\ cur[u] \in Nat BY <1>3
        <4>2. CASE u = m.u
          <5>1. versions[u] = cur[u] => m.v = cur[u] BY <2>3, <4>1, <4>2
          <5> QED BY <1>1, <2>2, <4>2, <5>1, Zenon
        <4>3. CASE u # m.u BY <1>1, <2>2, <4>3, Zenon
        <4> QED BY <4>2, <4>3
      <3>3. CASE m.l = l /\ m.v = cur[u]
        <4>0. m.u = u BY <2>1, <3>0, <3>3
        <4>1. versions'[u] = cur'[u] BY <1>1, <2>2, <3>3, <4>0, Zenon
        <4>2. CASE m.v = 0
          <5>1. Picture(l) /\ cur[u] = 0 /\ label[l].uid # None
            BY <3>0, <3>3, <4>2, Zenon DEF VInv, VersionsKept, Pictures!LabelConstants
          <5>2. 1 .. cur[u] = {} BY <5>1
          <5>3. label[l].pic = None BY <3>0, <5>1, <5>2, Zenon DEF Picture
          <5>4. Right(l, u)' BY <1>1, <2>1, <4>2, <5>1, <5>3, ZenonT(60) DEF Right
          <5> QED BY <4>1, <5>4, Zenon DEF Follows
        <4>3. CASE m.v # 0 /\ label' = Pictures!Shown(m.l, m.u, m.v)
          <5>1. label'[l].pic = <<u, m.v>> BY <1>1, <2>1, <2>4, <3>3, <4>0, <4>3, PictureShown, ZenonT(60)
          <5>2. Right(l, u)' BY <1>1, <3>3, <4>3, <5>1, ZenonT(60) DEF Right
          <5> QED BY <4>1, <5>2, Zenon DEF Follows
        <4>4. CASE m.v # 0 /\ images' = images \cup {m}
          <5>1. Fetches(l, u)' BY <1>1, <3>3, <4>0, <4>4, ZenonT(60) DEF Fetches
          <5> QED BY <4>1, <5>1, Zenon DEF Follows
        <4> QED BY <2>1, <4>2, <4>3, <4>4, Zenon
      <3>4. CASE ~(m.l = l /\ m.v = cur[u])
        <4>1. Asks(l, u) => Asks(l, u)' BY <1>1, <3>4, Zenon DEF Asks
        <4>2. Fetches(l, u) => Fetches(l, u)' BY <1>1, <2>1, Zenon DEF Fetches
        <4>3. versions[u] = cur[u] => label'[l] = label[l]
          <5>1. CASE l # m.l BY <2>6, <5>1, Zenon
          <5>2. CASE l = m.l
            <6>1. u = m.u /\ m.v # cur[u] BY <2>1, <3>0, <3>4, <5>2, SMTT(60)
            <6>2. versions[u] # cur[u] BY <1>3, <2>3, <6>1
            <6> QED BY <6>2
          <5> QED BY <5>1, <5>2
        <4>4. versions[u] = cur[u] /\ Right(l, u) => Right(l, u)' BY <1>1, <4>3, Zenon DEF Right
        <4> QED BY <3>1, <3>2, <4>1, <4>2, <4>4, ZenonT(60) DEF Follows
      <3> QED BY <3>3, <3>4
    <2> QED BY <2>7, <2>8, Zenon DEF VInv, LabelFollows
  <1> QED BY <1>4, <1>5

\* An image arrives.
LEMMA ImageStep ==
  ASSUME Pictures!LabelConstants, VInv, NEW m \in images, Pictures!ImageArrives(m) PROVE VInv'
  <1>0. /\ VersionsKept /\ Image(m) /\ cur \in [Users -> 0 .. MaxVersion] /\ versions \in [Users -> Nat]
        /\ label \in [Labels -> Bindings] /\ \A u \in Users : versions[u] <= cur[u]
    BY Zenon DEF VInv, VersionsKept
  <1>1. images' = images \ {m} /\ UNCHANGED <<metas, versions, cur, news>> BY Zenon DEF Pictures!ImageArrives
  <1>2. m.l \in Labels /\ m.u \in Users /\ m.v \in 1 .. cur[m.u] BY <1>0, Zenon DEF Image, Load
  <1>3. \A u \in Users : cur[u] \in Nat /\ cur[u] <= cur'[u] /\ versions[u] \in Nat BY <1>0, <1>1
  <1>4. \/ (label[m.l].uid # m.u \/ m.v < versions[m.u]) /\ UNCHANGED label
        \/ /\ label[m.l].uid = m.u /\ ~(m.v < versions[m.u]) /\ label' = Pictures!Shown(m.l, m.u, m.v)
           /\ label'[m.l].pic = <<m.u, m.v>>
    BY <1>0, <1>1, PictureShown, Zenon DEF Pictures!ImageArrives
  <1>5. /\ label' \in [Labels -> Bindings] /\ \A l \in Labels : label'[l] = label[l] \/ Picture(l)'
        /\ \A l \in Labels : l # m.l => label'[l] = label[l]
        /\ label'[m.l].uid = label[m.l].uid /\ label'[m.l].failed = label[m.l].failed
    BY <1>0, <1>1, <1>4, PictureShown, Zenon
  <1>6. VersionsKept'
    <2>1. \A x \in images' : x \in images BY <1>1, Zenon
    <2> QED BY <1>0, <1>1, <1>3, <1>5, <2>1, VersionsKeptOn, ZenonT(60)
  <1>7. ASSUME NEW l \in Labels, NEW u \in Users, label'[l].uid = u, ~label'[l].failed, Told(u)' PROVE Follows(l, u)'
    <2>0. label[l].uid = u /\ ~label[l].failed /\ Told(u) BY <1>1, <1>5, <1>7, Zenon DEF Told
    <2>1. Follows(l, u) BY <2>0, Zenon DEF VInv, LabelFollows
    <2>2. Asks(l, u) => Asks(l, u)' BY <1>1, Zenon DEF Asks
    <2>3. ASSUME versions[u] = cur[u], Fetches(l, u) \/ Right(l, u) PROVE Fetches(l, u)' \/ Right(l, u)'
      <3>1. CASE l # m.l
        <4>1. Fetches(l, u) => Fetches(l, u)' BY <1>1, <3>1, Zenon DEF Fetches
        <4>2. Right(l, u) => Right(l, u)' BY <1>1, <1>5, <3>1, Zenon DEF Right
        <4> QED BY <2>3, <4>1, <4>2, Zenon
      <3>2. CASE l = m.l /\ (label[m.l].uid # m.u \/ m.v < versions[m.u]) /\ UNCHANGED label
        <4>1. ~(m.u = u /\ m.v = cur[u])
          <5>1. m.u = u /\ m.v = cur[u] => cur[u] < cur[u] BY <2>0, <2>3, <3>2, Zenon
          <5> QED BY <1>3, <5>1
        <4>2. Fetches(l, u) => Fetches(l, u)' BY <1>1, <4>1, Zenon DEF Fetches
        <4>3. Right(l, u) => Right(l, u)' BY <1>1, <3>2, Zenon DEF Right
        <4> QED BY <2>3, <4>2, <4>3, ZenonT(60)
      <3>3. CASE l = m.l /\ label'[m.l].pic = <<m.u, m.v>> /\ label[m.l].uid = m.u /\ ~(m.v < versions[m.u])
        <4>1. m.u = u BY <2>0, <3>3, SMTT(60)
        <4>2. m.v = cur[u] /\ cur[u] # 0 BY <1>2, <1>3, <2>3, <3>3, <4>1, SMTT(60)
        <4>3. Right(l, u)' BY <1>1, <3>3, <4>1, <4>2, ZenonT(60) DEF Right
        <4> QED BY <4>3
      <3> QED BY <1>4, <3>1, <3>2, <3>3, ZenonT(60)
    <2> QED BY <1>1, <2>1, <2>2, <2>3, ZenonT(60) DEF Follows
  <1> QED BY <1>6, <1>7, Zenon DEF VInv, LabelFollows

\* A request fails, and its label with it unless it is bound to another user.
LEMMA FailStep ==
  ASSUME VInv, NEW m \in metas \cup images, Pictures!LoadFails(m) PROVE VInv'
  <1> DEFINE s == [label[m.l] EXCEPT !.failed = @ \/ label[m.l].uid = m.u]
  <1>0. /\ VersionsKept /\ cur \in [Users -> 0 .. MaxVersion] /\ label \in [Labels -> Bindings] /\ m.l \in Labels
    BY Zenon DEF VInv, VersionsKept, Image, Load
  <1>1. /\ metas' = metas \ {m} /\ images' = images \ {m} /\ UNCHANGED <<versions, cur, news>>
        /\ label' = [label EXCEPT ![m.l] = s]
    BY Zenon DEF Pictures!LoadFails
  <1>2. label[m.l] \in Bindings BY <1>0, Zenon
  <1>3. s \in Bindings /\ s.uid = label[m.l].uid /\ s.pic = label[m.l].pic BY <1>2, Zenon DEF Bindings
  <1>4. s.failed = (label[m.l].failed \/ label[m.l].uid = m.u) BY <1>2, Zenon DEF Bindings
  <1> HIDE DEF s
  <1>5. label' \in [Labels -> Bindings] /\ \A l \in Labels : label'[l] = IF l = m.l THEN s ELSE label[l]
    BY <1>0, <1>1, <1>3, Zenon
  <1>6. VersionsKept'
    <2>1. \A u \in Users : cur[u] <= cur'[u]
      <3>1. \A u \in Users : cur[u] \in Nat BY <1>0
      <3> QED BY <1>1, <3>1
    <2>2. \A l \in Labels : Picture(l)'
      <3>1. \A l \in Labels : label'[l].uid = label[l].uid /\ label'[l].pic = label[l].pic BY <1>3, <1>5, Zenon
      <3>2. \A l \in Labels : Picture(l) BY <1>0, Zenon DEF VersionsKept
      <3> QED BY <1>1, <3>1, <3>2, ZenonT(60) DEF Picture
    <2>3. versions' \in [Users -> Nat] /\ \A u \in Users : versions'[u] <= cur'[u] BY <1>0, <1>1, Zenon DEF VersionsKept
    <2>4. (\A x \in metas' : x \in metas) /\ \A x \in images' : x \in images BY <1>1, Zenon
    <2> QED BY <1>0, <1>1, <1>5, <2>1, <2>2, <2>3, <2>4, VersionsKeptOn, ZenonT(60)
  <1>7. ASSUME NEW l \in Labels, NEW u \in Users, label'[l].uid = u, ~label'[l].failed, Told(u)' PROVE Follows(l, u)'
    <2>1. /\ label[l].uid = u /\ ~label[l].failed /\ Told(u) /\ label'[l].pic = label[l].pic
          /\ ~(m.l = l /\ m.u = u)
      BY <1>1, <1>3, <1>4, <1>5, <1>7, ZenonT(60) DEF Told
    <2>2. Follows(l, u) BY <2>1, Zenon DEF VInv, LabelFollows
    <2>3. /\ \A x \in metas : x.l = l /\ x.u = u => x \in metas'
          /\ \A x \in images : x.l = l /\ x.u = u => x \in images'
      BY <1>1, <2>1, Zenon
    <2> QED BY <1>1, <2>1, <2>2, <2>3, FollowsOn, ZenonT(60)
  <1> QED BY <1>6, <1>7, Zenon DEF VInv, LabelFollows

\* Labels without a user, as at the start and after a logout.
LEMMA Unloaded ==
  ASSUME Pictures!LabelConstants, NEW S,
         S = [l \in Labels |-> Pictures!Unbound]
  PROVE  S \in [Labels -> Bindings] /\ \A l \in Labels : S[l].uid = None
  <1>1. Pictures!Unbound \in Bindings /\ Pictures!Unbound.uid = None BY Zenon DEF Pictures!Unbound, Bindings
  <1> QED BY <1>1, Zenon

\* Init satisfies the invariant.
LEMMA LabelsStart ==
  ASSUME Pictures!LabelConstants, Pictures!Init PROVE VInv
  <1>1. /\ metas = {} /\ images = {} /\ news = {} /\ versions = [u \in Users |-> 0] /\ cur = [u \in Users |-> 0]
        /\ label = [l \in Labels |-> Pictures!Unbound]
    BY Zenon DEF Pictures!Init
  <1>2. label \in [Labels -> Bindings] /\ \A l \in Labels : label[l].uid = None BY <1>1, Unloaded, Zenon
  <1>3. cur \in [Users -> 0 .. MaxVersion] /\ versions \in [Users -> Nat] /\ \A u \in Users : versions[u] <= cur[u]
    BY <1>1 DEF Pictures!LabelConstants
  <1>4. VersionsKept BY <1>1, <1>2, <1>3, Zenon DEF VersionsKept, Picture
  <1>5. \A l \in Labels : LabelFollows(l) BY <1>2, Zenon DEF LabelFollows, Pictures!LabelConstants
  <1> QED BY <1>4, <1>5, Zenon DEF VInv

\* resetAccount drops the labels and everything under way.
LEMMA LogoutStep ==
  ASSUME Pictures!LabelConstants, VInv, Pictures!Logout PROVE VInv'
  <1>1. /\ metas' = {} /\ images' = {} /\ news' = {} /\ versions' = [u \in Users |-> 0] /\ UNCHANGED cur
        /\ label' = [l \in Labels |-> Pictures!Unbound]
    BY Zenon DEF Pictures!Logout
  <1>2. label' \in [Labels -> Bindings] /\ \A l \in Labels : label'[l].uid = None BY <1>1, Unloaded, Zenon
  <1>3. cur \in [Users -> 0 .. MaxVersion] BY Zenon DEF VInv, VersionsKept
  <1>4. cur' \in [Users -> 0 .. MaxVersion] /\ versions' \in [Users -> Nat] /\ \A u \in Users : versions'[u] <= cur'[u]
    BY <1>1, <1>3
  <1>5. VersionsKept' BY <1>1, <1>2, <1>4, Zenon DEF VersionsKept, Picture
  <1>6. \A l \in Labels : LabelFollows(l)' BY <1>2, Zenon DEF LabelFollows, Pictures!LabelConstants
  <1> QED BY <1>5, <1>6, Zenon DEF VInv

\* A step that changes nothing the labels depend on.
LEMMA LabelsUnchanged ==
  ASSUME VInv, UNCHANGED <<label, metas, images, versions, cur, news>> PROVE VInv'
  <1>1. VersionsKept' BY Zenon DEF VInv, VersionsKept, Load, Image, News, Picture
  <1>2. \A l \in Labels : LabelFollows(l)' BY ZenonT(60) DEF VInv, LabelFollows, Told, Follows, Asks, Fetches, Right
  <1> QED BY <1>1, <1>2, Zenon DEF VInv

\* LabelIsUpToDate: once nothing is under way, a label shows the avatar its user
\* has now, although notifications overtake each other and labels are bound to
\* other users while their requests are answered.
THEOREM LabelUpToDate ==
  ASSUME Pictures!LabelConstants PROVE Pictures!Spec => []Pictures!LabelIsUpToDate
  <1>1. Pictures!Init => VInv BY LabelsStart, Zenon
  <1>2. VInv /\ [Pictures!Next]_Pictures!vars => VInv'
    <2> SUFFICES ASSUME VInv, [Pictures!Next]_Pictures!vars PROVE VInv' OBVIOUS
    <2>1. CASE \/ \E l \in Labels, u \in Users : Pictures!Bind(l, u)
               \/ \E f \in news : Pictures!Changed(f)
               \/ Pictures!EditDone
      BY <2>1, LoadSteps, Zenon
    <2>2. CASE \E m \in metas : Pictures!ServeMeta(m) \/ Pictures!MetaArrives(m) BY <2>2, ServeStep, MetaStep, Zenon
    <2>3. CASE \E m \in images : Pictures!ImageArrives(m) BY <2>3, ImageStep, Zenon
    <2>4. CASE \E m \in metas \cup images : Pictures!LoadFails(m) BY <2>4, FailStep, Zenon
    <2>5. CASE \E u \in Users : Pictures!OtherChange(u) BY <2>5, ReplacedStep, Zenon DEF Pictures!OtherChange
    <2>6. CASE Pictures!EditPut
      <3>1. UNCHANGED <<label, metas, images, versions>> /\ (Pictures!Replaced(Me) \/ UNCHANGED <<cur, news>>)
        BY <2>6, Zenon DEF Pictures!EditPut
      <3>2. Me \in Users BY Zenon DEF Pictures!LabelConstants
      <3> QED BY <3>1, <3>2, ReplacedStep, LabelsUnchanged, Zenon
    <2>7. CASE Pictures!EditRead \/ UNCHANGED Pictures!vars
      BY <2>7, LabelsUnchanged, Zenon DEF Pictures!EditRead, Pictures!vars
    <2>8. CASE Pictures!Logout BY <2>8, LogoutStep, Zenon
    <2> QED BY <2>1, <2>2, <2>3, <2>4, <2>5, <2>6, <2>7, <2>8, ZenonT(60) DEF Pictures!Next
  <1>3. ASSUME VInv PROVE Pictures!LabelIsUpToDate
    <2> SUFFICES ASSUME NEW l \in Labels, NEW u, u = label[l].uid, u # None, ~label[l].failed, Pictures!Loads(l) = {},
                        ~ \E v \in 1 .. MaxVersion : <<u, v>> \in news
                 PROVE  label[l].pic = (IF cur[u] = 0 THEN None ELSE <<u, cur[u]>>)
      BY Zenon DEF Pictures!LabelIsUpToDate
    <2>1. u \in Users BY <1>3, Zenon DEF VInv, VersionsKept, Bindings
    <2>2. Follows(l, u) BY <1>3, <2>1, Zenon DEF VInv, LabelFollows, Told
    <2>3. ~Asks(l, u) /\ ~Fetches(l, u) BY Zenon DEF Asks, Fetches, Pictures!Loads
    <2> QED BY <2>2, <2>3, Zenon DEF Follows, Right
  <1> QED BY <1>1, <1>2, <1>3, PTL DEF Pictures!Spec

-----------------------------------------------------------------------------
(* The requests both managers are built on: ResourceHttp, with constants    *)
(* and variables of its own but for the bound on faults.                    *)

CONSTANTS Accounts, Requests, Sessions, Ids, MaxRetry, MaxWaiting, MaxLogins

VARIABLES gen, uid, token, renewing, reqId, pause, waiting, ctl, link, asks, answers, keys, owner

Http == INSTANCE ResourceHttp

\* Every request has its control object.
Controlled == DOMAIN ctl = Requests /\ \A r \in Requests : {"at", "gen", "cancelled"} \subseteq DOMAIN ctl[r]

\* A step that gives one request a new control: its callback runs only if it
\* is of this login and not cancelled.
LEMMA ControlSet ==
  ASSUME Controlled, NEW r \in Requests, NEW c, ctl' = [ctl EXCEPT ![r] = c], {"at", "gen", "cancelled"} \subseteq DOMAIN c,
         c.at = "called" => c.gen = gen /\ ~c.cancelled
  PROVE  Controlled' /\ Http!CallsCurrent
  <1>1. DOMAIN ctl' = Requests /\ \A q \in Requests : ctl'[q] = IF q = r THEN c ELSE ctl[q]
    BY Zenon DEF Controlled
  <1>2. Controlled' BY <1>1, ZenonT(60) DEF Controlled
  <1>3. Http!CallsCurrent BY <1>1, Zenon DEF Http!CallsCurrent
  <1> QED BY <1>2, <1>3, ZenonT(60)

\* A step on all the requests of which none is called.
LEMMA ControlsKept ==
  ASSUME Controlled, DOMAIN ctl' = Requests,
         \A r \in Requests : {"at", "gen", "cancelled"} \subseteq DOMAIN ctl'[r] /\ (ctl'[r].at = "called" => ctl[r].at = "called")
  PROVE  Controlled' /\ Http!CallsCurrent
  BY Zenon DEF Controlled, Http!CallsCurrent

\* One control with another progress.
LEMMA AtChanged ==
  ASSUME NEW c, {"at", "gen", "cancelled"} \subseteq DOMAIN c, NEW at
  PROVE  LET d == [c EXCEPT !.at = at] IN
         {"at", "gen", "cancelled"} \subseteq DOMAIN d /\ d.at = at /\ d.gen = c.gen /\ d.cancelled = c.cancelled
  OBVIOUS

\* request(), for a new request and for a retry: its control is current.
LEMMA Admitted ==
  ASSUME Controlled, NEW r \in Requests, NEW c, {"at", "gen", "cancelled"} \subseteq DOMAIN c, c.gen = gen, ~c.cancelled,
         Http!Admit(r, c)
  PROVE  Controlled' /\ Http!CallsCurrent
  <1>1. \/ \E at \in {"called", "waiting"} : ctl' = [ctl EXCEPT ![r] = [c EXCEPT !.at = at]]
        \/ ctl' = [ctl EXCEPT ![r] = [c EXCEPT !.at = "sent", !.cred = token]]
    BY Zenon DEF Http!Admit
  <1>2. ASSUME NEW at, ctl' = [ctl EXCEPT ![r] = [c EXCEPT !.at = at]] PROVE Controlled' /\ Http!CallsCurrent
    <2> DEFINE d == [c EXCEPT !.at = at]
    <2>1. {"at", "gen", "cancelled"} \subseteq DOMAIN d /\ d.gen = gen /\ ~d.cancelled BY AtChanged, Zenon
    <2> HIDE DEF d
    <2> QED BY <1>2, <2>1, ControlSet, ZenonT(60) DEF d
  <1>3. CASE ctl' = [ctl EXCEPT ![r] = [c EXCEPT !.at = "sent", !.cred = token]]
    <2> DEFINE d == [c EXCEPT !.at = "sent", !.cred = token]
    <2>1. {"at", "gen", "cancelled"} \subseteq DOMAIN d /\ d.gen = gen /\ ~d.cancelled OBVIOUS
    <2> HIDE DEF d
    <2> QED BY <1>3, <2>1, ControlSet, ZenonT(60) DEF d
  <1> QED BY <1>1, <1>2, <1>3, ZenonT(60)

\* The handlers of one request.
LEMMA RequestSteps ==
  ASSUME Controlled, NEW r \in Requests,
         Http!Request(r) \/ Http!Cancel(r) \/ Http!Finished(r) \/ Http!BackoffOver(r)
  PROVE  Controlled' /\ Http!CallsCurrent
  <1>0. {"at", "gen", "cancelled"} \subseteq DOMAIN ctl[r] BY Zenon DEF Controlled
  <1>1. CASE Http!Request(r)
    <2> DEFINE c == [Http!Fresh EXCEPT !.gen = gen, !.uid = uid]
    <2>1. {"at", "gen", "cancelled"} \subseteq DOMAIN c /\ c.gen = gen /\ ~c.cancelled BY Zenon DEF Http!Fresh
    <2>2. Http!Admit(r, c) BY <1>1, ZenonT(60) DEF Http!Request
    <2> HIDE DEF c
    <2> QED BY <2>1, <2>2, Admitted, ZenonT(60)
  <1>2. CASE Http!Cancel(r)
    <2> DEFINE at == IF ctl[r].at = "sent" THEN "aborted" ELSE ctl[r].at
               d == [ctl[r] EXCEPT !.cancelled = TRUE, !.at = at]
    <2>1. at # "called" BY <1>2, ZenonT(60) DEF Http!Cancel
    <2>2. ctl' = [ctl EXCEPT ![r] = d] BY <1>2, ZenonT(60) DEF Http!Cancel
    <2> HIDE DEF at
    <2>3. {"at", "gen", "cancelled"} \subseteq DOMAIN d /\ d.at # "called" BY <1>0, <2>1, ZenonT(60)
    <2> HIDE DEF d
    <2> QED BY <2>2, <2>3, ControlSet, ZenonT(60)
  <1>3. CASE Http!Finished(r)
    <2>1. PICK at \in {"dropped", "backoff", "called"} :
            ctl' = [ctl EXCEPT ![r].at = at] /\ (at = "called" => Http!Current(r))
      BY <1>3, ZenonT(60) DEF Http!Finished
    <2> DEFINE d == [ctl[r] EXCEPT !.at = at]
    <2>2. {"at", "gen", "cancelled"} \subseteq DOMAIN d /\ d.at = at /\ d.gen = ctl[r].gen /\ d.cancelled = ctl[r].cancelled
      BY <1>0, AtChanged, ZenonT(60)
    <2>3. ctl' = [ctl EXCEPT ![r] = d] BY <2>1, Zenon
    <2> HIDE DEF d
    <2> QED BY <2>1, <2>2, <2>3, ControlSet, ZenonT(60) DEF Http!Current
  <1>4. CASE Http!BackoffOver(r)
    <2>1. CASE Http!Current(r)
      <3> DEFINE c == [ctl[r] EXCEPT !.retry = @ + 1]
      <3>1. {"at", "gen", "cancelled"} \subseteq DOMAIN c /\ c.gen = gen /\ ~c.cancelled BY <1>0, <2>1, ZenonT(60) DEF Http!Current
      <3>2. Http!Admit(r, c) BY <1>4, <2>1, ZenonT(60) DEF Http!BackoffOver
      <3> HIDE DEF c
      <3> QED BY <3>1, <3>2, Admitted, ZenonT(60)
    <2>2. CASE ~Http!Current(r)
      <3> DEFINE d == [ctl[r] EXCEPT !.at = "dropped"]
      <3>1. {"at", "gen", "cancelled"} \subseteq DOMAIN d /\ d.at = "dropped" BY <1>0, AtChanged, ZenonT(60)
      <3>2. ctl' = [ctl EXCEPT ![r] = d] BY <1>4, <2>2, ZenonT(60) DEF Http!BackoffOver
      <3> HIDE DEF d
      <3> QED BY <3>1, <3>2, ControlSet, ZenonT(60)
    <2> QED BY <2>1, <2>2, ZenonT(60)
  <1> QED BY <1>1, <1>2, <1>3, <1>4, ZenonT(60)

\* reset() and the answer with a credential go over all requests.
LEMMA SweepingSteps ==
  ASSUME Controlled, (\E a : Http!Reset(a)) \/ ctl' = Http!Released(link.s)
  PROVE  Controlled' /\ Http!CallsCurrent
  <1>1. CASE \E a : Http!Reset(a)
    <2> DEFINE at(r) == CASE ctl[r].at = "sent" -> "aborted" [] ctl[r].at = "waiting" -> "dropped" [] OTHER -> ctl[r].at
               d(r) == [ctl[r] EXCEPT !.at = at(r)]
    <2>1. ctl' = [r \in Requests |-> d(r)] BY <1>1, ZenonT(60) DEF Http!Reset
    <2>2. ASSUME NEW r \in Requests
          PROVE  {"at", "gen", "cancelled"} \subseteq DOMAIN d(r) /\ (d(r).at = "called" => ctl[r].at = "called")
      <3>1. at(r) = "called" => ctl[r].at = "called" OBVIOUS
      <3> HIDE DEF at
      <3>2. {"at", "gen", "cancelled"} \subseteq DOMAIN d(r) /\ d(r).at = at(r) BY AtChanged, ZenonT(60) DEF Controlled
      <3> QED BY <3>1, <3>2, ZenonT(60)
    <2> HIDE DEF d
    <2> QED BY <2>1, <2>2, ControlsKept, ZenonT(60)
  <1>2. CASE ctl' = Http!Released(link.s)
    <2> DEFINE d(r) == CASE ctl[r].at # "waiting" -> ctl[r]
                         [] ctl[r].cancelled -> [ctl[r] EXCEPT !.at = "dropped"]
                         [] OTHER -> [ctl[r] EXCEPT !.at = "sent", !.cred = link.s]
    <2>1. ctl' = [r \in Requests |-> d(r)] BY <1>2, ZenonT(60) DEF Http!Released
    <2>2. ASSUME NEW r \in Requests
          PROVE  {"at", "gen", "cancelled"} \subseteq DOMAIN d(r) /\ (d(r).at = "called" => ctl[r].at = "called")
      <3>0. {"at", "gen", "cancelled"} \subseteq DOMAIN ctl[r] BY Zenon DEF Controlled
      <3>1. d(r) \in {ctl[r], [ctl[r] EXCEPT !.at = "dropped"], [ctl[r] EXCEPT !.at = "sent", !.cred = link.s]} OBVIOUS
      <3> HIDE DEF d
      <3>2. CASE d(r) = ctl[r] BY <3>0, <3>2, ZenonT(60)
      <3>3. CASE d(r) = [ctl[r] EXCEPT !.at = "dropped"] BY <3>0, <3>3, AtChanged, ZenonT(60)
      <3>4. CASE d(r) = [ctl[r] EXCEPT !.at = "sent", !.cred = link.s] BY <3>0, <3>4, ZenonT(60)
      <3> QED BY <3>1, <3>2, <3>3, <3>4, ZenonT(60)
    <2> HIDE DEF d
    <2> QED BY <2>1, <2>2, ControlsKept, ZenonT(60)
  <1> QED BY <1>1, <1>2, ZenonT(60)

\* ResourceHttp::request, its finished and its retry handler: no callback runs
\* after its login is over or after it was cancelled.
THEOREM CallbackCurrent == Http!Spec => Http!CallbackIsCurrent
  <1>1. Http!Init => Controlled
    BY DEF Http!Init, Http!Fresh, Controlled
  <1>2. Controlled /\ [Http!Next]_(Http!vars) => Controlled' /\ [Http!CallsCurrent]_(Http!vars)
    <2> SUFFICES ASSUME Controlled, [Http!Next]_(Http!vars) PROVE Controlled' /\ Http!CallsCurrent OBVIOUS
    <2>1. ASSUME UNCHANGED ctl PROVE Controlled' /\ Http!CallsCurrent
      BY <2>1, ZenonT(60) DEF Controlled, Http!CallsCurrent
    <2>2. \/ UNCHANGED ctl \/ (\E a : Http!Reset(a)) \/ ctl' = Http!Released(link.s)
          \/ \E r \in Requests : Http!Request(r) \/ Http!Cancel(r) \/ Http!Finished(r) \/ Http!BackoffOver(r)
      BY Zenon DEF Http!Next, Http!vars, Http!http, Http!Configure, Http!Authenticate, Http!Drop, Http!Logout, Http!Periodic,
           Http!RenewTimeout, Http!PauseOver, Http!TakeAnswer, Http!Issue, Http!Revoke, Http!ExpireKey
    <2> QED BY <2>1, <2>2, RequestSteps, SweepingSteps, ZenonT(60)
  <1> QED BY <1>1, <1>2, PTL DEF Http!Spec, Http!CallbackIsCurrent
=============================================================================
