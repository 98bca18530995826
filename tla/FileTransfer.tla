---------------------------- MODULE FileTransfer ----------------------------
(***************************************************************************)
(* The client's FileTransferManager with the file bubbles of ChatPage: one *)
(* upload and one download at a time, each a chain of HTTP requests, kept  *)
(* going or ended by answers, timers, reconnections, the user and logout.  *)
(*                                                                         *)
(* Files are counted in chunks of ChunkBytes.  A withdrawn HTTP request    *)
(* never calls back (module ResourceHttp), but the server may still carry  *)
(* it out: such requests stay in loose.                                    *)
(***************************************************************************)
EXTENDS Naturals, Sequences, FiniteSets

CONSTANTS
  Locals,    \* files this user may send; a file stands for its localToken and its id
  Incoming,  \* files sent to this user
  Peer,      \* the conversation of each file
  N,         \* chunks of a file
  LastFull,  \* whether the size of a file is a multiple of 32 KiB
  Paths,     \* where downloads are saved
  MaxFaults, \* bound: failures, timeouts, reconnections, logouts
  Torn,      \* the bytes a failed write leaves behind
  None

Files == Locals \cup Incoming
Peers == {Peer[f] : f \in Files}

ASSUME TransferConstants ==
  /\ N \in Nat \ {0} /\ LastFull \in BOOLEAN /\ MaxFaults \in Nat /\ Locals \cap Incoming = {}
  /\ DOMAIN Peer = Files /\ None \notin Files \cup Paths \cup Peers

VARIABLES
  up,      \* upload_: the file (None: closed), hashed or not, id known or not, offset
  req,     \* uploadRequest_ in progress, or None
  ans,     \* the server's answer to it, or None
  down,    \* download_: the file (None: closed), the path, the offset
  dreq,    \* downloadRequest_ in progress
  loose,   \* requests nobody waits for that the server may still carry out
  avail,   \* available_
  local,   \* files with an entry in localPaths_
  page,    \* the conversation shown
  bub,     \* the bubble of each file on that page
  part,    \* <path>.part: its chunks
  target,  \* the saved file
  srv,     \* the server's row of each file: status and confirmed offset
  got,     \* files the server has recorded as downloaded
  faults

manager == <<up, req, ans, down, dreq, avail, local>>
vars == <<manager, loose, page, bub, part, target, srv, got, faults>>

Closed == [f |-> None, hashed |-> FALSE, known |-> FALSE, off |-> 0]
NotLoading == [f |-> None, path |-> None, off |-> 0]
Content(f) == [i \in 1 .. N |-> <<f, i>>]

Init ==
  /\ up = Closed /\ req = None /\ ans = None /\ down = NotLoading /\ dreq = FALSE /\ loose = {}
  /\ avail = {} /\ local = {} /\ page = None /\ bub = [f \in Files |-> "none"]
  /\ part = [p \in Paths |-> << >>] /\ target = [p \in Paths |-> << >>]
  /\ srv = [f \in Files |-> [st |-> IF f \in Incoming THEN "available" ELSE "none",
                             off |-> IF f \in Incoming THEN N ELSE 0]]
  /\ got = {} /\ faults = 0

Fault == faults < MaxFaults /\ faults' = faults + 1

\* A signal of the manager changes a bubble only if the page shows one.
Show(f, s) == [bub EXCEPT ![f] = IF @ = "none" THEN @ ELSE s]

-----------------------------------------------------------------------------
(* uploads                                                                 *)

\* httpJson(): the request in progress is withdrawn and replaced.
Ask(kind, f, at) ==
  /\ req' = [kind |-> kind, f |-> f, at |-> at] /\ ans' = None
  /\ loose' = loose \cup (IF req = None THEN {} ELSE {req})

\* chooseFile() and startUpload(); a second upload is refused.
StartUpload(f) ==
  /\ page = Peer[f] /\ srv[f].st = "none" /\ bub[f] = "none" /\ up.f = None
  /\ ~\E q \in loose : q.f = f
  /\ up' = [Closed EXCEPT !.f = f] /\ bub' = [bub EXCEPT ![f] = "sending"]
  /\ UNCHANGED <<req, ans, down, dreq, loose, avail, local, page, part, target, srv, got, faults>>

sendUploadInit(f, known) == IF known THEN Ask("query", f, 0) ELSE Ask("create", f, 0)

Hashed ==
  /\ up.f # None /\ ~up.hashed
  /\ up' = [up EXCEPT !.hashed = TRUE] /\ sendUploadInit(up.f, FALSE)
  /\ UNCHANGED <<down, dreq, avail, local, page, bub, part, target, srv, got, faults>>

\* Reading at offset n gives a chunk, or nothing at the end of the file.
sendNextUploadChunk(f, n) == IF n = N THEN Ask("complete", f, n) ELSE Ask("chunk", f, n)

\* The state of the upload that failUpload() and cancel() leave behind.
CloseUpload ==
  /\ up' = Closed /\ req' = None /\ ans' = None

failUpload ==
  /\ CloseUpload /\ loose' = loose \cup (IF req = None THEN {} ELSE {req})
  /\ bub' = Show(up.f, "failed")
  /\ UNCHANGED <<avail, local>>

\* The answers to the requests of an upload (handleFrame).
Registered ==
  /\ up' = [up EXCEPT !.known = TRUE, !.off = ans.off]
  /\ sendNextUploadChunk(up.f, ans.off) /\ UNCHANGED <<avail, local, bub>>

Progressed ==
  /\ up' = [up EXCEPT !.off = ans.off]
  /\ sendNextUploadChunk(up.f, ans.off) /\ UNCHANGED <<avail, local, bub>>

Finished ==
  /\ local' = local \cup {up.f} /\ avail' = avail \cup {up.f}
  /\ CloseUpload /\ UNCHANGED loose
  /\ bub' = Show(up.f, "finished")

OnAnswerAnyCode ==  \* the status code of the last request is not looked at
  /\ ans # None
  /\ \/ ans.code # 200 /\ req.kind # "complete" /\ failUpload
     \/ ans.code = 200 /\ req.kind \in {"create", "query"} /\ Registered
     \/ ans.code = 200 /\ req.kind = "chunk" /\ Progressed
     \/ req.kind = "complete" /\ Finished
  /\ UNCHANGED <<down, dreq, page, part, target, srv, got, faults>>

OnAnswerSuccessOnly ==  \* an answer of 400 and above is ignored
  /\ ans # None
  /\ \/ ans.code = 200 /\ req.kind \in {"create", "query"} /\ Registered
     \/ ans.code = 200 /\ req.kind = "chunk" /\ Progressed
     \/ ans.code = 200 /\ req.kind = "complete" /\ Finished
  /\ UNCHANGED <<down, dreq, page, part, target, srv, got, faults>>

\* The callback of httpJson().  The branch for a 409 that carries an offset is
\* left out: NeverAhead shows that no chunk is sent beyond the server's offset.
OnAnswer ==
  /\ ans # None
  /\ \/ ans.code # 200 /\ failUpload
     \/ ans.code = 200 /\ req.kind \in {"create", "query"} /\ Registered
     \/ ans.code = 200 /\ req.kind = "chunk" /\ Progressed
     \/ ans.code = 200 /\ req.kind = "complete" /\ Finished
  /\ UNCHANGED <<down, dreq, page, part, target, srv, got, faults>>

\* uploadAckTimer_: 180 s since the last request.
AckTimeout ==
  /\ up.f # None /\ up.hashed /\ Fault /\ failUpload
  /\ UNCHANGED <<down, dreq, page, part, target, srv, got>>

\* The cancel button of the bubble: the upload is closed, and deleted once its id is known.
CancelUpload(f) ==
  /\ bub[f] = "sending" /\ up.f = f
  /\ CloseUpload
  /\ loose' = loose \cup (IF req = None THEN {} ELSE {req})
                    \cup (IF up.known THEN {[kind |-> "delete", f |-> f, at |-> 0]} ELSE {})
  /\ bub' = Show(f, "failed")
  /\ UNCHANGED <<down, dreq, avail, local, page, part, target, srv, got, faults>>

-----------------------------------------------------------------------------
(* downloads                                                               *)

\* The part of an earlier attempt is continued if its size can be a whole
\* number of 32 KiB records of this file.
Kept(p) ==
  LET whole == \A i \in DOMAIN part[p] : part[p][i] # Torn
      fits  == Len(part[p]) < N \/ (Len(part[p]) = N /\ LastFull)
  IN IF whole /\ fits THEN part[p] ELSE << >>

Sha256Matches(f, data) == data = Content(f)

\* handleFrame with "complete", data being what <path>.part holds: verify,
\* replace the target, confirm.
CompleteSavesFirst(f, p, data) ==  \* renamed, then verified
  /\ down' = NotLoading /\ dreq' = FALSE /\ UNCHANGED <<got, faults>>
  /\ part' = [part EXCEPT ![p] = << >>] /\ target' = [target EXCEPT ![p] = data]
  /\ IF Sha256Matches(f, data)
       THEN /\ loose' = loose \cup {[kind |-> "downloaded", f |-> f, at |-> 0]}
            /\ local' = local \cup {f} /\ bub' = Show(f, "finished")
       ELSE bub' = Show(f, "failed") /\ UNCHANGED <<local, loose>>

Complete(f, p, data) ==
  /\ down' = NotLoading /\ dreq' = FALSE /\ UNCHANGED got
  /\ \/ /\ ~Sha256Matches(f, data)
        /\ part' = [part EXCEPT ![p] = data] /\ bub' = Show(f, "failed")
        /\ UNCHANGED <<target, local, loose, faults>>
     \/ /\ Sha256Matches(f, data)
        /\ part' = [part EXCEPT ![p] = << >>] /\ target' = [target EXCEPT ![p] = data]
        /\ loose' = loose \cup {[kind |-> "downloaded", f |-> f, at |-> 0]}
        /\ local' = local \cup {f} /\ bub' = Show(f, "finished") /\ UNCHANGED faults
     \/ /\ Sha256Matches(f, data) /\ Fault  \* the old target is gone, the rename fails
        /\ part' = [part EXCEPT ![p] = data] /\ target' = [target EXCEPT ![p] = << >>]
        /\ bub' = Show(f, "failed") /\ UNCHANGED <<local, loose>>

\* requestDownloadChunk() at offset n with data in the part file.
Fetch(f, p, n, data) ==
  IF n = N THEN Complete(f, p, data)
  ELSE /\ down' = [f |-> f, path |-> p, off |-> n] /\ dreq' = TRUE
       /\ part' = [part EXCEPT ![p] = data]
       /\ UNCHANGED <<target, local, loose, got, faults>>

\* The download button of a bubble; refused while a download is open or when
\* the part file cannot be opened.
StartDownload(f, p) ==
  /\ page = Peer[f] /\ bub[f] \in {"offer", "failed", "loading"}
  /\ \/ /\ IF down.f # None THEN UNCHANGED faults ELSE Fault
        /\ bub' = Show(f, "failed") /\ UNCHANGED <<down, dreq, part, target, local, loose, got>>
     \/ /\ down.f = None /\ Fetch(f, p, Len(Kept(p)), Kept(p))
        /\ Len(Kept(p)) < N => UNCHANGED bub
  /\ UNCHANGED <<up, req, ans, avail, page, srv>>

\* 206 with the bytes of the range; then the next range or the end.
ChunkArrives ==
  /\ dreq /\ srv[down.f].st = "available"
  /\ LET data == Append(part[down.path], <<down.f, down.off + 1>>) IN
     /\ Fetch(down.f, down.path, down.off + 1, data)
     /\ down.off + 1 < N => bub' = Show(down.f, "loading")
  /\ UNCHANGED <<up, req, ans, avail, page, srv>>

\* Any other answer closes the download and keeps the part.
ChunkRefused ==
  /\ dreq /\ Fault
  /\ down' = NotLoading /\ dreq' = FALSE /\ bub' = Show(down.f, "failed")
  /\ UNCHANGED <<up, req, ans, loose, avail, local, page, part, target, srv, got>>

\* A failed write, some of it done perhaps, reports the failure and returns
\* with the download open.
WriteFails ==
  /\ dreq /\ Fault
  /\ dreq' = FALSE /\ bub' = Show(down.f, "failed")
  /\ part' \in {part, [part EXCEPT ![down.path] = Append(@, Torn)]}
  /\ UNCHANGED <<up, req, ans, down, loose, avail, local, page, target, srv, got>>

-----------------------------------------------------------------------------
(* connection, notifications, conversations                                *)

\* resumeActiveTransfers(), when the chat connection is authenticated again.
ResumeUpload ==
  /\ up.f # None /\ up.hashed /\ Fault /\ sendUploadInit(up.f, up.known)
  /\ UNCHANGED <<up, down, dreq, avail, local, page, bub, part, target, srv, got>>

ResumeDownload ==
  /\ down.f # None /\ Fault /\ dreq' = TRUE
  /\ UNCHANGED <<up, req, ans, down, loose, avail, local, page, bub, part, target, srv, got>>

\* A bubble made from metadata (appendFileBubble).
Bubble(f) == IF f \in local \/ f \in Locals THEN "finished" ELSE "offer"

\* sig_file_available, at publication and at every login.
Notified(f) ==
  /\ srv[f].st = "available" /\ f \notin avail /\ avail' = avail \cup {f}
  /\ bub' = [bub EXCEPT ![f] = IF page = Peer[f] /\ @ = "none" THEN Bubble(f) ELSE @]
  /\ UNCHANGED <<up, req, ans, down, dreq, loose, local, page, part, target, srv, got, faults>>

\* SetUserInfo(): the bubbles are rebuilt from available_.
OpenPage(p) ==
  /\ page' = p
  /\ bub' = [f \in Files |-> IF f \in avail /\ Peer[f] = p THEN Bubble(f) ELSE "none"]
  /\ UNCHANGED <<manager, loose, part, target, srv, got, faults>>

\* resetAccount; the chat window is closed.
Logout ==
  /\ Fault
  /\ CloseUpload /\ down' = NotLoading /\ dreq' = FALSE
  /\ loose' = loose \cup (IF req = None THEN {} ELSE {req})
  /\ avail' = {} /\ local' = {} /\ page' = None /\ bub' = [f \in Files |-> "none"]
  /\ UNCHANGED <<part, target, srv, got>>

-----------------------------------------------------------------------------
(* the resource server, as the client sees it                              *)

Row(q) == srv[q.f]
\* The row after request q, and the answer: 200 with the offset, or a refusal.
Applied(q) ==
  CASE q.kind = "create" /\ Row(q).st = "none" -> [st |-> "uploading", off |-> 0]
    [] q.kind = "chunk" /\ Row(q).st = "uploading" /\ q.at = Row(q).off -> [Row(q) EXCEPT !.off = @ + 1]
    [] q.kind = "complete" /\ Row(q).st = "uploading" /\ Row(q).off = N -> [Row(q) EXCEPT !.st = "available"]
    [] q.kind = "delete" /\ Row(q).st = "uploading" -> [Row(q) EXCEPT !.st = "cancelled"]
    [] OTHER -> Row(q)
Accepted(q) ==
  CASE q.kind \in {"create", "query"} -> Applied(q).st \in {"uploading", "available"}
    [] q.kind = "chunk" -> Row(q).st = "uploading" /\ q.at <= Row(q).off
    [] q.kind = "complete" -> Applied(q).st = "available"

\* The request is carried out; ResourceHttp may repeat it when the answer is lost.
Serve ==
  /\ req # None
  /\ srv' = [srv EXCEPT ![req.f] = Applied(req)]
  /\ ans' = [code |-> IF Accepted(req) THEN 200 ELSE 409, off |-> Applied(req).off]
  /\ UNCHANGED <<up, req, down, dreq, loose, avail, local, page, bub, part, target, got, faults>>

\* The retries are used up, carried out or not; or quota and rate limits refuse.
Unserved ==
  /\ req # None /\ Fault /\ ans' = [code |-> 503, off |-> 0]
  /\ UNCHANGED <<up, req, down, dreq, loose, avail, local, page, bub, part, target, srv, got>>

ServeLoose(q) ==
  /\ q \in loose /\ loose' = loose \ {q}
  /\ srv' = [srv EXCEPT ![q.f] = Applied(q)]
  /\ got' = IF q.kind = "downloaded" THEN got \cup {q.f} ELSE got
  /\ UNCHANGED <<manager, page, bub, part, target, faults>>

-----------------------------------------------------------------------------
Next ==
  \/ \E f \in Locals : StartUpload(f) \/ CancelUpload(f)
  \/ Hashed \/ OnAnswer \/ AckTimeout
  \/ \E f \in Incoming, p \in Paths : StartDownload(f, p)
  \/ ChunkArrives \/ ChunkRefused \/ WriteFails
  \/ ResumeUpload \/ ResumeDownload \/ Logout
  \/ \E f \in Files : Notified(f)
  \/ \E p \in Peers : OpenPage(p)
  \/ Serve \/ Unserved \/ \E q \in loose : ServeLoose(q)

Spec == Init /\ [][Next]_vars

\* The hash timer runs, HTTP exchanges end, and their callbacks run.
Fairness ==
  /\ WF_vars(Hashed) /\ WF_vars(OnAnswer) /\ WF_vars(ChunkArrives)
  /\ WF_vars(ans = None /\ (Serve \/ Unserved))

FairSpec == Spec /\ Fairness

-----------------------------------------------------------------------------
\* The manager, the page, the disk and the server's rows are well formed.
TypeOK ==
  /\ up \in [f : Locals \cup {None}, hashed : BOOLEAN, known : BOOLEAN, off : 0 .. N]
  /\ req = None \/ (req.kind \in {"create", "query", "chunk", "complete"} /\ req.f = up.f)
  /\ ans = None \/ req # None
  /\ down \in [f : Incoming \cup {None}, path : Paths \cup {None}, off : 0 .. N]
  /\ dreq \in BOOLEAN /\ (dreq => down.f # None)
  /\ avail \subseteq Files /\ local \subseteq Files /\ page \in Peers \cup {None}
  /\ bub \in [Files -> {"none", "sending", "offer", "loading", "finished", "failed"}]
  /\ \A p \in Paths : Len(part[p]) <= N + MaxFaults
  /\ srv \in [Files -> [st : {"none", "uploading", "available", "cancelled"}, off : 0 .. N]]
  /\ got \subseteq Incoming /\ faults \in 0 .. MaxFaults

\* What the user is told of a file they sent is true: a file listed as sent is
\* published (ID_UPLOAD_FILE_FINISH_RSP, sig_file_available).
SentIsPublished == \A f \in avail : srv[f].st = "available"

\* No chunk goes out beyond the offset the server has confirmed, nor did one that
\* was withdrawn and is still on its way, although answers get lost, the timer
\* and reconnections interrupt uploads and requests are repeated: the branch of
\* httpJson for a 409 with an offset is never taken.
NeverAhead ==
  /\ req # None /\ req.kind = "chunk" => req.at <= srv[req.f].off
  /\ \A q \in loose : q.kind = "chunk" => q.at <= srv[q.f].off

\* A saved file is whole and is what some sender sent, although parts of
\* several downloads to one path are continued (the sha256 test of handleFrame).
SavedIsWhole == \A p \in Paths : target[p] = << >> \/ \E f \in Incoming : target[p] = Content(f)

\* An upload ends: every request is answered or given up by uploadAckTimer_.
UploadEnds == \A f \in Locals : (up.f = f) ~> (up.f # f)

\* "After switching conversations the bubble of a sent attachment can still be
\* restored" (FileTransferManager::handleFrame): an open conversation shows
\* every file that available_ holds for it.
SentBubbleIsRestored == \A f \in avail : Peer[f] = page => bub[f] # "none"
=============================================================================
