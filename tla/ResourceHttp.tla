---------------------------- MODULE ResourceHttp ----------------------------
(***************************************************************************)
(* The client's access to the resource server: one credential per login,   *)
(* obtained over the chat connection, and HTTP requests that wait for it,  *)
(* are retried after a pause, are cancelled, and must not outlive their    *)
(* login.                                                                  *)
(*                                                                         *)
(* A credential is bound to the chat session that issued it: the resource  *)
(* server accepts it while the session's key exists.  So a credential is   *)
(* its session, and owner gives the account it speaks for.                 *)
(***************************************************************************)
EXTENDS Naturals, Sequences, FiniteSets

CONSTANTS
  Accounts,
  Requests,    \* calls of request(), each with the control object it returns
  Sessions,    \* chat sessions, used in order
  Ids,         \* request_id values of a renewal; reused once out of sight
  MaxRetry,    \* retries of a request (5)
  MaxWaiting,  \* requests that wait for a credential (64)
  MaxLogins,   \* bound: logins
  MaxFaults,   \* bound: lost frames, failed renewals, renewals answered late
  None

HttpConstants ==
  /\ Sessions \subseteq Nat \ {0} /\ MaxRetry \in Nat /\ MaxWaiting \in Nat
  /\ MaxLogins \in Nat /\ MaxFaults \in Nat /\ None \notin Accounts \cup Ids \cup Sessions

VARIABLES
  gen,       \* generation_
  uid,       \* uid_
  token,     \* token_: the session whose credential is held, or None
  renewing,  \* renewing_
  reqId,     \* renewalRequestId_
  pause,     \* the 3 s timer after an empty answer is running
  waiting,   \* waiting_
  ctl,       \* RequestControl and progress of each request
  link,      \* the chat session s of this login (0: not authenticated yet), and whether it is up
  asks,      \* frames of each session that the chat node has yet to handle
  answers,   \* ID_RESOURCE_TOKEN_RSP frames on their way to the client
  keys,      \* sessions whose resource_session key exists in Redis
  owner,     \* the account of each session
  faults

http == <<gen, uid, token, renewing, reqId, pause, waiting, ctl>>
node == <<link, asks, answers, keys, owner>>
vars == <<http, node, faults>>

Fresh == [at |-> "new", uid |-> None, gen |-> 0, cancelled |-> FALSE, retry |-> 0, cred |-> None]

Init ==
  /\ gen = 0 /\ uid = None /\ token = None /\ renewing = FALSE /\ reqId = None /\ pause = FALSE
  /\ waiting = << >> /\ ctl = [r \in Requests |-> Fresh]
  /\ link = [s |-> 0, up |-> FALSE] /\ asks = [s \in Sessions |-> << >>] /\ answers = << >>
  /\ keys = {} /\ owner = [s \in Sessions |-> None] /\ faults = 0

Fault == faults < MaxFaults /\ faults' = faults + 1
InFlight == {answers[i].id : i \in DOMAIN answers}
            \cup UNION {{asks[s][i] : i \in DOMAIN asks[s]} : s \in Sessions}

-----------------------------------------------------------------------------
(* renew, reset, configure and logout                                      *)

\* The renewal started by renew() when none is under way; the frame is lost
\* when the connection is down.
StartRenewal ==
  \E id \in Ids \ ({reqId} \cup InFlight) :
    /\ renewing' = TRUE /\ reqId' = id
    /\ \/ link.up /\ asks' = [asks EXCEPT ![link.s] = Append(@, id)] /\ UNCHANGED faults
       \/ ~link.up /\ UNCHANGED <<asks, faults>>
       \/ link.up /\ Fault /\ UNCHANGED asks

renew ==
  IF renewing \/ uid = None THEN UNCHANGED <<renewing, reqId, asks, faults>> ELSE StartRenewal

\* reset() followed by the assignment of uid_; aborted replies finish later.
Reset(a) ==
  /\ gen < MaxLogins /\ gen' = gen + 1 /\ uid' = a
  /\ token' = None /\ renewing' = FALSE /\ reqId' = None /\ pause' = FALSE /\ waiting' = << >>
  /\ ctl' = [r \in Requests |-> [ctl[r] EXCEPT
       !.at = CASE @ = "sent" -> "aborted" [] @ = "waiting" -> "dropped" [] OTHER -> @]]

\* The gate's login answer: configure(), then a new chat connection.
Configure(a) ==
  /\ ~link.up /\ Reset(a)
  /\ link' = [s |-> 0, up |-> FALSE] /\ answers' = << >>
  /\ UNCHANGED <<asks, keys, owner, faults>>

\* The chat node accepts the login.  A connection restored on the way there is
\* reported as connected, which starts a renewal.
Authenticate(restored) ==
  /\ uid # None /\ link.s = 0
  /\ \E s \in Sessions :
       /\ owner[s] = None /\ \A q \in Sessions : q < s => owner[q] # None
       /\ link' = [s |-> s, up |-> TRUE] /\ owner' = [owner EXCEPT ![s] = uid]
       /\ IF restored /\ ~renewing
            THEN \E id \in Ids \ ({reqId} \cup InFlight) :
                   renewing' = TRUE /\ reqId' = id /\ asks' = [asks EXCEPT ![s] = <<id>>]
            ELSE UNCHANGED <<renewing, reqId, asks>>
  /\ UNCHANGED <<gen, uid, token, pause, waiting, ctl, answers, keys, faults>>

\* The frames of session s that still reach the node when its connection ends.
Delivered(s, frames) == \E n \in 0 .. Len(frames) : asks' = [asks EXCEPT ![s] = SubSeq(frames, 1, n)]

Drop ==
  /\ link.up /\ link' = [link EXCEPT !.up = FALSE] /\ answers' = << >>
  /\ Delivered(link.s, asks[link.s])
  /\ UNCHANGED <<http, keys, owner, faults>>

\* The revocation frame is written just before the socket is aborted.
Logout ==
  /\ uid # None /\ Reset(None) /\ answers' = << >>
  /\ IF link.up THEN Delivered(link.s, Append(asks[link.s], "revoke")) ELSE UNCHANGED asks
  /\ link' = [s |-> 0, up |-> FALSE]
  /\ UNCHANGED <<keys, owner, faults>>

-----------------------------------------------------------------------------
(* requests                                                                *)

\* request(): c is the control as it enters the call.
Admit(r, c) ==
  \/ /\ uid = None
     /\ ctl' = [ctl EXCEPT ![r] = [c EXCEPT !.at = "called"]]
     /\ UNCHANGED <<waiting, renewing, reqId, asks, faults>>
  \/ /\ uid # None /\ token = None /\ Len(waiting) >= MaxWaiting
     /\ ctl' = [ctl EXCEPT ![r] = [c EXCEPT !.at = "called"]]
     /\ UNCHANGED <<waiting, renewing, reqId, asks, faults>>
  \/ /\ uid # None /\ token = None /\ Len(waiting) < MaxWaiting
     /\ ctl' = [ctl EXCEPT ![r] = [c EXCEPT !.at = "waiting"]]
     /\ waiting' = Append(waiting, r) /\ renew
  \/ /\ uid # None /\ token # None
     /\ ctl' = [ctl EXCEPT ![r] = [c EXCEPT !.at = "sent", !.cred = token]]
     /\ UNCHANGED <<waiting, renewing, reqId, asks, faults>>

Request(r) ==
  /\ ctl[r].at = "new"
  /\ Admit(r, [Fresh EXCEPT !.gen = gen, !.uid = uid])
  /\ UNCHANGED <<gen, uid, token, pause, link, answers, keys, owner>>

Cancel(r) ==
  /\ ctl[r].at \in {"waiting", "sent", "backoff"} /\ ~ctl[r].cancelled
  /\ ctl' = [ctl EXCEPT ![r].cancelled = TRUE, ![r].at = IF @ = "sent" THEN "aborted" ELSE @]
  /\ UNCHANGED <<gen, uid, token, renewing, reqId, pause, waiting, node, faults>>

Current(r) == ctl[r].gen = gen /\ ~ctl[r].cancelled

\* What the reply can be: authenticate() refuses a credential whose session has
\* no key; 429, 503 and a broken transfer ("again") can happen to any request.
Codes(r) ==
  IF ctl[r].at = "aborted" THEN {"again"}
  ELSE {"again", IF ctl[r].cred \in keys THEN "final" ELSE "401"}

FinishedLate(r) ==  \* only the account is compared, not the cancellation
  /\ ctl[r].at \in {"sent", "aborted"}
  /\ \E code \in Codes(r) :
       IF ctl[r].gen # gen
         THEN ctl' = [ctl EXCEPT ![r].at = "dropped"] /\ UNCHANGED token
       ELSE IF code # "final" /\ ctl[r].retry < MaxRetry
         THEN /\ ctl' = [ctl EXCEPT ![r].at = "backoff"]
              /\ token' = IF code = "401" THEN None ELSE token
       ELSE ctl' = [ctl EXCEPT ![r].at = "called"] /\ UNCHANGED token
  /\ UNCHANGED <<gen, uid, renewing, reqId, pause, waiting, node, faults>>

\* QNetworkReply::finished.
Finished(r) ==
  /\ ctl[r].at \in {"sent", "aborted"}
  /\ \E code \in Codes(r) :
       IF ~Current(r) THEN ctl' = [ctl EXCEPT ![r].at = "dropped"] /\ UNCHANGED token
       ELSE IF code # "final" /\ ctl[r].retry < MaxRetry
         THEN /\ ctl' = [ctl EXCEPT ![r].at = "backoff"]
              /\ token' = IF code = "401" THEN None ELSE token
       ELSE ctl' = [ctl EXCEPT ![r].at = "called"] /\ UNCHANGED token
  /\ UNCHANGED <<gen, uid, renewing, reqId, pause, waiting, node, faults>>

\* The delayed retry.
BackoffOver(r) ==
  /\ ctl[r].at = "backoff"
  /\ IF Current(r)
       THEN Admit(r, [ctl[r] EXCEPT !.retry = @ + 1])
       ELSE ctl' = [ctl EXCEPT ![r].at = "dropped"] /\ UNCHANGED <<waiting, renewing, reqId, asks, faults>>
  /\ UNCHANGED <<gen, uid, token, pause, link, answers, keys, owner>>

-----------------------------------------------------------------------------
(* renewal                                                                 *)

\* The 12-minute timer, running since the last credential.
Periodic ==
  /\ token # None /\ ~renewing /\ renew
  /\ UNCHANGED <<gen, uid, token, pause, waiting, ctl, link, answers, keys, owner>>

\* 10 s without the answer: the renewal is replaced by another.
RenewTimeout ==
  /\ renewing
  /\ \E id \in Ids \ ({reqId} \cup InFlight) :
       /\ reqId' = id
       /\ IF reqId \in InFlight THEN Fault ELSE UNCHANGED faults
       /\ asks' = IF link.up THEN [asks EXCEPT ![link.s] = Append(@, id)] ELSE asks
  /\ UNCHANGED <<gen, uid, token, renewing, pause, waiting, ctl, link, answers, keys, owner>>

\* 3 s after an empty answer.
PauseOver ==
  /\ pause /\ pause' = FALSE /\ renew
  /\ UNCHANGED <<gen, uid, token, waiting, ctl, link, answers, keys, owner>>

Released(s) ==
  [r \in Requests |-> CASE ctl[r].at # "waiting" -> ctl[r]
                        [] ctl[r].cancelled -> [ctl[r] EXCEPT !.at = "dropped"]
                        [] OTHER -> [ctl[r] EXCEPT !.at = "sent", !.cred = s]]

TakeAnswerNoFlush ==  \* the credential is stored, the queue is left alone
  /\ answers # << >> /\ answers' = Tail(answers)
  /\ LET v == Head(answers) IN
     IF ~renewing \/ v.uid # uid \/ v.id # reqId THEN UNCHANGED <<token, renewing, pause>>
     ELSE /\ renewing' = FALSE
          /\ token' = (IF v.ok THEN link.s ELSE None) /\ pause' = (~v.ok \/ pause)
  /\ UNCHANGED <<gen, uid, reqId, waiting, ctl, link, asks, keys, owner, faults>>

\* sig_resource_token.
TakeAnswer ==
  /\ answers # << >> /\ answers' = Tail(answers)
  /\ LET v == Head(answers) IN
     IF ~renewing \/ v.uid # uid \/ v.id # reqId
       THEN UNCHANGED <<token, renewing, pause, waiting, ctl>>
     ELSE IF ~v.ok
       THEN /\ renewing' = FALSE /\ token' = None /\ pause' = TRUE /\ UNCHANGED <<waiting, ctl>>
     ELSE /\ renewing' = FALSE /\ token' = link.s
          /\ ctl' = Released(link.s) /\ waiting' = << >> /\ UNCHANGED pause
  /\ UNCHANGED <<gen, uid, reqId, link, asks, keys, owner, faults>>

-----------------------------------------------------------------------------
(* the chat node and Redis                                                 *)

\* ID_RESOURCE_TOKEN_REQ: the session key, then the token; either write can
\* fail, and the answer then carries no token.
Issue(s) ==
  /\ asks[s] # << >> /\ Head(asks[s]) # "revoke" /\ asks' = [asks EXCEPT ![s] = Tail(@)]
  /\ \E ok \in BOOLEAN, stored \in BOOLEAN :
       /\ ok => stored
       /\ IF ok THEN UNCHANGED faults ELSE Fault
       /\ keys' = IF stored THEN keys \cup {s} ELSE keys
       /\ answers' = IF link.up /\ link.s = s
                       THEN Append(answers, [uid |-> owner[s], id |-> Head(asks[s]), ok |-> ok]) ELSE answers
  /\ UNCHANGED <<http, link, owner>>

\* ID_RESOURCE_REVOKE_REQ: the key is deleted and the session closed.
Revoke(s) ==
  /\ asks[s] # << >> /\ Head(asks[s]) = "revoke"
  /\ keys' = keys \ {s} /\ asks' = [asks EXCEPT ![s] = << >>]
  /\ UNCHANGED <<http, link, answers, owner, faults>>

\* The key's 900 s pass, or another device's login deletes it (NotifyOffline).
ExpireKey(s) ==
  /\ s \in keys /\ Fault /\ keys' = keys \ {s}
  /\ UNCHANGED <<http, link, asks, answers, owner>>

-----------------------------------------------------------------------------
Next ==
  \/ \E a \in Accounts : Configure(a)
  \/ \E b \in BOOLEAN : Authenticate(b)
  \/ Drop \/ Logout \/ Periodic \/ RenewTimeout \/ PauseOver \/ TakeAnswer
  \/ \E r \in Requests : Request(r) \/ Cancel(r) \/ Finished(r) \/ BackoffOver(r)
  \/ \E s \in Sessions : Issue(s) \/ Revoke(s) \/ ExpireKey(s)

Spec == Init /\ [][Next]_vars

\* Timers fire, the node handles the frames it received, replies and HTTP
\* exchanges end (setTransferTimeout).
Fairness ==
  /\ WF_vars(RenewTimeout) /\ WF_vars(PauseOver) /\ WF_vars(TakeAnswer)
  /\ \A s \in Sessions : WF_vars(Issue(s))
  /\ \A r \in Requests : WF_vars(Finished(r)) /\ WF_vars(BackoffOver(r))

FairSpec == Spec /\ Fairness

-----------------------------------------------------------------------------
\* The state of ResourceHttp and of the credentials in Redis is well formed.
TypeOK ==
  /\ gen \in 0 .. MaxLogins /\ uid \in Accounts \cup {None} /\ token \in Sessions \cup {None}
  /\ renewing \in BOOLEAN /\ reqId \in Ids \cup {None} /\ pause \in BOOLEAN
  /\ waiting \in Seq(Requests) /\ Len(waiting) <= MaxWaiting
  /\ ctl \in [Requests -> [at : {"new", "waiting", "sent", "aborted", "backoff", "called", "dropped"},
                           uid : Accounts \cup {None}, gen : 0 .. MaxLogins, cancelled : BOOLEAN,
                           retry : 0 .. MaxRetry, cred : Sessions \cup {None}]]
  /\ link \in [s : Sessions \cup {0}, up : BOOLEAN] /\ (link.up => link.s # 0)
  /\ asks \in [Sessions -> Seq(Ids \cup {"revoke"})]
  /\ answers \in Seq([uid : Accounts, id : Ids, ok : BOOLEAN])
  /\ keys \subseteq Sessions /\ owner \in [Sessions -> Accounts \cup {None}]
  /\ faults \in 0 .. MaxFaults

\* A callback runs only for a request of the current login that has not been
\* cancelled (request() and its finished and retry handlers).
CallsCurrent ==
  \A r \in Requests : ctl[r].at # "called" /\ ctl'[r].at = "called" => ctl'[r].gen = gen /\ ~ctl'[r].cancelled
CallbackIsCurrent == [][CallsCurrent]_vars

\* A request ends: its callback runs or it is dropped, unless the chat
\* connection, the only source of credentials, is lost for good or absent.
RequestEnds ==
  \A r \in Requests :
    (ctl[r].at \in {"waiting", "sent", "backoff"}) ~> (ctl[r].at \in {"called", "dropped"} \/ ~link.up)
=============================================================================
