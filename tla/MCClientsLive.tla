--------------------------- MODULE MCClientsLive ---------------------------
(***************************************************************************)
(* What must eventually happen in the client, for TLC: login, friends and  *)
(* applications, HTTP requests, an upload, the outbox and the forms.  In   *)
(* the models they share no state, so a behaviour of the run is one of the *)
(* part chosen at the start; v1, v2, ... hold that part's variables, in    *)
(* the order of its INSTANCE, and 0 where it has fewer.                    *)
(***************************************************************************)
EXTENDS Integers, Sequences, FiniteSets, TLC

CONSTANTS x1, x2, ann, i1, i2, Torn, None

VARIABLES chosen,
  v1, v2, v3, v4, v5, v6, v7, v8, v9, v10, v11, v12, v13, v14, v15, v16, v17, v18, v19, v20, v21, v22, v23, v24

eight == <<v1, v2, v3, v4, v5, v6, v7, v8>>
thirteen == <<v1, v2, v3, v4, v5, v6, v7, v8, v9, v10, v11, v12, v13>>
fourteen == <<v1, v2, v3, v4, v5, v6, v7, v8, v9, v10, v11, v12, v13, v14>>
fifteen == <<v1, v2, v3, v4, v5, v6, v7, v8, v9, v10, v11, v12, v13, v14, v15>>
slots == <<fifteen, v16, v17, v18, v19, v20, v21, v22, v23, v24>>

Login == INSTANCE ClientLogin WITH
  N <- 2, MaxTickets <- 2, MaxConns <- 8, MaxFaults <- 2,
  up <- v1, health <- v2, cursor <- v3, ticket <- v4, issued <- v5, sess <- v6, tasks <- v7, used <- v8,
  page <- v9, button <- v10, posts <- v11, token <- v12, sock <- v13, conn <- v14, host <- v15, payload <- v16,
  emitted <- v17, authed <- v18, reconn <- v19, manual <- v20, retry <- v21, reply <- v22, told <- v23,
  faults <- v24

\* An application that is answered; two for a client that is shown one.
Friends == INSTANCE Friendship WITH
  Users <- {"ann", "bob"}, Nodes <- {"n1"}, SignedIn <- {"ann"}, Applied <- << <<"ann", "bob">> >>,
  Refreshing <- {"ann", "bob"}, ApplyLimit <- 2, MaxOps <- 1, MaxSessions <- 1, MaxFaults <- 1,
  apply <- v1, friend <- v2, tasks <- v3, route <- v4, at <- v5, sess <- v6, conn <- v7, inq <- v8, out <- v9,
  op <- v10, dlg <- v11, friends <- v12, applies <- v13, ids <- v14, faults <- v15
Applies == INSTANCE Friendship WITH
  Users <- {"ann", "bob", "cat"}, Nodes <- {"n1"}, SignedIn <- {"cat"},
  Applied <- << <<"ann", "cat">>, <<"bob", "cat">> >>,
  Refreshing <- {"cat"}, ApplyLimit <- 1, MaxOps <- 1, MaxSessions <- 0, MaxFaults <- 1,
  apply <- v1, friend <- v2, tasks <- v3, route <- v4, at <- v5, sess <- v6, conn <- v7, inq <- v8, out <- v9,
  op <- v10, dlg <- v11, friends <- v12, applies <- v13, ids <- v14, faults <- v15

Http == INSTANCE ResourceHttp WITH
  Accounts <- {ann}, Requests <- {x1, x2}, Sessions <- {1}, Ids <- {i1, i2},
  MaxRetry <- 1, MaxWaiting <- 2, MaxLogins <- 1, MaxFaults <- 1,
  gen <- v1, uid <- v2, token <- v3, renewing <- v4, reqId <- v5, pause <- v6, waiting <- v7, ctl <- v8,
  link <- v9, asks <- v10, answers <- v11, keys <- v12, owner <- v13, faults <- v14
Send == INSTANCE FileTransfer WITH
  Locals <- {"l1"}, Incoming <- {}, Peer <- "l1" :> "p", N <- 2, LastFull <- FALSE, Paths <- {"x"}, MaxFaults <- 3,
  up <- v1, req <- v2, ans <- v3, down <- v4, dreq <- v5, loose <- v6, avail <- v7, local <- v8, page <- v9,
  bub <- v10, part <- v11, target <- v12, srv <- v13, got <- v14, faults <- v15
Retry == INSTANCE Outbox WITH
  Out <- {x1, x2}, In <- {}, Peer <- x1 :> "f" @@ x2 :> "f", Batches <- {}, Limit <- 1, HistoryLimit <- 2,
  Base <- 1, MaxDelay <- 2, MaxShift <- 1, MaxAttempts <- 2, MaxFaults <- 2,
  rows <- v1, state <- v2, wait <- v3, attempts <- v4, tx <- v5, up <- v6, online <- v7, clogged <- v8, fire <- v9,
  sent <- v10, since <- v11, view <- v12, faults <- v13
Forms == INSTANCE AuthForms WITH
  Emails <- {<<"a", "@", "a", ".", "a", "a">>}, Mistakes <- {{}}, Countdown <- 2, Return <- 1, MaxFlight <- 2,
  page <- v1, done <- v2, timer <- v3, button <- v4, email <- v5, wrong <- v6, flight <- v7, coded <- v8

ASSUME
  /\ Login!LoginConstants /\ Friends!FriendshipConstants /\ Applies!FriendshipConstants /\ Http!HttpConstants
  /\ Send!TransferConstants /\ Retry!OutboxConstants /\ Forms!FormConstants

Off16 == v16 = 0 /\ v17 = 0 /\ v18 = 0 /\ v19 = 0 /\ v20 = 0 /\ v21 = 0 /\ v22 = 0 /\ v23 = 0 /\ v24 = 0
Off14 == v14 = 0 /\ v15 = 0 /\ Off16
Off9 == v9 = 0 /\ v10 = 0 /\ v11 = 0 /\ v12 = 0 /\ v13 = 0 /\ Off14
from16 == <<v16, v17, v18, v19, v20, v21, v22, v23, v24>>
from14 == <<v14, v15, from16>>
from9 == <<v9, v10, v11, v12, v13, from14>>

Init ==
  \/ chosen = "login" /\ Login!Init
  \/ chosen = "friends" /\ Friends!Init /\ Off16
  \/ chosen = "applies" /\ Applies!Init /\ Off16
  \/ chosen = "http" /\ Http!Init /\ v15 = 0 /\ Off16
  \/ chosen = "send" /\ Send!Init /\ Off16
  \/ chosen = "retry" /\ Retry!Init /\ Off14
  \/ chosen \in {"codes", "pages"} /\ Forms!Init /\ Off9

Next ==
  \/ chosen = "login" /\ Login!Next /\ UNCHANGED chosen
  \/ chosen = "friends" /\ Friends!Next /\ UNCHANGED <<chosen, from16>>
  \/ chosen = "applies" /\ Applies!Next /\ UNCHANGED <<chosen, from16>>
  \/ chosen = "http" /\ Http!Next /\ UNCHANGED <<chosen, v15, from16>>
  \/ chosen = "send" /\ Send!Next /\ UNCHANGED <<chosen, from16>>
  \/ chosen = "retry" /\ Retry!Next /\ UNCHANGED <<chosen, from14>>
  \/ chosen \in {"codes", "pages"} /\ Forms!Next /\ UNCHANGED <<chosen, from9>>

-----------------------------------------------------------------------------
(* The fairness of the parts, as their modules state it.                     *)

LoginFair ==
  /\ \A n \in 1 .. 2 : WF_slots(chosen = "login" /\ Login!Restart(n))
  /\ WF_slots(chosen = "login" /\ (Login!LoginAnswered \/ Login!LoginRefused))
  /\ WF_slots(chosen = "login" /\ (Login!Connected \/ Login!ConnectFails))
  /\ WF_slots(chosen = "login" /\ Login!Disconnected) /\ WF_slots(chosen = "login" /\ Login!LoginDeadline)
  /\ WF_slots(chosen = "login" /\ Login!RetryTimeout) /\ WF_slots(chosen = "login" /\ Login!LoginFailed)
  /\ WF_slots(chosen = "login" /\ (Login!LoginOk \/ Login!StoreFails))
  /\ WF_slots(chosen = "login" /\ \E k \in v7 : Login!LoginAccepted(k) \/ Login!LoginRejected(k) \/ Login!FrameLost(k))

FriendsFair ==
  /\ \A u \in {"ann", "bob"} :
       /\ WF_fifteen(chosen = "friends" /\ \E t \in v3 : t.user = u /\ (Friends!Handle(t) \/ Friends!RollBack(t)))
       /\ WF_fifteen(chosen = "friends" /\ Friends!DealMsg(u))
       /\ WF_fifteen(chosen = "friends" /\ Friends!Arrive(u))
       /\ WF_fifteen(chosen = "friends" /\ Friends!FriendTimer(u))
  /\ \A u \in {"ann", "bob", "cat"} :
       /\ WF_fifteen(chosen = "applies" /\ \E t \in v3 : t.user = u /\ (Applies!Handle(t) \/ Applies!RollBack(t)))
       /\ WF_fifteen(chosen = "applies" /\ Applies!DealMsg(u))
       /\ WF_fifteen(chosen = "applies" /\ Applies!Arrive(u))
       /\ WF_fifteen(chosen = "applies" /\ Applies!FriendTimer(u))
  /\ SF_fifteen(\/ chosen = "friends" /\ Friends!RefreshFriends("ann")
                \/ chosen = "applies" /\ Applies!RefreshFriends("cat")
                \/ chosen = "retry" /\ Retry!Tick /\ UNCHANGED <<v14, v15>>)
  /\ SF_fifteen(chosen = "friends" /\ Friends!RefreshFriends("bob"))

HttpFair ==
  /\ WF_fourteen(chosen = "http" /\ Http!RenewTimeout) /\ WF_fourteen(chosen = "http" /\ Http!PauseOver)
  /\ WF_fourteen(chosen = "http" /\ Http!TakeAnswer) /\ WF_fourteen(chosen = "http" /\ Http!Issue(1))
  /\ \A r \in {x1, x2} :
       WF_fourteen(chosen = "http" /\ Http!Finished(r)) /\ WF_fourteen(chosen = "http" /\ Http!BackoffOver(r))

SendFair ==
  /\ WF_fifteen(chosen = "send" /\ Send!Hashed) /\ WF_fifteen(chosen = "send" /\ Send!OnAnswer)
  /\ WF_fifteen(chosen = "send" /\ Send!ChunkArrives)
  /\ WF_fifteen(chosen = "send" /\ v3 = None /\ (Send!Serve \/ Send!Unserved))

RetryFair ==
  /\ WF_thirteen(chosen = "retry" /\ Retry!outbox_timer) /\ WF_thirteen(chosen = "retry" /\ Retry!saveRow)
  /\ WF_thirteen(chosen = "retry" /\ Retry!saveCommit) /\ WF_thirteen(chosen = "retry" /\ Retry!Drained)
  /\ WF_thirteen(chosen = "retry" /\ Retry!open)

Spec ==
  /\ Init /\ [][Next]_<<chosen, slots>>
  /\ LoginFair /\ FriendsFair /\ HttpFair /\ SendFair /\ RetryFair
  /\ WF_eight(chosen \in {"codes", "pages"} /\ Forms!Second)

-----------------------------------------------------------------------------
\* LoginEnds of ClientLogin, RequestEnds of ResourceHttp, UploadEnds of
\* FileTransfer, ButtonReturns and RegistrationReturns of AuthForms, each for
\* one request, file or dialog.
Waiting ==
  \/ chosen = "login" /\ v9 = "auth" /\ ~v10                                \* page, button
  \/ chosen = "http" /\ v8[x1].at \in {"waiting", "sent", "backoff"}         \* ctl
  \/ chosen = "send" /\ v1.f = "l1"                                         \* up
  \/ chosen = "codes" /\ v4["register"].on                                  \* button
  \/ chosen = "pages" /\ v3.on                                              \* timer

Served ==
  \/ chosen = "login" /\ (v10 \/ v18 \/ v9 = "chat")                  \* authed
  \/ chosen = "http" /\ (v8[x1].at \in {"called", "dropped"} \/ ~v9.up)  \* link
  \/ chosen = "send" /\ v1.f # "l1"
  \/ chosen = "codes" /\ ~v4["register"].on
  \/ chosen = "pages" /\ v1 = "login"                                       \* page

\* The user is not left waiting.  LoginDialog: a login ends with the button
\* enabled or in the chat window, whatever server fails.  ResourceHttp: a
\* request calls back or is dropped with its account.  FileTransferManager: an
\* upload ends, so that the next file can be sent.  TimerBtn and the page shown
\* after a registration come back.
UserIsAnswered == Waiting ~> Served

\* FriendsAreShown and AppliesAreShown of Friendship, PendingIsRetried of
\* Outbox, each for one friend, application or message.
Missed ==
  \/ chosen = "friends" /\ <<"ann", "bob">> \in v2               \* friend
  \/ chosen = "applies" /\ Applies!Unseen("cat", "ann")
  \/ chosen = "retry" /\ v2[x1] = "pending" /\ v11[x1] > 0       \* state, since

CaughtUp ==
  \/ chosen = "friends" /\ ("bob" \in v12["ann"] \/ v7["ann"] # "in")    \* friends, conn
  \/ chosen = "applies" /\ \/ ~Applies!Unseen("cat", "ann")
                           \/ Cardinality({i \in DOMAIN v1 : v1[i].to = "cat" /\ v1[i].status = 0}) > 1  \* apply
  \/ chosen = "retry" /\ (v11[x1] = 0 \/ v2[x1] = "accepted" \/ ~v7)  \* online

\* What a lost message left out is made up for.  The heartbeat brings friends
\* and pending applications whose notification was lost, and accepted
\* applications do not crowd out a pending one; the outbox timer sends a
\* message that was not accepted again, and no other message starves it.
LossIsMadeUp == Missed ~> CaughtUp
=============================================================================
