----------------------------- MODULE MCClient -----------------------------
(***************************************************************************)
(* The Qt client for TLC: login, the chat window's lists, the HTTP client  *)
(* of the resource server, file transfers, avatar labels and the message   *)
(* store.  In the models they share no state, so a behaviour of the run is *)
(* one of the part chosen at the start.  File transfers have their own     *)
(* variables and two parts; v1, v2, ... hold the variables of the others,  *)
(* in the order of the INSTANCE, and 0 where there are fewer.              *)
(***************************************************************************)
EXTENDS FileTransfer, Integers, TLC

CONSTANTS x1, x2, ann, bob, i1, i2

VARIABLES chosen,
  v1, v2, v3, v4, v5, v6, v7, v8, v9, v10, v11, v12, v13, v14, v15, v16, v17, v18, v19, v20, v21, v22, v23, v24

slots ==
  <<v1, v2, v3, v4, v5, v6, v7, v8, v9, v10, v11, v12, v13, v14, v15, v16, v17, v18, v19, v20, v21, v22, v23, v24>>
from11 == <<v11, v12, v13, v14>>
from16 == <<v16, v17, v18, v19, v20, v21, v22, v23, v24>>

Login == INSTANCE ClientLogin WITH
  N <- 2, MaxTickets <- 2, MaxConns <- 8, MaxFaults <- 2,
  up <- v1, health <- v2, cursor <- v3, ticket <- v4, issued <- v5, sess <- v6, tasks <- v7, used <- v8, page <-
  v9, button <- v10, posts <- v11, token <- v12, sock <- v13, conn <- v14, host <- v15, payload <- v16, emitted
  <- v17, authed <- v18, reconn <- v19, manual <- v20, retry <- v21, reply <- v22, told <- v23, faults <- v24

\* Two friends at login, one to a page, and a third accepted during the
\* session; a new account.
Lists == INSTANCE ChatWorkspace WITH
  Users <- {1, 2, 3}, Friends <- <<1, 2>>, PageSize <- 1, MaxHistory <- 1, MaxTexts <- 1,
  friends <- v1, hist <- v2, chatLoaded <- v3, contactLoaded <- v4, rows <- v5, added <- v6, contacts <- v7, cur
  <- v8, page <- v9, shown <- v10, texts <- v11, loading <- v12, chatWait <- v13, contactWait <- v14, state <-
  v15, mode <- v16, text <- v17, pending <- v18, stack <- v19, last <- v20, info <- v21, app <- v22
NewAccount == INSTANCE ChatWorkspace WITH
  Users <- {1, 2}, Friends <- << >>, PageSize <- 1, MaxHistory <- 1, MaxTexts <- 1,
  friends <- v1, hist <- v2, chatLoaded <- v3, contactLoaded <- v4, rows <- v5, added <- v6, contacts <- v7, cur
  <- v8, page <- v9, shown <- v10, texts <- v11, loading <- v12, chatWait <- v13, contactWait <- v14, state <-
  v15, mode <- v16, text <- v17, pending <- v18, stack <- v19, last <- v20, info <- v21, app <- v22

Http == INSTANCE ResourceHttp WITH
  Accounts <- {ann, bob}, Requests <- {x1, x2}, Sessions <- {1, 2}, Ids <- {i1, i2},
  MaxRetry <- 1, MaxWaiting <- 1, MaxLogins <- 2, MaxFaults <- 1,
  gen <- v1, uid <- v2, token <- v3, renewing <- v4, reqId <- v5, pause <- v6, waiting <- v7, ctl <- v8, link <-
  v9, asks <- v10, answers <- v11, keys <- v12, owner <- v13, faults <- v14

\* A file that is sent while another is offered (MCPeer and the constants of
\* the run); two downloads of one friend, whose sizes are multiples of 32 KiB.
MCPeer == "l1" :> "q" @@ "i1" :> "p" @@ "i2" :> "p"
OneOffer == "i2" \notin avail /\ down.path # "y"
Load == INSTANCE FileTransfer WITH Locals <- {}, Peer <- [f \in Incoming |-> MCPeer[f]], LastFull <- TRUE

\* A label that changes its user; one whose user changes the avatar twice.
Reused == INSTANCE AvatarLabels WITH
  Labels <- {"l1"}, Users <- {"u1", "u2"}, Me <- "u1", MaxVersion <- 1, MaxLoads <- 2, MaxFaults <- 1,
  label <- v1, metas <- v2, images <- v3, versions <- v4, cache <- v5, cur <- v6, news <- v7, edit <- v8, faults
  <- v9
Changing == INSTANCE AvatarLabels WITH
  Labels <- {"l1"}, Users <- {"u1"}, Me <- "u1", MaxVersion <- 2, MaxLoads <- 3, MaxFaults <- 1,
  label <- v1, metas <- v2, images <- v3, versions <- v4, cache <- v5, cur <- v6, news <- v7, edit <- v8, faults
  <- v9

\* Notifications of two messages and of one beside an own message.
Store == INSTANCE Outbox WITH
  Out <- {x1}, In <- {"a", "b", "c"}, Peer <- x1 :> "f" @@ "a" :> "f" @@ "b" :> "f" @@ "c" :> "g",
  Batches <- {<<"a", "b">>, <<"c">>}, Limit <- 1, HistoryLimit <- 2, Base <- 1, MaxDelay <- 2, MaxShift <- 1,
  MaxAttempts <- 2, MaxFaults <- 2,
  rows <- v1, state <- v2, wait <- v3, attempts <- v4, tx <- v5, up <- v6, online <- v7, clogged <- v8, fire <-
  v9, sent <- v10, since <- v11, view <- v12, faults <- v13

ASSUME
  /\ Login!LoginConstants /\ Http!HttpConstants /\ Load!TransferConstants
  /\ Reused!LabelConstants /\ Changing!LabelConstants /\ Store!OutboxConstants

Off16 == v16 = 0 /\ v17 = 0 /\ v18 = 0 /\ v19 = 0 /\ v20 = 0 /\ v21 = 0 /\ v22 = 0 /\ v23 = 0 /\ v24 = 0
Off15 == v15 = 0 /\ Off16
Off11 == v11 = 0 /\ v12 = 0 /\ v13 = 0 /\ v14 = 0 /\ Off15
Off ==
  /\ v1 = 0 /\ v2 = 0 /\ v3 = 0 /\ v4 = 0 /\ v5 = 0 /\ v6 = 0 /\ v7 = 0 /\ v8 = 0 /\ v9 = 0 /\ v10 = 0 /\ Off11

PartInit ==
  \/ chosen = "load" /\ Load!Init /\ Off
  \/ /\ Init
     /\ \/ chosen = "send" /\ Off
        \/ chosen = "login" /\ Login!Init
        \/ chosen = "lists" /\ Lists!Init /\ v23 = 0 /\ v24 = 0
        \/ chosen = "new account" /\ NewAccount!Init /\ v23 = 0 /\ v24 = 0
        \/ chosen = "http" /\ Http!Init /\ Off15
        \/ chosen = "reused" /\ Reused!Init /\ v10 = 0 /\ Off11
        \/ chosen = "changing" /\ Changing!Init /\ v10 = 0 /\ Off11
        \/ chosen = "store" /\ Store!Init /\ v14 = 0 /\ Off15

PartNext ==
  \/ chosen = "send" /\ Next /\ UNCHANGED <<chosen, slots>> /\ OneOffer'
  \/ chosen = "load" /\ Load!Next /\ UNCHANGED <<chosen, slots>>
  \/ chosen = "login" /\ Login!Next /\ UNCHANGED <<chosen, vars>>
  \/ chosen = "lists" /\ Lists!Next /\ UNCHANGED <<chosen, v23, v24, vars>>
  \/ chosen = "new account" /\ NewAccount!Next /\ UNCHANGED <<chosen, v23, v24, vars>>
  \/ chosen = "http" /\ Http!Next /\ UNCHANGED <<chosen, v15, from16, vars>>
  \/ chosen = "reused" /\ Reused!Next /\ UNCHANGED <<chosen, v10, from11, v15, from16, vars>>
  \/ chosen = "changing" /\ Changing!Next /\ UNCHANGED <<chosen, v10, from11, v15, from16, vars>>
  \/ chosen = "store" /\ Store!Next /\ UNCHANGED <<chosen, v14, v15, from16, vars>>

PartSpec == PartInit /\ [][PartNext]_<<chosen, slots, vars>>

Symmetry == Permutations({x1, x2})

\* GetDel in LoginChatCallback: a ticket authenticates one session, although
\* the client sends it again and frames are processed late.
TicketIsOneTime == chosen = "login" => Login!TicketIsOneTime

\* UserMgr, ChatDialog: paging skips nobody, also when friends are added
\* between two pages.
NobodyIsSkipped ==
  (chosen = "lists" => Lists!NobodyIsSkipped) /\ (chosen = "new account" => NewAccount!NobodyIsSkipped)

\* ResourceClient: a callback runs only for a request of the current login
\* that has not been cancelled.
CallbackIsCurrent == [][chosen = "http" => Http!CallsCurrent]_slots

\* AvatarManager: once nothing is under way a label shows the avatar its user
\* has now, in whatever order notifications and answers came and whoever it was
\* bound to before.
LabelIsUpToDate ==
  (chosen = "reused" => Reused!LabelIsUpToDate) /\ (chosen = "changing" => Changing!LabelIsUpToDate)

\* MessageStore::history: a chat shows what it will show after a restart.
RestartShowsTheSame == chosen = "store" => Store!RestartShowsTheSame
===========================================================================
