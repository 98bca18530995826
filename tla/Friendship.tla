------------------------------ MODULE Friendship ------------------------------
(***************************************************************************)
(* Friend applications: AddFriendCallback, AuthFriendCallback and the      *)
(* friend part of LoginChatCallback and HeartbeatCallback on the chat      *)
(* nodes, the tables friend_apply and friend, the calls between nodes, and *)
(* on the client TcpMgr's friend operation, the dialogs that start one and *)
(* the lists of UserMgr.  A session runs one request at a time; a request  *)
(* of a session that has been replaced may still be running.               *)
(***************************************************************************)
EXTENDS Integers, Sequences, FiniteSets

CONSTANTS
  Users, Nodes,
  SignedIn,     \* users whose session exists at the start; the others log in
  Applied,      \* applications made before the start: <<from, to>>
  Refreshing,   \* users whose heartbeat timer fires in the instance
  ApplyLimit,   \* LIMIT of GetApplyList (50)
  MaxOps,       \* bound: friend operations submitted
  MaxSessions,  \* bound: logins of a user after the start
  MaxFaults,    \* bound: storage errors, failed calls, full queues, lost connections
  None

FriendshipConstants ==
  /\ {ApplyLimit, MaxOps, MaxSessions, MaxFaults} \subseteq Nat
  /\ SignedIn \cup Refreshing \subseteq Users /\ Applied \in Seq(Users \X Users)
  /\ None \notin Nodes \cup [kind : STRING, peer : Users, id : Nat]

VARIABLES
  apply,    \* table friend_apply in id order: from, to and status (1: accepted)
  friend,   \* committed rows of table friend: <<self, friend>>
  tasks,    \* requests being handled, with their step
  route,    \* Redis USERIPPREFIX: the node a user last logged in to
  at,       \* UserMgr: the node that has the user's session
  sess,     \* number of the user's latest session
  conn,     \* the client: "off", "login" or "in"
  inq,      \* frames on their way to the node
  out,      \* frames on their way to the client
  op,       \* TcpMgr: _friend_request, _friend_peer, _friend_request_id
  dlg,      \* the open dialog that waits for an operation
  friends,  \* UserMgr: _friend_map
  applies,  \* UserMgr: status of each entry of _apply_list
  ids,      \* operations submitted so far
  faults

tables == <<apply, friend>>
server == <<route, at, sess>>
client == <<conn, op, dlg, friends, applies, ids>>
vars == <<tables, tasks, server, client, inq, out, faults>>

(* The tables                                                              *)
CheckFriendRelation(a, b) == {<<a, b>>, <<b, a>>} \subseteq friend
Row(a, b) == {i \in DOMAIN apply : apply[i].from = a /\ apply[i].to = b}
HasPendingFriendApply(a, b) == \E i \in DOMAIN apply : apply[i] = [from |-> a, to |-> b, status |-> 0]

\* ON DUPLICATE KEY UPDATE leaves an existing application as it is.
AddFriendApply(a, b) ==
  apply' = IF Row(a, b) = {} THEN Append(apply, [from |-> a, to |-> b, status |-> 0]) ELSE apply

\* UPDATE friend_apply SET status = 1.
Accepted(a, b) == [i \in DOMAIN apply |-> IF i \in Row(a, b) THEN [apply[i] EXCEPT !.status = 1] ELSE apply[i]]

\* Mutant: ORDER BY id DESC only.
Before_newestFirst(i, j) == i > j

\* ORDER BY status ASC, id DESC: pending ones first, the newest first.
Before(i, j) == apply[i].status < apply[j].status \/ (apply[i].status = apply[j].status /\ i > j)

\* The first ApplyLimit applications to the user.
GetApplyList(u) ==
  LET mine == {i \in DOMAIN apply : apply[i].to = u}
  IN {apply[j] : j \in {i \in mine : Cardinality({k \in mine : Before(k, i)}) < ApplyLimit}}
GetFriendList(u) == {v \in Users : <<u, v>> \in friend}

NoList == [v \in Users |-> None]

Init ==
  /\ apply = [i \in DOMAIN Applied |-> [from |-> Applied[i][1], to |-> Applied[i][2], status |-> 0]]
  /\ friend = {} /\ tasks = {}
  /\ route \in [Users -> Nodes \cup {None}] /\ \A u \in Users : route[u] = None <=> u \notin SignedIn
  /\ at = route /\ sess = [u \in Users |-> 0]
  /\ conn = [u \in Users |-> IF u \in SignedIn THEN "in" ELSE "off"] /\ inq = [u \in Users |-> <<>>] /\ out = [u \in Users |-> <<>>]
  /\ op = [u \in Users |-> None] /\ dlg = [u \in Users |-> None]
  /\ friends = [u \in Users |-> {}] 
  /\ applies = [u \in Users |-> [v \in Users |-> IF u \in SignedIn /\ (\E r \in GetApplyList(u) : r.from = v) THEN 0 ELSE None]]
  /\ ids = 0 /\ faults = 0

Fault == faults < MaxFaults /\ faults' = faults + 1

-----------------------------------------------------------------------------
(* Requests on the nodes                                                   *)
Live(t) == t.sess = sess[t.user] /\ conn[t.user] # "off"
Send(u, frame) == out' = [out EXCEPT ![u] = Append(@, frame)]
Step(t, s) == tasks' = (tasks \ {t}) \cup {s}
Goto(t, pc) == Step(t, [t EXCEPT !.pc = pc])

\* The deferred response.  A session that is closed drops it.
Response(t, ok) == [kind |-> t.kind, peer |-> t.peer, id |-> t.id, ok |-> ok]
Respond(t, ok) ==
  /\ tasks' = tasks \ {t}
  /\ IF Live(t) THEN Send(t.user, Response(t, ok)) ELSE UNCHANGED out

\* DealMsg: the next frame of a session once the one before it is finished.
DealMsg(u) ==
  /\ conn[u] # "off" /\ inq[u] # <<>> /\ ~ \E t \in tasks : t.user = u /\ t.sess = sess[u]
  /\ inq' = [inq EXCEPT ![u] = Tail(@)]
  /\ LET q == Head(inq[u]) IN
     tasks' = tasks \cup {[user |-> u, sess |-> sess[u], kind |-> q.kind, peer |-> q.peer, id |-> q.id,
       pc |-> IF q.kind \in {"add", "auth"} THEN "relation" ELSE "applies",
       node |-> IF q.kind = "login" THEN q.node ELSE at[u], to |-> None, list |-> {}, friends |-> {}]}
  /\ UNCHANGED <<tables, server, client, out, faults>>

\* AddFriendCallback up to the insert: a friend, or a failed query, ends the request.
AddRelation(t) ==
  /\ t.kind = "add" /\ t.pc = "relation"
  /\ \/ CheckFriendRelation(t.user, t.peer) /\ Respond(t, FALSE) /\ UNCHANGED faults
     \/ ~CheckFriendRelation(t.user, t.peer) /\ Goto(t, "insert") /\ UNCHANGED <<out, faults>>
     \/ Fault /\ Respond(t, FALSE)
  /\ UNCHANGED <<tables, server, client, inq>>

AddInsert(t) ==
  /\ t.kind = "add" /\ t.pc = "insert"
  /\ \/ /\ AddFriendApply(t.user, t.peer) /\ Goto(t, "route") /\ UNCHANGED <<out, faults>>
     \/ Fault /\ Respond(t, FALSE) /\ UNCHANGED <<apply>>
  /\ UNCHANGED <<friend, server, client, inq>>

\* AuthFriendCallback up to the transaction.  Friends already: answered as a success.
AuthRelation(t) ==
  /\ t.kind = "auth" /\ t.pc = "relation"
  /\ \/ /\ CheckFriendRelation(t.user, t.peer) /\ Goto(t, "route")
        /\ UNCHANGED <<out, faults>>
     \/ ~CheckFriendRelation(t.user, t.peer) /\ Goto(t, "ins1") /\ UNCHANGED <<out, faults>>
     \/ Fault /\ Respond(t, FALSE)
  /\ UNCHANGED <<tables, server, client, inq>>

\* ExecuteFriendAcceptanceTransaction: the rows it has inserted are locked until it ends.
Rows(t) == <<<<t.user, t.peer>>, <<t.peer, t.user>>>>
Held(t) == CASE t.pc = "ins2" -> {Rows(t)[1]}
             [] t.pc \in {"accept", "commit"} -> {Rows(t)[1], Rows(t)[2]}
             [] OTHER -> {}
Wanted(t) == CASE t.pc = "ins1" -> Rows(t)[1] [] t.pc = "ins2" -> Rows(t)[2] [] OTHER -> None
Blocks(s, t) == s # t /\ Wanted(t) \in Held(s)

InsertFriend(t) ==
  /\ t.pc \in {"ins1", "ins2"} /\ ~ \E s \in tasks : Blocks(s, t)
  /\ Goto(t, IF t.pc = "ins1" THEN "ins2" ELSE "accept")
  /\ UNCHANGED <<tables, server, client, inq, out, faults>>

\* A statement fails, or the lock manager breaks a cycle: rollback, StorageError.
RollBack(t) ==
  /\ t.pc \in {"ins1", "ins2", "accept", "commit"}
  /\ \/ Fault
     \/ (\E s \in tasks : Blocks(s, t) /\ Blocks(t, s)) /\ UNCHANGED faults
  /\ Respond(t, FALSE)
  /\ UNCHANGED <<tables, server, client, inq>>

\* No pending application from the peer: rollback, PendingMissing.
AcceptPendingApplication(t) ==
  /\ t.pc = "accept"
  /\ \/ HasPendingFriendApply(t.peer, t.user) /\ Goto(t, "commit") /\ UNCHANGED out
     \/ ~HasPendingFriendApply(t.peer, t.user) /\ Respond(t, FALSE)
  /\ UNCHANGED <<tables, server, client, inq, faults>>

\* Mutant: the row of the applicant is not inserted.
Commit_oneSided(t) ==
  /\ t.pc = "commit"
  /\ friend' = friend \cup {Rows(t)[1]}
  /\ apply' = Accepted(t.peer, t.user)
  /\ \/ Goto(t, "route") /\ UNCHANGED <<out, faults>>
     \/ Fault /\ Respond(t, FALSE)
  /\ UNCHANGED <<server, client, inq>>

\* The commit, whose acknowledgement may be lost with the connection.
Commit(t) ==
  /\ t.pc = "commit"
  /\ friend' = friend \cup {Rows(t)[1], Rows(t)[2]}
  /\ apply' = Accepted(t.peer, t.user)
  /\ \/ Goto(t, "route") /\ UNCHANGED <<out, faults>>
     \/ Fault /\ Respond(t, FALSE)
  /\ UNCHANGED <<server, client, inq>>

\* Redis tells where the peer is; without an answer the request is complete.
FindNode(t) ==
  /\ t.pc = "route"
  /\ \/ route[t.peer] # None /\ Step(t, [t EXCEPT !.pc = "notify", !.to = route[t.peer]]) /\ UNCHANGED <<out, faults>>
     \/ route[t.peer] = None /\ Respond(t, TRUE) /\ UNCHANGED faults
     \/ Fault /\ Respond(t, TRUE)
  /\ UNCHANGED <<tables, server, client, inq>>

\* NotifyAddFriend and NotifyAuthFriend of ChatServiceImp look at the tables again.
Accepts(t) ==
  t.to # t.node =>
    IF t.kind = "add" THEN HasPendingFriendApply(t.user, t.peer) ELSE CheckFriendRelation(t.user, t.peer)

\* ChatGrpcClient answers RPC_ERROR: no pool for the node, no connection, an error status.
CallFails(t) == t.to # t.node /\ Fault
QueueFull(t) == at[t.peer] = t.to /\ Fault

Notice(t) == [kind |-> IF t.kind = "add" THEN "applied" ELSE "accepted", peer |-> t.user]

\* The notification is an attempt: the peer may have gone, the call or the queue may fail.  The
\* response follows either way.
Notify(t) ==
  /\ t.pc = "notify" /\ tasks' = tasks \ {t}
  /\ LET answered == IF Live(t) THEN [out EXCEPT ![t.user] = Append(@, Response(t, TRUE))] ELSE out IN
     \/ at[t.peer] = t.to /\ Accepts(t) /\ UNCHANGED faults
        /\ out' = [answered EXCEPT ![t.peer] = Append(@, Notice(t))]
     \/ (at[t.peer] # t.to \/ ~Accepts(t)) /\ out' = answered /\ UNCHANGED faults
     \/ (CallFails(t) \/ QueueFull(t)) /\ out' = answered
  /\ UNCHANGED <<tables, server, client, inq>>

\* The lists of a login or of a heartbeat: two queries, either of which may fail.
ReadApplies(t) ==
  /\ t.pc = "applies"
  /\ \/ Step(t, [t EXCEPT !.pc = "friends", !.list = GetApplyList(t.user)]) /\ UNCHANGED faults
     \/ Fault /\ Goto(t, "friends")
  /\ UNCHANGED <<tables, server, client, inq, out>>

Lists(t, list, fs) == [kind |-> t.kind, list |-> list, friends |-> fs]

\* Mutant: the flush after the last list is missing.
SendSnapshot_unflushed(t) ==
  /\ t.kind = "sync" /\ t.pc = "friends" /\ tasks' = tasks \ {t}
  /\ IF Live(t) THEN Send(t.user, Lists(t, t.list, {})) ELSE UNCHANGED out
  /\ UNCHANGED <<tables, server, client, inq, faults>>

\* HeartbeatCallback: flush sends one frame, or several when the lists are long.
SendSnapshot(t) ==
  /\ t.kind = "sync" /\ t.pc = "friends" /\ tasks' = tasks \ {t}
  /\ \E fs \in {GetFriendList(t.user), {}} :
       /\ IF fs = GetFriendList(t.user) THEN UNCHANGED faults ELSE Fault
       /\ IF ~Live(t) THEN UNCHANGED out
          ELSE \/ Send(t.user, Lists(t, t.list, fs))
               \/ out' = [out EXCEPT ![t.user] = @ \o <<Lists(t, t.list, {}), Lists(t, {}, fs)>>]
  /\ UNCHANGED <<tables, server, client, inq>>

ReadFriends(t) ==
  /\ t.kind = "login" /\ t.pc = "friends"
  /\ \/ Step(t, [t EXCEPT !.pc = "register", !.friends = GetFriendList(t.user)]) /\ UNCHANGED faults
     \/ Fault /\ Goto(t, "register")
  /\ UNCHANGED <<tables, server, client, inq, out>>

\* LoginChatCallback enters the user in Redis and UserMgr after it has read the lists.
Register(t) ==
  /\ t.pc = "register" /\ tasks' = tasks \ {t}
  /\ route' = [route EXCEPT ![t.user] = t.node]
  /\ at' = [at EXCEPT ![t.user] = IF Live(t) THEN t.node ELSE @]
  /\ IF Live(t) THEN Send(t.user, Lists(t, t.list, t.friends)) ELSE UNCHANGED out
  /\ UNCHANGED <<tables, sess, client, inq, faults>>

-----------------------------------------------------------------------------
(* The client                                                              *)
Login(u) ==
  /\ conn[u] = "off" /\ sess[u] < MaxSessions
  /\ conn' = [conn EXCEPT ![u] = "login"] /\ sess' = [sess EXCEPT ![u] = @ + 1]
  /\ \E n \in Nodes : inq' = [inq EXCEPT ![u] = <<[kind |-> "login", peer |-> None, id |-> 0, node |-> n]>>]
  /\ friends' = [friends EXCEPT ![u] = {}] /\ applies' = [applies EXCEPT ![u] = NoList]  \* ResetSession
  /\ UNCHANGED <<tables, tasks, route, at, out, op, dlg, ids, faults>>

\* The dialogs of a search result and of a shown application; refusals leave nothing behind.
SlotApplySure(u, kind, peer) ==
  /\ dlg[u] = None /\ peer # u /\ ids < MaxOps
  /\ IF kind = "add" THEN peer \notin friends[u] ELSE applies[u][peer] = 0
  /\ conn[u] = "in" /\ op[u] = None                        \* submitFriendOperation
  /\ ids' = ids + 1
  /\ LET o == [kind |-> kind, peer |-> peer, id |-> ids'] IN
     /\ op' = [op EXCEPT ![u] = o] /\ dlg' = [dlg EXCEPT ![u] = [kind |-> kind, peer |-> peer]]
     /\ inq' = [inq EXCEPT ![u] = Append(@, o)]
  /\ UNCHANGED <<tables, tasks, server, conn, friends, applies, out, faults>>

CloseDialog(u) ==
  /\ dlg[u] # None /\ dlg' = [dlg EXCEPT ![u] = None]
  /\ UNCHANGED <<tables, tasks, server, conn, op, friends, applies, ids, inq, out, faults>>

\* sig_friend_operation ends the operation and answers the dialog that asked for it.
Asked(u) == op[u] # None /\ dlg[u] = [kind |-> op[u].kind, peer |-> op[u].peer]
Report(u) ==
  /\ op' = [op EXCEPT ![u] = None]
  /\ dlg' = [dlg EXCEPT ![u] = IF Asked(u) THEN None ELSE @]

FriendTimer(u) ==
  /\ op[u] # None /\ Report(u)
  /\ UNCHANGED <<tables, tasks, server, conn, friends, applies, ids, inq, out, faults>>

Disconnected(u) ==
  /\ conn[u] # "off" /\ Fault
  /\ conn' = [conn EXCEPT ![u] = "off"] /\ Report(u)
  /\ at' = [at EXCEPT ![u] = None]
  /\ inq' = [inq EXCEPT ![u] = <<>>] /\ out' = [out EXCEPT ![u] = <<>>]
  /\ UNCHANGED <<tables, tasks, route, sess, friends, applies, ids>>

\* refreshFriends, on every heartbeat; one request is under way at a time.
RefreshFriends(u) ==
  /\ u \in Refreshing /\ conn[u] = "in" /\ inq[u] = <<>> /\ out[u] = <<>> /\ ~ \E t \in tasks : t.user = u
  /\ inq' = [inq EXCEPT ![u] = <<[kind |-> "sync", peer |-> None, id |-> 0]>>]
  /\ UNCHANGED <<tables, tasks, server, client, out, faults>>

Receive(u, kinds) == out[u] # <<>> /\ Head(out[u]).kind \in kinds /\ out' = [out EXCEPT ![u] = Tail(@)]

\* finishFriendOperation: the response of another operation is not this one's answer.
Answers(f, o) == o # None /\ o.kind = f.kind /\ o.id = f.id
FinishFriendOperation(u) ==
  LET f == Head(out[u]) IN
  IF Answers(f, op[u]) THEN Report(u)
                       ELSE UNCHANGED <<op, dlg>>

AddFriendRsp(u) ==
  /\ Receive(u, {"add"}) /\ FinishFriendOperation(u)
  /\ UNCHANGED <<tables, tasks, server, conn, friends, applies, ids, inq, faults>>

\* sig_auth_rsp, whether or not the operation is still awaited.
AuthFriendRsp(u) ==
  LET f == Head(out[u]) IN
  /\ Receive(u, {"auth"}) /\ FinishFriendOperation(u)
  /\ friends' = [friends EXCEPT ![u] = IF f.ok THEN @ \cup {f.peer} ELSE @]
  /\ applies' = [applies EXCEPT ![u][f.peer] = IF f.ok /\ @ # None THEN 1 ELSE @]
  /\ UNCHANGED <<tables, tasks, server, conn, ids, inq, faults>>

NotifyAddFriend(u) ==
  LET f == Head(out[u]) IN
  /\ Receive(u, {"applied"})
  /\ applies' = [applies EXCEPT ![u][f.peer] = IF @ = None THEN 0 ELSE @]
  /\ UNCHANGED <<tables, tasks, server, conn, op, dlg, friends, ids, inq, faults>>

NotifyAuthFriend(u) ==
  /\ Receive(u, {"accepted"})
  /\ friends' = [friends EXCEPT ![u] = @ \cup {Head(out[u]).peer}]
  /\ UNCHANGED <<tables, tasks, server, conn, op, dlg, applies, ids, inq, faults>>

\* mergeFriendSnapshot, and the lists of the login response.
MergeFriendSnapshot(u) ==
  LET f == Head(out[u]) IN
  /\ Receive(u, {"login", "sync"})
  /\ conn' = [conn EXCEPT ![u] = "in"]
  /\ friends' = [friends EXCEPT ![u] = @ \cup f.friends]
  /\ applies' = [applies EXCEPT ![u] = [v \in Users |->
       IF \E r \in f.list : r.from = v THEN (CHOOSE r \in f.list : r.from = v).status ELSE @[v]]]
  /\ UNCHANGED <<tables, tasks, server, op, dlg, ids, inq, faults>>

-----------------------------------------------------------------------------
Handle(t) ==
  \/ AddRelation(t) \/ AddInsert(t) \/ AuthRelation(t)
  \/ InsertFriend(t) \/ AcceptPendingApplication(t) \/ Commit(t)
  \/ FindNode(t) \/ Notify(t)
  \/ ReadApplies(t) \/ ReadFriends(t) \/ Register(t) \/ SendSnapshot(t)

Arrive(u) ==
  AddFriendRsp(u) \/ AuthFriendRsp(u) \/ NotifyAddFriend(u) \/ NotifyAuthFriend(u) \/ MergeFriendSnapshot(u)

Next ==
  \/ \E t \in tasks : Handle(t) \/ RollBack(t)
  \/ \E u \in Users :
       \/ DealMsg(u) \/ Login(u) \/ CloseDialog(u) \/ FriendTimer(u) \/ Disconnected(u) \/ RefreshFriends(u) \/ Arrive(u)
       \/ \E kind \in {"add", "auth"}, peer \in Users : SlotApplySure(u, kind, peer)

Spec == Init /\ [][Next]_vars

\* The nodes run every request to its end, the connection carries every frame and the heartbeat
\* timer and the timer of an operation fire.  Users need not do anything.
FairSpec ==
  /\ Spec
  /\ \A u \in Users :
       /\ WF_vars(\E t \in tasks : t.user = u /\ (Handle(t) \/ RollBack(t)))
       /\ WF_vars(DealMsg(u)) /\ WF_vars(Arrive(u)) /\ SF_vars(RefreshFriends(u)) /\ WF_vars(FriendTimer(u))

-----------------------------------------------------------------------------
Op == [kind : {"add", "auth"}, peer : Users, id : 1..MaxOps]

\* Types.
TypeOK ==
  /\ apply \in Seq([from : Users, to : Users, status : 0..1]) /\ friend \subseteq Users \X Users
  /\ ids \in 0..MaxOps
  /\ route \in [Users -> Nodes \cup {None}] /\ at \in [Users -> Nodes \cup {None}]
  /\ sess \in [Users -> 0..MaxSessions] /\ conn \in [Users -> {"off", "login", "in"}]
  /\ op \in [Users -> Op \cup {None}] /\ dlg \in [Users -> [kind : {"add", "auth"}, peer : Users] \cup {None}]
  /\ friends \in [Users -> SUBSET Users] /\ applies \in [Users -> [Users -> {None, 0, 1}]]
  /\ \A t, s \in tasks : t.user = s.user /\ t.sess = s.sess => t = s
  /\ faults \in 0..MaxFaults

\* CheckFriendRelation, which admits private messages, counts rows in both directions: the two
\* rows and the acceptance of an application between the two users appear together, although two
\* users may accept each other's application at the same time and either transaction may fail.
FriendsAreMutual ==
  \A a, b \in Users :
    <<a, b>> \in friend <=> \E i \in DOMAIN apply : apply[i].status = 1 /\ {apply[i].from, apply[i].to} = {a, b}

\* AuthFriendCallback: "the status of the application and the rows of both friends must be
\* committed in one transaction".  An acceptance that is answered as done is marked in the table.
AcceptedIsRecorded ==
  \A u \in Users : out[u] # <<>> =>
    LET f == Head(out[u]) IN
    f.kind = "auth" /\ f.ok => ~HasPendingFriendApply(f.peer, u)

\* The heartbeat brings friends and pending applications whose notification was lost.
FriendsAreShown ==
  \A u \in Refreshing, v \in Users : <<u, v>> \in friend ~> v \in friends[u] \/ conn[u] # "in"
Unseen(u, v) == conn[u] = "in" /\ HasPendingFriendApply(v, u) /\ applies[u][v] = None
\* Up to ApplyLimit pending applications: accepted ones do not crowd out a pending one.
AppliesAreShown ==
  \A u \in Refreshing, v \in Users :
    Unseen(u, v) ~> \/ ~Unseen(u, v)
                    \/ Cardinality({i \in DOMAIN apply : apply[i].to = u /\ apply[i].status = 0}) > ApplyLimit
=============================================================================
