---------------------------- MODULE ProfileCache ----------------------------
(***************************************************************************)
(* How a chat node looks a user up: by UID or by name for a search, by UID *)
(* for a login or a friend request, first in Redis, then in MySQL, whose   *)
(* row is then written to Redis.  Handlers of several nodes do this at the *)
(* same time while users register and avatar changes drop cache entries.   *)
(*                                                                         *)
(* A text is what was typed; Number gives its value if it is all digits    *)
(* and -1 otherwise.  Of a profile only its owner and whether the icon is  *)
(* there are kept: entries written before icons were cached lack it.       *)
(***************************************************************************)
EXTENDS Integers, FiniteSets

CONSTANTS
  Uids, NameOf,     \* users and their names
  Texts, Number,    \* what is typed; its value
  Decimal,          \* std::to_string of a UID
  MaxInt,           \* 2^31 - 1
  Handlers,
  MaxFaults         \* bound: failed commands and queries

CacheConstants ==
  /\ Uids \subseteq 1 .. MaxInt /\ NameOf \in [Uids -> Texts] /\ Decimal \in [Uids -> Texts] /\ MaxFaults \in Nat
  /\ Number \in [Texts -> Int] /\ \A u \in Uids : Number[Decimal[u]] = u
  /\ \A u, v \in Uids : NameOf[u] = NameOf[v] => u = v

VARIABLES
  users,  \* rows of the table user; they never change
  cache,  \* Redis
  job,    \* what a handler does
  faults

vars == <<users, cache, job, faults>>

Keys == {"ubaseinfo_", "nameinfo_"} \X Texts
NoEntry == [uid |-> 0, icon |-> FALSE]  \* no entry, or no row
Profile(u) == [uid |-> u, icon |-> TRUE]

NoJob == [op |-> "search", text |-> "", uid |-> 0, at |-> "done", got |-> NoEntry, ok |-> TRUE, known |-> {}, fault |-> FALSE]
EntryOf(key, u) == key \in {<<"ubaseinfo_", Decimal[u]>>, <<"nameinfo_", NameOf[u]>>}

\* A cache may be left from an earlier version.
Init ==
  /\ users \in SUBSET Uids
  /\ \E old \in SUBSET users :
       cache = [key \in Keys |-> IF \E u \in old : EntryOf(key, u)
                                 THEN [uid |-> CHOOSE u \in old : EntryOf(key, u), icon |-> FALSE] ELSE NoEntry]
  /\ job = [h \in Handlers |-> NoJob] /\ faults = 0

-----------------------------------------------------------------------------
isPureDigit(t) == Number[t] >= 0

from_chars_wrapped(t) == Number[t] % (MaxInt + 1)  \* an overflow is not noticed
from_chars(t) == IF Number[t] \in 1 .. MaxInt THEN Number[t] ELSE 0

Free(h) == job[h].at = "done"
Start(h, j) ==
  /\ Free(h) /\ job' = [job EXCEPT ![h] = [j EXCEPT !.known = {u \in users : NameOf[u] = j.text \/ u = Number[j.text]}]]
  /\ UNCHANGED <<users, cache, faults>>

\* A digit string is a UID, anything else a name.
SearchUserCallback(h, t) ==
  LET asked == [NoJob EXCEPT !.text = t] IN
  IF ~isPureDigit(t) THEN Start(h, [asked EXCEPT !.op = "name", !.at = "get"])
  ELSE IF from_chars(t) = 0 THEN Start(h, [asked EXCEPT !.op = "uid", !.ok = FALSE])
  ELSE Start(h, [asked EXCEPT !.op = "uid", !.uid = from_chars(t), !.at = "get"])

\* A login or a friend request needs the profile of a user.
NeedsProfile(h, u) == u \in users /\ Start(h, [NoJob EXCEPT !.op = "base", !.text = Decimal[u], !.uid = u, !.at = "get"])

-----------------------------------------------------------------------------
KeyOf(j) == IF j.op = "name" THEN <<"nameinfo_", j.text>> ELSE <<"ubaseinfo_", j.text>>

Step(h, j) == job' = [job EXCEPT ![h] = j]
Fails(h, j) == faults < MaxFaults /\ faults' = faults + 1 /\ Step(h, [j EXCEPT !.fault = TRUE])

\* RedisMgr::Get: with an entry the job goes on as hit; a failure looks like a
\* missing entry.
Entry(h) == cache[KeyOf(job[h])]
Get(h, hit) ==
  LET miss == [job[h] EXCEPT !.at = "query"] IN
  /\ job[h].at = "get" /\ UNCHANGED <<users, cache>>
  /\ \/ Entry(h) # NoEntry /\ Step(h, hit) /\ UNCHANGED faults
     \/ Entry(h) = NoEntry /\ Step(h, miss) /\ UNCHANGED faults
     \/ Fails(h, miss)

\* GetUserByUid answers from the entry as it is.
GetUserByUid(h) == job[h].op = "uid" /\ Get(h, [job[h] EXCEPT !.at = "done", !.got = Entry(h)])

\* GetUserByName goes to MySQL for an icon that is missing.
GetUserByName(h) ==
  job[h].op = "name" /\ Get(h, [job[h] EXCEPT !.at = IF Entry(h).icon THEN "done" ELSE "icon", !.got = Entry(h)])

\* GetBaseInfo deletes an entry that is not whole.
GetBaseInfo(h) ==
  LET whole == Entry(h).uid = job[h].uid /\ Entry(h).icon IN
  /\ job[h].op = "base"
  /\ Get(h, IF whole THEN [job[h] EXCEPT !.at = "done", !.got = Entry(h)] ELSE [job[h] EXCEPT !.at = "del"])

GetIcon(h) ==
  LET j == job[h] IN
  /\ j.at = "icon" /\ UNCHANGED <<users, cache>>
  /\ \/ Step(h, [j EXCEPT !.at = "done", !.got.icon = TRUE]) /\ UNCHANGED faults
     \/ Fails(h, [j EXCEPT !.at = "done"])

\* RedisMgr::Del; GetBaseInfo goes on when it fails.
Del(h) ==
  LET j == [job[h] EXCEPT !.at = "query"] IN
  /\ job[h].at = "del" /\ UNCHANGED users
  /\ \/ cache' = [cache EXCEPT ![KeyOf(j)] = NoEntry] /\ Step(h, j) /\ UNCHANGED faults
     \/ Fails(h, j) /\ UNCHANGED cache

\* MysqlDao::GetUser; a failure and a missing row look the same.
GetUser(h) ==
  LET j == job[h]
      row == {u \in users : IF j.op = "name" THEN NameOf[u] = j.text ELSE u = j.uid}
  IN
  /\ j.at = "query" /\ UNCHANGED <<users, cache>>
  /\ \/ \E u \in row : Step(h, [j EXCEPT !.at = "set", !.got = Profile(u)]) /\ UNCHANGED faults
     \/ row = {} /\ Step(h, [j EXCEPT !.at = "done", !.ok = FALSE]) /\ UNCHANGED faults
     \/ Fails(h, [j EXCEPT !.at = "done", !.ok = FALSE])

\* RedisMgr::Set, without expiry; its failure is ignored.
Set(h) ==
  LET j == [job[h] EXCEPT !.at = "done"] IN
  /\ job[h].at = "set" /\ UNCHANGED users
  /\ \/ cache' = [cache EXCEPT ![KeyOf(j)] = j.got] /\ Step(h, j) /\ UNCHANGED faults
     \/ Fails(h, j) /\ UNCHANGED cache

-----------------------------------------------------------------------------
\* The entries of a user whose avatar changed are dropped, the first one only
\* if the second cannot be.
NotifyAvatarChanged(u) ==
  LET base == <<"ubaseinfo_", Decimal[u]>> IN
  /\ u \in users /\ UNCHANGED <<users, job>>
  /\ \/ cache' = [key \in Keys |-> IF EntryOf(key, u) THEN NoEntry ELSE cache[key]] /\ UNCHANGED faults
     \/ cache' = [cache EXCEPT ![base] = NoEntry] /\ faults < MaxFaults /\ faults' = faults + 1

RegUser(u) == u \notin users /\ users' = users \cup {u} /\ UNCHANGED <<cache, job, faults>>

Next ==
  \/ \E h \in Handlers :
       \/ \E t \in Texts : SearchUserCallback(h, t)
       \/ \E u \in Uids : NeedsProfile(h, u)
       \/ GetUserByUid(h) \/ GetUserByName(h) \/ GetBaseInfo(h) \/ GetIcon(h) \/ Del(h) \/ GetUser(h) \/ Set(h)
  \/ \E u \in Uids : NotifyAvatarChanged(u) \/ RegUser(u)
Spec == Init /\ [][Next]_vars

-----------------------------------------------------------------------------
Answered(h) == job[h].op # "search" /\ job[h].at = "done"

\* The variables hold what their declarations say, and the cache holds profiles
\* of users.
TypeOK ==
  /\ users \subseteq Uids /\ cache \in [Keys -> [uid : users, icon : BOOLEAN] \cup {NoEntry}] /\ faults \in 0 .. MaxFaults
  /\ \A h \in Handlers :
       /\ job[h].op \in {"search", "uid", "name", "base"} /\ job[h].at \in {"get", "icon", "del", "query", "set", "done"}
       /\ job[h].known \subseteq users /\ job[h].got \in [uid : users \cup {0}, icon : BOOLEAN]

\* LogicSystem::GetUserByUid, GetUserByName, GetBaseInfo: whoever is found is the
\* user with that UID or that name, from the cache or not.
AnswerIsRight ==
  \A h \in Handlers : Answered(h) /\ job[h].ok =>
    IF job[h].op = "name" THEN job[h].got.uid \in users /\ NameOf[job[h].got.uid] = job[h].text
    ELSE job[h].got.uid = Number[job[h].text]

\* ChatDialog.cpp:35, the text in the search field, "search by UID or user name":
\* a search for a registered name finds its user.
NameFindsItsUser ==
  \A h \in Handlers : Answered(h) /\ job[h].op # "base" /\ ~job[h].fault =>
    \A u \in job[h].known : NameOf[u] = job[h].text => job[h].ok /\ job[h].got.uid = u
=============================================================================
