----------------------------- MODULE MCPeople -----------------------------
(***************************************************************************)
(* Accounts and friends, for TLC: verification codes, registration and     *)
(* passwords (Accounts), password rules (PasswordRules), the search for    *)
(* users (ProfileCache) and friendship (Friendship).  Within the run they  *)
(* share no state, so a behaviour is one of the part chosen at the start.  *)
(* Accounts have their own variables and three parts, each with bounds of  *)
(* its own; v1, v2, ... hold the variables of the other parts, in the      *)
(* order of the INSTANCE, and 0 where there are fewer.                     *)
(***************************************************************************)
EXTENDS Accounts, SequencesExt, TLC

CONSTANTS x1, x2, y1, y2

VARIABLES chosen, v1, v2, v3, v4, v5, v6, v7, v8, v9, v10, v11, v12, v13, v14, v15

slots == <<v1, v2, v3, v4, v5, v6, v7, v8, v9, v10, v11, v12, v13, v14, v15>>
from6 == <<v6, v7, v8, v9, v10, v11, v12, v13, v14, v15>>

\* Bytes at the boundaries of the decoder's and of the standard's ranges, and
\* those of the wide spaces U+1680, U+2000, U+200A, U+2028, U+205F, U+3000.
Edges == {32, 65, 127, 128, 129, 138, 143, 144, 154, 159, 160, 168, 191, 193, 194, 223, 224, 225, 226, 227, 237, 240,
          244, 245}
Bytes == INSTANCE PasswordRules WITH
  MinLen <- 1, MaxLen <- 2, Texts <- {},
  Raw <- BoundedSeq(Edges, 3)
           \cup {<<a, b, c, d>> : a \in {65, 194, 224, 226, 240, 244, 245}, b \in Edges, c \in {65, 128, 191, 226}, d \in Edges},
  text <- v1, password <- v2, offset <- v3, code_points <- v4, verdict <- v5

\* Code points at the boundaries of the encodings and of the spaces.
CodePoints == {9, 13, 14, 31, 32, 33, 127, 128, 133, 160, 2047, 2048, 5760, 6158, 8191, 8192, 8202, 8203, 8232,
               8239, 8287, 12288, 55295, 57344, 65535, 65536, 1114111}
Forms == INSTANCE PasswordRules WITH
  MinLen <- 2, MaxLen <- 3, Texts <- BoundedSeq(CodePoints, 3), Raw <- {},
  text <- v1, password <- v2, offset <- v3, code_points <- v4, verdict <- v5

\* Users 7 and 9 where integers end at 9.
Value == "7" :> 7 @@ "9" :> 9 @@ "07" :> 7 @@ "17" :> 17 @@ "ann" :> -1 @@ "bob" :> -1
Search == INSTANCE ProfileCache WITH
  Uids <- {7, 9}, NameOf <- 7 :> "ann" @@ 9 :> "bob", Texts <- DOMAIN Value, Number <- Value,
  Decimal <- 7 :> "7" @@ 9 :> "9", MaxInt <- 9, Handlers <- {x1, x2}, MaxFaults <- 1,
  users <- v1, cache <- v2, job <- v3, faults <- v4

\* Two users have applied to each other and accept on two nodes; a user submits
\* two operations while connections are lost and answers are late.
Mutual == INSTANCE Friendship WITH
  Users <- {"ann", "bob"}, Nodes <- {y1, y2}, SignedIn <- {"ann", "bob"},
  Applied <- << <<"ann", "bob">>, <<"bob", "ann">> >>, Refreshing <- {},
  ApplyLimit <- 2, MaxOps <- 2, MaxSessions <- 0, MaxFaults <- 1,
  apply <- v1, friend <- v2, tasks <- v3, route <- v4, at <- v5, sess <- v6, conn <- v7, inq <- v8, out <- v9,
  op <- v10, dlg <- v11, friends <- v12, applies <- v13, ids <- v14, faults <- v15
Operations == INSTANCE Friendship WITH
  Users <- {"ann", "bob"}, Nodes <- {"n1"}, SignedIn <- {"ann", "bob"},
  Applied <- << <<"ann", "bob">> >>, Refreshing <- {"bob"},
  ApplyLimit <- 2, MaxOps <- 2, MaxSessions <- 1, MaxFaults <- 1,
  apply <- v1, friend <- v2, tasks <- v3, route <- v4, at <- v5, sess <- v6, conn <- v7, inq <- v8, out <- v9,
  op <- v10, dlg <- v11, friends <- v12, applies <- v13, ids <- v14, faults <- v15

ASSUME
  /\ Bytes!LengthConstants /\ Forms!LengthConstants /\ Search!CacheConstants
  /\ Mutual!FriendshipConstants /\ Operations!FriendshipConstants

\* Two requests guess and issue codes of one address; two register at once;
\* two change the password of an account from before the new hash.
InUse == {req[r].name : r \in Requests} \cup {user[e].name : e \in Registered}
Passwords == {req[r].pw : r \in Requests} \cup {set[e] : e \in Emails}
OneAddress == hourly["e2"] = 0 /\ Cardinality(InUse \ {None}) <= 1
Bounds ==
  \/ chosen = "codes" /\ OneAddress /\ "p2" \notin Passwords /\ writes <= 1
  \/ chosen = "register" /\ issued <= 2 /\ "p2" \notin Passwords /\ writes <= 2
  \/ chosen = "passwords" /\ OneAddress /\ issued <= 2

Off6 ==
  /\ v6 = 0 /\ v7 = 0 /\ v8 = 0 /\ v9 = 0 /\ v10 = 0 /\ v11 = 0
  /\ v12 = 0 /\ v13 = 0 /\ v14 = 0 /\ v15 = 0
Off == v1 = 0 /\ v2 = 0 /\ v3 = 0 /\ v4 = 0 /\ v5 = 0 /\ Off6

PartInit ==
  /\ Init
  /\ \/ chosen \in {"codes", "register"} /\ Registered = {} /\ Off
     \/ chosen = "passwords" /\ Registered # {} /\ Off
     \/ /\ Registered = {}
        /\ \/ chosen = "bytes" /\ Bytes!Init /\ Off6
           \/ chosen = "forms" /\ Forms!Init /\ Off6
           \/ chosen = "search" /\ Search!Init /\ v5 = 0 /\ Off6
           \/ chosen = "mutual" /\ Mutual!Init
           \/ chosen = "operations" /\ Operations!Init

PartNext ==
  \/ chosen \in {"codes", "register", "passwords"} /\ Next /\ UNCHANGED <<chosen, slots>> /\ Bounds'
  \/ chosen = "bytes" /\ Bytes!Next /\ UNCHANGED <<chosen, vars, from6>>
  \/ chosen = "forms" /\ Forms!Next /\ UNCHANGED <<chosen, vars, from6>>
  \/ chosen = "search" /\ Search!Next /\ UNCHANGED <<chosen, vars, v5, from6>>
  \/ chosen = "mutual" /\ Mutual!Next /\ UNCHANGED <<chosen, vars>>
  \/ chosen = "operations" /\ Operations!Next /\ UNCHANGED <<chosen, vars>>

PartSpec == PartInit /\ [][PartNext]_<<chosen, vars, slots>>

Symmetry == Permutations({x1, x2}) \cup Permutations({y1, y2})

\* The gate accepts exactly the well-formed UTF-8 texts of the right length
\* without white space.
DecoderIsExact == chosen = "bytes" => Bytes!DecoderIsExact

\* What the registration and login forms let through the gate does not refuse.
FormIsNoLaxer == chosen = "forms" => Forms!FormIsNoLaxer

\* GetUserByUid, GetUserByName, GetBaseInfo: whoever is found is the user with
\* that UID or name, from the cache or not.
AnswerIsRight == chosen = "search" => Search!AnswerIsRight

\* Both rows of a friendship and the acceptance appear together, although two
\* users accept each other at the same time and either transaction may fail.
FriendsAreMutual ==
  (chosen = "mutual" => Mutual!FriendsAreMutual) /\ (chosen = "operations" => Operations!FriendsAreMutual)
===========================================================================
