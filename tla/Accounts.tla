------------------------------ MODULE Accounts ------------------------------
(***************************************************************************)
(* Accounts: verification codes (the Lua scripts of VarifyServer and of    *)
(* the gate's RedisMgr), registration, password reset, password login and  *)
(* the migration of old passwords (the gate's LogicSystem and MysqlDao).   *)
(* Gate processes handle requests concurrently; a script runs atomically   *)
(* in Redis, a statement atomically in MySQL, and everything between is    *)
(* interleaved.                                                            *)
(*                                                                         *)
(* A code is the serial number of its issue.  A stored password is what    *)
(* was stored (of: the raw password or its SHA-256 as old clients sent     *)
(* it), how (hashed or not), the scheme column, and a salt that makes two  *)
(* hashes of one password differ.                                          *)
(***************************************************************************)
EXTENDS Integers, FiniteSets

CONSTANTS
  Requests,     \* requests the gates work on at a time
  Emails, Names,
  Old, New,     \* passwords of legacy accounts; passwords clients set
  Legacy,       \* emails that may have an account with an old password
  HourlyLimit, GlobalLimit, MaxAttempts,
  MaxIssues,    \* bound: codes issued
  MaxWrites,    \* bound: passwords hashed
  None

Issues == 1 .. MaxIssues
Schemes == {"raw", "legacy"}
\* What the columns pwd and pwd_scheme can hold, and a row of the table user.
Credentials ==
  [pw : Old \cup New, of : {"raw", "sha"}, form : {"plain", "hash"}, scheme : Schemes, salt : 0 .. MaxWrites]
Users == [name : Names, uid : Nat \ {0}, pwd : Credentials]

ASSUME AccountConstants ==
  /\ IsFiniteSet(Emails) /\ Legacy \subseteq Emails
  /\ {HourlyLimit, GlobalLimit, MaxIssues, MaxWrites} \subseteq Nat /\ MaxAttempts \in Nat \ {0}
  /\ None \notin Emails \cup Names \cup Old \cup New /\ None \notin Requests
  /\ None \notin Issues /\ None \notin Credentials /\ None \notin Users

VARIABLES
  code,      \* code_<email>: the live code, or None
  attempts,  \* code_attempts_<email>
  cooldown,  \* code_cooldown_<email> exists
  hourly,    \* code_hourly_<email>
  total,     \* verification_global_hourly
  issued,    \* codes issued so far
  misses,    \* wrong guesses while a code was live
  granted,   \* how often a code has authorised a request
  user,      \* rows of user, by email
  userId,    \* user_id.id
  idLock,    \* the request whose transaction has updated user_id
  req,       \* requests in progress
  set,       \* the password the owner of an email has set last
  writes     \* hashes made so far

codes == <<code, attempts, cooldown, hourly, total, issued, misses, granted>>
rows == <<user, userId, idLock, set, writes>>
vars == <<code, attempts, cooldown, hourly, total, issued, misses, granted,
          user, userId, idLock, req, set, writes>>

NoReq == [pc |-> "idle", kind |-> None, email |-> None, name |-> None, pw |-> None, row |-> None]
Stored(pw, of, form, scheme, salt) == [pw |-> pw, of |-> of, form |-> form, scheme |-> scheme, salt |-> salt]
\* PasswordHasher::hash of a raw password; the salt is new.
Hash(pw) == Stored(pw, "raw", "hash", "raw", writes + 1)
Writing == writes < MaxWrites /\ writes' = writes + 1

Init ==
  /\ code = [e \in Emails |-> None] /\ attempts = [e \in Emails |-> 0] /\ cooldown = [e \in Emails |-> FALSE]
  /\ hourly = [e \in Emails |-> 0] /\ total = 0 /\ issued = 0
  /\ misses = [c \in Issues |-> 0] /\ granted = [c \in Issues |-> 0]
  /\ \E old \in SUBSET Legacy : \E uid \in [old -> 1 .. Cardinality(old)], name \in [old -> Names], pw \in [old -> Old] :
       /\ \A d, e \in old : uid[d] = uid[e] \/ name[d] = name[e] => d = e
       /\ user = [e \in Emails |-> IF e \notin old THEN None
                    ELSE [name |-> name[e], uid |-> uid[e], pwd |-> Stored(pw[e], "sha", "plain", "legacy", 0)]]
       /\ set = [e \in Emails |-> IF e \in old THEN pw[e] ELSE None]
       /\ userId = Cardinality(old)
  /\ idLock = None /\ writes = 0
  /\ req = [r \in Requests |-> NoReq]

Registered == {e \in Emails : user[e] # None}
Goto(r, pc) == req' = [req EXCEPT ![r].pc = pc]
Answer(r) == req' = [req EXCEPT ![r] = NoReq]

-----------------------------------------------------------------------------
(* VarifyServer: ISSUE_CODE_SCRIPT.  A refused request still counts in the *)
(* windows it got to; a counter beyond its limit need not be told apart.   *)
(* Whether the mail then arrives makes no difference to what is stored.    *)
Count(n, limit) == IF n <= limit THEN n + 1 ELSE n

\* The answer is lost or the mail is not sent: the code is stored all the same.
Accept(e) ==
  /\ cooldown' = [cooldown EXCEPT ![e] = TRUE]
  /\ issued' = issued + 1 /\ code' = [code EXCEPT ![e] = issued + 1]
  /\ attempts' = [attempts EXCEPT ![e] = 0]

IssueVerificationCode(e) ==
  /\ hourly' = [hourly EXCEPT ![e] = Count(@, HourlyLimit)]
  /\ total' = IF hourly[e] < HourlyLimit THEN Count(total, GlobalLimit) ELSE total
  /\ IF hourly[e] < HourlyLimit /\ total < GlobalLimit
     THEN Accept(e) ELSE UNCHANGED <<cooldown, issued, code, attempts>>

GetVarifyCode(e) ==
  /\ issued < MaxIssues /\ ~cooldown[e]
  /\ IssueVerificationCode(e)
  /\ UNCHANGED <<misses, granted, rows, req>>

\* Keys run out.  The counter of wrong guesses is given the code's own TTL in
\* whole seconds: it may outlive the code, and that it may run out half a
\* second earlier is left out.
CodeExpires(e) ==
  /\ code[e] # None
  /\ code' = [code EXCEPT ![e] = None]
  /\ \E n \in {0, attempts[e]} : attempts' = [attempts EXCEPT ![e] = n]
  /\ UNCHANGED <<cooldown, hourly, total, issued, misses, granted, rows, req>>

CooldownExpires(e) ==
  /\ cooldown[e] /\ cooldown' = [cooldown EXCEPT ![e] = FALSE]
  /\ UNCHANGED <<code, attempts, hourly, total, issued, misses, granted, rows, req>>

HourPasses(e) ==
  /\ hourly[e] > 0 /\ hourly' = [hourly EXCEPT ![e] = 0]
  /\ UNCHANGED <<code, attempts, cooldown, total, issued, misses, granted, rows, req>>

GlobalHourPasses ==
  /\ total > 0 /\ total' = 0
  /\ UNCHANGED <<code, attempts, cooldown, hourly, issued, misses, granted, rows, req>>

-----------------------------------------------------------------------------
(* ConsumeVerificationCode: one script that compares, counts wrong guesses *)
(* and deletes.                                                            *)
Spend(e) == code' = [code EXCEPT ![e] = None] /\ attempts' = [attempts EXCEPT ![e] = 0]

\* Mutant: a code that matches stays until it expires.
Matches_keepsCode(e) ==
  granted' = [granted EXCEPT ![code[e]] = @ + 1] /\ UNCHANGED <<code, attempts, misses>>

Matches(e) ==
  granted' = [granted EXCEPT ![code[e]] = @ + 1] /\ Spend(e) /\ UNCHANGED misses

Mismatches(e) ==
  /\ misses' = [misses EXCEPT ![code[e]] = @ + 1]
  /\ IF attempts[e] + 1 >= MaxAttempts THEN Spend(e)
     ELSE attempts' = [attempts EXCEPT ![e] = @ + 1] /\ UNCHANGED code
  /\ UNCHANGED granted

\* /user_register and /reset_pwd, up to the database.  given is the code the
\* client typed, 0 for one that was never issued.
Work(kind, e, n, pw) == [pc |-> "check", kind |-> kind, email |-> e, name |-> n, pw |-> pw, row |-> None]

Consume(r, e, given, work) ==
  /\ req[r].pc = "idle" /\ code[e] # None
  /\ IF given = code[e] THEN Matches(e) /\ req' = [req EXCEPT ![r] = work]
     ELSE Mismatches(e) /\ UNCHANGED req
  /\ UNCHANGED <<cooldown, hourly, total, issued, rows>>

UserRegister(r, e, n, pw, given) == Consume(r, e, given, Work("register", e, n, pw))

ResetPwd(r, e, n, pw, given) == Consume(r, e, given, Work("reset", e, n, pw))

\* RegUserTransaction: both SELECTs read one snapshot, then user_id is
\* updated, which locks it until the transaction ends.
Taken(e, n) == user[e] # None \/ \E d \in Registered : user[d].name = n

RegisterCheck(r) ==
  /\ req[r].pc = "check" /\ req[r].kind = "register"
  /\ IF Taken(req[r].email, req[r].name) THEN Answer(r) ELSE Goto(r, "count")
  /\ UNCHANGED <<codes, rows>>

\* Mutant: the counter is updated outside the transaction that inserts.
RegisterCount_unlocked(r) ==
  /\ req[r].pc = "count"
  /\ idLock' = r /\ userId' = userId + 1
  /\ Goto(r, "insert")
  /\ UNCHANGED <<codes, user, set, writes>>

RegisterCount(r) ==
  /\ req[r].pc = "count" /\ idLock = None
  /\ idLock' = r /\ userId' = userId + 1
  /\ Goto(r, "insert")
  /\ UNCHANGED <<codes, user, set, writes>>

\* INSERT and COMMIT.
RegisterInsert(r) ==
  LET q == req[r] IN
  /\ q.pc = "insert" /\ ~Taken(q.email, q.name) /\ Writing
  /\ user' = [user EXCEPT ![q.email] = [name |-> q.name, uid |-> userId, pwd |-> Hash(q.pw)]]
  /\ set' = [set EXCEPT ![q.email] = q.pw]
  /\ idLock' = None /\ UNCHANGED userId
  /\ Answer(r)
  /\ UNCHANGED codes

\* No connection, a failed statement, or a duplicate (uk_user_name,
\* uk_user_email): the transaction rolls back, the counter with it.
Fails(r) ==
  /\ req[r].pc # "idle"
  /\ IF idLock = r THEN idLock' = None /\ userId' = userId - 1 ELSE UNCHANGED <<idLock, userId>>
  /\ Answer(r)
  /\ UNCHANGED <<codes, user, set, writes>>

-----------------------------------------------------------------------------
(* /reset_pwd: CheckEmail, then UpdatePwd by name, whatever is stored.     *)
ResetCheck(r) ==
  LET q == req[r] IN
  /\ q.pc = "check" /\ q.kind = "reset"
  /\ IF user[q.email] # None /\ user[q.email].name = q.name THEN Goto(r, "update") ELSE Answer(r)
  /\ UNCHANGED <<codes, rows>>

ResetUpdate(r) ==
  LET q == req[r] IN
  /\ q.pc = "update" /\ Writing
  /\ user' = [user EXCEPT ![q.email].pwd = Hash(q.pw)]
  /\ set' = [set EXCEPT ![q.email] = q.pw]
  /\ Answer(r)
  /\ UNCHANGED <<codes, userId, idLock>>

-----------------------------------------------------------------------------
(* /user_login: CheckPwd reads the row, verifies, and upgrades what is not *)
(* yet a hash of the raw password by a compare-and-swap on pwd and scheme. *)
Candidate(pw, scheme) == [pw |-> pw, of |-> IF scheme = "legacy" THEN "sha" ELSE "raw"]
VerifyCredential(pw, stored) == [pw |-> stored.pw, of |-> stored.of] = Candidate(pw, stored.scheme)
UpgradeRequired(stored) == stored.form = "plain" \/ stored.scheme = "legacy"

LoginRead(r, e, pw) ==
  /\ req[r].pc = "idle" /\ user[e] # None
  /\ VerifyCredential(pw, user[e].pwd) /\ UpgradeRequired(user[e].pwd)
  /\ req' = [req EXCEPT ![r] = [pc |-> "upgrade", kind |-> "login", email |-> e, name |-> None,
                                pw |-> pw, row |-> user[e].pwd]]
  /\ UNCHANGED <<codes, rows>>

\* Mutant: the upgrade does not look at what is stored by now.
LoginUpgrade_unconditional(r) ==
  LET q == req[r] IN
  /\ q.pc = "upgrade" /\ Writing
  /\ user' = [user EXCEPT ![q.email].pwd = Hash(q.pw)]
  /\ Answer(r)
  /\ UNCHANGED <<codes, userId, idLock, set>>

LoginUpgrade(r) ==
  LET q == req[r] IN
  /\ q.pc = "upgrade" /\ Writing
  /\ user' = IF user[q.email].pwd = q.row THEN [user EXCEPT ![q.email].pwd = Hash(q.pw)] ELSE user
  /\ Answer(r)
  /\ UNCHANGED <<codes, userId, idLock, set>>

\* MigrateLegacyPasswords, when a gate starts while others run: the rows that
\* are not hashed are read, and then each is replaced by the hash of what it
\* holds if it still holds it.  The scheme stays.  Rows are independent: a
\* request here stands for one row of the list.
MigrateRead(r, e) ==
  /\ req[r].pc = "idle" /\ user[e] # None /\ user[e].pwd.form = "plain"
  /\ req' = [req EXCEPT ![r] = [NoReq EXCEPT !.pc = "migrate", !.email = e, !.row = user[e].pwd]]
  /\ UNCHANGED <<codes, rows>>

MigrateUpdate(r) ==
  LET q == req[r] stored == user[q.email].pwd IN
  /\ q.pc = "migrate" /\ Writing
  /\ user' = IF stored.pw = q.row.pw /\ stored.of = q.row.of /\ stored.form = "plain"
             THEN [user EXCEPT ![q.email].pwd.form = "hash", ![q.email].pwd.salt = writes + 1] ELSE user
  /\ Answer(r)
  /\ UNCHANGED <<codes, userId, idLock, set>>

-----------------------------------------------------------------------------
Next ==
  \/ GlobalHourPasses
  \/ \E e \in Emails : GetVarifyCode(e) \/ CodeExpires(e) \/ CooldownExpires(e) \/ HourPasses(e)
  \/ \E r \in Requests :
       \/ \E e \in Emails, n \in Names, pw \in New, given \in 0 .. issued :
            UserRegister(r, e, n, pw, given) \/ ResetPwd(r, e, n, pw, given)
       \/ RegisterCheck(r) \/ RegisterCount(r) \/ RegisterInsert(r) \/ Fails(r)
       \/ ResetCheck(r) \/ ResetUpdate(r)
       \/ (\E e \in Emails, pw \in Old \cup New : LoginRead(r, e, pw)) \/ LoginUpgrade(r)
       \/ (\E e \in Emails : MigrateRead(r, e)) \/ MigrateUpdate(r)

Spec == Init /\ [][Next]_vars

-----------------------------------------------------------------------------
\* The variables hold what their declarations say; the id counter is that
\* of the accounts and of the one transaction that has updated it.
Jobs ==
  [pc : {"idle", "check", "count", "insert", "update", "upgrade", "migrate"}, kind : {None, "register", "reset", "login"},
   email : Emails \cup {None}, name : Names \cup {None}, pw : Old \cup New \cup {None}, row : Credentials \cup {None}]
CodeTypes ==
  /\ code \in [Emails -> Issues \cup {None}] /\ attempts \in [Emails -> 0 .. MaxAttempts]
  /\ cooldown \in [Emails -> BOOLEAN] /\ hourly \in [Emails -> 0 .. HourlyLimit + 1] /\ total \in 0 .. GlobalLimit + 1
  /\ issued \in 0 .. MaxIssues /\ misses \in [Issues -> Nat] /\ granted \in [Issues -> Nat]
RowTypes ==
  /\ user \in [Emails -> Users \cup {None}] /\ set \in [Emails -> Old \cup New \cup {None}]
  /\ userId = Cardinality(Registered) + (IF idLock = None THEN 0 ELSE 1)
  /\ idLock \in Requests \cup {None} /\ writes \in 0 .. MaxWrites
TypeOK == CodeTypes /\ RowTypes /\ req \in [Requests -> Jobs]

\* ISSUE_CODE_SCRIPT and ConsumeVerificationCode: a code authorises one
\* request and survives fewer than MaxAttempts wrong guesses, however issues,
\* expiry and guesses of several requests interleave.
CodeIsSpent == \A c \in Issues : granted[c] <= 1 /\ misses[c] <= MaxAttempts /\ (granted[c] = 1 => misses[c] < MaxAttempts)

\* RegUserTransaction: concurrent registrations, failed ones included, give
\* no uid and no name to two accounts.
AccountsAreDistinct ==
  \A d, e \in Registered : d # e => user[d].uid # user[e].uid /\ user[d].name # user[e].name

\* CheckPwd, UpdatePwd, MigrateLegacyPasswords: what is stored always
\* verifies the password its owner set last; an upgrade or a migration that
\* worked from an older row never brings back or spoils a password.
CredentialIsCurrent == \A e \in Registered : VerifyCredential(set[e], user[e].pwd)
=============================================================================
