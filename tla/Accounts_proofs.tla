-------------------------- MODULE Accounts_proofs --------------------------
(***************************************************************************)
(* CodeIsSpent, AccountsAreDistinct and CredentialIsCurrent hold for any   *)
(* requests, addresses, names, passwords and limits.                       *)
(*                                                                         *)
(* A live code has not been used, belongs to one address and has at most   *)
(* as many wrong guesses as its counter says (CodesKept).  A uid is below  *)
(* the counter that the one open transaction has raised (RowsKept).  What  *)
(* a login or a migration has read of a row verifies the password it       *)
(* works with (RequestsKept), so an upgrade that still finds the row       *)
(* stores the password the owner set last.                                 *)
(*                                                                         *)
(* At the end: a ticket of the login that follows admits one connection    *)
(* (ClientLogin).                                                          *)
(***************************************************************************)
EXTENDS Accounts, FiniteSetTheorems, TLAPS

\* Codes: what is live, and what is not issued yet.
Live(e) ==
  code[e] # None =>
    /\ code[e] <= issued /\ granted[code[e]] = 0 /\ misses[code[e]] <= attempts[e] /\ attempts[e] < MaxAttempts
    /\ \A d \in Emails : code[d] = code[e] => d = e
Unissued == \A c \in Issues : c > issued => granted[c] = 0 /\ misses[c] = 0
CodesKept == CodeTypes /\ (\A e \in Emails : Live(e)) /\ Unissued /\ CodeIsSpent

\* Rows: the open transaction has counted the uid it is going to give out.
Settled == IF idLock = None THEN userId ELSE userId - 1
RowsKept == RowTypes /\ (\A e \in Registered : user[e].uid <= Settled) /\ AccountsAreDistinct /\ CredentialIsCurrent

\* Requests: what each of them has established before its next statement.
Known(r) ==
  LET q == req[r] IN
  /\ q.pc = "insert" <=> idLock = r
  /\ q.pc # "idle" => q.email \in Emails
  /\ q.pc \in {"check", "count", "insert"} => q.name \in Names
  /\ q.pc \in {"check", "count", "insert", "update"} => q.pw \in New
  /\ q.pc \in {"update", "upgrade", "migrate"} => q.email \in Registered
  /\ q.pc = "upgrade" => q.pw \in Old \cup New /\ q.row \in Credentials /\ VerifyCredential(q.pw, q.row)
RequestsKept == req \in [Requests -> Jobs] /\ \A r \in Requests : Known(r)

IInv == CodesKept /\ RowsKept /\ RequestsKept

-----------------------------------------------------------------------------
(* Codes.                                                                  *)

\* What the provers need of the limits and of None.
LEMMA Limits ==
  /\ Issues \subseteq Nat /\ None \notin Issues /\ MaxIssues \in Nat /\ MaxAttempts \in Nat \ {0}
  /\ HourlyLimit \in Nat /\ GlobalLimit \in Nat /\ MaxWrites \in Nat
  /\ \A n : n \in Issues <=> n \in Nat /\ 1 <= n /\ n <= MaxIssues
  BY AccountConstants DEF Issues

\* Steps that do not touch the codes.
LEMMA CodesFrame ==
  ASSUME CodesKept, UNCHANGED codes PROVE CodesKept'
  BY Zenon DEF CodesKept, codes, CodeTypes, Live, Unissued, CodeIsSpent

\* ISSUE_CODE_SCRIPT: a code that is issued is new; the one it replaces is gone.
LEMMA IssueKeeps ==
  ASSUME CodesKept, NEW e \in Emails, GetVarifyCode(e) PROVE CodesKept'
  <1>1. UNCHANGED <<misses, granted>> /\ issued < MaxIssues
    BY Zenon DEF GetVarifyCode
  <1>2. hourly' \in [Emails -> 0 .. HourlyLimit + 1]
    BY Limits DEF GetVarifyCode, IssueVerificationCode, Count, CodesKept, CodeTypes
  <1>3. total' \in 0 .. GlobalLimit + 1
    BY Limits DEF GetVarifyCode, IssueVerificationCode, Count, CodesKept, CodeTypes
  <1>4. CASE UNCHANGED <<cooldown, issued, code, attempts>>
    BY <1>1, <1>2, <1>3, <1>4, Zenon DEF CodesKept, CodeTypes, Live, Unissued, CodeIsSpent
  <1>5. CASE Accept(e)
    <2>1. issued + 1 \in Issues /\ issued \in Nat
      BY <1>1, Limits DEF CodesKept, CodeTypes
    <2>2. CodeTypes'
      BY <1>1, <1>2, <1>3, <1>5, <2>1, Limits DEF Accept, CodesKept, CodeTypes
    <2>3. code'[e] = issued + 1 /\ attempts'[e] = 0 /\ issued' = issued + 1
      BY <1>5, Zenon DEF Accept, CodesKept, CodeTypes
    <2>4. \A d \in Emails \ {e} : code'[d] = code[d] /\ attempts'[d] = attempts[d]
      BY <1>5, Zenon DEF Accept, CodesKept, CodeTypes
    <2>5. granted[issued + 1] = 0 /\ misses[issued + 1] = 0
      BY <2>1 DEF CodesKept, Unissued
    <2>6. \A d \in Emails \ {e} : code[d] # None => code[d] <= issued /\ code[d] \in Nat
      BY Limits, Zenon DEF CodesKept, CodeTypes, Live
    <2>7. \A d \in Emails \ {e} : code'[d] # code'[e]
      BY <2>1, <2>3, <2>4, <2>6, Limits
    <2>8. Live(e)'
      BY <1>1, <2>1, <2>3, <2>5, <2>7, Limits DEF Live
    <2>9. ASSUME NEW d \in Emails \ {e} PROVE Live(d)'
      <3>1. Live(d) /\ code'[d] = code[d] /\ attempts'[d] = attempts[d]
        BY <2>4, Zenon DEF CodesKept
      <3>2. code[d] # None => code[d] <= issued'
        BY <2>1, <2>3, <2>6
      <3> QED  BY <1>1, <2>4, <2>7, <3>1, <3>2, Zenon DEF Live
    <2>10. Unissued'
      BY <1>1, <2>1, <2>3, Limits DEF CodesKept, Unissued
    <2> QED  BY <1>1, <2>2, <2>8, <2>9, <2>10, Zenon DEF CodesKept, CodeIsSpent
  <1> QED  BY <1>4, <1>5, Zenon DEF GetVarifyCode, IssueVerificationCode

\* Keys that run out take a code away, never bring one back.
LEMMA ExpiryKeeps ==
  ASSUME CodesKept, NEW e \in Emails,
         CodeExpires(e) \/ CooldownExpires(e) \/ HourPasses(e) \/ GlobalHourPasses
  PROVE  CodesKept'
  <1>1. CASE CodeExpires(e)
    <2>1. CodeTypes'
      BY <1>1, Limits DEF CodeExpires, CodesKept, CodeTypes
    <2>2. UNCHANGED <<issued, misses, granted>> /\ code'[e] = None
      BY <1>1, Zenon DEF CodeExpires, CodesKept, CodeTypes
    <2>3. \A d \in Emails \ {e} : code'[d] = code[d] /\ attempts'[d] = attempts[d]
      BY <1>1, Zenon DEF CodeExpires, CodesKept, CodeTypes
    <2>4. \A d \in Emails : Live(d)'
      BY <2>2, <2>3 DEF CodesKept, Live
    <2> QED  BY <2>1, <2>2, <2>4, Zenon DEF CodesKept, Unissued, CodeIsSpent
  <1>2. CASE CooldownExpires(e) \/ HourPasses(e) \/ GlobalHourPasses
    <2>1. UNCHANGED <<code, attempts, issued, misses, granted>>
      BY <1>2, Zenon DEF CooldownExpires, HourPasses, GlobalHourPasses
    <2>2. CodeTypes'
      <3>0. FALSE \in BOOLEAN
        OBVIOUS
      <3>1. cooldown' \in [Emails -> BOOLEAN]
        BY <1>2, <3>0, Zenon DEF CooldownExpires, HourPasses, GlobalHourPasses, CodesKept, CodeTypes
      <3>3. total' \in 0 .. GlobalLimit + 1
        BY <1>2, Limits DEF CooldownExpires, HourPasses, GlobalHourPasses, CodesKept, CodeTypes
      <3>2. hourly' \in [Emails -> 0 .. HourlyLimit + 1]
        BY <1>2, Limits DEF CooldownExpires, HourPasses, GlobalHourPasses, CodesKept, CodeTypes
      <3> QED  BY <2>1, <3>1, <3>2, <3>3, Zenon DEF CodesKept, CodeTypes
    <2> QED  BY <2>1, <2>2, Zenon DEF CodesKept, Live, Unissued, CodeIsSpent
  <1> QED  BY <1>1, <1>2, Zenon

\* ConsumeVerificationCode: a code that matches is gone, one with too many
\* wrong guesses as well.
LEMMA ConsumeKeeps ==
  ASSUME CodesKept, NEW e \in Emails, code[e] # None, Matches(e) \/ Mismatches(e),
         UNCHANGED <<cooldown, hourly, total, issued>>
  PROVE  CodesKept'
  <1> DEFINE c == code[e]
  <1>0. /\ c \in Issues /\ c <= issued /\ granted[c] = 0 /\ misses[c] <= attempts[e] /\ attempts[e] < MaxAttempts
        /\ \A d \in Emails \ {e} : code[d] # c
        /\ misses[c] \in Nat /\ attempts[e] \in Nat /\ issued \in Nat
    BY DEF CodesKept, CodeTypes, Live
  <1>1. CodeTypes
    BY Zenon DEF CodesKept
  <1> HIDE DEF c
  <1>2. CASE Matches(e)
    <2>1. /\ granted' = [granted EXCEPT ![c] = @ + 1] /\ misses' = misses
          /\ code' = [code EXCEPT ![e] = None] /\ attempts' = [attempts EXCEPT ![e] = 0]
      BY <1>2, Zenon DEF Matches, Spend, c
    <2>2. CodeTypes'
      BY <1>0, <1>1, <2>1, Limits DEF CodeTypes
    <2>3. granted'[c] = 1 /\ \A b \in Issues \ {c} : granted'[b] = granted[b]
      BY <1>0, <1>1, <2>1 DEF CodeTypes
    <2>4. code'[e] = None /\ \A d \in Emails \ {e} : code'[d] = code[d] /\ attempts'[d] = attempts[d]
      BY <1>1, <2>1, Zenon DEF CodeTypes
    <2>5. ASSUME NEW d \in Emails PROVE Live(d)'
      <3>1. Live(d) /\ (code[d] # None => code[d] \in Issues)
        BY <1>1, Zenon DEF CodesKept, CodeTypes
      <3> QED  BY <1>0, <2>1, <2>3, <2>4, <3>1 DEF Live
    <2>6. Unissued'
      BY <1>0, <2>1, <2>3, Limits DEF CodesKept, Unissued
    <2>7. CodeIsSpent'
      <3>1. misses'[c] < MaxAttempts
        BY <1>0, <2>1, Limits
      <3> QED  BY <1>0, <2>1, <2>3, <3>1, Limits DEF CodesKept, CodeIsSpent
    <2> QED  BY <2>2, <2>5, <2>6, <2>7, Zenon DEF CodesKept
  <1>3. CASE Mismatches(e)
    <2>1. misses' = [misses EXCEPT ![c] = @ + 1] /\ granted' = granted
      BY <1>3, Zenon DEF Mismatches, c
    <2>2. /\ misses'[c] = misses[c] + 1 /\ misses' \in [Issues -> Nat]
          /\ \A b \in Issues \ {c} : misses'[b] = misses[b]
      BY <1>0, <1>1, <2>1, Limits DEF CodeTypes
    <2>3. /\ code' \in [Emails -> Issues \cup {None}] /\ attempts' \in [Emails -> 0 .. MaxAttempts]
          /\ \A d \in Emails \ {e} : code'[d] = code[d] /\ attempts'[d] = attempts[d]
          /\ code'[e] = None \/ (code'[e] = c /\ attempts'[e] = attempts[e] + 1 /\ attempts[e] + 1 < MaxAttempts)
      <3>1. CASE attempts[e] + 1 >= MaxAttempts
        BY <1>1, <1>3, <3>1, Limits DEF Mismatches, Spend, CodeTypes
      <3>2. CASE ~(attempts[e] + 1 >= MaxAttempts)
        <4>1. attempts' = [attempts EXCEPT ![e] = attempts[e] + 1] /\ code' = code
          BY <1>3, <3>2, Zenon DEF Mismatches
        <4> QED  BY <1>0, <1>1, <3>2, <4>1, Limits DEF CodeTypes, c
      <3> QED  BY <3>1, <3>2, Zenon
    <2>4. ASSUME NEW d \in Emails PROVE Live(d)'
      <3>1. Live(d) /\ (code[d] # None => code[d] \in Issues)
        BY <1>1, Zenon DEF CodesKept, CodeTypes
      <3>2. CASE d = e
        BY <1>0, <2>1, <2>2, <2>3, <3>2, Limits DEF Live
      <3>3. CASE d # e
        BY <1>0, <2>1, <2>2, <2>3, <3>1, <3>3 DEF Live
      <3> QED  BY <3>2, <3>3, Zenon
    <2>5. Unissued'
      BY <1>0, <2>1, <2>2, Limits DEF CodesKept, Unissued
    <2>6. CodeIsSpent'
      <3>1. misses'[c] <= MaxAttempts /\ granted'[c] = 0
        BY <1>0, <2>1, <2>2, Limits
      <3> QED  BY <1>0, <2>1, <2>2, <3>1, Limits DEF CodesKept, CodeIsSpent
    <2> QED  BY <1>1, <2>1, <2>2, <2>3, <2>4, <2>5, <2>6, Zenon DEF CodesKept, CodeTypes
  <1> QED  BY <1>2, <1>3, Zenon

-----------------------------------------------------------------------------
(* Rows and requests.                                                      *)

\* Steps that do not touch the tables.
LEMMA RowsFrame ==
  ASSUME RowsKept, UNCHANGED rows PROVE RowsKept' /\ Registered' = Registered
  BY Zenon DEF RowsKept, rows, RowTypes, Registered, Settled, AccountsAreDistinct, CredentialIsCurrent

\* A step of request r leaves the other requests what they have established, if
\* it removes no account and takes the lock of user_id from none of them.
LEMMA RequestStep ==
  ASSUME RequestsKept, NEW r \in Requests, req' \in [Requests -> Jobs], Known(r)', Registered \subseteq Registered',
         \A t \in Requests \ {r} : req'[t] = req[t] /\ (idLock' = t <=> idLock = t)
  PROVE  RequestsKept'
  <1>1. ASSUME NEW t \in Requests \ {r} PROVE Known(t)'
    <2>1. Known(t) /\ req'[t] = req[t] /\ (idLock' = t <=> idLock = t)
      BY Zenon DEF RequestsKept
    <2> QED  BY <2>1, Zenon DEF Known, VerifyCredential, Candidate
  <1> QED  BY <1>1, Zenon DEF RequestsKept

\* A request without the lock of user_id ends.
LEMMA AnswerStep ==
  ASSUME RequestsKept, NEW r \in Requests, Answer(r), Registered \subseteq Registered', idLock' # r,
         \A t \in Requests \ {r} : idLock' = t <=> idLock = t
  PROVE  RequestsKept'
  <1>1. NoReq \in Jobs /\ NoReq.pc = "idle"
    BY Zenon DEF NoReq, Jobs
  <1>2. req' \in [Requests -> Jobs] /\ req'[r] = NoReq /\ \A t \in Requests \ {r} : req'[t] = req[t]
    BY <1>1, Zenon DEF Answer, RequestsKept
  <1>3. Known(r)'
    BY <1>1, <1>2, Zenon DEF Known
  <1> QED  BY <1>2, <1>3, RequestStep, Zenon

\* A request goes on with a statement that needs no more than the one before.
LEMMA GotoStep ==
  ASSUME RequestsKept, NEW r \in Requests, NEW pc \in {"count", "insert", "update"}, Goto(r, pc), req[r].pc \in {"check", "count"},
         Registered' = Registered, pc = "insert" <=> idLock' = r, pc = "update" => req[r].email \in Registered,
         \A t \in Requests \ {r} : idLock' = t <=> idLock = t
  PROVE  RequestsKept'
  <1>0. req[r] \in Jobs
    BY Zenon DEF RequestsKept
  <1>1. [req[r] EXCEPT !.pc = pc] \in Jobs
    BY <1>0, Zenon DEF Jobs
  <1>2. /\ req' \in [Requests -> Jobs] /\ req'[r] = [req[r] EXCEPT !.pc = pc]
        /\ \A t \in Requests \ {r} : req'[t] = req[t]
    BY <1>1, Zenon DEF Goto, RequestsKept
  <1>3. /\ req'[r].pc = pc /\ req'[r].email = req[r].email /\ req'[r].name = req[r].name /\ req'[r].pw = req[r].pw
    BY <1>0, <1>2, Zenon DEF Jobs
  <1>4. Known(r)'
    BY <1>3, Zenon DEF Known, RequestsKept
  <1> QED  BY <1>2, <1>4, RequestStep, Zenon

\* The statements that replace a stored password by one that verifies.
LEMMA PasswordStep ==
  ASSUME RowsKept, NEW e \in Registered, NEW p \in Credentials, user' = [user EXCEPT ![e].pwd = p],
         NEW w \in Old \cup New, set' = [set EXCEPT ![e] = w], VerifyCredential(w, p),
         writes' \in 0 .. MaxWrites, UNCHANGED <<userId, idLock>>
  PROVE  RowsKept' /\ Registered' = Registered
  <1>0. e \in Emails /\ user[e] \in Users /\ user \in [Emails -> Users \cup {None}] /\ set \in [Emails -> Old \cup New \cup {None}]
    BY Zenon DEF RowsKept, RowTypes, Registered
  <1>1. [user[e] EXCEPT !.pwd = p] \in Users
    BY <1>0, Zenon DEF Users
  <1>2. /\ user' \in [Emails -> Users \cup {None}] /\ set' \in [Emails -> Old \cup New \cup {None}]
        /\ user'[e] = [user[e] EXCEPT !.pwd = p] /\ set'[e] = w
        /\ \A d \in Emails \ {e} : user'[d] = user[d] /\ set'[d] = set[d]
    BY <1>0, <1>1, Zenon
  <1>3. user'[e].uid = user[e].uid /\ user'[e].name = user[e].name /\ user'[e].pwd = p
    BY <1>0, <1>2, Zenon DEF Users
  <1>4. Registered' = Registered
    BY <1>0, <1>1, <1>2, AccountConstants, Zenon DEF Registered
  <1>5. RowTypes'
    BY <1>2, <1>4, Zenon DEF RowsKept, RowTypes
  <1>6. AccountsAreDistinct' /\ \A d \in Registered' : user'[d].uid <= Settled'
    <2>1. \A d \in Registered : user'[d].uid = user[d].uid /\ user'[d].name = user[d].name
      BY <1>2, <1>3, Zenon DEF Registered
    <2> QED  BY <1>4, <2>1 DEF RowsKept, AccountsAreDistinct, Settled
  <1>7. CredentialIsCurrent'
    BY <1>2, <1>3, <1>4, ZenonT(60) DEF RowsKept, CredentialIsCurrent, Registered, VerifyCredential, Candidate
  <1> QED  BY <1>4, <1>5, <1>6, <1>7, Zenon DEF RowsKept

\* A hash of a raw password is a credential that verifies it.
LEMMA HashOf ==
  ASSUME RowsKept, NEW w \in Old \cup New, Writing
  PROVE  Hash(w) \in Credentials /\ VerifyCredential(w, Hash(w)) /\ writes' \in 0 .. MaxWrites
  <1>1. writes + 1 \in 0 .. MaxWrites /\ writes' = writes + 1
    BY Limits DEF Writing, RowsKept, RowTypes
  <1> QED  BY <1>1, Zenon DEF Hash, Stored, Credentials, Schemes, VerifyCredential, Candidate

\* /user_register and /reset_pwd up to the database.
LEMMA ConsumeStep ==
  ASSUME IInv, NEW r \in Requests, NEW e \in Emails, NEW n \in Names, NEW pw \in New, NEW given,
         UserRegister(r, e, n, pw, given) \/ ResetPwd(r, e, n, pw, given)
  PROVE  IInv'
  <1>1. PICK kind \in {"register", "reset"} : Consume(r, e, given, Work(kind, e, n, pw))
    BY Zenon DEF UserRegister, ResetPwd
  <1> DEFINE work == Work(kind, e, n, pw)
  <1>2. work \in Jobs /\ work.pc = "check" /\ work.email = e /\ work.name = n /\ work.pw = pw
    BY Zenon DEF Work, Jobs
  <1> HIDE DEF work
  <1>3. /\ req[r].pc = "idle" /\ code[e] # None /\ UNCHANGED <<cooldown, hourly, total, issued, rows>>
        /\ Matches(e) \/ Mismatches(e)
        /\ req' \in {req, [req EXCEPT ![r] = work]}
    BY <1>1, Zenon DEF Consume, work
  <1>4. CodesKept'
    BY <1>3, ConsumeKeeps, Zenon DEF IInv
  <1>5. RowsKept' /\ Registered' = Registered /\ idLock' = idLock
    BY <1>3, RowsFrame, Zenon DEF IInv, rows
  <1>6. req' \in {req, [req EXCEPT ![r] = work]}
    BY <1>1, Zenon DEF Consume, work
  <1>7. CASE req' = req
    <2>1. RequestsKept
      BY Zenon DEF IInv
    <2>2. \A t \in Requests : Known(t)'
      BY <1>5, <1>7, <2>1, Zenon DEF RequestsKept, Known, VerifyCredential, Candidate
    <2>3. RequestsKept'
      BY <1>7, <2>1, <2>2, Zenon DEF RequestsKept
    <2> QED  BY <1>4, <1>5, <2>3, Zenon DEF IInv
  <1>8. CASE req' = [req EXCEPT ![r] = work]
    <2>1. req' \in [Requests -> Jobs] /\ req'[r] = work /\ \A t \in Requests \ {r} : req'[t] = req[t]
      BY <1>2, <1>8, Zenon DEF IInv, RequestsKept
    <2>2. idLock # r
      BY <1>3, Zenon DEF IInv, RequestsKept, Known
    <2>3. Known(r)'
      BY <1>2, <1>5, <2>1, <2>2, Zenon DEF Known
    <2>4. RequestsKept'
      BY <1>5, <2>1, <2>3, RequestStep, Zenon DEF IInv
    <2> QED  BY <1>4, <1>5, <2>4, Zenon DEF IInv
  <1> QED  BY <1>6, <1>7, <1>8, Zenon

\* The two checks of names and addresses.
LEMMA CheckSteps ==
  ASSUME IInv, NEW r \in Requests, RegisterCheck(r) \/ ResetCheck(r)
  PROVE  IInv'
  <1>1. UNCHANGED <<codes, rows>> /\ req[r].pc = "check"
    BY Zenon DEF RegisterCheck, ResetCheck
  <1>2. CodesKept' /\ RowsKept' /\ Registered' = Registered /\ idLock' = idLock
    BY <1>1, CodesFrame, RowsFrame, Zenon DEF IInv, rows
  <1>3. idLock # r /\ RequestsKept
    BY <1>1, Zenon DEF IInv, RequestsKept, Known
  <1>4. CASE Answer(r)
    BY <1>2, <1>3, <1>4, AnswerStep, Zenon DEF IInv
  <1>5. CASE Goto(r, "count")
    BY <1>1, <1>2, <1>3, <1>5, GotoStep, Zenon DEF IInv
  <1>6. CASE Goto(r, "update") /\ user[req[r].email] # None
    <2>1. req[r].email \in Registered
      BY <1>1, <1>3, <1>6, Zenon DEF RequestsKept, Known, Registered
    <2> QED  BY <1>1, <1>2, <1>3, <1>6, <2>1, GotoStep, Zenon DEF IInv
  <1> QED  BY <1>4, <1>5, <1>6, Zenon DEF RegisterCheck, ResetCheck

\* RegUserTransaction: UPDATE user_id.
LEMMA CountStep ==
  ASSUME IInv, NEW r \in Requests, RegisterCount(r)
  PROVE  IInv'
  <1>1. /\ UNCHANGED <<codes, user, set, writes>> /\ req[r].pc = "count" /\ Goto(r, "insert")
        /\ idLock = None /\ idLock' = r /\ userId' = userId + 1
    BY Zenon DEF RegisterCount
  <1>2. CodesKept' /\ None # r /\ \A t \in Requests : t # None
    BY <1>1, CodesFrame, AccountConstants, Zenon DEF IInv
  <1>3. Registered' = Registered
    BY <1>1, Zenon DEF Registered
  <1>4. userId \in Nat /\ userId = Cardinality(Registered)
    <2>1. IsFiniteSet(Registered)
      <3>1. Registered \subseteq Emails
        BY Zenon DEF Registered
      <3> QED  BY <3>1, FS_Subset, AccountConstants, Zenon
    <2>2. Cardinality(Registered) \in Nat
      BY <2>1, FS_CardinalityType, Zenon
    <2> QED  BY <1>1, <2>2 DEF IInv, RowsKept, RowTypes
  <1>5. RowTypes'
    <2>1. userId' = Cardinality(Registered') + 1
      BY <1>1, <1>3, <1>4, Zenon
    <2>2. (IF idLock' = None THEN 0 ELSE 1) = 1 /\ idLock' \in Requests \cup {None}
      BY <1>1, <1>2, Zenon
    <2>3. RowTypes
      BY Zenon DEF IInv, RowsKept
    <2> QED  BY <1>1, <2>1, <2>2, <2>3, Zenon DEF RowTypes
  <1>6. Settled = userId /\ Settled' = userId
    BY <1>1, <1>2, <1>4 DEF Settled
  <1>7. RowsKept'
    BY <1>1, <1>3, <1>5, <1>6, ZenonT(60) DEF IInv, RowsKept, AccountsAreDistinct, CredentialIsCurrent
  <1>8. RequestsKept'
    BY <1>1, <1>2, <1>3, GotoStep, Zenon DEF IInv
  <1> QED  BY <1>2, <1>7, <1>8, Zenon DEF IInv

\* RegUserTransaction: INSERT and COMMIT.
LEMMA InsertStep ==
  ASSUME IInv, NEW r \in Requests, RegisterInsert(r)
  PROVE  IInv'
  <1> DEFINE e == req[r].email
             n == req[r].name
             w == req[r].pw
             account == [name |-> n, uid |-> userId, pwd |-> Hash(w)]
  <1>1. /\ UNCHANGED <<codes, userId>> /\ req[r].pc = "insert" /\ ~Taken(e, n) /\ Writing /\ Answer(r)
        /\ user' = [user EXCEPT ![e] = account] /\ set' = [set EXCEPT ![e] = w] /\ idLock' = None
    BY Zenon DEF RegisterInsert
  <1>2. /\ e \in Emails /\ n \in Names /\ w \in New /\ idLock = r /\ None # r /\ \A t \in Requests : t # None
    BY <1>1, AccountConstants, Zenon DEF IInv, RequestsKept, Known
  <1>3. /\ user \in [Emails -> Users \cup {None}] /\ set \in [Emails -> Old \cup New \cup {None}]
        /\ userId = Cardinality(Registered) + 1 /\ \A d \in Registered : user[d].uid <= userId - 1
    BY <1>2, Zenon DEF IInv, RowsKept, RowTypes, Settled
  <1>4. Hash(w) \in Credentials /\ VerifyCredential(w, Hash(w)) /\ writes' \in 0 .. MaxWrites
    BY <1>1, <1>2, HashOf, Zenon DEF IInv
  <1>5. IsFiniteSet(Registered) /\ Cardinality(Registered) \in Nat
    <2>1. Registered \subseteq Emails
      BY Zenon DEF Registered
    <2>2. IsFiniteSet(Registered)
      BY <2>1, FS_Subset, AccountConstants, Zenon
    <2> QED  BY <2>2, FS_CardinalityType, Zenon
  <1>6. account \in Users /\ account # None
    BY <1>2, <1>3, <1>4, <1>5, AccountConstants DEF Users
  <1>7. account.name = n /\ account.uid = userId /\ account.pwd = Hash(w)
    OBVIOUS
  <1>8. user[e] = None /\ \A d \in Registered : user[d].name # n
    BY <1>1, Zenon DEF Taken
  <1> HIDE DEF e, n, w, account
  <1>9. /\ user'[e] = account /\ set'[e] = w /\ \A d \in Emails \ {e} : user'[d] = user[d] /\ set'[d] = set[d]
        /\ user' \in [Emails -> Users \cup {None}] /\ set' \in [Emails -> Old \cup New \cup {None}]
    BY <1>1, <1>2, <1>3, <1>6, Zenon
  <1>10. Registered' = Registered \cup {e} /\ e \notin Registered
    BY <1>2, <1>6, <1>8, <1>9, Zenon DEF Registered
  <1>11. Cardinality(Registered') = Cardinality(Registered) + 1
    BY <1>5, <1>10, FS_AddElement, Zenon
  <1>12. RowTypes'
    BY <1>1, <1>3, <1>4, <1>5, <1>9, <1>11 DEF RowTypes
  <1>13. \A d \in Registered' : user'[d].uid <= Settled'
    <2>1. Settled' = userId /\ userId \in Nat
      BY <1>1, <1>3, <1>5 DEF Settled
    <2>2. \A d \in Registered : user'[d] = user[d] /\ user[d].uid \in Nat
      BY <1>3, <1>9, <1>10, Zenon DEF Registered, Users
    <2> QED  BY <1>3, <1>7, <1>9, <1>10, <2>1, <2>2
  <1>14. AccountsAreDistinct'
    <2>1. \A d \in Registered : user'[d] = user[d] /\ user[d].uid \in Nat /\ user[d].uid # userId /\ user[d].name # n
      BY <1>3, <1>5, <1>8, <1>9, <1>10 DEF Registered, Users
    <2>2. \A d, f \in Registered : d # f => user[d].uid # user[f].uid /\ user[d].name # user[f].name
      BY Zenon DEF IInv, RowsKept, AccountsAreDistinct
    <2> QED  BY <1>7, <1>9, <1>10, <2>1, <2>2 DEF AccountsAreDistinct
  <1>15. CredentialIsCurrent'
    <2>1. \A d \in Registered : user'[d] = user[d] /\ set'[d] = set[d] /\ VerifyCredential(set[d], user[d].pwd)
      BY <1>9, <1>10, Zenon DEF IInv, RowsKept, CredentialIsCurrent, Registered
    <2>2. VerifyCredential(set'[e], user'[e].pwd)
      BY <1>4, <1>7, <1>9, Zenon
    <2> QED  BY <1>10, <2>1, <2>2, ZenonT(60) DEF CredentialIsCurrent, VerifyCredential, Candidate
  <1>16. RequestsKept'
    BY <1>1, <1>2, <1>10, AnswerStep, Zenon DEF IInv
  <1>17. CodesKept'
    BY <1>1, CodesFrame, Zenon DEF IInv
  <1> QED  BY <1>12, <1>13, <1>14, <1>15, <1>16, <1>17, Zenon DEF IInv, RowsKept

\* A transaction that rolls back gives its number back.
LEMMA FailStep ==
  ASSUME IInv, NEW r \in Requests, Fails(r)
  PROVE  IInv'
  <1>1. UNCHANGED <<codes, user, set, writes>> /\ Answer(r)
    BY Zenon DEF Fails
  <1>2. CodesKept' /\ Registered' = Registered /\ None # r /\ \A t \in Requests : t # None
    BY <1>1, CodesFrame, AccountConstants, Zenon DEF IInv, Registered
  <1>3. CASE idLock = r /\ idLock' = None /\ userId' = userId - 1
    <2>1. IsFiniteSet(Registered)
      <3>1. Registered \subseteq Emails
        BY Zenon DEF Registered
      <3> QED  BY <3>1, FS_Subset, AccountConstants, Zenon
    <2>2. Cardinality(Registered) \in Nat /\ userId = Cardinality(Registered) + 1
      BY <1>2, <1>3, <2>1, FS_CardinalityType, Zenon DEF IInv, RowsKept, RowTypes
    <2>3. RowTypes' /\ Settled' = Settled
      BY <1>1, <1>2, <1>3, <2>2 DEF IInv, RowsKept, RowTypes, Settled
    <2>4. RowsKept'
      BY <1>1, <1>2, <2>3, ZenonT(60) DEF IInv, RowsKept, AccountsAreDistinct, CredentialIsCurrent
    <2>5. RequestsKept'
      BY <1>1, <1>2, <1>3, AnswerStep, Zenon DEF IInv
    <2> QED  BY <1>2, <2>4, <2>5, Zenon DEF IInv
  <1>4. CASE idLock # r /\ UNCHANGED <<idLock, userId>>
    BY <1>1, <1>2, <1>4, RowsFrame, AnswerStep, Zenon DEF IInv, rows
  <1> QED  BY <1>3, <1>4, Zenon DEF Fails

-----------------------------------------------------------------------------
(* Passwords.                                                              *)

\* A login that has to upgrade, a migration: the row as it is read.
LEMMA ReadSteps ==
  ASSUME IInv, NEW r \in Requests, NEW e \in Emails,
         (\E pw \in Old \cup New : LoginRead(r, e, pw)) \/ MigrateRead(r, e)
  PROVE  IInv'
  <1>1. UNCHANGED <<codes, rows>> /\ req[r].pc = "idle" /\ user[e] # None
    BY Zenon DEF LoginRead, MigrateRead
  <1>2. CodesKept' /\ RowsKept' /\ Registered' = Registered /\ idLock' = idLock /\ e \in Registered
    BY <1>1, CodesFrame, RowsFrame, Zenon DEF IInv, rows, Registered
  <1>3. idLock # r /\ RequestsKept
    BY <1>1, Zenon DEF IInv, RequestsKept, Known
  <1>4. user[e].pwd \in Credentials
    <2>1. user[e] \in Users
      BY <1>1, Zenon DEF IInv, RowsKept, RowTypes
    <2> QED  BY <2>1, Zenon DEF Users
  <1>5. PICK q \in Jobs : /\ req' = [req EXCEPT ![r] = q] /\ q.email = e /\ q.row = user[e].pwd
                          /\ \/ q.pc = "upgrade" /\ q.pw \in Old \cup New /\ VerifyCredential(q.pw, q.row)
                             \/ q.pc = "migrate"
    <2>1. ASSUME NEW pw \in Old \cup New, LoginRead(r, e, pw)
          PROVE  \E q \in Jobs : /\ req' = [req EXCEPT ![r] = q] /\ q.email = e /\ q.row = user[e].pwd
                                 /\ q.pc = "upgrade" /\ q.pw \in Old \cup New /\ VerifyCredential(q.pw, q.row)
      <3> DEFINE q == [pc |-> "upgrade", kind |-> "login", email |-> e, name |-> None, pw |-> pw, row |-> user[e].pwd]
      <3>1. q \in Jobs
        BY <1>4, Zenon DEF Jobs
      <3>2. /\ req' = [req EXCEPT ![r] = q] /\ q.email = e /\ q.row = user[e].pwd
            /\ q.pc = "upgrade" /\ q.pw \in Old \cup New /\ VerifyCredential(q.pw, q.row)
        BY <2>1, Zenon DEF LoginRead
      <3> QED  BY <3>1, <3>2, Zenon
    <2>2. CASE MigrateRead(r, e)
      <3> DEFINE q == [NoReq EXCEPT !.pc = "migrate", !.email = e, !.row = user[e].pwd]
      <3>1. q \in Jobs /\ q.email = e /\ q.row = user[e].pwd /\ q.pc = "migrate"
        BY <1>4, Zenon DEF NoReq, Jobs
      <3>2. req' = [req EXCEPT ![r] = q]
        BY <2>2, Zenon DEF MigrateRead
      <3> QED  BY <3>1, <3>2, Zenon
    <2> QED  BY <2>1, <2>2, Zenon
  <1>6. req' \in [Requests -> Jobs] /\ req'[r] = q /\ \A t \in Requests \ {r} : req'[t] = req[t]
    BY <1>5, Zenon DEF IInv, RequestsKept
  <1>7. Known(r)'
    BY <1>2, <1>3, <1>4, <1>5, <1>6, Zenon DEF Known, VerifyCredential, Candidate
  <1>8. RequestsKept'
    BY <1>2, <1>3, <1>6, <1>7, RequestStep, Zenon
  <1> QED  BY <1>2, <1>8, Zenon DEF IInv

\* UpdatePwd, the upgrade after a login and the migration of a row.
LEMMA UpdateSteps ==
  ASSUME IInv, NEW r \in Requests, ResetUpdate(r) \/ LoginUpgrade(r) \/ MigrateUpdate(r)
  PROVE  IInv'
  <1> DEFINE e == req[r].email
             w == req[r].pw
  <1>1. /\ UNCHANGED <<codes, userId, idLock>> /\ Writing /\ Answer(r) /\ req[r].pc \in {"update", "upgrade", "migrate"}
    BY Zenon DEF ResetUpdate, LoginUpgrade, MigrateUpdate
  <1>2. e \in Registered /\ Known(r) /\ idLock # r /\ e \in Emails
    BY <1>1, Zenon DEF IInv, RequestsKept, Known, Registered
  <1>3. /\ user[e] \in Users /\ user[e].pwd \in Credentials /\ user \in [Emails -> Users \cup {None}]
        /\ set[e] \in Old \cup New \cup {None} /\ set \in [Emails -> Old \cup New \cup {None}]
        /\ VerifyCredential(set[e], user[e].pwd)
    <2>1. user[e] \in Users
      BY <1>2, Zenon DEF IInv, RowsKept, RowTypes, Registered
    <2> QED  BY <1>2, <2>1, Zenon DEF IInv, RowsKept, RowTypes, Users, CredentialIsCurrent
  <1>4. set[e] = user[e].pwd.pw /\ set[e] \in Old \cup New
    BY <1>3, Zenon DEF VerifyCredential, Candidate, Credentials
  <1>5. writes + 1 \in 0 .. MaxWrites /\ writes' = writes + 1
    BY <1>1, Limits DEF Writing, IInv, RowsKept, RowTypes
  <1>6. set = [set EXCEPT ![e] = set[e]]
    BY <1>2, <1>3, Zenon
  <1> HIDE DEF e, w
  <1>7. RowsKept' /\ Registered' = Registered
    <2>1. CASE ResetUpdate(r)
      <3>1. /\ user' = [user EXCEPT ![e].pwd = Hash(w)] /\ set' = [set EXCEPT ![e] = w] /\ w \in Old \cup New
        BY <1>2, <2>1, Zenon DEF ResetUpdate, Known, e, w
      <3> QED  BY <1>1, <1>2, <3>1, HashOf, PasswordStep, Zenon DEF IInv
    <2>2. CASE user' = user /\ set' = set
      <3>1. RowTypes' /\ Registered' = Registered /\ Settled' = Settled
        BY <1>1, <1>5, <2>2, Zenon DEF IInv, RowsKept, RowTypes, Registered, Settled
      <3> QED  BY <2>2, <3>1, ZenonT(60) DEF IInv, RowsKept, AccountsAreDistinct, CredentialIsCurrent
    <2>3. CASE LoginUpgrade(r) /\ user[e].pwd = req[r].row
      <3>1. user' = [user EXCEPT ![e].pwd = Hash(w)] /\ set' = set /\ VerifyCredential(w, user[e].pwd) /\ w \in Old \cup New
        BY <1>2, <2>3, Zenon DEF LoginUpgrade, Known, e, w
      <3>2. set[e] = w
        BY <1>3, <1>4, <3>1, Zenon DEF VerifyCredential, Candidate, Credentials
      <3>3. set' = [set EXCEPT ![e] = w]
        BY <1>6, <3>1, <3>2, Zenon
      <3> QED  BY <1>1, <1>2, <3>1, <3>3, HashOf, PasswordStep, Zenon DEF IInv
    <2>4. CASE /\ user' = [user EXCEPT ![e].pwd.form = "hash", ![e].pwd.salt = writes + 1] /\ set' = set
      <3> DEFINE p == [user[e].pwd EXCEPT !.form = "hash", !.salt = writes + 1]
      <3>1. p \in Credentials
        BY <1>3, <1>5, Zenon DEF Credentials
      <3>2. p.pw = user[e].pwd.pw /\ p.of = user[e].pwd.of /\ p.scheme = user[e].pwd.scheme
        BY <1>3, Zenon DEF Credentials
      <3>3. VerifyCredential(set[e], p)
        BY <1>3, <3>2, Zenon DEF VerifyCredential
      <3>4. user' = [user EXCEPT ![e].pwd = p]
        <4>1. [user[e] EXCEPT !.pwd.form = "hash", !.pwd.salt = writes + 1] = [user[e] EXCEPT !.pwd = p]
          BY <1>3, Zenon DEF Users, Credentials
        <4> QED  BY <1>2, <1>3, <2>4, <4>1, Zenon
      <3> HIDE DEF p
      <3>5. set' = [set EXCEPT ![e] = set[e]] /\ writes' \in 0 .. MaxWrites
        BY <1>5, <1>6, <2>4, Zenon
      <3> QED  BY <1>1, <1>2, <1>4, <3>1, <3>3, <3>4, <3>5, PasswordStep, Zenon DEF IInv
    <2> QED  BY <2>1, <2>2, <2>3, <2>4, Zenon DEF LoginUpgrade, MigrateUpdate, e, w
  <1>8. RequestsKept'
    BY <1>1, <1>2, <1>7, AnswerStep, Zenon DEF IInv
  <1> QED  BY <1>1, <1>7, <1>8, CodesFrame, Zenon DEF IInv

-----------------------------------------------------------------------------
(* The theorems.                                                           *)

\* The accounts from before have different names and numbers up to the counter.
LEMMA InitIInv == Init => IInv
  <1> SUFFICES ASSUME Init PROVE IInv
    OBVIOUS
  <1>1. CodesKept
    <2>1. CodeTypes
      <3>1. FALSE \in BOOLEAN
        OBVIOUS
      <3> QED  BY <3>1, Limits DEF Init, CodeTypes
    <2>2. \A e \in Emails : Live(e)
      BY Zenon DEF Init, Live
    <2>3. Unissued /\ CodeIsSpent
      BY Limits DEF Init, Unissued, CodeIsSpent
    <2> QED  BY <2>1, <2>2, <2>3, Zenon DEF CodesKept
  <1>2. PICK old \in SUBSET Legacy : \E uid \in [old -> 1 .. Cardinality(old)], name \in [old -> Names], pw \in [old -> Old] :
          /\ \A d, e \in old : uid[d] = uid[e] \/ name[d] = name[e] => d = e
          /\ user = [e \in Emails |-> IF e \notin old THEN None
                       ELSE [name |-> name[e], uid |-> uid[e], pwd |-> Stored(pw[e], "sha", "plain", "legacy", 0)]]
          /\ set = [e \in Emails |-> IF e \in old THEN pw[e] ELSE None]
          /\ userId = Cardinality(old)
    BY Zenon DEF Init
  <1>3. PICK uid \in [old -> 1 .. Cardinality(old)], name \in [old -> Names], pw \in [old -> Old] :
          /\ \A d, e \in old : uid[d] = uid[e] \/ name[d] = name[e] => d = e
          /\ user = [e \in Emails |-> IF e \notin old THEN None
                       ELSE [name |-> name[e], uid |-> uid[e], pwd |-> Stored(pw[e], "sha", "plain", "legacy", 0)]]
          /\ set = [e \in Emails |-> IF e \in old THEN pw[e] ELSE None]
          /\ userId = Cardinality(old)
    BY <1>2, Zenon
  <1>4. old \subseteq Emails /\ IsFiniteSet(old) /\ Cardinality(old) \in Nat
    <2>1. old \subseteq Emails /\ IsFiniteSet(Emails)
      BY AccountConstants, Zenon
    <2>2. IsFiniteSet(old)
      BY <2>1, FS_Subset, Zenon
    <2> QED  BY <2>1, <2>2, FS_CardinalityType, Zenon
  <1>5. ASSUME NEW e \in old
        PROVE  /\ Stored(pw[e], "sha", "plain", "legacy", 0) \in Credentials
               /\ [name |-> name[e], uid |-> uid[e], pwd |-> Stored(pw[e], "sha", "plain", "legacy", 0)] \in Users
               /\ VerifyCredential(pw[e], Stored(pw[e], "sha", "plain", "legacy", 0))
    <2>1. Stored(pw[e], "sha", "plain", "legacy", 0) \in Credentials
      BY Limits DEF Stored, Credentials, Schemes
    <2>2. uid[e] \in Nat \ {0} /\ name[e] \in Names
      BY <1>4
    <2> QED  BY <2>1, <2>2, Zenon DEF Users, Stored, VerifyCredential, Candidate
  <1>6. \A e \in Emails : user[e] # None <=> e \in old
    BY <1>3, <1>5, AccountConstants, ZenonT(60)
  <1>7. Registered = old /\ idLock = None /\ Settled = userId
    BY <1>4, <1>6, Zenon DEF Registered, Init, Settled
  <1>8. RowTypes
    <2>1. user \in [Emails -> Users \cup {None}]
      BY <1>3, <1>5, Zenon
    <2>2. set \in [Emails -> Old \cup New \cup {None}]
      BY <1>3, Zenon
    <2>3. userId = Cardinality(Registered) + 0 /\ writes \in 0 .. MaxWrites
      BY <1>3, <1>4, <1>7, Limits DEF Init
    <2> QED  BY <1>7, <2>1, <2>2, <2>3, Zenon DEF RowTypes
  <1>9. \A e \in old : user[e].uid = uid[e] /\ user[e].name = name[e] /\ set[e] = pw[e]
                        /\ user[e].pwd = Stored(pw[e], "sha", "plain", "legacy", 0)
    BY <1>3, <1>4, Zenon
  <1>10. RowsKept
    <2>1. \A e \in Registered : user[e].uid <= Settled
      <3>1. Settled = Cardinality(old) /\ \A e \in old : uid[e] \in 1 .. Cardinality(old)
        BY <1>3, <1>7, Zenon
      <3> QED  BY <1>4, <1>7, <1>9, <3>1
    <2>2. AccountsAreDistinct
      <3>1. \A d, e \in old : uid[d] = uid[e] \/ name[d] = name[e] => d = e
        BY <1>3, Zenon
      <3>2. \A d, e \in old : d # e => user[d].uid # user[e].uid /\ user[d].name # user[e].name
        BY <1>9, <3>1
      <3> QED  BY <1>7, <3>2, Zenon DEF AccountsAreDistinct
    <2>3. CredentialIsCurrent
      <3>1. \A e \in old : VerifyCredential(set[e], user[e].pwd)
        BY <1>5, <1>9, Zenon
      <3> QED  BY <1>7, <3>1, Zenon DEF CredentialIsCurrent
    <2> QED  BY <1>8, <2>1, <2>2, <2>3, Zenon DEF RowsKept
  <1>11. RequestsKept
    <2>1. NoReq \in Jobs /\ NoReq.pc = "idle"
      BY Zenon DEF NoReq, Jobs
    <2>2. \A r \in Requests : req[r] = NoReq /\ idLock # r
      BY <1>7, AccountConstants DEF Init
    <2> QED  BY <2>1, <2>2, Zenon DEF Init, RequestsKept, Known
  <1> QED  BY <1>1, <1>10, <1>11, Zenon DEF IInv

\* Every script, statement and expiry keeps the invariant.
LEMMA NextIInv == IInv /\ [Next]_vars => IInv'
  <1> SUFFICES ASSUME IInv, [Next]_vars PROVE IInv'
    OBVIOUS
  <1>0. ASSUME UNCHANGED <<rows, req>>, CodesKept' PROVE IInv'
    <2>1. RowsKept' /\ Registered' = Registered /\ idLock' = idLock
      BY <1>0, RowsFrame, Zenon DEF IInv, rows
    <2>2. RequestsKept'
      BY <1>0, <2>1, Zenon DEF IInv, RequestsKept, Known, VerifyCredential, Candidate
    <2> QED  BY <1>0, <2>1, <2>2, Zenon DEF IInv
  <1>1. CASE UNCHANGED vars
    <2>1. UNCHANGED <<codes, rows, req>>
      BY <1>1, Zenon DEF vars, codes, rows
    <2> QED  BY <1>0, <2>1, CodesFrame, Zenon DEF IInv
  <1>2. CASE GlobalHourPasses
    <2>1. CodesKept'
      <3>1. UNCHANGED <<code, attempts, cooldown, hourly, issued, misses, granted>> /\ total' \in 0 .. GlobalLimit + 1
        BY <1>2, Limits DEF GlobalHourPasses
      <3> QED  BY <3>1, Zenon DEF IInv, CodesKept, CodeTypes, Live, Unissued, CodeIsSpent
    <2> QED  BY <1>0, <1>2, <2>1, Zenon DEF GlobalHourPasses
  <1>3. ASSUME NEW e \in Emails, GetVarifyCode(e) PROVE IInv'
    BY <1>0, <1>3, IssueKeeps, Zenon DEF IInv, GetVarifyCode
  <1>4. ASSUME NEW e \in Emails, CodeExpires(e) \/ CooldownExpires(e) \/ HourPasses(e) PROVE IInv'
    <2>1. CodesKept'
      BY <1>4, ExpiryKeeps, Zenon DEF IInv
    <2> QED  BY <1>0, <1>4, <2>1, Zenon DEF CodeExpires, CooldownExpires, HourPasses
  <1>5. ASSUME NEW r \in Requests, NEW e \in Emails, NEW n \in Names, NEW pw \in New, NEW given \in 0 .. issued,
               UserRegister(r, e, n, pw, given) \/ ResetPwd(r, e, n, pw, given)
        PROVE  IInv'
    BY <1>5, ConsumeStep, Zenon
  <1>6. ASSUME NEW r \in Requests, RegisterCheck(r) \/ ResetCheck(r) PROVE IInv'
    BY <1>6, CheckSteps, Zenon
  <1>7. ASSUME NEW r \in Requests, RegisterCount(r) \/ RegisterInsert(r) \/ Fails(r) PROVE IInv'
    BY <1>7, CountStep, InsertStep, FailStep, Zenon
  <1>8. ASSUME NEW r \in Requests, ResetUpdate(r) \/ LoginUpgrade(r) \/ MigrateUpdate(r) PROVE IInv'
    BY <1>8, UpdateSteps, Zenon
  <1>9. ASSUME NEW r \in Requests, NEW e \in Emails, (\E pw \in Old \cup New : LoginRead(r, e, pw)) \/ MigrateRead(r, e)
        PROVE  IInv'
    BY <1>9, ReadSteps, Zenon
  <1> QED  BY <1>1, <1>2, <1>3, <1>4, <1>5, <1>6, <1>7, <1>8, <1>9, Zenon DEF Next

\* The invariant holds in every reachable state.
LEMMA AccountsInvariant == Spec => []IInv
  BY InitIInv, NextIInv, PTL DEF Spec

\* ISSUE_CODE_SCRIPT, ConsumeVerificationCode: a code authorises at most one
\* request and survives fewer than MaxAttempts wrong guesses.
THEOREM CodeSpent == Spec => []CodeIsSpent
  <1>1. IInv => CodeIsSpent
    BY Zenon DEF IInv, CodesKept
  <1> QED  BY <1>1, AccountsInvariant, PTL

\* RegUserTransaction: no uid and no name goes to two accounts.
THEOREM AccountsDistinct == Spec => []AccountsAreDistinct
  <1>1. IInv => AccountsAreDistinct
    BY Zenon DEF IInv, RowsKept
  <1> QED  BY <1>1, AccountsInvariant, PTL

\* CheckPwd, UpdatePwd, MigrateLegacyPasswords: what is stored verifies the
\* password the owner set last.
THEOREM CredentialCurrent == Spec => []CredentialIsCurrent
  <1>1. IInv => CredentialIsCurrent
    BY Zenon DEF IInv, RowsKept
  <1> QED  BY <1>1, AccountsInvariant, PTL

-----------------------------------------------------------------------------
(* Signing in with an account: the ticket of ClientLogin, whose constants   *)
(* and variables are its own.                                               *)

CONSTANTS N, MaxTickets, MaxConns, MaxFaults

VARIABLES up, health, cursor, ticket, tickets, sess, tasks, used, page, button, posts, token, sock, conn, host, payload,
          emitted, authed, reconn, manual, retry, reply, told, faults

Login == INSTANCE ClientLogin WITH issued <- tickets

LoginSessions == [node : Login!Nodes \cup {None}, state : {"none", "open", "authed", "closed"}]

\* A connection that has sent its login frame has a node.
TasksPlaced ==
  /\ up \subseteq Login!Nodes /\ conn \in Nat /\ sess \in [Login!Conns -> LoginSessions]
  /\ \A k \in tasks : k.conn \in Login!Conns /\ sess[k.conn].node # None

\* A ticket that can still be redeemed has not been.
Unused(t) ==
  /\ ticket[t] # None => used[t] = {} /\ t <= tickets
  /\ t > tickets => used[t] = {}
  /\ used[t] = {} \/ \E c : used[t] = {c}
TicketsKept ==
  /\ tickets \in Nat /\ DOMAIN ticket = Login!Tickets /\ DOMAIN used = Login!Tickets
  /\ \A t \in Login!Tickets : Unused(t)

LInv == TasksPlaced /\ TicketsKept

\* Steps that leave the tickets alone.
LEMMA TicketsFrame ==
  ASSUME TicketsKept, UNCHANGED <<tickets, ticket, used>> PROVE TicketsKept'
  BY Zenon DEF TicketsKept, Unused

\* Sessions change their state and frames are finished or lost.
LEMMA PlacedFrame ==
  ASSUME TasksPlaced, up' \subseteq Login!Nodes, UNCHANGED conn, tasks' \subseteq tasks, sess' \in [Login!Conns -> LoginSessions],
         \A c \in Login!Conns : sess'[c].node = sess[c].node
  PROVE  TasksPlaced'
  BY Zenon DEF TasksPlaced

\* A session that ends, and the sessions of a node that stops.
LEMMA SessionEnds ==
  ASSUME TasksPlaced, NEW n
  PROVE  /\ Login!Ended(conn) \in [Login!Conns -> LoginSessions] /\ Login!EndedOn(n) \in [Login!Conns -> LoginSessions]
         /\ \A c \in Login!Conns : Login!Ended(conn)[c].node = sess[c].node /\ Login!EndedOn(n)[c].node = sess[c].node
  <1>1. sess \in [Login!Conns -> LoginSessions] BY Zenon DEF TasksPlaced
  <1>2. ASSUME NEW c \in Login!Conns
        PROVE  [sess[c] EXCEPT !.state = "closed"] \in LoginSessions /\ [sess[c] EXCEPT !.state = "closed"].node = sess[c].node
    <2>1. sess[c] \in LoginSessions BY <1>1, Zenon
    <2> QED BY <2>1, Zenon DEF LoginSessions
  <1>3. Login!EndedOn(n) \in [Login!Conns -> LoginSessions] /\ \A c \in Login!Conns : Login!EndedOn(n)[c].node = sess[c].node
    <2>1. \A c \in Login!Conns : Login!EndedOn(n)[c] = sess[c] \/ Login!EndedOn(n)[c] = [sess[c] EXCEPT !.state = "closed"]
      BY Zenon DEF Login!EndedOn
    <2>2. Login!EndedOn(n) \in [Login!Conns -> LoginSessions]
      BY <1>1, <1>2, Zenon DEF Login!EndedOn
    <2> QED BY <1>2, <2>1, <2>2, Zenon
  <1>4. Login!Ended(conn) \in [Login!Conns -> LoginSessions] /\ \A c \in Login!Conns : Login!Ended(conn)[c].node = sess[c].node
    <2>1. CASE conn = 0 BY <1>1, <2>1, Zenon DEF Login!Ended
    <2>2. CASE conn # 0
      <3> DEFINE x == [sess[conn] EXCEPT !.state = "closed"]
      <3>1. Login!Ended(conn) = [sess EXCEPT ![conn] = x] BY <2>2, Zenon DEF Login!Ended
      <3>2. conn \in Login!Conns => x \in LoginSessions /\ x.node = sess[conn].node BY <1>2, Zenon
      <3> HIDE DEF x
      <3> QED BY <1>1, <3>1, <3>2, Zenon
    <2> QED BY <2>1, <2>2, Zenon
  <1> QED BY <1>3, <1>4, Zenon

\* Health keys, the buttons, the timers and the network.
LEMMA PlainSteps ==
  ASSUME LInv,
         \/ \E n \in Login!Nodes : Login!PublishHealth(n) \/ Login!HealthExpires(n) \/ Login!Crash(n) \/ Login!Restart(n)
                                     \/ Login!StopTimer(n)
         \/ Login!LoginBtn \/ Login!LoginRefused \/ Login!ConnectFails \/ Login!ConnectionLost \/ Login!LoginDeadline
         \/ Login!Disconnected \/ Login!RetryTimeout \/ Login!ReconnectForProxy
         \/ (\E k \in tasks : Login!FrameLost(k)) \/ Login!LoginOk \/ Login!StoreFails \/ Login!LoginFailed \/ Login!Logout
         \/ UNCHANGED Login!vars
  PROVE  LInv'
  <1>0. TasksPlaced /\ TicketsKept /\ sess \in [Login!Conns -> LoginSessions] BY Zenon DEF LInv, TasksPlaced
  <1>1. UNCHANGED <<tickets, ticket, used, conn>>
    BY Zenon DEF Login!PublishHealth, Login!HealthExpires, Login!Crash, Login!Restart, Login!StopTimer, Login!LoginBtn,
         Login!LoginRefused, Login!ConnectFails, Login!ConnectionLost, Login!LoginDeadline, Login!Disconnected,
         Login!RetryTimeout, Login!ReconnectForProxy, Login!FrameLost, Login!LoginOk, Login!StoreFails, Login!LoginFailed,
         Login!Logout, Login!vars, Login!server, Login!wire
  <1>2. up' \subseteq Login!Nodes /\ tasks' \subseteq tasks
    BY <1>0, Zenon DEF TasksPlaced, Login!PublishHealth, Login!HealthExpires, Login!Crash, Login!Restart, Login!StopTimer, Login!LoginBtn,
         Login!LoginRefused, Login!ConnectFails, Login!ConnectionLost, Login!LoginDeadline, Login!Disconnected,
         Login!RetryTimeout, Login!ReconnectForProxy, Login!FrameLost, Login!LoginOk, Login!StoreFails, Login!LoginFailed,
         Login!Logout, Login!vars, Login!server, Login!wire
  <1>3. sess' = sess \/ sess' = Login!Ended(conn) \/ \E n : sess' = Login!EndedOn(n)
    BY Zenon DEF Login!PublishHealth, Login!HealthExpires, Login!Crash, Login!Restart, Login!StopTimer, Login!LoginBtn,
         Login!LoginRefused, Login!ConnectFails, Login!ConnectionLost, Login!LoginDeadline, Login!Disconnected,
         Login!RetryTimeout, Login!ReconnectForProxy, Login!FrameLost, Login!LoginOk, Login!StoreFails, Login!LoginFailed,
         Login!Logout, Login!vars, Login!server, Login!wire
  <1>4. sess' \in [Login!Conns -> LoginSessions] /\ \A c \in Login!Conns : sess'[c].node = sess[c].node
    BY <1>0, <1>3, SessionEnds, Zenon
  <1>5. TasksPlaced' BY <1>0, <1>1, <1>2, <1>4, PlacedFrame, ZenonT(60)
  <1>6. TicketsKept' BY <1>0, <1>1, TicketsFrame, Zenon
  <1> QED BY <1>5, <1>6, Zenon DEF LInv

\* The status server issues the next ticket and the client drops its
\* connection; a ticket runs out.
LEMMA IssueSteps ==
  ASSUME Login!LoginConstants, LInv, Login!LoginAnswered \/ \E t \in Login!Tickets : Login!TicketExpires(t)
  PROVE  LInv'
  <1>0. TasksPlaced /\ TicketsKept /\ sess \in [Login!Conns -> LoginSessions] BY Zenon DEF LInv, TasksPlaced
  <1>1. ASSUME Login!LoginAnswered PROVE LInv'
    <2> DEFINE n == Login!SelectLeastLoaded
    <2>1. /\ ticket' = [ticket EXCEPT ![tickets + 1] = n] /\ tickets' = tickets + 1 /\ UNCHANGED <<used, up, tasks, conn>>
          /\ sess' = sess \/ sess' = Login!Ended(conn)
      BY <1>1, Zenon DEF Login!LoginAnswered, Login!GetChatServer, Login!TcpConnect
    <2> HIDE DEF n
    <2>2. sess' \in [Login!Conns -> LoginSessions] /\ \A c \in Login!Conns : sess'[c].node = sess[c].node
      BY <1>0, <2>1, SessionEnds, Zenon
    <2>3. TasksPlaced'
      <3>1. up \subseteq Login!Nodes BY <1>0, Zenon DEF TasksPlaced
      <3> QED BY <1>0, <2>1, <2>2, <3>1, PlacedFrame, ZenonT(60)
    <2>4. tickets \in Nat /\ DOMAIN ticket = Login!Tickets /\ DOMAIN used = Login!Tickets BY <1>0, Zenon DEF TicketsKept
    <2>5. ASSUME NEW t \in Login!Tickets PROVE Unused(t)'
      <3>1. t \in Nat BY DEF Login!Tickets, Login!LoginConstants
      <3>2. Unused(t) BY <1>0, Zenon DEF TicketsKept
      <3>3. CASE t = tickets + 1
        <4>1. used[t] = {} BY <2>4, <3>1, <3>2, <3>3 DEF Unused
        <4>2. t <= tickets' /\ used' = used BY <2>1, <2>4, <3>1, <3>3
        <4> QED BY <4>1, <4>2, ZenonT(60) DEF Unused
      <3>4. CASE t # tickets + 1
        <4>1. ticket'[t] = ticket[t] BY <2>1, <3>4, <2>4, Zenon
        <4>2. (t <= tickets => t <= tickets') /\ (t > tickets' => t > tickets) BY <2>1, <2>4, <3>1
        <4> QED BY <2>1, <3>2, <4>1, <4>2, Zenon DEF Unused
      <3> QED BY <3>3, <3>4, Zenon
    <2>6. tickets' \in Nat /\ DOMAIN ticket' = Login!Tickets /\ DOMAIN used' = Login!Tickets BY <2>1, <2>4
    <2>7. TicketsKept' BY <2>5, <2>6, Zenon DEF TicketsKept
    <2> QED BY <2>3, <2>7, Zenon DEF LInv
  <1>2. ASSUME NEW t \in Login!Tickets, Login!TicketExpires(t) PROVE LInv'
    <2>1. ticket' = [ticket EXCEPT ![t] = None] /\ UNCHANGED <<used, up, tasks, conn, sess, tickets>>
      BY <1>2, Zenon DEF Login!TicketExpires, Login!wire
    <2>2. TasksPlaced' BY <1>0, <2>1, Zenon DEF TasksPlaced
    <2>3. TicketsKept' BY <1>0, <2>1, Zenon DEF TicketsKept, Unused
    <2> QED BY <2>2, <2>3, Zenon DEF LInv
  <1> QED BY <1>1, <1>2, Zenon

\* A connection to a running node, on which the login frame is sent.
LEMMA ConnectStep ==
  ASSUME Login!LoginConstants, LInv, Login!Connected PROVE LInv'
  <1>0. TasksPlaced /\ TicketsKept BY Zenon DEF LInv
  <1> DEFINE c == conn + 1
             s == [node |-> host, state |-> "open"]
             k == [conn |-> c, ticket |-> payload']
  <1>1. /\ host \in up /\ conn < MaxConns /\ conn' = c /\ sess' = [sess EXCEPT ![c] = s] /\ tasks' = tasks \cup {k}
        /\ UNCHANGED <<up, ticket, tickets, used>>
    BY Zenon DEF Login!Connected
  <1>2. TicketsKept' BY <1>0, <1>1, TicketsFrame, Zenon
  <1>3. conn \in Nat /\ up \subseteq Login!Nodes /\ sess \in [Login!Conns -> LoginSessions] BY <1>0, Zenon DEF TasksPlaced
  <1>4. c \in Login!Conns /\ c \in Nat BY <1>1, <1>3 DEF Login!Conns, Login!LoginConstants
  <1>5. host \in Login!Nodes /\ host # None BY <1>1, <1>3 DEF Login!Nodes, Login!LoginConstants
  <1>6. s \in LoginSessions /\ s.node = host BY <1>5, Zenon DEF LoginSessions
  <1>7. k.conn = c OBVIOUS
  <1> HIDE DEF c, s, k
  <1>8. sess' \in [Login!Conns -> LoginSessions] /\ sess'[c] = s /\ \A d \in Login!Conns : d # c => sess'[d] = sess[d]
    BY <1>1, <1>3, <1>4, <1>6, Zenon
  <1>9. ASSUME NEW j \in tasks' PROVE j.conn \in Login!Conns /\ sess'[j.conn].node # None
    <2>1. CASE j = k BY <1>4, <1>5, <1>6, <1>7, <1>8, <2>1, ZenonT(60)
    <2>2. CASE j \in tasks BY <1>0, <1>5, <1>6, <1>8, <2>2, ZenonT(60) DEF TasksPlaced
    <2> QED BY <1>1, <2>1, <2>2, Zenon
  <1>10. TasksPlaced' BY <1>1, <1>3, <1>4, <1>8, <1>9, ZenonT(60) DEF TasksPlaced
  <1> QED BY <1>2, <1>10, Zenon DEF LInv

\* The node consumes the ticket of a frame, whatever it answers.
LEMMA RedeemSteps ==
  ASSUME LInv, \E k \in tasks : Login!LoginAccepted(k) \/ Login!LoginRejected(k) PROVE LInv'
  <1>0. TasksPlaced /\ TicketsKept /\ sess \in [Login!Conns -> LoginSessions] /\ up \subseteq Login!Nodes
    BY Zenon DEF LInv, TasksPlaced
  <1>1. PICK k \in tasks : Login!LoginAccepted(k) \/ Login!LoginRejected(k) OBVIOUS
  <1>2. k.conn \in Login!Conns /\ sess[k.conn].node # None BY <1>0, Zenon DEF TasksPlaced
  <1>3. /\ ticket' = [ticket EXCEPT ![k.ticket] = None] /\ UNCHANGED <<up, tickets, conn>> /\ tasks' \subseteq tasks
        /\ sess' = sess \/ sess' = [sess EXCEPT ![k.conn].state = IF @ = "open" THEN "authed" ELSE @]
        /\ \/ used' = used
           \/ ticket[k.ticket] # None /\ used' = [used EXCEPT ![k.ticket] = @ \cup {k.conn}]
    BY <1>1, <1>2, Zenon DEF Login!LoginAccepted, Login!LoginRejected
  <1>4. sess' \in [Login!Conns -> LoginSessions] /\ \A c \in Login!Conns : sess'[c].node = sess[c].node
    <2> DEFINE x == [sess[k.conn] EXCEPT !.state = IF @ = "open" THEN "authed" ELSE @]
    <2>1. sess[k.conn] \in LoginSessions BY <1>0, <1>2, Zenon
    <2>2. x \in LoginSessions /\ x.node = sess[k.conn].node BY <2>1, Zenon DEF LoginSessions
    <2>3. sess' = sess \/ sess' = [sess EXCEPT ![k.conn] = x] BY <1>3, Zenon
    <2> HIDE DEF x
    <2> QED BY <1>0, <2>2, <2>3, Zenon
  <1>5. TasksPlaced' BY <1>0, <1>3, <1>4, PlacedFrame, ZenonT(60)
  <1>6. ASSUME NEW t \in Login!Tickets PROVE Unused(t)'
    <2>1. Unused(t) /\ DOMAIN ticket = Login!Tickets /\ DOMAIN used = Login!Tickets BY <1>0, Zenon DEF TicketsKept
    <2>2. CASE t # k.ticket
      <3>1. ticket'[t] = ticket[t] /\ used'[t] = used[t] BY <1>3, <2>1, <2>2, Zenon
      <3> QED BY <1>3, <2>1, <3>1, Zenon DEF Unused
    <2>3. CASE t = k.ticket
      <3>1. ticket'[t] = None BY <1>3, <2>1, <2>3, Zenon
      <3>2. CASE used' = used BY <1>3, <2>1, <3>1, <3>2, ZenonT(60) DEF Unused
      <3>3. CASE ticket[t] # None /\ used' = [used EXCEPT ![t] = @ \cup {k.conn}]
        <4>1. used[t] = {} /\ t <= tickets BY <2>1, <3>3, Zenon DEF Unused
        <4>2. used'[t] = {k.conn} BY <2>1, <3>3, <4>1, ZenonT(60)
        <4>3. ~(t > tickets')
          <5>1. t \in Nat /\ tickets \in Nat BY <1>0 DEF TicketsKept, Login!Tickets
          <5> QED BY <1>3, <4>1, <5>1
        <4> QED BY <3>1, <4>2, <4>3, Zenon DEF Unused
      <3> QED BY <1>3, <2>3, <3>2, <3>3, ZenonT(60)
    <2> QED BY <2>2, <2>3, Zenon
  <1>7. tickets' \in Nat /\ DOMAIN ticket' = Login!Tickets /\ DOMAIN used' = Login!Tickets
    BY <1>0, <1>3, Zenon DEF TicketsKept
  <1>8. TicketsKept' BY <1>6, <1>7, Zenon DEF TicketsKept
  <1> QED BY <1>5, <1>8, Zenon DEF LInv

\* TicketIsOneTime of ClientLogin: whatever breaks and however often the client
\* reconnects, a ticket that GetDel has handed out authenticates one session.
THEOREM TicketOneTime ==
  ASSUME Login!LoginConstants PROVE Login!Spec => []Login!TicketIsOneTime
  <1>1. Login!Init => LInv
    <2> SUFFICES ASSUME Login!Init PROVE LInv OBVIOUS
    <2>1. Login!NoSess \in LoginSessions BY Zenon DEF Login!NoSess, LoginSessions
    <2>2. TasksPlaced
      <3>1. sess \in [Login!Conns -> LoginSessions] BY <2>1, Zenon DEF Login!Init
      <3>2. conn \in Nat BY Zenon DEF Login!Init
      <3> QED BY <3>1, <3>2, Zenon DEF Login!Init, TasksPlaced
    <2>3. TicketsKept
      <3>1. tickets \in Nat BY Zenon DEF Login!Init
      <3>2. DOMAIN ticket = Login!Tickets /\ DOMAIN used = Login!Tickets BY Zenon DEF Login!Init
      <3>3. \A t \in Login!Tickets : ticket[t] = None /\ used[t] = {} BY Zenon DEF Login!Init
      <3>4. \A t \in Login!Tickets : Unused(t) BY <3>3, Zenon DEF Unused
      <3> QED BY <3>1, <3>2, <3>4, Zenon DEF TicketsKept
    <2> QED BY <2>2, <2>3, Zenon DEF LInv
  <1>2. LInv /\ [Login!Next]_Login!vars => LInv'
    BY PlainSteps, IssueSteps, ConnectStep, RedeemSteps, Zenon DEF Login!Next
  <1>3. LInv => Login!TicketIsOneTime
    BY Zenon DEF LInv, TicketsKept, Unused, Login!TicketIsOneTime
  <1> QED BY <1>1, <1>2, <1>3, PTL DEF Login!Spec
=============================================================================
