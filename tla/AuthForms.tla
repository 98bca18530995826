------------------------------ MODULE AuthForms ------------------------------
(***************************************************************************)
(* The client's registration and password-reset pages: RegisterDialog and  *)
(* ResetDialog inside AuthWindow, the button that asks for a verification  *)
(* code and counts down (TimerBtn), and the replies Httpmgr hands back,    *)
(* which may come when the user is on another page.                        *)
(*                                                                         *)
(* An address is a sequence of character classes: "a" a letter, "1" a      *)
(* digit, "+" stands for the signs + and %.  The other fields are right or *)
(* wrong; what a password must look like is PasswordRules' subject.  The   *)
(* messages that pop up are left out.                                      *)
(***************************************************************************)
EXTENDS Integers, Sequences, FiniteSets, FiniteSetsExt

CONSTANTS
  Emails, Mistakes,    \* what the user types: addresses, sets of wrong fields
  Countdown, Return,   \* 10 in TimerBtn, 5 in RegisterDialog
  MaxFlight            \* bound: requests of one kind on their way

FormConstants ==
  /\ {Countdown, Return, MaxFlight} \subseteq Nat \ {0}
  /\ Emails \subseteq Seq({"a", "1", "_", "-", ".", "+", "@"}) /\ Mistakes \subseteq SUBSET {"user", "pass", "confirm", "code"}

Dialogs == {"register", "reset"}
Requests == Dialogs \X {"code", "submit"}

VARIABLES
  page,          \* the page of AuthWindow
  done,          \* RegisterDialog shows page2, which says that it worked
  timer,         \* RegisterDialog's _timer and _counter
  button,        \* a dialog's TimerBtn
  email, wrong,  \* the fields of a dialog
  flight,        \* requests that are not answered
  coded          \* addresses a code was asked for

vars == <<page, done, timer, button, email, wrong, flight, coded>>

Init ==
  /\ page = "login" /\ done = FALSE /\ timer = [on |-> FALSE, counter |-> Return]
  /\ button = [d \in Dialogs |-> [on |-> FALSE, count |-> Countdown]]
  /\ email = [d \in Dialogs |-> << >>] /\ wrong = [d \in Dialogs |-> {"user", "pass", "code"}]
  /\ flight = [r \in Requests |-> 0] /\ coded = {}

-----------------------------------------------------------------------------
Word == {"a", "1", "_"}  \* \w
Within(s, i, j, chars) == \A k \in i .. j : s[k] \in chars

\* The expression of get_code_func and on_varify_btn_clicked.
AsksForCode(s) ==
  \E i \in 2 .. Len(s) : \E j \in i + 2 .. Len(s) - 2 :
    /\ s[i] = "@" /\ Within(s, 1, i - 1, {"a", "1", ".", "_", "+", "-"})
    /\ s[j] = "." /\ Within(s, i + 1, j - 1, {"a", "1", ".", "-"})
    /\ Within(s, j + 1, Len(s), {"a"})

\* The expression of checkEmailValid, which need not match the whole text.
checkEmailValid(s) ==
  \E i \in 2 .. Len(s) - 3 : \E j \in i + 2 .. Len(s) - 1 :
    /\ s[i] = "@" /\ (s[i - 1] \in Word \/ (s[i - 1] = "." /\ i > 2 /\ s[i - 2] \in Word))
    /\ s[j] = "." /\ Within(s, i + 1, j - 1, Word) /\ s[j + 1] \in Word

-----------------------------------------------------------------------------
FormShown(d) == page = d /\ (d = "register" => ~done)

Post(r) == flight[r] < MaxFlight /\ flight' = [flight EXCEPT ![r] = @ + 1]

Edit(d, e, w) ==
  /\ FormShown(d) /\ email' = [email EXCEPT ![d] = e] /\ wrong' = [wrong EXCEPT ![d] = w]
  /\ UNCHANGED <<page, done, timer, button, flight, coded>>

\* Both forms ask for a code only if the address matches; RegisterDialog
\* reports one that does not, ResetDialog only an empty one.
get_code_func(d) ==
  IF AsksForCode(email[d]) THEN Post(<<d, "code">>) /\ coded' = coded \cup {email[d]}
  ELSE UNCHANGED <<flight, coded>>

\* TimerBtn::mouseReleaseEvent.
mouseReleaseEvent(d) ==
  /\ FormShown(d) /\ ~button[d].on
  /\ button' = [button EXCEPT ![d].on = TRUE]
  /\ get_code_func(d) /\ UNCHANGED <<page, done, timer, email, wrong>>

\* The button is pressed with the keyboard, which TimerBtn does not handle.
keyReleaseEvent(d) ==
  /\ FormShown(d) /\ ~button[d].on
  /\ get_code_func(d) /\ UNCHANGED <<page, done, timer, button, email, wrong>>

checkUserValid(d) == "user" \notin wrong[d]
checkPassValid(d) == "pass" \notin wrong[d]
checkConfirmValid(d) == "confirm" \notin wrong[d]
checkVarifyValid(d) == "code" \notin wrong[d]

\* The button is not disabled: a form may be sent again before the answer.
slot_reg_finished ==
  /\ FormShown("register")
  /\ checkUserValid("register") /\ checkEmailValid(email["register"]) /\ checkPassValid("register")
  /\ checkConfirmValid("register") /\ checkVarifyValid("register")
  /\ Post(<<"register", "submit">>)
  /\ UNCHANGED <<page, done, timer, button, email, wrong, coded>>

on_sure_btn_clicked ==
  /\ FormShown("reset")
  /\ checkUserValid("reset") /\ checkEmailValid(email["reset"]) /\ checkPassValid("reset") /\ checkVarifyValid("reset")
  /\ Post(<<"reset", "submit">>)
  /\ UNCHANGED <<page, done, timer, button, email, wrong, coded>>

\* The buttons of LoginDialog.
showForm(d) ==
  /\ page = "login" /\ page' = d
  /\ UNCHANGED <<done, timer, button, email, wrong, flight, coded>>

\* The return buttons of the two dialogs.
on_return_btn_clicked ==
  /\ page \in Dialogs /\ page' = "login"
  /\ timer' = IF page = "register" THEN [timer EXCEPT !.on = FALSE] ELSE timer
  /\ UNCHANGED <<done, button, email, wrong, flight, coded>>

-----------------------------------------------------------------------------
changeRegisterWidgepage ==
  /\ done' = TRUE /\ timer' = [on |-> TRUE, counter |-> Return]

\* The handler of ID_REQ_USER acts on error 0 alone; the one of
\* ID_GET_VERIFT_CODE only reports.
handlers(kind, answer) ==
  IF kind = "submit" /\ answer = "ok" THEN changeRegisterWidgepage ELSE UNCHANGED <<done, timer>>

\* A transport error, or a text that is no object with an error, is reported.
slot_req_mod_finished(kind, answer) ==
  IF answer \in {"network", "malformed"} THEN UNCHANGED <<done, timer>> ELSE handlers(kind, answer)

\* ResetDialog reports every answer and stays where it is.
slot_reset_mod_finish(kind, answer) == UNCHANGED <<done, timer>>

\* Httpmgr hands the answer to the dialog that asked.
slot_http_finished(r, answer) ==
  /\ flight[r] > 0 /\ flight' = [flight EXCEPT ![r] = @ - 1]
  /\ IF r[1] = "register" THEN slot_req_mod_finished(r[2], answer) ELSE slot_reset_mod_finish(r[2], answer)
  /\ UNCHANGED <<page, button, email, wrong, coded>>

Answers == {"network", "malformed", "error", "ok"}

-----------------------------------------------------------------------------
timeout_stays(b) ==  \* setEnabled(true) is missing
  IF b.on /\ b.count > 1 THEN [b EXCEPT !.count = @ - 1] ELSE b

\* The timer of TimerBtn.
timeout(b) ==
  IF ~b.on THEN b
  ELSE IF b.count <= 1 THEN [on |-> FALSE, count |-> Countdown] ELSE [b EXCEPT !.count = @ - 1]

returnTimeout_late ==  \* nothing happens at 0
  IF timer.on /\ timer.counter > 0 THEN timer' = [timer EXCEPT !.counter = @ - 1] /\ UNCHANGED page
  ELSE UNCHANGED <<timer, page>>

\* The timer of RegisterDialog.
returnTimeout ==
  IF ~timer.on THEN UNCHANGED <<timer, page>>
  ELSE IF timer.counter = 0 THEN timer' = [timer EXCEPT !.on = FALSE] /\ page' = "login"
  ELSE timer' = [timer EXCEPT !.counter = @ - 1] /\ UNCHANGED page

\* A second passes for all timers.
Second ==
  /\ returnTimeout /\ button' = [d \in Dialogs |-> timeout(button[d])]
  /\ UNCHANGED <<done, email, wrong, flight, coded>>

Next ==
  \/ \E d \in Dialogs : \/ \E e \in Emails, w \in Mistakes : Edit(d, e, w)
                        \/ mouseReleaseEvent(d) \/ keyReleaseEvent(d) \/ showForm(d)
  \/ slot_reg_finished \/ on_sure_btn_clicked \/ on_return_btn_clicked
  \/ \E r \in Requests, answer \in Answers : slot_http_finished(r, answer)
  \/ Second
Spec == Init /\ [][Next]_vars

\* Time passes whatever the user does.
FairSpec == Spec /\ WF_vars(Second)

-----------------------------------------------------------------------------
\* The variables hold what their declarations say.
TypeOK ==
  /\ page \in {"login"} \cup Dialogs /\ done \in BOOLEAN
  /\ timer \in [on : BOOLEAN, counter : 0 .. Return]
  /\ button \in [Dialogs -> [on : BOOLEAN, count : 1 .. Countdown]]
  /\ email \in [Dialogs -> Emails \cup {<< >>}] /\ wrong \in [Dialogs -> SUBSET {"user", "pass", "confirm", "code"}]
  /\ flight \in [Requests -> 0 .. MaxFlight] /\ coded \subseteq Emails

\* TimerBtn: the button can be used again in the end.
ButtonReturns == \A d \in Dialogs : button[d].on ~> ~button[d].on

\* RegisterDialog::changeRegisterWidgepage: after a registration the user is back
\* at the login page, even if the answer came when they were elsewhere.
RegistrationReturns == timer.on ~> (page = "login")

\* RegisterDialog.cpp:203, the text of page2, "returns to the login page in %1 s":
\* whenever page2 is shown it gives way to the login page.
DonePageReturns == (page = "register" /\ done) ~> (page = "login")

\* RegisterDialog.cpp:84, "the code has been sent, look into your mailbox and fill
\* it in": an address a code is sent to is one the form can be sent with.
CodedAddressIsAccepted == \A e \in coded : checkEmailValid(e)
=============================================================================
