------------------------------ MODULE Accounts ------------------------------
(***************************************************************************)
(* The row of one user and the requests that write it: the confirmation of *)
(* a registration, the reset of a password, the verification of the phone, *)
(* the forms by which administrators and, if he is a sub-user, his parent  *)
(* change him, and whatever else loads the user and saves him, such as the *)
(* settings, a login or the report of a page that its user is active.      *)
(*                                                                         *)
(* Each loads a detached copy and writes all its columns back.  A          *)
(* confirmation logs the user in by giving him a temporary password for    *)
(* the time of one authentication.  Times of expiry are left out: a code   *)
(* or a token may be refused at any time.  So are the number of the phone, *)
(* the deletion of the user by an administrator, and POST /save/user, the  *)
(* form of a demonstration page, which saves a user made of its fields.    *)
(***************************************************************************)
EXTENDS Naturals, FiniteSets

CONSTANTS
  Threads,   \* the servlet threads: as many requests at a time
  Passwords, \* what the user may choose as a password,
  First,     \* the one he registered with,
  Temps,     \* and the random ones of confirmations
  Codes,     \* the random codes sent to his phone
  None,      \* null
  Faults     \* "stop": the server stops; "dbError": a transaction fails;
             \* "smsError": the gateway fails, with or without sending

ASSUME AccountAssumption ==
  /\ First \in Passwords
  /\ Passwords \intersect Temps = {}
  /\ None \notin Codes \union Passwords \union Temps
  /\ Faults \subseteq {"stop", "dbError", "smsError"}

VARIABLES
  user,     \* the row of the user
  reset,    \* whether a password reset token was saved
  otp,      \* phone_verification: the code in the row
  thr,      \* what each thread is doing
  sms,      \* the codes the user was sent
  used,     \* history: the temporary passwords and codes drawn,
  entered,  \* the codes the user submitted,
  marked,   \* whether an administrator ever marked the phone as verified,
  spoiled   \* and whether a confirmation was overlapped with or left half way

vars == <<user, reset, otp, thr, sms, used, entered, marked, spoiled>>

Row == [password : Passwords \union Temps, enabled : BOOLEAN, verified : BOOLEAN]

Idle == [pc |-> "idle"]
At(r, pc) == thr[r].pc = pc
Go(r, w) == thr' = [thr EXCEPT ![r] = w]

ConfirmSteps == {"enable", "temp", "authenticate", "restore", "finally"}
Confirming(r) == thr[r].pc \in ConfirmSteps
Carrying(r) == thr[r].pc \in {"saveTwice", "saveForm", "save", "check"} \union ConfirmSteps

\* A request overlaps with the confirmations at work, or is one and overlaps with others.
Overlaps(w) ==
  \/ \E q \in Threads : Confirming(q)
  \/ (w.pc \in ConfirmSteps /\ \E q \in Threads : Carrying(q))

\* A request begins that carries a copy of the user.
Begin(r, w) ==
  /\ At(r, "idle")
  /\ Go(r, w)
  /\ spoiled' = (spoiled \/ Overlaps(w))

---------------------------------------------------------------------------
(* Requests that load the user and save him *)

\* Mutant: the row is bound to the form, which has no field for the phone's state.
TouchForm(r) ==
  /\ Begin(r, [pc |-> "save", copy |-> [user EXCEPT !.verified = FALSE]])
  /\ UNCHANGED <<user, reset, otp, sms, used, entered, marked>>

\* UserController.userEdit, the settings, ChatController, ActiveSessionManager.add, the
\* home page, and the save of a sub-user, which takes his parent along: they change other
\* columns.  A new number of the phone keeps its flag.
Touch(r) ==
  /\ Begin(r, [pc |-> "save", copy |-> user])
  /\ UNCHANGED <<user, reset, otp, sms, used, entered, marked>>

\* A password is forgotten: a token is saved and mailed.
Forgot(r) ==
  /\ At(r, "idle")
  /\ reset' = TRUE
  /\ UNCHANGED <<user, otp, thr, sms, used, entered, marked, spoiled>>

\* The link of the mail: a new password is chosen.  The token stays.
ResetPassword(r, p) ==
  /\ reset
  /\ Begin(r, [pc |-> "save", copy |-> [user EXCEPT !.password = p]])
  /\ UNCHANGED <<user, reset, otp, sms, used, entered, marked>>

\* An administrator switches the user off or on.  ("saveForm": another than the user saves.)
AdminToggle(r) ==
  /\ Begin(r, [pc |-> "saveForm", copy |-> [user EXCEPT !.enabled = ~user.enabled]])
  /\ UNCHANGED <<user, reset, otp, sms, used, entered, marked>>

\* An administrator edits the user: both flags are those of his form, rendered at any time
\* before.  A copy without violations is saved twice, one with violations once.
AdminEdit(r, e, v) ==
  /\ \E pc \in {"saveTwice", "saveForm"} :
       Begin(r, [pc |-> pc, copy |-> [user EXCEPT !.enabled = e, !.verified = v]])
  /\ marked' = (marked \/ v)
  /\ UNCHANGED <<user, reset, otp, sms, used, entered>>

\* The parent of a sub-user edits him, with a new password or without.
ParentEdit(r, e) ==
  /\ \E p \in Passwords \union {user.password} :
       Begin(r, [pc |-> "saveForm", copy |-> [user EXCEPT !.enabled = e, !.password = p]])
  /\ UNCHANGED <<user, reset, otp, sms, used, entered, marked>>

\* The first of the two times; when it fails there is no second.
SaveFirst(r) ==
  /\ At(r, "saveTwice")
  /\ \/ (user' = thr[r].copy /\ Go(r, [thr[r] EXCEPT !.pc = "saveForm"]))
     \/ ("dbError" \in Faults /\ user' = user /\ Go(r, Idle))
  /\ UNCHANGED <<reset, otp, sms, used, entered, marked, spoiled>>

\* The copy is written, or the transaction fails.
Save(r) ==
  /\ At(r, "save") \/ At(r, "saveForm")
  /\ \/ user' = thr[r].copy
     \/ ("dbError" \in Faults /\ user' = user)
  /\ Go(r, Idle)
  /\ UNCHANGED <<reset, otp, sms, used, entered, marked, spoiled>>

---------------------------------------------------------------------------
(* generateOtp and validateOtp *)

\* A code is drawn, to be sent and then saved.
DrawCode(r, c) ==
  /\ c \notin used
  /\ At(r, "idle")
  /\ Go(r, [pc |-> "send", code |-> c])
  /\ used' = used \union {c}
  /\ UNCHANGED <<user, reset, otp, sms, entered, marked, spoiled>>

\* Mutant: the code is saved first and sent afterwards.
SaveThenSend(r) ==
  /\ At(r, "send")
  /\ otp' = thr[r].code
  /\ \/ (sms' = sms \union {thr[r].code} /\ Go(r, [thr[r] EXCEPT !.pc = "saveCode"]))
     \/ ("smsError" \in Faults /\ sms' = sms /\ Go(r, Idle))
  /\ UNCHANGED <<user, reset, used, entered, marked, spoiled>>

\* The gateway sends the code; when it fails, the code may have been sent or not.
SendCode(r) ==
  /\ At(r, "send")
  /\ \/ (sms' = sms \union {thr[r].code} /\ Go(r, [thr[r] EXCEPT !.pc = "saveCode"]))
     \/ ("smsError" \in Faults /\ sms' \in {sms, sms \union {thr[r].code}} /\ Go(r, Idle))
  /\ UNCHANGED <<user, reset, otp, used, entered, marked, spoiled>>

SaveCode(r) ==
  /\ At(r, "saveCode")
  /\ \/ otp' = thr[r].code
     \/ ("dbError" \in Faults /\ otp' = otp)
  /\ Go(r, Idle)
  /\ UNCHANGED <<user, reset, sms, used, entered, marked, spoiled>>

\* The user submits a code: one he was sent, or whatever he types.
Submit(r, c) ==
  /\ Begin(r, [pc |-> "check", code |-> c, copy |-> user])
  /\ entered' = entered \union {c}
  /\ UNCHANGED <<user, reset, otp, sms, used, marked>>

\* The code of the row, unless it is too old, verifies the phone.
Check(r) ==
  /\ At(r, "check")
  /\ \/ /\ otp = thr[r].code
        /\ Go(r, [pc |-> "save", copy |-> [thr[r].copy EXCEPT !.verified = TRUE]])
     \/ Go(r, Idle)
  /\ UNCHANGED <<user, reset, otp, sms, used, entered, marked, spoiled>>

---------------------------------------------------------------------------
(* confirmRegistration and authWithAuthManager *)

\* The link of the mail.  The token gives the user, and stays.
Confirm(r) ==
  /\ Begin(r, [pc |-> "enable", copy |-> [user EXCEPT !.enabled = TRUE],
               old |-> user.password])
  /\ UNCHANGED <<user, reset, otp, sms, used, entered, marked>>

\* Mutant: what is saved is the user bound to the form, who has no password.
EnableForm(r) ==
  /\ At(r, "enable")
  /\ user' = [thr[r].copy EXCEPT !.password = None]
  /\ Go(r, [thr[r] EXCEPT !.pc = "temp"])
  /\ UNCHANGED <<reset, otp, sms, used, entered, marked, spoiled>>

Enable(r) ==
  /\ At(r, "enable")
  /\ \/ (user' = thr[r].copy /\ Go(r, [thr[r] EXCEPT !.pc = "temp"]))
     \/ ("dbError" \in Faults /\ user' = user /\ Go(r, Idle))
  /\ UNCHANGED <<reset, otp, sms, used, entered, marked, spoiled>>

\* A random password is saved,
SaveTemp(r) ==
  /\ At(r, "temp")
  /\ \E p \in Temps \ used :
       LET row == [thr[r].copy EXCEPT !.password = p] IN
       /\ used' = used \union {p}
       /\ \/ (user' = row /\ Go(r, [thr[r] EXCEPT !.pc = "authenticate", !.copy = row]))
          \/ ("dbError" \in Faults /\ user' = user /\ Go(r, [thr[r] EXCEPT !.pc = "finally"]))
  /\ UNCHANGED <<reset, otp, sms, entered, marked, spoiled>>

\* Mutant: there is no finally.
AuthenticateOrLeave(r) ==
  /\ At(r, "authenticate")
  /\ Go(r, [thr[r] EXCEPT !.pc = "restore"]) \/ Go(r, Idle)
  /\ UNCHANGED <<user, reset, otp, sms, used, entered, marked, spoiled>>

\* it authenticates the user, unless it was overwritten or something else is wrong,
Authenticate(r) ==
  /\ At(r, "authenticate")
  /\ \/ /\ user.enabled /\ user.password = thr[r].copy.password
        /\ Go(r, [thr[r] EXCEPT !.pc = "restore"])
     \/ Go(r, [thr[r] EXCEPT !.pc = "finally"])
  /\ UNCHANGED <<user, reset, otp, sms, used, entered, marked, spoiled>>

\* the old one is written back,
Restore(r) ==
  /\ At(r, "restore")
  /\ Go(r, [thr[r] EXCEPT !.pc = "finally"])
  /\ \/ user' = [thr[r].copy EXCEPT !.password = thr[r].old]
     \/ ("dbError" \in Faults /\ user' = user)
  /\ UNCHANGED <<reset, otp, sms, used, entered, marked, spoiled>>

\* and in any case once more at the end, where a failure goes unnoticed.
Finally(r) ==
  /\ At(r, "finally")
  /\ Go(r, Idle)
  /\ \/ (user' = [thr[r].copy EXCEPT !.password = thr[r].old] /\ spoiled' = spoiled)
     \/ ("dbError" \in Faults /\ user' = user /\ spoiled' = TRUE)
  /\ UNCHANGED <<reset, otp, sms, used, entered, marked>>

\* The server stops in the middle of a request.
Stop(r) ==
  /\ "stop" \in Faults
  /\ ~At(r, "idle")
  /\ Go(r, Idle)
  /\ spoiled' = (spoiled \/ Confirming(r))
  /\ UNCHANGED <<user, reset, otp, sms, used, entered, marked>>

---------------------------------------------------------------------------
Init ==
  /\ user = [password |-> First, enabled |-> FALSE, verified |-> FALSE]
  /\ reset = FALSE
  /\ otp = None
  /\ thr = [r \in Threads |-> Idle]
  /\ sms = {} /\ used = {} /\ entered = {}
  /\ marked = FALSE /\ spoiled = FALSE

Next == \E r \in Threads :
  \/ Touch(r) \/ Forgot(r) \/ (\E p \in Passwords : ResetPassword(r, p)) \/ Save(r)
  \/ (\E e, v \in BOOLEAN : AdminEdit(r, e, v)) \/ SaveFirst(r) \/ AdminToggle(r)
  \/ (\E e \in BOOLEAN : ParentEdit(r, e))
  \/ (\E c \in Codes : DrawCode(r, c) \/ Submit(r, c))
  \/ SendCode(r) \/ SaveCode(r) \/ Check(r)
  \/ Confirm(r) \/ Enable(r) \/ SaveTemp(r) \/ Authenticate(r) \/ Restore(r) \/ Finally(r)
  \/ Stop(r)

Spec == Init /\ [][Next]_vars
=============================================================================
