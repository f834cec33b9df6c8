------------------------- MODULE AccountsProperties -------------------------
(***************************************************************************)
(* What can be relied on about the row of a user.                          *)
(***************************************************************************)
EXTENDS Accounts

WorkOK(w) ==
  \/ w = Idle
  \/ w \in [pc : {"saveTwice", "saveForm", "save"}, copy : Row]
  \/ w \in [pc : {"send", "saveCode"}, code : Codes]
  \/ w \in [pc : {"check"}, code : Codes, copy : Row]
  \/ w \in [pc : ConfirmSteps, copy : Row, old : Passwords \union Temps]

\* The types (entity.user.User, PhoneVerification).
TypeOK ==
  /\ user \in Row
  /\ reset \in BOOLEAN
  /\ otp \in Codes \union {None}
  /\ DOMAIN thr = Threads
  /\ \A r \in Threads : WorkOK(thr[r])
  /\ sms \subseteq Codes
  /\ used \subseteq Temps \union Codes
  /\ entered \subseteq Codes
  /\ marked \in BOOLEAN
  /\ spoiled \in BOOLEAN

\* The temporary password of a confirmation is gone when the confirmation is: whatever
\* of authWithAuthManager fails, its finally brings back one the user chose, as long as
\* nothing that saves the user overlapped, and its own last transaction did not fail.
PasswordIsChosen ==
  ~spoiled /\ (\A r \in Threads : ~Confirming(r)) => user.password \in Passwords

\* A user is marked as verified only after he entered a code that was sent to a number of
\* his, or by an administrator: generateOtp saves a code after the gateway took it, and
\* validateOtp asks for the saved one.  It is not said which number: userEdit changes
\* the number and keeps the flag.
VerifiedByCode == user.verified => marked \/ entered \intersect sms # {}

\* The column has the value in the row and in every copy that will be written over it.
Settled(f, b) ==
  /\ user[f] = b
  /\ \A r \in Threads : Carrying(r) => thr[r].copy[f] = b

\* The requests meant to set the column to the value: the confirmation of a registration
\* enables, also who was disabled since; the right code verifies; an administrator and
\* the parent of a sub-user set what their form says.
Gives(f, b) == \E r \in Threads :
  \/ f = "enabled" /\ b /\ Confirm(r)
  \/ f = "enabled" /\ (AdminToggle(r) \/ ParentEdit(r, b))
  \/ f = "verified" /\ b /\ At(r, "check") /\ otp = thr[r].code /\ Check(r)
  \/ \E e, v \in BOOLEAN : (IF f = "enabled" THEN e ELSE v) = b /\ AdminEdit(r, e, v)

\* Once no request holds a copy that says otherwise, whether the user is enabled, and
\* whether he is verified, is changed by the requests meant to change it only: every
\* other writer of the row starts from the row (userEdit, ActiveSessionManager,
\* ChatController, resetPassword, authWithAuthManager) and none takes a flag with it.
FlagsStay ==
  [][\A f \in {"enabled", "verified"}, b \in BOOLEAN :
       Settled(f, b) => Settled(f, b)' \/ Gives(f, ~b)]_vars
=============================================================================
