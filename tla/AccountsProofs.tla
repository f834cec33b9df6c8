--------------------------- MODULE AccountsProofs ---------------------------
(***************************************************************************)
(* Theorems about Accounts, for any threads, passwords and codes, with and *)
(* without faults.                                                         *)
(***************************************************************************)
EXTENDS AccountsProperties, TLAPS

---------------------------------------------------------------------------
(* What the threads carry *)

SaveWork == [pc : {"saveTwice", "saveForm", "save"}, copy : Row]
CodeWork == [pc : {"send", "saveCode"}, code : Codes]
CheckWork == [pc : {"check"}, code : Codes, copy : Row]
ConfirmWork == [pc : ConfirmSteps, copy : Row, old : Passwords \union Temps]

\* The program counter tells what a thread carries.
LEMMA Works ==
  ASSUME TypeOK, NEW r \in Threads
  PROVE  /\ At(r, "idle") => thr[r] = Idle
         /\ At(r, "saveTwice") \/ At(r, "saveForm") \/ At(r, "save") => thr[r] \in SaveWork
         /\ At(r, "send") \/ At(r, "saveCode") => thr[r] \in CodeWork
         /\ At(r, "check") => thr[r] \in CheckWork
         /\ Confirming(r) => thr[r] \in ConfirmWork
         /\ Carrying(r) => thr[r].copy \in Row
<1>1. WorkOK(thr[r])
  BY DEF TypeOK
<1> QED
  BY <1>1 DEF WorkOK, At, Idle, Confirming, Carrying, ConfirmSteps, SaveWork, CodeWork,
     CheckWork, ConfirmWork

LEMMA AfterGo ==
  ASSUME TypeOK, NEW r \in Threads, NEW w, Go(r, w)
  PROVE  /\ DOMAIN thr' = Threads
         /\ thr'[r] = w
         /\ \A q \in Threads : q # r => thr'[q] = thr[q]
BY DEF TypeOK, Go

\* The actions of one thread.
Acts(r) ==
  \/ Touch(r) \/ Forgot(r) \/ (\E p \in Passwords : ResetPassword(r, p)) \/ Save(r)
  \/ (\E e, v \in BOOLEAN : AdminEdit(r, e, v)) \/ SaveFirst(r) \/ AdminToggle(r)
  \/ (\E e \in BOOLEAN : ParentEdit(r, e))
  \/ (\E c \in Codes : DrawCode(r, c) \/ Submit(r, c))
  \/ SendCode(r) \/ SaveCode(r) \/ Check(r)
  \/ Confirm(r) \/ Enable(r) \/ SaveTemp(r) \/ Authenticate(r) \/ Restore(r) \/ Finally(r)
  \/ Stop(r)

LEMMA Steps == Next <=> \E r \in Threads : Acts(r)
BY DEF Next, Acts

---------------------------------------------------------------------------
(* Types *)

LEMMA GoType ==
  ASSUME TypeOK, NEW r \in Threads, NEW w, WorkOK(w), Go(r, w),
         user' \in Row, reset' \in BOOLEAN, otp' \in Codes \union {None},
         sms' \subseteq Codes, used' \subseteq Temps \union Codes, entered' \subseteq Codes,
         marked' \in BOOLEAN, spoiled' \in BOOLEAN
  PROVE  TypeOK'
<1>1. ASSUME NEW q \in Threads
      PROVE  WorkOK(thr'[q])
  BY AfterGo DEF TypeOK
<1> QED
  BY <1>1, AfterGo DEF TypeOK, WorkOK

LEMMA LoadType ==
  ASSUME TypeOK, NEW r \in Threads,
         \/ Touch(r) \/ Forgot(r) \/ (\E p \in Passwords : ResetPassword(r, p))
         \/ (\E c \in Codes : Submit(r, c)) \/ Confirm(r)
  PROVE  TypeOK'
<1>0. user \in Row /\ user.password \in Passwords \union Temps
  BY DEF TypeOK, Row
<1>1. CASE Touch(r)
  <2>1. WorkOK([pc |-> "save", copy |-> user])
    BY <1>0 DEF WorkOK
  <2> QED
    BY <1>1, <2>1, GoType DEF Touch, Begin, TypeOK
<1>2. CASE Forgot(r)
  BY <1>2 DEF Forgot, TypeOK, WorkOK
<1>3. ASSUME NEW p \in Passwords, ResetPassword(r, p)
      PROVE  TypeOK'
  <2>1. WorkOK([pc |-> "save", copy |-> [user EXCEPT !.password = p]])
    BY <1>0 DEF WorkOK, Row
  <2> QED
    BY <1>3, <2>1, GoType DEF ResetPassword, Begin, TypeOK
<1>4. ASSUME NEW c \in Codes, Submit(r, c)
      PROVE  TypeOK'
  <2>1. WorkOK([pc |-> "check", code |-> c, copy |-> user])
    BY <1>0 DEF WorkOK
  <2> QED
    BY <1>4, <2>1, GoType DEF Submit, Begin, TypeOK
<1>5. CASE Confirm(r)
  <2>1. WorkOK([pc |-> "enable", copy |-> [user EXCEPT !.enabled = TRUE],
                old |-> user.password])
    BY <1>0 DEF WorkOK, Row, ConfirmSteps
  <2> QED
    BY <1>5, <2>1, GoType DEF Confirm, Begin, TypeOK
<1> QED
  BY <1>1, <1>2, <1>3, <1>4, <1>5

\* What a form makes of the copy.
LEMMA Form ==
  ASSUME TypeOK, NEW e \in BOOLEAN, NEW v \in BOOLEAN
  PROVE  /\ [user EXCEPT !.enabled = e, !.verified = v] \in Row
         /\ [user EXCEPT !.enabled = e, !.verified = v].password = user.password
         /\ [user EXCEPT !.enabled = e, !.verified = v].enabled = e
         /\ [user EXCEPT !.enabled = e, !.verified = v].verified = v
         /\ [user EXCEPT !.enabled = e] \in Row
         /\ [user EXCEPT !.enabled = e].password = user.password
         /\ [user EXCEPT !.enabled = e].enabled = e
         /\ [user EXCEPT !.enabled = e].verified = user.verified
BY DEF TypeOK, Row

LEMMA ParentForm ==
  ASSUME TypeOK, NEW e \in BOOLEAN, NEW p \in Passwords \union {user.password}
  PROVE  /\ [user EXCEPT !.enabled = e, !.password = p] \in Row
         /\ [user EXCEPT !.enabled = e, !.password = p].password = p
         /\ [user EXCEPT !.enabled = e, !.password = p].enabled = e
         /\ [user EXCEPT !.enabled = e, !.password = p].verified = user.verified
BY DEF TypeOK, Row

LEMMA OfficeType ==
  ASSUME TypeOK, NEW r \in Threads,
         \/ (\E e, v \in BOOLEAN : AdminEdit(r, e, v)) \/ SaveFirst(r) \/ AdminToggle(r)
         \/ (\E e \in BOOLEAN : ParentEdit(r, e))
  PROVE  TypeOK'
<1>1. ASSUME NEW e \in BOOLEAN, NEW v \in BOOLEAN, AdminEdit(r, e, v)
      PROVE  TypeOK'
  <2>1. PICK pc \in {"saveTwice", "saveForm"} :
          Begin(r, [pc |-> pc, copy |-> [user EXCEPT !.enabled = e, !.verified = v]])
    BY <1>1 DEF AdminEdit
  <2>2. WorkOK([pc |-> pc, copy |-> [user EXCEPT !.enabled = e, !.verified = v]])
    BY Form DEF WorkOK
  <2> QED
    BY <1>1, <2>1, <2>2, GoType DEF AdminEdit, Begin, TypeOK
<1>2. CASE SaveFirst(r)
  <2>1. thr[r] \in SaveWork
    BY <1>2, Works DEF SaveFirst
  <2>2. thr[r].copy \in Row /\ WorkOK([thr[r] EXCEPT !.pc = "saveForm"]) /\ WorkOK(Idle)
    BY <2>1 DEF SaveWork, WorkOK
  <2> QED
    BY <1>2, <2>2, GoType DEF SaveFirst, TypeOK
<1>3. CASE AdminToggle(r)
  <2>1. WorkOK([pc |-> "saveForm", copy |-> [user EXCEPT !.enabled = ~user.enabled]])
    BY Form DEF WorkOK
  <2> QED
    BY <1>3, <2>1, GoType DEF AdminToggle, Begin, TypeOK
<1>4. ASSUME NEW e \in BOOLEAN, ParentEdit(r, e)
      PROVE  TypeOK'
  <2>1. PICK p \in Passwords \union {user.password} :
          Begin(r, [pc |-> "saveForm", copy |-> [user EXCEPT !.enabled = e, !.password = p]])
    BY <1>4 DEF ParentEdit
  <2>2. WorkOK([pc |-> "saveForm", copy |-> [user EXCEPT !.enabled = e, !.password = p]])
    BY ParentForm DEF WorkOK
  <2> QED
    BY <1>4, <2>1, <2>2, GoType DEF ParentEdit, Begin, TypeOK
<1> QED
  BY <1>1, <1>2, <1>3, <1>4

LEMMA CodeType ==
  ASSUME TypeOK, NEW r \in Threads,
         (\E c \in Codes : DrawCode(r, c)) \/ SendCode(r) \/ SaveCode(r) \/ Check(r)
  PROVE  TypeOK'
<1>0. WorkOK(Idle)
  BY DEF WorkOK
<1>1. ASSUME NEW c \in Codes, DrawCode(r, c)
      PROVE  TypeOK'
  <2>1. WorkOK([pc |-> "send", code |-> c])
    BY DEF WorkOK
  <2> QED
    BY <1>1, <2>1, GoType DEF DrawCode, TypeOK
<1>2. CASE SendCode(r)
  <2>1. thr[r].code \in Codes /\ WorkOK([thr[r] EXCEPT !.pc = "saveCode"])
    BY <1>2, Works DEF SendCode, CodeWork, WorkOK
  <2> QED
    BY <1>0, <1>2, <2>1, GoType DEF SendCode, TypeOK
<1>3. CASE SaveCode(r)
  <2>1. thr[r].code \in Codes
    BY <1>3, Works DEF SaveCode, CodeWork
  <2> QED
    BY <1>0, <1>3, <2>1, GoType DEF SaveCode, TypeOK
<1>4. CASE Check(r)
  <2>1. thr[r].copy \in Row
    BY <1>4, Works DEF Check, CheckWork
  <2>2. [thr[r].copy EXCEPT !.verified = TRUE] \in Row
    BY <2>1 DEF Row
  <2>3. WorkOK([pc |-> "save", copy |-> [thr[r].copy EXCEPT !.verified = TRUE]])
    BY <2>2 DEF WorkOK
  <2> QED
    BY <1>0, <1>4, <2>3, GoType DEF Check, TypeOK
<1> QED
  BY <1>1, <1>2, <1>3, <1>4

\* The copy of a confirmation with its old password.
LEMMA Old ==
  ASSUME TypeOK, NEW r \in Threads, Confirming(r)
  PROVE  /\ [thr[r].copy EXCEPT !.password = thr[r].old] \in Row
         /\ thr[r].copy \in Row
         /\ \A s \in ConfirmSteps : WorkOK([thr[r] EXCEPT !.pc = s])
         /\ \A s \in ConfirmSteps : [thr[r] EXCEPT !.pc = s].pc = s
BY Works DEF ConfirmWork, Row, WorkOK

LEMMA ConfirmType ==
  ASSUME TypeOK, NEW r \in Threads,
         Enable(r) \/ SaveTemp(r) \/ Authenticate(r) \/ Restore(r) \/ Finally(r)
  PROVE  TypeOK'
<1>0. WorkOK(Idle)
  BY DEF WorkOK
<1>1. Confirming(r)
  BY DEF Enable, SaveTemp, Authenticate, Restore, Finally, At, Confirming, ConfirmSteps
<1>2. CASE Enable(r)
  BY <1>0, <1>1, <1>2, Old, GoType DEF Enable, TypeOK, ConfirmSteps
<1>3. CASE SaveTemp(r)
  <2>1. PICK p \in Temps \ used :
          LET row == [thr[r].copy EXCEPT !.password = p] IN
          /\ used' = used \union {p}
          /\ \/ (user' = row
                 /\ Go(r, [thr[r] EXCEPT !.pc = "authenticate", !.copy = row]))
             \/ (user' = user /\ Go(r, [thr[r] EXCEPT !.pc = "finally"]))
    BY <1>3 DEF SaveTemp
  <2> DEFINE row == [thr[r].copy EXCEPT !.password = p]
  <2>2. row \in Row
    BY <1>1, Old DEF Row
  <2>3. WorkOK([thr[r] EXCEPT !.pc = "authenticate", !.copy = row])
    BY <1>1, <2>2, Works DEF ConfirmWork, WorkOK, ConfirmSteps
  <2>4. used' \subseteq Temps \union Codes
    BY <2>1 DEF TypeOK
  <2>5. CASE user' = row /\ Go(r, [thr[r] EXCEPT !.pc = "authenticate", !.copy = row])
    BY <1>3, <2>2, <2>3, <2>4, <2>5, GoType DEF SaveTemp, TypeOK
  <2>6. CASE user' = user /\ Go(r, [thr[r] EXCEPT !.pc = "finally"])
    BY <1>1, <1>3, <2>4, <2>6, Old, GoType DEF SaveTemp, TypeOK, ConfirmSteps
  <2> QED
    BY <2>1, <2>5, <2>6
<1>4. CASE Authenticate(r)
  BY <1>1, <1>4, Old, GoType DEF Authenticate, TypeOK, ConfirmSteps
<1>5. CASE Restore(r)
  BY <1>1, <1>5, Old, GoType DEF Restore, TypeOK, ConfirmSteps
<1>6. CASE Finally(r)
  BY <1>0, <1>1, <1>6, Old, GoType DEF Finally, TypeOK
<1> QED
  BY <1>2, <1>3, <1>4, <1>5, <1>6

LEMMA NextType == TypeOK /\ [Next]_vars => TypeOK'
<1> SUFFICES ASSUME TypeOK, [Next]_vars
             PROVE  TypeOK'
  OBVIOUS
<1>1. CASE UNCHANGED vars
  BY <1>1 DEF vars, TypeOK, WorkOK
<1>2. ASSUME NEW r \in Threads, Acts(r)
      PROVE  TypeOK'
  <2>1. CASE Save(r)
    <3>1. thr[r].copy \in Row /\ WorkOK(Idle)
      BY <2>1, Works DEF Save, SaveWork, WorkOK
    <3> QED
      BY <2>1, <3>1, GoType DEF Save, TypeOK
  <2>2. CASE Stop(r)
    BY <2>2, GoType DEF Stop, TypeOK, WorkOK
  <2> QED
    BY <1>2, <2>1, <2>2, LoadType, OfficeType, CodeType, ConfirmType DEF Acts
<1> QED
  BY <1>1, <1>2, Steps

\* The row, the code and what the requests carry have their types.
THEOREM AccountTypes == Spec => []TypeOK
<1>1. Init => TypeOK
  <2>1. [password |-> First, enabled |-> FALSE, verified |-> FALSE] \in Row
    BY AccountAssumption DEF Row
  <2>2. [r \in Threads |-> Idle] = thr => DOMAIN thr = Threads /\ \A r \in Threads : WorkOK(thr[r])
    BY DEF WorkOK
  <2> QED
    BY <2>1, <2>2 DEF Init, TypeOK
<1> QED
  BY <1>1, NextType, PTL DEF Spec

---------------------------------------------------------------------------
(* PasswordIsChosen: until something overlaps, the requests take turns *)

\* No two confirmations, nor one and another writer, are at work together; a confirmation
\* keeps a chosen password, and before it saves its temporary one the row has one too.
Alone ==
  /\ \A r \in Threads : Confirming(r) =>
       /\ thr[r].old \in Passwords
       /\ \A q \in Threads : Carrying(q) => q = r
  /\ \A r \in Threads : thr[r].pc \in {"saveTwice", "saveForm", "save", "check"} =>
       thr[r].copy.password \in Passwords
  /\ (\A r \in Threads : Confirming(r) => At(r, "enable")) => user.password \in Passwords

PasswordInv == ~spoiled => Alone

LEMMA PasswordBegin ==
  ASSUME TypeOK, PasswordInv, ~spoiled', NEW r \in Threads, NEW w, Begin(r, w),
         UNCHANGED user,
         w.pc \in {"saveTwice", "saveForm", "save", "check", "enable"},
         user.password \in Passwords =>
           IF w.pc = "enable" THEN w.old \in Passwords ELSE w.copy.password \in Passwords
  PROVE  Alone'
<1>1. ~spoiled /\ ~Overlaps(w) /\ At(r, "idle") /\ Go(r, w)
  BY DEF Begin
<1>2. \A q \in Threads : ~Confirming(q)
  BY <1>1 DEF Overlaps
<1>3. user.password \in Passwords
  BY <1>1, <1>2 DEF PasswordInv, Alone
<1>4. thr'[r] = w /\ \A q \in Threads : q # r => thr'[q] = thr[q]
  BY <1>1, AfterGo
<1>5. ASSUME NEW s \in Threads, Confirming(s)'
      PROVE  /\ thr'[s].old \in Passwords
             /\ \A q \in Threads : Carrying(q)' => q = s
  <2>1. s = r /\ w.pc = "enable"
    BY <1>2, <1>4, <1>5 DEF Confirming, ConfirmSteps
  <2>2. \A q \in Threads : ~Carrying(q)
    BY <1>1, <2>1 DEF Overlaps, ConfirmSteps
  <2> QED
    BY <1>3, <1>4, <2>1, <2>2 DEF Carrying
<1>6. ASSUME NEW s \in Threads, thr'[s].pc \in {"saveTwice", "saveForm", "save", "check"}
      PROVE  thr'[s].copy.password \in Passwords
  BY <1>1, <1>3, <1>4, <1>6 DEF PasswordInv, Alone
<1> QED
  BY <1>3, <1>5, <1>6 DEF Alone

\* A request goes on, or ends, outside a confirmation.
LEMMA PasswordGo ==
  ASSUME TypeOK, Alone, NEW r \in Threads, ~Confirming(r), NEW w, Go(r, w),
         \/ w.pc \in {"idle", "send", "saveCode"}
         \/ w.pc \in {"saveForm", "save"} /\ Carrying(r) /\ w.copy.password \in Passwords,
         user' = user \/ (Carrying(r) /\ user' = thr[r].copy)
  PROVE  Alone'
<1>1. thr'[r] = w /\ \A q \in Threads : q # r => thr'[q] = thr[q]
  BY AfterGo
<1>2. \A q \in Threads : Confirming(q)' <=> Confirming(q)
  BY <1>1 DEF Confirming, ConfirmSteps
<1>3. \A q \in Threads : Carrying(q)' => Carrying(q)
  BY <1>1 DEF Carrying, ConfirmSteps, At
<1>4. ASSUME NEW s \in Threads, Confirming(s)'
      PROVE  /\ thr'[s].old \in Passwords
             /\ \A q \in Threads : Carrying(q)' => q = s
  <2>1. s # r /\ Confirming(s)
    BY <1>2, <1>4
  <2> QED
    BY <1>1, <1>3, <2>1 DEF Alone
<1>5. \A s \in Threads : thr'[s].pc \in {"saveTwice", "saveForm", "save", "check"} =>
                           thr'[s].copy.password \in Passwords
  BY <1>1 DEF Alone
<1>6. ASSUME (\A s \in Threads : Confirming(s) => At(s, "enable"))'
      PROVE  (user.password \in Passwords)'
  <2>1. \A s \in Threads : Confirming(s) => At(s, "enable")
    BY <1>1, <1>2, <1>6 DEF At
  <2>2. user.password \in Passwords
    BY <2>1 DEF Alone
  <2>3. CASE Carrying(r) /\ user' = thr[r].copy
    BY <2>3 DEF Alone, Carrying, Confirming
  <2> QED
    BY <2>2, <2>3
<1> QED
  BY <1>4, <1>5, <1>6 DEF Alone

\* A confirmation goes on, or ends with a chosen password in the row.
LEMMA PasswordConfirm ==
  ASSUME TypeOK, Alone, NEW r \in Threads, Confirming(r), NEW w, Go(r, w),
         \/ w.pc \in ConfirmSteps \ {"enable"} /\ w.old = thr[r].old
         \/ w.pc = "idle" /\ user'.password \in Passwords
  PROVE  Alone'
<1>1. thr'[r] = w /\ \A q \in Threads : q # r => thr'[q] = thr[q]
  BY AfterGo
<1>2. \A q \in Threads : q # r => ~Carrying(q) /\ ~Confirming(q)
  BY DEF Alone, Carrying, Confirming
<1>3. \A q \in Threads : q # r => ~Carrying(q)' /\ ~Confirming(q)'
  BY <1>1, <1>2 DEF Carrying, Confirming
<1>4. \A s \in Threads : thr'[s].pc \notin {"saveTwice", "saveForm", "save", "check"}
  <2>1. w.pc \notin {"saveTwice", "saveForm", "save", "check"}
    BY DEF ConfirmSteps
  <2> QED
    BY <1>1, <1>3, <2>1 DEF Carrying
<1>5. CASE w.pc \in ConfirmSteps \ {"enable"} /\ w.old = thr[r].old
  <2>1. Confirming(r)' /\ ~At(r, "enable")'
    BY <1>1, <1>5 DEF Confirming, At
  <2>2. thr'[r].old \in Passwords
    BY <1>1, <1>5 DEF Alone
  <2> QED
    BY <1>3, <1>4, <2>1, <2>2 DEF Alone
<1>6. CASE w.pc = "idle" /\ user'.password \in Passwords
  <2>1. ~Confirming(r)'
    BY <1>1, <1>6 DEF Confirming, ConfirmSteps
  <2> QED
    BY <1>3, <1>4, <1>6, <2>1 DEF Alone
<1> QED
  BY <1>5, <1>6

LEMMA PasswordStep ==
  ASSUME TypeOK, PasswordInv, NEW r \in Threads, Acts(r), ~spoiled'
  PROVE  Alone'
<1>0. user \in Row
  BY DEF TypeOK
<1>1. CASE Touch(r)
  BY <1>1, PasswordBegin DEF Touch
<1>2. ASSUME NEW p \in Passwords, ResetPassword(r, p)
      PROVE  Alone'
  <2>1. [user EXCEPT !.password = p].password \in Passwords
    BY <1>0 DEF Row
  <2> QED
    BY <1>2, <2>1, PasswordBegin DEF ResetPassword
<1>3. ASSUME NEW c \in Codes, Submit(r, c)
      PROVE  Alone'
  BY <1>3, PasswordBegin DEF Submit
<1>4. CASE Confirm(r)
  BY <1>4, PasswordBegin DEF Confirm
<1>6. ASSUME NEW e \in BOOLEAN, NEW v \in BOOLEAN, AdminEdit(r, e, v)
      PROVE  Alone'
  <2>1. PICK pc \in {"saveTwice", "saveForm"} :
          Begin(r, [pc |-> pc, copy |-> [user EXCEPT !.enabled = e, !.verified = v]])
    BY <1>6 DEF AdminEdit
  <2> QED
    BY <1>6, <2>1, Form, PasswordBegin DEF AdminEdit
<1>7. CASE AdminToggle(r)
  BY <1>7, Form, PasswordBegin DEF AdminToggle
<1>8. ASSUME NEW e \in BOOLEAN, ParentEdit(r, e)
      PROVE  Alone'
  <2>1. PICK p \in Passwords \union {user.password} :
          Begin(r, [pc |-> "saveForm", copy |-> [user EXCEPT !.enabled = e, !.password = p]])
    BY <1>8 DEF ParentEdit
  <2> DEFINE w == [pc |-> "saveForm", copy |-> [user EXCEPT !.enabled = e, !.password = p]]
  <2>2. w.pc = "saveForm" /\ w.copy.password = p
    BY ParentForm
  <2>3. user.password \in Passwords => w.copy.password \in Passwords
    BY <2>2
  <2> HIDE DEF w
  <2>4. Begin(r, w) /\ UNCHANGED user
    BY <1>8, <2>1 DEF ParentEdit, w
  <2> QED
    BY <2>2, <2>3, <2>4, PasswordBegin
<1>5. CASE \/ Forgot(r) \/ Save(r) \/ SaveFirst(r) \/ (\E c \in Codes : DrawCode(r, c))
           \/ SendCode(r) \/ SaveCode(r) \/ Check(r) \/ Enable(r) \/ SaveTemp(r) \/ Authenticate(r)
           \/ Restore(r) \/ Finally(r) \/ Stop(r)
  <2>0. ~spoiled
    BY <1>5 DEF Forgot, Save, SaveFirst, DrawCode, SendCode, SaveCode, Check, Enable, SaveTemp,
       Authenticate, Restore, Finally, Stop
  <2>1. Alone
    BY <2>0 DEF PasswordInv
  <2>2. CASE Forgot(r)
    BY <2>1, <2>2 DEF Forgot, Alone, Confirming, Carrying, At
  <2>3. CASE Save(r)
    BY <2>1, <2>3, PasswordGo DEF Save, Idle, Confirming, Carrying, At, ConfirmSteps
  <2>10. CASE SaveFirst(r)
    <3>1. thr[r] \in SaveWork /\ ~Confirming(r) /\ Carrying(r)
      BY <2>10, Works DEF SaveFirst, Confirming, Carrying, At, ConfirmSteps
    <3>2. /\ [thr[r] EXCEPT !.pc = "saveForm"].pc = "saveForm"
          /\ [thr[r] EXCEPT !.pc = "saveForm"].copy = thr[r].copy
      BY <3>1 DEF SaveWork
    <3>3. thr[r].copy.password \in Passwords
      BY <2>1, <2>10 DEF SaveFirst, At, Alone
    <3> QED
      BY <2>1, <2>10, <3>1, <3>2, <3>3, PasswordGo DEF SaveFirst, Idle
  <2>4. ASSUME NEW c \in Codes, DrawCode(r, c)
        PROVE  Alone'
    BY <2>1, <2>4, PasswordGo DEF DrawCode, Confirming, At, ConfirmSteps
  <2>5. CASE SendCode(r)
    <3>1. thr[r] \in CodeWork /\ ~Confirming(r)
      BY <2>5, Works DEF SendCode, Confirming, At, ConfirmSteps
    <3>2. [thr[r] EXCEPT !.pc = "saveCode"].pc = "saveCode" /\ Idle.pc = "idle"
      BY <3>1 DEF CodeWork, Idle
    <3> QED
      BY <2>1, <2>5, <3>1, <3>2, PasswordGo DEF SendCode
  <2>6. CASE SaveCode(r)
    BY <2>1, <2>6, PasswordGo DEF SaveCode, Idle, Confirming, At, ConfirmSteps
  <2>7. CASE Check(r)
    <3>1. thr[r] \in CheckWork /\ ~Confirming(r) /\ Carrying(r)
      BY <2>7, Works DEF Check, Confirming, Carrying, At, ConfirmSteps
    <3>2. [thr[r].copy EXCEPT !.verified = TRUE].password = thr[r].copy.password
      BY <3>1 DEF CheckWork, Row
    <3>3. thr[r].copy.password \in Passwords
      BY <2>1, <2>7 DEF Check, At, Alone
    <3> QED
      BY <2>1, <2>7, <3>1, <3>2, <3>3, PasswordGo DEF Check, Idle
  <2>8. CASE Enable(r) \/ SaveTemp(r) \/ Authenticate(r) \/ Restore(r) \/ Finally(r)
    <3>1. Confirming(r) /\ thr[r] \in ConfirmWork
      BY <2>8, Works DEF Enable, SaveTemp, Authenticate, Restore, Finally, At, Confirming,
         ConfirmSteps
    <3>2. thr[r].old \in Passwords
      BY <2>1, <3>1 DEF Alone
    <3>3. \A s \in ConfirmSteps : /\ [thr[r] EXCEPT !.pc = s].pc = s
                                 /\ [thr[r] EXCEPT !.pc = s].old = thr[r].old
      BY <3>1 DEF ConfirmWork
    <3>4. CASE Enable(r) /\ Go(r, [thr[r] EXCEPT !.pc = "temp"])
      <4> DEFINE w == [thr[r] EXCEPT !.pc = "temp"]
      <4>1. w.pc \in ConfirmSteps \ {"enable"} /\ w.old = thr[r].old /\ Go(r, w)
        BY <3>3, <3>4 DEF ConfirmSteps
      <4> HIDE DEF w
      <4> QED
        BY <2>1, <3>1, <4>1, PasswordConfirm
    <3>5. CASE Enable(r) /\ user' = user /\ Go(r, Idle)
      <4>1. \A q \in Threads : Confirming(q) => At(q, "enable")
        BY <2>1, <3>1, <3>5 DEF Alone, Carrying, Confirming, Enable
      <4>2. user.password \in Passwords
        BY <2>1, <4>1 DEF Alone
      <4> QED
        BY <2>1, <3>1, <3>5, <4>2, PasswordConfirm DEF Idle
    <3>6. CASE SaveTemp(r)
      <4>1. PICK p \in Temps \ used :
              \/ Go(r, [thr[r] EXCEPT !.pc = "authenticate",
                                     !.copy = [thr[r].copy EXCEPT !.password = p]])
              \/ Go(r, [thr[r] EXCEPT !.pc = "finally"])
        BY <3>6 DEF SaveTemp
      <4> DEFINE w == [thr[r] EXCEPT !.pc = "authenticate",
                                     !.copy = [thr[r].copy EXCEPT !.password = p]]
      <4>2. w.pc = "authenticate" /\ w.old = thr[r].old
        BY <3>1 DEF ConfirmWork
      <4> HIDE DEF w
      <4>3. CASE Go(r, w)
        BY <2>1, <3>1, <4>2, <4>3, PasswordConfirm DEF ConfirmSteps
      <4>4. CASE Go(r, [thr[r] EXCEPT !.pc = "finally"])
        BY <2>1, <3>1, <3>3, <4>4, PasswordConfirm DEF ConfirmSteps
      <4> QED
        BY <4>1, <4>3, <4>4 DEF w
    <3>7. CASE Authenticate(r) \/ Restore(r)
      BY <2>1, <3>1, <3>3, <3>7, PasswordConfirm DEF Authenticate, Restore, ConfirmSteps
    <3>8. CASE Finally(r)
      <4>1. user' = [thr[r].copy EXCEPT !.password = thr[r].old] /\ Go(r, Idle)
        BY <3>8 DEF Finally
      <4>2. user'.password = thr[r].old
        BY <3>1, <4>1 DEF ConfirmWork, Row
      <4> QED
        BY <2>1, <3>1, <3>2, <4>1, <4>2, PasswordConfirm DEF Idle
    <3> QED
      BY <2>8, <3>4, <3>5, <3>6, <3>7, <3>8 DEF Enable
  <2>9. CASE Stop(r)
    BY <2>1, <2>9, PasswordGo DEF Stop, Idle
  <2> QED
    BY <1>5, <2>2, <2>3, <2>4, <2>5, <2>6, <2>7, <2>8, <2>9, <2>10
<1> QED
  BY <1>1, <1>2, <1>3, <1>4, <1>5, <1>6, <1>7, <1>8 DEF Acts

\* With nothing overlapping, no confirmation leaves its temporary password behind.
THEOREM PasswordsAreChosen == Spec => []PasswordIsChosen
<1>1. Init => PasswordInv
  BY AccountAssumption DEF Init, PasswordInv, Alone, Confirming, Carrying, At, Idle, ConfirmSteps
<1>2. TypeOK /\ PasswordInv /\ [Next]_vars => PasswordInv'
  <2>1. TypeOK /\ PasswordInv /\ UNCHANGED vars => PasswordInv'
    BY DEF vars, PasswordInv, Alone, Confirming, Carrying, At
  <2> QED
    BY <2>1, PasswordStep, Steps DEF PasswordInv
<1>3. PasswordInv => PasswordIsChosen
  BY DEF PasswordInv, Alone, PasswordIsChosen
<1> QED
  BY <1>1, <1>2, <1>3, AccountTypes, PTL DEF Spec

---------------------------------------------------------------------------
(* VerifiedByCode *)

Proved == marked \/ entered \intersect sms # {}

\* A code is in the row, or on its way there, only after it was sent; a copy is of a
\* verified user only after a code both sent and entered, or by an administrator.
CodeInv ==
  /\ otp # None => otp \in sms
  /\ \A r \in Threads :
       /\ At(r, "saveCode") => thr[r].code \in sms
       /\ At(r, "check") => thr[r].code \in entered
       /\ Carrying(r) /\ thr[r].copy.verified => Proved
  /\ user.verified => Proved

\* What is sent and what is entered stays so.
LEMMA Grows == Next => sms \subseteq sms' /\ entered \subseteq entered' /\ (marked => marked')
BY Steps DEF Acts, Touch, Forgot, ResetPassword, Save, AdminEdit, SaveFirst, AdminToggle,
   ParentEdit, DrawCode, Submit, SendCode, SaveCode, Check, Confirm, Enable, SaveTemp,
   Authenticate, Restore, Finally, Stop

\* The step of a thread that writes nothing but what it carried or what was there.
LEMMA CodeGo ==
  ASSUME TypeOK, CodeInv, Next, NEW r \in Threads, NEW w, Go(r, w),
         w.pc = "saveCode" => w.code \in sms',
         w.pc = "check" => w.code \in entered',
         w.pc \in {"saveTwice", "saveForm", "save", "check"} \union ConfirmSteps
           => (w.copy.verified => Proved'),
         user'.verified => Proved',
         otp' # None => otp' \in sms'
  PROVE  CodeInv'
<1>1. thr'[r] = w /\ \A q \in Threads : q # r => thr'[q] = thr[q]
  BY AfterGo
<1>2. Proved => Proved'
  BY Grows DEF Proved
<1>3. ASSUME NEW s \in Threads
      PROVE  /\ At(s, "saveCode")' => thr'[s].code \in sms'
             /\ At(s, "check")' => thr'[s].code \in entered'
             /\ Carrying(s)' /\ thr'[s].copy.verified => Proved'
  <2>1. CASE s = r
    BY <1>1, <2>1 DEF At, Carrying
  <2>2. CASE s # r
    BY <1>1, <1>2, <2>2, Grows DEF At, Carrying, CodeInv
  <2> QED
    BY <2>1, <2>2
<1> QED
  BY <1>3 DEF CodeInv

LEMMA CodeStep ==
  ASSUME TypeOK, CodeInv, NEW r \in Threads, Acts(r)
  PROVE  CodeInv'
<1>0. Next /\ user \in Row /\ Idle.pc = "idle" /\ (Proved => Proved')
  BY Steps, Grows DEF TypeOK, Idle, Proved
<1>1. otp # None => otp \in sms'
  BY <1>0, Grows DEF CodeInv
<1>2. user.verified => Proved'
  BY <1>0 DEF CodeInv
<1>3. Carrying(r) => thr[r].copy \in Row /\ (thr[r].copy.verified => Proved')
  BY <1>0, Works DEF CodeInv
<1>4. CASE Touch(r)
  <2>1. [pc |-> "save", copy |-> user].pc = "save"
    OBVIOUS
  <2> QED
    BY <1>0, <1>1, <1>2, <1>4, <2>1, CodeGo DEF Touch, Begin
<1>5. ASSUME NEW p \in Passwords, ResetPassword(r, p)
      PROVE  CodeInv'
  <2>1. [user EXCEPT !.password = p].verified = user.verified
    BY <1>0 DEF Row
  <2> QED
    BY <1>0, <1>1, <1>2, <1>5, <2>1, CodeGo DEF ResetPassword, Begin
<1>6. CASE Forgot(r)
  BY <1>6 DEF Forgot, CodeInv, Proved, At, Carrying
<1>7. CASE Save(r)
  <2>1. user'.verified => Proved'
    BY <1>2, <1>3, <1>7 DEF Save, Carrying, At
  <2> QED
    BY <1>0, <1>1, <1>7, <2>1, CodeGo DEF Save, ConfirmSteps
<1>8. ASSUME NEW c \in Codes, DrawCode(r, c)
      PROVE  CodeInv'
  BY <1>0, <1>1, <1>2, <1>8, CodeGo DEF DrawCode, ConfirmSteps
<1>9. ASSUME NEW c \in Codes, Submit(r, c)
      PROVE  CodeInv'
  <2>1. c \in entered'
    BY <1>9 DEF Submit
  <2> QED
    BY <1>0, <1>1, <1>2, <1>9, <2>1, CodeGo DEF Submit, Begin
<1>10. CASE SendCode(r)
  <2>1. thr[r] \in CodeWork
    BY <1>10, Works DEF SendCode
  <2>2. /\ [thr[r] EXCEPT !.pc = "saveCode"].pc = "saveCode"
        /\ [thr[r] EXCEPT !.pc = "saveCode"].code = thr[r].code
    BY <2>1 DEF CodeWork
  <2>3. CASE Go(r, Idle)
    BY <1>0, <1>1, <1>2, <1>10, <2>3, CodeGo DEF SendCode, ConfirmSteps
  <2>4. CASE sms' = sms \union {thr[r].code} /\ Go(r, [thr[r] EXCEPT !.pc = "saveCode"])
    BY <1>0, <1>1, <1>2, <1>10, <2>2, <2>4, CodeGo DEF SendCode, ConfirmSteps
  <2> QED
    BY <1>10, <2>3, <2>4 DEF SendCode
<1>11. CASE SaveCode(r)
  <2>1. otp' # None => otp' \in sms'
    BY <1>1, <1>11 DEF SaveCode, CodeInv
  <2> QED
    BY <1>0, <1>2, <1>11, <2>1, CodeGo DEF SaveCode, ConfirmSteps
<1>12. CASE Check(r)
  <2>1. thr[r] \in CheckWork
    BY <1>12, Works DEF Check
  <2>2. CASE Go(r, Idle)
    BY <1>0, <1>1, <1>2, <1>12, <2>2, CodeGo DEF Check, ConfirmSteps
  <2>3. CASE /\ otp = thr[r].code
             /\ Go(r, [pc |-> "save", copy |-> [thr[r].copy EXCEPT !.verified = TRUE]])
    <3>1. thr[r].code \in sms /\ thr[r].code \in entered
      BY <1>12, <2>1, <2>3, AccountAssumption DEF Check, CodeInv, CheckWork
    <3>2. Proved'
      BY <1>0, <3>1 DEF Proved
    <3> QED
      BY <1>0, <1>1, <1>2, <1>12, <2>3, <3>2, CodeGo DEF Check
  <2> QED
    BY <1>12, <2>2, <2>3 DEF Check
<1>13. CASE Confirm(r)
  <2>1. [user EXCEPT !.enabled = TRUE].verified = user.verified
    BY <1>0 DEF Row
  <2> QED
    BY <1>0, <1>1, <1>2, <1>13, <2>1, CodeGo DEF Confirm, Begin
<1>14. CASE Enable(r) \/ SaveTemp(r) \/ Authenticate(r) \/ Restore(r) \/ Finally(r)
  <2>1. Confirming(r) /\ thr[r] \in ConfirmWork /\ Carrying(r)
    BY <1>14, Works DEF Enable, SaveTemp, Authenticate, Restore, Finally, At, Confirming,
       Carrying, ConfirmSteps
  <2>2. \A p : [thr[r].copy EXCEPT !.password = p].verified = thr[r].copy.verified
    BY <2>1 DEF ConfirmWork, Row
  <2>3. user'.verified => Proved'
    BY <1>2, <1>3, <1>14, <2>1, <2>2 DEF Enable, SaveTemp, Authenticate, Restore, Finally
  <2>4. \A s \in ConfirmSteps : /\ [thr[r] EXCEPT !.pc = s].pc = s
                               /\ [thr[r] EXCEPT !.pc = s].copy = thr[r].copy
    BY <2>1 DEF ConfirmWork
  <2>5. otp' = otp
    BY <1>14 DEF Enable, SaveTemp, Authenticate, Restore, Finally
  <2>6. ASSUME NEW s \in ConfirmSteps, Go(r, [thr[r] EXCEPT !.pc = s])
        PROVE  CodeInv'
    <3>1. s \notin {"saveCode", "check"}
      BY DEF ConfirmSteps
    <3> QED
      BY <1>0, <1>1, <1>3, <2>1, <2>3, <2>4, <2>5, <2>6, <3>1, CodeGo
  <2>7. CASE Go(r, Idle)
    BY <1>0, <1>1, <2>3, <2>5, <2>7, CodeGo DEF ConfirmSteps
  <2>8. ASSUME NEW p \in Temps,
               Go(r, [thr[r] EXCEPT !.pc = "authenticate",
                                    !.copy = [thr[r].copy EXCEPT !.password = p]])
        PROVE  CodeInv'
    <3> DEFINE w == [thr[r] EXCEPT !.pc = "authenticate",
                                   !.copy = [thr[r].copy EXCEPT !.password = p]]
    <3>1. w.pc = "authenticate" /\ w.copy.verified = thr[r].copy.verified
      BY <2>1, <2>2 DEF ConfirmWork
    <3> HIDE DEF w
    <3>2. Go(r, w)
      BY <2>8 DEF w
    <3> QED
      BY <1>0, <1>1, <1>3, <2>1, <2>3, <2>5, <3>1, <3>2, CodeGo
  <2>9. CASE SaveTemp(r)
    BY <2>6, <2>8, <2>9 DEF SaveTemp, ConfirmSteps
  <2> QED
    BY <1>14, <2>6, <2>7, <2>9 DEF Enable, Authenticate, Restore, Finally, ConfirmSteps
<1>15. CASE Stop(r)
  BY <1>0, <1>1, <1>2, <1>15, CodeGo DEF Stop, ConfirmSteps
<1>16. ASSUME NEW e \in BOOLEAN, NEW v \in BOOLEAN, AdminEdit(r, e, v)
       PROVE  CodeInv'
  <2>1. PICK pc \in {"saveTwice", "saveForm"} :
          Begin(r, [pc |-> pc, copy |-> [user EXCEPT !.enabled = e, !.verified = v]])
    BY <1>16 DEF AdminEdit
  <2>2. v => Proved'
    BY <1>16 DEF AdminEdit, Proved
  <2> QED
    BY <1>0, <1>1, <1>2, <1>16, <2>1, <2>2, Form, CodeGo DEF AdminEdit, Begin
<1>17. CASE AdminToggle(r)
  BY <1>0, <1>1, <1>2, <1>17, Form, CodeGo DEF AdminToggle, Begin
<1>18. ASSUME NEW e \in BOOLEAN, ParentEdit(r, e)
       PROVE  CodeInv'
  <2>1. PICK p \in Passwords \union {user.password} :
          Begin(r, [pc |-> "saveForm", copy |-> [user EXCEPT !.enabled = e, !.password = p]])
    BY <1>18 DEF ParentEdit
  <2> QED
    BY <1>0, <1>1, <1>2, <1>18, <2>1, ParentForm, CodeGo DEF ParentEdit, Begin
<1>19. CASE SaveFirst(r)
  <2>1. thr[r] \in SaveWork /\ Carrying(r)
    BY <1>19, Works DEF SaveFirst, Carrying, At
  <2>2. /\ [thr[r] EXCEPT !.pc = "saveForm"].pc = "saveForm"
        /\ [thr[r] EXCEPT !.pc = "saveForm"].copy = thr[r].copy
    BY <2>1 DEF SaveWork
  <2>3. user'.verified => Proved'
    BY <1>2, <1>3, <1>19, <2>1 DEF SaveFirst
  <2> QED
    BY <1>0, <1>1, <1>3, <1>19, <2>1, <2>2, <2>3, CodeGo DEF SaveFirst, ConfirmSteps
<1> QED
  BY <1>4, <1>5, <1>6, <1>7, <1>8, <1>9, <1>10, <1>11, <1>12, <1>13, <1>14, <1>15, <1>16,
     <1>17, <1>18, <1>19 DEF Acts

\* Nobody is marked as verified who has not entered a code that was sent to him, unless an
\* administrator marked him.
THEOREM VerifiedAfterCode == Spec => []VerifiedByCode
<1>1. Init => CodeInv
  BY DEF Init, CodeInv, At, Idle, Carrying, ConfirmSteps
<1>2. TypeOK /\ CodeInv /\ [Next]_vars => CodeInv'
  <2>1. CodeInv /\ UNCHANGED vars => CodeInv'
    BY DEF vars, CodeInv, Proved, At, Carrying
  <2> QED
    BY <2>1, CodeStep, Steps
<1>3. CodeInv => VerifiedByCode
  BY DEF CodeInv, Proved, VerifiedByCode
<1> QED
  BY <1>1, <1>2, <1>3, AccountTypes, PTL DEF Spec

---------------------------------------------------------------------------
(* FlagsStay *)

LEMMA FlagsGo ==
  ASSUME TypeOK, NEW f \in {"enabled", "verified"}, NEW b \in BOOLEAN, Settled(f, b),
         NEW r \in Threads, NEW w, Go(r, w),
         w.pc \in {"saveTwice", "saveForm", "save", "check"} \union ConfirmSteps => w.copy[f] = b,
         user'[f] = b
  PROVE  Settled(f, b)'
BY AfterGo DEF Settled, Carrying

\* The requests that may set the column.
LEMMA OfficeFlags ==
  ASSUME TypeOK, NEW f \in {"enabled", "verified"}, NEW b \in BOOLEAN, Settled(f, b),
         NEW r \in Threads,
         \/ (\E e, v \in BOOLEAN : AdminEdit(r, e, v)) \/ AdminToggle(r)
         \/ (\E e \in BOOLEAN : ParentEdit(r, e)) \/ Confirm(r)
  PROVE  Settled(f, b)' \/ Gives(f, ~b)
<1> SUFFICES ASSUME ~Gives(f, ~b)
             PROVE  Settled(f, b)'
  OBVIOUS
<1>0. user \in Row /\ user[f] = b
  BY DEF TypeOK, Settled
<1>1. ASSUME NEW e \in BOOLEAN, NEW v \in BOOLEAN, AdminEdit(r, e, v)
      PROVE  Settled(f, b)'
  <2>1. PICK pc \in {"saveTwice", "saveForm"} :
          Begin(r, [pc |-> pc, copy |-> [user EXCEPT !.enabled = e, !.verified = v]])
    BY <1>1 DEF AdminEdit
  <2>2. (IF f = "enabled" THEN e ELSE v) # ~b
    BY <1>1 DEF Gives
  <2>3. (IF f = "enabled" THEN e ELSE v) = b
    BY <2>2
  <2> DEFINE copy == [user EXCEPT !.enabled = e, !.verified = v]
  <2>4. copy[f] = b
    BY <1>0, <2>3 DEF Row
  <2> HIDE DEF copy
  <2>5. Go(r, [pc |-> pc, copy |-> copy]) /\ user' = user
    BY <1>1, <2>1 DEF AdminEdit, Begin, copy
  <2> QED
    BY <1>0, <2>4, <2>5, FlagsGo
<1>2. CASE AdminToggle(r)
  <2>1. f # "enabled"
    BY <1>2 DEF Gives
  <2>2. [user EXCEPT !.enabled = ~user.enabled][f] = b
    BY <1>0, <2>1 DEF Row
  <2> QED
    BY <1>0, <1>2, <2>2, FlagsGo DEF AdminToggle, Begin
<1>3. ASSUME NEW e \in BOOLEAN, ParentEdit(r, e)
      PROVE  Settled(f, b)'
  <2>1. PICK p \in Passwords \union {user.password} :
          Begin(r, [pc |-> "saveForm", copy |-> [user EXCEPT !.enabled = e, !.password = p]])
    BY <1>3 DEF ParentEdit
  <2>2. f = "enabled" => e # ~b
    BY <1>3 DEF Gives
  <2> DEFINE copy == [user EXCEPT !.enabled = e, !.password = p]
  <2>3. copy[f] = b
    BY <1>0, <2>2 DEF Row
  <2> HIDE DEF copy
  <2>4. Go(r, [pc |-> "saveForm", copy |-> copy]) /\ user' = user
    BY <1>3, <2>1 DEF ParentEdit, Begin, copy
  <2> QED
    BY <1>0, <2>3, <2>4, FlagsGo
<1>4. CASE Confirm(r)
  <2>1. f = "enabled" => b
    BY <1>4 DEF Gives
  <2>2. [user EXCEPT !.enabled = TRUE][f] = b
    BY <1>0, <2>1 DEF Row
  <2> QED
    BY <1>0, <1>4, <2>2, FlagsGo DEF Confirm, Begin
<1> QED
  BY <1>1, <1>2, <1>3, <1>4

LEMMA FlagsStep ==
  ASSUME TypeOK, NEW f \in {"enabled", "verified"}, NEW b \in BOOLEAN, Settled(f, b),
         NEW r \in Threads, Acts(r)
  PROVE  Settled(f, b)' \/ Gives(f, ~b)
<1> SUFFICES ASSUME ~Gives(f, ~b)
             PROVE  Settled(f, b)'
  OBVIOUS
<1>0. user \in Row /\ user[f] = b /\ Idle.pc = "idle"
  BY DEF TypeOK, Settled, Idle
<1>1. Carrying(r) => thr[r].copy \in Row /\ thr[r].copy[f] = b
  BY Works DEF Settled
<1>2. ASSUME NEW row \in Row, row[f] = b
      PROVE  \A p : [row EXCEPT !.password = p][f] = b
  BY <1>2 DEF Row
<1>3. CASE Touch(r)
  BY <1>0, <1>3, FlagsGo DEF Touch, Begin
<1>4. ASSUME NEW p \in Passwords, ResetPassword(r, p)
      PROVE  Settled(f, b)'
  BY <1>0, <1>2, <1>4, FlagsGo DEF ResetPassword, Begin
<1>5. CASE Forgot(r)
  BY <1>5 DEF Forgot, Settled, Carrying
<1>6. CASE Save(r)
  BY <1>0, <1>1, <1>6, FlagsGo DEF Save, Carrying, At, ConfirmSteps
<1>7. ASSUME NEW c \in Codes, DrawCode(r, c)
      PROVE  Settled(f, b)'
  BY <1>0, <1>7, FlagsGo DEF DrawCode, ConfirmSteps
<1>8. ASSUME NEW c \in Codes, Submit(r, c)
      PROVE  Settled(f, b)'
  BY <1>0, <1>8, FlagsGo DEF Submit, Begin
<1>9. CASE SendCode(r)
  <2>1. [thr[r] EXCEPT !.pc = "saveCode"].pc = "saveCode"
    BY <1>9, Works DEF SendCode, CodeWork
  <2> QED
    BY <1>0, <1>9, <2>1, FlagsGo DEF SendCode, ConfirmSteps
<1>10. CASE SaveCode(r)
  BY <1>0, <1>10, FlagsGo DEF SaveCode, ConfirmSteps
<1>11. CASE Check(r)
  <2>1. thr[r].copy \in Row /\ thr[r].copy[f] = b
    BY <1>1, <1>11 DEF Check, At, Carrying
  <2>2. CASE Go(r, Idle)
    BY <1>0, <1>11, <2>2, FlagsGo DEF Check, ConfirmSteps
  <2>3. CASE /\ otp = thr[r].code
             /\ Go(r, [pc |-> "save", copy |-> [thr[r].copy EXCEPT !.verified = TRUE]])
    <3>1. f = "verified" => b
      BY <1>11, <2>3 DEF Gives, Check
    <3>2. [thr[r].copy EXCEPT !.verified = TRUE][f] = b
      BY <2>1, <3>1 DEF Row
    <3> QED
      BY <1>0, <1>11, <2>3, <3>2, FlagsGo DEF Check
  <2> QED
    BY <1>11, <2>2, <2>3 DEF Check
<1>12. CASE \/ (\E e, v \in BOOLEAN : AdminEdit(r, e, v)) \/ AdminToggle(r)
            \/ (\E e \in BOOLEAN : ParentEdit(r, e)) \/ Confirm(r)
  BY <1>12, OfficeFlags
<1>15. CASE SaveFirst(r)
  <2>1. thr[r] \in SaveWork /\ Carrying(r)
    BY <1>15, Works DEF SaveFirst, Carrying, At
  <2>2. [thr[r] EXCEPT !.pc = "saveForm"].copy = thr[r].copy
    BY <2>1 DEF SaveWork
  <2> QED
    BY <1>0, <1>1, <1>15, <2>1, <2>2, FlagsGo DEF SaveFirst, ConfirmSteps
<1>13. CASE Enable(r) \/ SaveTemp(r) \/ Authenticate(r) \/ Restore(r) \/ Finally(r)
  <2>1. Confirming(r) /\ thr[r] \in ConfirmWork /\ Carrying(r)
    BY <1>13, Works DEF Enable, SaveTemp, Authenticate, Restore, Finally, At, Confirming,
       Carrying, ConfirmSteps
  <2>2. thr[r].copy[f] = b /\ \A p : [thr[r].copy EXCEPT !.password = p][f] = b
    BY <1>1, <1>2, <2>1
  <2>3. user'[f] = b
    BY <1>0, <1>13, <2>2 DEF Enable, SaveTemp, Authenticate, Restore, Finally
  <2>4. \A s \in ConfirmSteps : [thr[r] EXCEPT !.pc = s].copy = thr[r].copy
    BY <2>1 DEF ConfirmWork
  <2>5. ASSUME NEW s \in ConfirmSteps, Go(r, [thr[r] EXCEPT !.pc = s])
        PROVE  Settled(f, b)'
    BY <2>2, <2>3, <2>4, <2>5, FlagsGo
  <2>6. CASE Go(r, Idle)
    BY <1>0, <2>3, <2>6, FlagsGo DEF ConfirmSteps
  <2>7. ASSUME NEW p \in Temps,
               Go(r, [thr[r] EXCEPT !.pc = "authenticate",
                                    !.copy = [thr[r].copy EXCEPT !.password = p]])
        PROVE  Settled(f, b)'
    <3>1. [thr[r] EXCEPT !.pc = "authenticate",
                         !.copy = [thr[r].copy EXCEPT !.password = p]].copy[f] = b
      BY <2>1, <2>2 DEF ConfirmWork
    <3> QED
      BY <2>3, <2>7, <3>1, FlagsGo
  <2>8. CASE SaveTemp(r)
    BY <2>5, <2>7, <2>8 DEF SaveTemp, ConfirmSteps
  <2> QED
    BY <1>13, <2>5, <2>6, <2>8 DEF Enable, Authenticate, Restore, Finally, ConfirmSteps
<1>14. CASE Stop(r)
  BY <1>0, <1>14, FlagsGo DEF Stop, ConfirmSteps
<1> QED
  BY <1>3, <1>4, <1>5, <1>6, <1>7, <1>8, <1>9, <1>10, <1>11, <1>12, <1>13, <1>14,
     <1>15 DEF Acts

\* Whether a user is enabled or verified changes by the requests meant to change it only, or
\* by a copy older than the last of them.
THEOREM FlagsAreKept == Spec => FlagsStay
<1>1. TypeOK /\ [Next]_vars =>
        [\A f \in {"enabled", "verified"}, b \in BOOLEAN :
           Settled(f, b) => Settled(f, b)' \/ Gives(f, ~b)]_vars
  BY FlagsStep, Steps
<1> QED
  BY <1>1, AccountTypes, PTL DEF Spec, FlagsStay
=============================================================================
