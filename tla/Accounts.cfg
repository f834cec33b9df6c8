SPECIFICATION Spec
CONSTANTS
  Threads = {r1, r2}
  Passwords = {first, second}
  First = first
  Temps = {t1, t2}
  Codes = {c1, c2}
  None = None
  Faults = {"stop", "dbError", "smsError"}
INVARIANTS
  TypeOK
  PasswordIsChosen
  VerifiedByCode
PROPERTIES
  FlagsStay
SYMMETRY Symmetry
