SPECIFICATION Spec
CONSTANTS
  Users = {u1, u2}
  Threads = {r1, r2}
  MaxLive = 1
  FormNumbers = {1}
  MaxRequests = 4
INVARIANTS
  TypeOK
  NumbersApart
PROPERTIES
  LimitKept
  ShownWithRoom
SYMMETRY Symmetry
CHECK_DEADLOCK FALSE
