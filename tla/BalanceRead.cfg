SPECIFICATION Spec
CONSTANTS
  s1 = s1
  s2 = s2
  Sales = {s1, s2}
  Amount <- MCAmount
  Fee <- MCFee
  Parts = {1}
  MaxMoves = 2
INVARIANTS
  TypeOK
  NeverTooLittle
  NeverTooMuch
