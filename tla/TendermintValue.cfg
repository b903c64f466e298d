\* Four validators, the leader of height 1 faulty, one height, two values.
SPECIFICATION Spec
CONSTANTS
  v1 = v1
  v2 = v2
  v3 = v3
  v4 = v4
  A = A
  B = B
  None = None
  Lies <- Favourite
  Validator <- Four
  Faulty = {v1}
  Order <- FourOrder
  Value = {A, B}
  MaxHeight = 1
INVARIANT ValueAgreement
CHECK_DEADLOCK FALSE
