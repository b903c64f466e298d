\* Four validators, the leader of height 1 faulty, two heights, two values.
SPECIFICATION Spec
CONSTANTS
  v1 = v1
  v2 = v2
  v3 = v3
  v4 = v4
  A = A
  B = B
  None = None
  Lies <- TwoFaced
  Validator <- Four
  Faulty = {v1}
  Order <- FourOrder
  Value = {A, B}
  MaxHeight = 2
INVARIANTS Inv Agreement NoEquivocation
PROPERTIES CommitsInOrder ImplementsLog
CHECK_DEADLOCK FALSE
