\* Two nodes, one payload, dbm databases, one restart: the log outlives the
\* shared objects and is never replayed.
SPECIFICATION FairSpec
CONSTANTS
  a = a
  b = b
  c = c
  m1 = m1
  m2 = m2
  Node <- Pair
  Message = {m1}
  Payloads <- OneSide
  Requires <- Free
  Link <- PairLink
  Persistent = {a, b}
  FailingSenders = {}
  MaxRestarts = 1
PROPERTY StateMaintained
CHECK_DEADLOCK FALSE
