\* Two nodes, one with a dict and one with a dbm database, a chain of two
\* payloads, one restart each: every interleaving of the threads.
SPECIFICATION Spec
CONSTANTS
  a = a
  b = b
  c = c
  m1 = m1
  m2 = m2
  Node <- Pair
  Message = {m1, m2}
  Payloads <- EachOne
  Requires <- Chain
  Link <- PairLink
  Persistent = {b}
  FailingSenders = {b}
  MaxRestarts = 1
INVARIANTS TypeOK Inv RemoteAppliedOnce
PROPERTY ImplementsDissemination
CHECK_DEADLOCK FALSE
