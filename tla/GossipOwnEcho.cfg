\* Two nodes, one payload: the publisher's own payload comes back between
\* its broadcast and its store.
SPECIFICATION Spec
CONSTANTS
  a = a
  b = b
  c = c
  m1 = m1
  m2 = m2
  Node <- Pair
  Message = {m1}
  Payloads <- OneSide
  Requires <- Free
  Link <- PairLink
  Persistent = {a, b}
  FailingSenders = {}
  MaxRestarts = 0
INVARIANT AppliedOnce
CHECK_DEADLOCK FALSE
