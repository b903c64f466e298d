\* A relay of three nodes, a chain of two payloads published at its head, a
\* lossy and reordering network: arrivals out of order strike and ban.
SPECIFICATION FairSpec
CONSTANTS
  a = a
  b = b
  c = c
  m1 = m1
  m2 = m2
  Node <- Trio
  Message = {m1, m2}
  Payloads <- FirstOfTrio
  Requires <- Chain
  Link <- RelayLink
  Persistent = {}
  FailingSenders = {}
  MaxRestarts = 0
PROPERTY EventualDelivery
CHECK_DEADLOCK FALSE
