SPECIFICATION PbftSpec
CONSTANTS
  r1 = r1  r2 = r2  r3 = r3  r4 = r4  d1 = d1  d2 = d2  none = none
  Replica = {r1, r2, r3, r4}  Byzantine = {r4}  PbftRank <- MCPbftRank
  Digest = {d1, d2}  NoDigest = none
  PbftLies <- MCPbftLies  Pipelined = FALSE  MaxSequence = 1
INVARIANT PbftAgreement
CHECK_DEADLOCK FALSE
