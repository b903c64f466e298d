SPECIFICATION EngineSpec
CONSTANTS
  r1 = r1  r2 = r2  r3 = r3  r4 = r4  d1 = d1  d2 = d2
  n1 = n1  n2 = n2  n3 = n3  none = none  t1 = t1  t2 = t2  t3 = t3
  Replica = {r1, r2, r3, r4}  Byzantine = {r4}  PbftRank <- MCPbftRank
  Digest = {d1, d2}  NoDigest = none
  PbftLies <- MCPbftLies  Pipelined = FALSE  MaxSequence = 2
  HsRank <- MCHsRank  HsLies <- MCHsLies  HsPipelined = FALSE  MaxView = 1
  AvaNode = {n1, n2}  Tx = {t1, t2, t3}  TxParents <- MCTxParents
  ConflictOf <- MCConflictOf  NoTx = none
  K = 1  AvaQuorum = 1  Beta1 = 1  Beta2 = 2  MaxSuccess = 2
  Member = {n1, n2, n3}  Payload = {d1}  HashRank <- MCHashRank  MaxEvents = 4
  RelayNode = {n1, n2, n3}  RelayValue = {d1, d2}  Undecided = none
  DagNode = {n1, n2}  MaxTx = 4  Weight <- MCWeight  DagConflict <- MCDagConflict
  NoConflict = none  ConfirmationWeight = 3
  LatNode = {n1, n2}  Account = {t1, t2}  Home <- MCHome
  Rep = {r1, r2}  RepWeight <- MCRepWeight  Amount = {1}  Opening = 2  MaxBlocks = 4
  Miner = {n1, n2}  BlockRank <- MCBlockRank  Confirmations = 1  MaxMined = 4
  BeaconNode = {n1, n2}  BeaconRank <- MCBeaconRank  BeaconDepth = 1
  Skew = 1  MaxBeacon = 3  MaxTime = 2
  SnowNode = {n1, n2, n3}  SnowK = 2  AlphaPercent = 100  SlushRounds = 2
  SnowBeta = 1  SnowStart <- MCSnowStart  MaxQuery = 2
CONSTRAINT MCFirstEvents
INVARIANTS
  EngineTypeOK
  AvaPreferenceLeads HgDecidedSupported RelaySpread
  DagOrderFree
  LatConserved LatOneConfirmed
  PowBestChain BeaconDrawAgreed
  SnowValidity SnowCountedOnce
PROPERTIES
  PbftImplementsLog HsImplementsLog
  PowResultExact BeaconDrawStable
CHECK_DEADLOCK FALSE
