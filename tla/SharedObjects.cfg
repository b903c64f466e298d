SPECIFICATION ObjectSpec
CONSTANTS
  n1 = n1  n2 = n2  n3 = n3  k1 = k1  k2 = k2  k3 = k3  none = none
  CoreKey = {k1, k2, k3}  CoreAmount = {1, 2}  Digest = none  CacheSize = 2  MaxBalance = 2
  SyncNode = {n1, n2}  MaxPosts = 4  MaxRequests = 1
  PeerNode = {n1, n2, n3}  MaxPeers = 2  MaxCalls = 2
  Wallet = {n1, n2}  Own = n1  Payment <- MCPayment  Reward = 2  MaxCount = 2
  HashOrder <- MCHashOrder  MaxMinted = 3
  User = {n1, n2}  NoAdmin = none  Stamp = {1}  MaxSaid = 4
  StoreNode = {n1, n2}  Key = {k1}  Topic = {k2}  WriterRank <- MCWriterRank
  KvSkew = 1  MaxClock = 3  MaxWrites = 3  Unwritten = none
  Owner = {n1, n2}  UtxoGenesis <- MCUtxoGenesis  UtxoMiner = n2  UtxoReward = 2
  UtxoFee = {0, 2}  UtxoBurn = {0}  MaxUtxoBlocks = 3
INVARIANTS
  ObjectTypeOK
  StoreReadsBack SyncBringsUpToDate DiscoveryMeshes ExLedgerSound
  ChatPostsByMembers KvConverges UtxoConservedAtTip
CHECK_DEADLOCK FALSE
