CONSTANTS
  alice = alice
  bob = bob
  carol = carol
  NoTx = NoTx
  Account <- MCAccount
  Nonce <- MCNonce
  Transaction <- MCTransaction
  Config <- MCConfig
  Genesis <- MCGenesis
  Miner = {carol}
  MaxBlocks = 3
SPECIFICATION Spec
INVARIANTS
  TypeOK
  PoolConsistent
  ValueConserved
  NonceOrder
  ChargesSound
  NoOverdraftAtBid
PROPERTIES
  LostForMore
