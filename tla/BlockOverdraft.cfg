CONSTANTS
  alice = alice
  bob = bob
  carol = carol
  NoTx = NoTx
  Account <- MCAccount
  Nonce <- MCNonce
  Transaction <- MCTransaction
  Config <- ClearingConfig
  Genesis <- ThinGenesis
  Miner = {carol}
  MaxBlocks = 1
SPECIFICATION Spec
INVARIANT NoNegativeBalance
