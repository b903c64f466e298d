SPECIFICATION UtxoSpec
CONSTANTS
  alice = alice  miner = miner
  Owner = {alice, miner}  UtxoGenesis <- MCUtxoGenesis  UtxoMiner = miner
  UtxoReward = 2  UtxoFee = {2}  UtxoBurn = {2}  MaxUtxoBlocks = 2
INVARIANT UtxoConserved
CHECK_DEADLOCK FALSE
