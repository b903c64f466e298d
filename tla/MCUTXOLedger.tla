---------------------------- MODULE MCUTXOLedger ----------------------------
(* One owner with coins, a miner, and an assembly that burns as much of a  *)
(* fee as a block is rewarded with.                                        *)
EXTENDS UTXOLedger, TLC

CONSTANTS alice, miner

MCUtxoGenesis == (alice :> 4) @@ (miner :> 0)
=============================================================================
