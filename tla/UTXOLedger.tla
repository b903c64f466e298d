----------------------------- MODULE UTXOLedger -----------------------------
(***************************************************************************)
(* ledger/utxo.py under apply_block of ledger/base.py.  An output is named *)
(* by what its id hashes: a genesis owner, a place in a transaction, or,   *)
(* for a coinbase, the owner, the reward and the supply.                   *)
(***************************************************************************)
EXTENDS Collections

CONSTANTS
  Owner,
  UtxoGenesis,          \* genesis_allocations
  UtxoMiner,
  UtxoReward,           \* coinbase_reward
  UtxoFee,              \* fees a transaction may leave
  UtxoBurn,             \* base fees the policies burn of each; 0: none do
  MaxUtxoBlocks         \* bound

VARIABLES
  utxos,                \* the unspent outputs, by id
  utxoBurned,
  utxoBurn,             \* the part of each fee this assembly burns
  utxoBlocks            \* how many blocks

utxoVars == <<utxos, utxoBurned, utxoBurn, utxoBlocks>>

ASSUME UtxoAssumption ==
  /\ IsFiniteSet(Owner) /\ MaxUtxoBlocks \in Nat
  /\ UtxoGenesis \in [Owner -> Nat] /\ UtxoMiner \in Owner
  /\ UtxoReward \in Nat \ {0} /\ UtxoFee \subseteq Nat /\ UtxoBurn \subseteq Nat

UtxoTypeOK ==
  /\ \A u \in DOMAIN utxos : utxos[u] \in [owner : Owner, amount : Nat]
  /\ utxoBurned \in Nat /\ utxoBurn \in UtxoBurn
  /\ utxoBlocks \in 0 .. MaxUtxoBlocks

SumOf(f, U) == SumOver([u \in U |-> f[u].amount], U)
TotalSupply(state) == SumOf(state, DOMAIN state)

(* genesis_state *)
UtxoInit ==
  /\ utxos = [u \in {<<"genesis", o, 0>> : o \in Owner} |->
                [owner |-> u[2], amount |-> UtxoGenesis[u[2]]]]
  /\ utxoBurned = 0 /\ utxoBlocks = 0 /\ utxoBurn \in UtxoBurn
-----------------------------------------------------------------------------
Worth(state, inputs) ==
  SumOver([i \in DOMAIN inputs |-> state[inputs[i]].amount], DOMAIN inputs)
Outlay(tx) == tx.fee + SumOf(tx.outputs, DOMAIN tx.outputs)

(* Faulty variant: an input may be named twice. *)
UtxoValidTwice(tx, state) ==
  /\ tx.inputs # <<>>
  /\ ToSet(tx.inputs) \subseteq DOMAIN state
  /\ Worth(state, tx.inputs) = Outlay(tx)

(* validate *)
UtxoValid(tx, state) ==
  /\ tx.inputs # <<>>
  /\ ToSet(tx.inputs) \subseteq DOMAIN state
  /\ IsInjective(tx.inputs)
  /\ SumOf(state, ToSet(tx.inputs)) = Outlay(tx)

(* What is written under an id that is taken replaces what was there. *)
Written(state, new) ==
  [u \in DOMAIN state \cup DOMAIN new |-> IF u \in DOMAIN new THEN new[u] ELSE state[u]]

(* apply_tx: the inputs go, the outputs and, as number 0, what the miner is *)
(* tipped come.                                                             *)
Created(tx, miner, tip) ==
  [u \in {<<"output", tx, i>> : i \in DOMAIN tx.outputs \cup (IF tip = 0 THEN {} ELSE {0})} |->
     IF u[3] = 0 THEN [owner |-> miner, amount |-> tip] ELSE tx.outputs[u[3]]]

UtxoApply(tx, state, miner, burn) ==
  Written([u \in DOMAIN state \ ToSet(tx.inputs) |-> state[u]],
          Created(tx, miner, tx.fee - burn))

(* _credit_coinbase *)
UtxoCoinbase(state, miner, reward) ==
  Written(state, [u \in {<<"coinbase", miner, TotalSupply(state)>>} |->
                    [owner |-> miner, amount |-> reward]])

(* Payments of a wallet: one or two of its outputs to one owner, and the  *)
(* same output twice.                                                      *)
Purses(state) == UNION {[1 .. n -> DOMAIN state] : n \in {1, 2}}
Spend(inputs, o, fee, state) ==
  [inputs |-> inputs, fee |-> fee,
   outputs |-> <<[owner |-> o, amount |-> Worth(state, inputs) - fee]>>]

(* apply_block of the transactions in turn, then the reward; the fee       *)
(* policy offers none that leaves less than it burns.  A transaction that  *)
(* fails fails the block.                                                  *)
UtxoAfter(state, txs, burn) ==
  LET after[i \in 0 .. Len(txs)] ==
        IF i = 0 THEN state ELSE UtxoApply(txs[i], after[i - 1], UtxoMiner, burn)
  IN after

UtxoBlock(txs) ==
  LET after == UtxoAfter(utxos, txs, utxoBurn)
  IN /\ utxoBlocks < MaxUtxoBlocks
     /\ \A i \in DOMAIN txs : txs[i].fee >= utxoBurn /\ UtxoValid(txs[i], after[i - 1])
     /\ utxos' = UtxoCoinbase(after[Len(txs)], UtxoMiner, UtxoReward)
     /\ utxoBurned' = utxoBurned + utxoBurn * Len(txs)
     /\ utxoBlocks' = utxoBlocks + 1
     /\ UNCHANGED utxoBurn

UtxoNext ==
  \/ UtxoBlock(<<>>)
  \/ \E inputs \in Purses(utxos), o \in Owner, f \in UtxoFee :
       f <= Worth(utxos, inputs) /\ UtxoBlock(<<Spend(inputs, o, f, utxos)>>)

UtxoSpec == UtxoInit /\ [][UtxoNext]_utxoVars
-----------------------------------------------------------------------------
Accounted ==
  TotalSupply(utxos) + utxoBurned
    = SumOver(UtxoGenesis, Owner) + UtxoReward * utxoBlocks

(* Where nothing is burned the outputs are worth the genesis allocations   *)
(* and the rewards, whatever was spent: no id is ever taken twice.         *)
UtxoConservedAtTip == utxoBurn = 0 => Accounted

(* The same of every assembly (ledger/base.py: the ledger applies the fees *)
(* "while preserving value conservation").                                 *)
UtxoConserved == Accounted
=============================================================================
