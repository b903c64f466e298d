---------------------------- MODULE ExampleChain ----------------------------
(***************************************************************************)
(* examples/blockchain.py at one node: the fork-aware Ledger and the       *)
(* Mempool that follows its reorganisations, one after the other in the    *)
(* pipeline of shared objects.  Blocks come from this node or, in any      *)
(* order, from others that share its first block; the transactions are     *)
(* signed once and have no nonce.  Block i is the i-th one made, block 0   *)
(* the genesis block, whose address holds 1000 that nobody can spend.      *)
(***************************************************************************)
EXTENDS Collections

CONSTANTS
  Wallet,               \* addresses
  Own,                  \* the node's address
  Payment,              \* transactions: sender, recipient, amount > 0, fee
  Reward,               \* mining_reward
  MaxCount,             \* max_count of get_transactions_by_fee, ten
  HashOrder,            \* HashOrder[i]: how the hash of block i sorts
  MaxMinted             \* bound: blocks

VARIABLES
  minted,               \* the blocks made so far: parent, miner, txs
  known,                \* block_by_hash
  balanceAt,            \* state_by_hash
  canonicalTip,         \* the last block of chain
  pending               \* the mempool's transactions

exVars == <<minted, known, balanceAt, canonicalTip, pending>>

ASSUME ExampleAssumption ==
  /\ IsFiniteSet(Wallet) /\ Own \in Wallet /\ Reward \in Nat /\ MaxMinted \in Nat
  /\ MaxCount \in Nat \ {0}
  /\ Payment \subseteq [sender : Wallet, recipient : Wallet, amount : Nat \ {0}, fee : Nat]
  /\ HashOrder \in [0 .. MaxMinted -> Nat]
  /\ \A i, j \in 0 .. MaxMinted : HashOrder[i] = HashOrder[j] => i = j

MintedBlock == [parent : 0 .. MaxMinted, miner : Wallet, txs : Seq(Payment)]

ExTypeOK ==
  /\ minted \in Seq(MintedBlock)
  /\ known \subseteq 0 .. Len(minted) /\ canonicalTip \in known
  /\ DOMAIN balanceAt = known
  /\ \A b \in known : balanceAt[b] \in [Wallet -> Int]
  /\ pending \subseteq Payment

ExInit ==
  /\ minted = <<>> /\ known = {0} /\ canonicalTip = 0 /\ pending = {}
  /\ balanceAt = [b \in {0} |-> [w \in Wallet |-> 0]]
-----------------------------------------------------------------------------
(* _build_chain_to_tip, without the genesis block. *)
ChainToTip(M, tip) ==
  LET f[b \in 0 .. Len(M)] == IF b = 0 THEN <<>> ELSE Append(f[M[b].parent], b)
  IN f[tip]

IndexOf(M, b) == Len(ChainToTip(M, b))

(* _is_better_tip *)
IsBetterTip(M, b, c) ==
  \/ IndexOf(M, b) > IndexOf(M, c)
  \/ IndexOf(M, b) = IndexOf(M, c) /\ HashOrder[b] < HashOrder[c]

Move(bal, from, to, n) == [[bal EXCEPT ![from] = @ - n] EXCEPT ![to] = @ + n]

Rewarded(bal, block) == [bal EXCEPT ![block.miner] = @ + Reward]

Paid(bal, tx, miner) ==
  Move(Move(bal, tx.sender, tx.recipient, tx.amount), tx.sender, miner, tx.fee)

(* _compute_next_state *)
ComputeNextState(bal, block) ==
  FoldLeft(LAMBDA s, tx : Paid(s, tx, block.miner), Rewarded(bal, block), block.txs)

(* Faulty variant: funds are looked up in the balances of the chain.       *)
ValidOnCanonical(block) ==
  /\ block.parent \in known
  /\ \A i \in DOMAIN block.txs :
       LET before == ComputeNextState(balanceAt[canonicalTip],
                       [block EXCEPT !.txs = SubSeq(@, 1, i - 1)])
       IN before[block.txs[i].sender] >= block.txs[i].amount + block.txs[i].fee

(* Ledger.is_valid: the parent is known and each sender can pay, after the *)
(* reward and the transactions before, in the state of that parent.        *)
ValidMinted(block) ==
  /\ block.parent \in known
  /\ \A i \in DOMAIN block.txs :
       LET before == ComputeNextState(balanceAt[block.parent],
                       [block EXCEPT !.txs = SubSeq(@, 1, i - 1)])
       IN before[block.txs[i].sender] >= block.txs[i].amount + block.txs[i].fee

(* _collect_transactions *)
CollectTransactions(M, B) == UNION {ToSet(M[b].txs) : b \in B}

(* Ledger.add_message of block b, and what it tells the next object: the   *)
(* transactions of the blocks that left the chain and of those that came.  *)
LedgerAdd(M, b) ==
  LET tip == IF IsBetterTip(M, b, canonicalTip) THEN b ELSE canonicalTip
      old == ToSet(ChainToTip(M, canonicalTip))
      new == ToSet(ChainToTip(M, tip))
  IN [tip |-> tip,
      reverted |-> CollectTransactions(M, old \ new),
      applied |-> CollectTransactions(M, new \ old)]

(* Mempool.add_message of a block: the fallback for a message without      *)
(* metadata is also taken when nothing was applied, so that the            *)
(* transactions of a block that lost leave the pool.                       *)
MempoolAfter(M, b, memento) ==
  (pending \cup memento.reverted)
    \ (IF memento.applied # {} THEN memento.applied ELSE ToSet(M[b].txs))

(* The pipeline, for a block that is_valid accepted.  A known block adds   *)
(* nothing, but its transactions leave the pool once more.                 *)
Accept(M, b) ==
  /\ minted' = M
  /\ IF b \in known
     THEN /\ pending' = pending \ ToSet(M[b].txs)
          /\ UNCHANGED <<known, balanceAt, canonicalTip>>
     ELSE LET memento == LedgerAdd(M, b)
          IN /\ known' = known \cup {b}
             /\ balanceAt' = [c \in known \cup {b} |->
                                IF c \in known THEN balanceAt[c]
                                ELSE ComputeNextState(balanceAt[M[b].parent], M[b])]
             /\ canonicalTip' = memento.tip
             /\ pending' = MempoolAfter(M, b, memento)
-----------------------------------------------------------------------------
(* create_transaction, here or at another node: funds are not looked at. *)
CreateTransaction(tx) ==
  /\ pending' = pending \cup {tx}
  /\ UNCHANGED <<minted, known, balanceAt, canonicalTip>>

(* get_transactions_by_fee: the best MaxCount, by fee, of equal ones any   *)
(* first.                                                                  *)
TransactionsByFee ==
  {s \in UNION {SetToSeqs(best) : best \in SUBSET pending} :
     /\ Len(s) = MaxCount \/ (Len(s) < MaxCount /\ ToSet(s) = pending)
     /\ \A i \in 1 .. Len(s) - 1 : s[i].fee >= s[i + 1].fee
     /\ \A tx \in ToSet(s), other \in pending \ ToSet(s) : tx.fee >= other.fee}

(* mine_block and create_block: on the tip, with all that fits; a block    *)
(* the node's own ledger refuses ends in an exception, after the work.     *)
MineBlock ==
  /\ pending # {} /\ Len(minted) < MaxMinted
  /\ \E txs \in TransactionsByFee :
       LET block == [parent |-> canonicalTip, miner |-> Own, txs |-> txs]
       IN ValidMinted(block) /\ Accept(Append(minted, block), Len(minted) + 1)

(* Another node mines on a block this node knows; the block arrives later. *)
MintElsewhere(parent, miner, txs) ==
  /\ Len(minted) < MaxMinted /\ parent <= Len(minted)
  /\ minted' = Append(minted, [parent |-> parent, miner |-> miner, txs |-> txs])
  /\ UNCHANGED <<known, balanceAt, canonicalTip, pending>>

ReceiveBlock(b) ==
  /\ b \in DOMAIN minted /\ ValidMinted(minted[b])
  /\ Accept(minted, b)

ExNext ==
  \/ \E tx \in Payment : CreateTransaction(tx)
  \/ MineBlock
  \/ \E parent \in 0 .. MaxMinted, miner \in Wallet,
       txs \in {<<>>} \cup {<<tx>> : tx \in Payment} : MintElsewhere(parent, miner, txs)
  \/ \E b \in 1 .. MaxMinted : ReceiveBlock(b)

ExSpec == ExInit /\ [][ExNext]_exVars
-----------------------------------------------------------------------------
(* The chain is the best one known, its balances are what its own blocks   *)
(* make of the beginning, whatever forks were computed between, all of the *)
(* rewards are there and nobody owes anything.                             *)
ExLedgerSound ==
  LET chain == ChainToTip(minted, canonicalTip)
      bal == balanceAt[canonicalTip]
  IN /\ \A b \in known \ {canonicalTip} : IsBetterTip(minted, canonicalTip, b)
     /\ bal = FoldLeft(LAMBDA s, b : ComputeNextState(s, minted[b]), balanceAt[0], chain)
     /\ MapThenSumSet(LAMBDA w : bal[w], Wallet) = Reward * Len(chain)
     /\ \A w \in Wallet : bal[w] >= 0
=============================================================================
