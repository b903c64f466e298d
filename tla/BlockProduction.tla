-------------------------- MODULE BlockProduction --------------------------
(***************************************************************************)
(* Blockchain of chaincraft/config.py: a pool of pending transactions, a   *)
(* fee policy and a balance ledger, driven by submit(), produce_block()    *)
(* and reinject().  The assembly is picked at the start, as a              *)
(* BlockchainConfig is; target stands for target_transactions_per_block    *)
(* with its default filled in, a limit of None for a large number.         *)
(***************************************************************************)
EXTENDS TransactionPool, FeePolicy, BalanceLedger

CONSTANTS
  Transaction,          \* records: sender, recipient and, all natural numbers,
                        \* amount, fee, nonce and the sizes of PayloadPricing
  Nonce,                \* the nonces of the transactions
  Config,               \* assemblies
  Genesis,              \* genesis_allocations
  Miner,                \* who may produce a block
  MaxBlocks             \* bound: blocks produced

VARIABLES
  config,               \* the assembly
  pool,                 \* mempool
  state,                \* the ledger state: balances, nonces, burned
  baseFee,              \* base_fee
  blocks                \* blocks: the transactions, their charges, the miner

vars == <<config, pool, state, baseFee, blocks>>

(* validate: the rules for a balance ledger without a consensus engine. *)
ValidConfig(c) ==
  /\ c.policy \in {"highest_first", "median", "eip1559"}
  /\ c.pricing.name \in PayloadPricings
  /\ c.pricing.rate \in Nat
  /\ {c.maxPayload, c.maxTransactions} \subseteq Nat \ {0}
  /\ c.target \in 1 .. c.maxTransactions
  /\ {c.reward, c.initialBaseFee, c.minBaseFee} \subseteq Nat
  /\ Genesis \in [Account -> Nat]
  /\ c.policy = "eip1559" => c.initialBaseFee >= c.minBaseFee

ASSUME ConfigAssumption == \A c \in Config : ValidConfig(c) /\ ValidPolicy(c)

(* What BalanceTransaction and validate ask of a transaction by itself.    *)
ASSUME TransactionAssumption ==
  /\ IsFiniteSet(Account) /\ Miner \subseteq Account /\ Nonce \subseteq Nat
  /\ NoTx \notin Transaction
  /\ \A tx \in Transaction :
       /\ {tx.sender, tx.recipient} \subseteq Account /\ tx.nonce \in Nonce
       /\ {tx.amount, tx.fee, tx.data, tx.packed, tx.total} \subseteq Nat

Context == [policy |-> config.policy, maxTransactions |-> config.maxTransactions,
            target |-> config.target, minBaseFee |-> config.minBaseFee,
            pricing |-> config.pricing, maxPayload |-> config.maxPayload,
            baseFee |-> baseFee]

Init ==
  /\ config \in Config
  /\ pool = [order |-> <<>>, slots |-> [s \in Account \X Nonce |-> NoTx]]
  /\ state = [balances |-> Genesis, nonces |-> [a \in Account |-> 0], burned |-> 0]
  /\ baseFee = config.initialBaseFee
  /\ blocks = <<>>

(* How many entries may have outlived ttl_seconds when a call looks. *)
Overdue(p) == IF config.ttl THEN 0 .. Len(p.order) ELSE {0}

(* submit: the fee policy is asked first, so a fee it refuses does not     *)
(* even expire old entries.  The ledger is not asked.                      *)
Submit(tx) ==
  /\ IsValidFee(tx, Context)
  /\ \E k \in Overdue(pool) : pool' = Add(Expire(pool, k), tx, config)
  /\ UNCHANGED <<config, state, baseFee, blocks>>

(* reinject: the transactions of a reverted block; rolling the ledger back *)
(* is left to the caller.                                                  *)
Reinject(block) ==
  /\ block.txs # <<>>
  /\ \E k \in Overdue(pool) : pool' = AddAll(Expire(pool, k), block.txs, config)
  /\ UNCHANGED <<config, state, baseFee, blocks>>

(* produce_block: select, price, apply.  When apply_block raises, the      *)
(* expiry has happened and nothing else.                                   *)
ProduceBlock(miner) ==
  /\ Len(blocks) < MaxBlocks
  /\ \E k \in Overdue(pool) :
       LET kept == Expire(pool, k)
           selected == SelectForBlock(kept.order, Context)
           charges == Charges(selected, Context)
           applied == ApplyAll(selected, charges, state, miner)
       IN \/ /\ ~applied.ok
             /\ pool' = kept
             /\ UNCHANGED <<state, baseFee, blocks>>
          \/ /\ applied.ok
             /\ pool' = DiscardAll(kept, {selected[i] : i \in 1 .. Len(selected)})
             /\ state' = CreditCoinbase(applied.state, miner, config.reward)
             /\ blocks' = Append(blocks, [txs |-> selected, charges |-> charges,
                                          miner |-> miner])
             /\ baseFee' = NextBaseFee(Len(selected), Context)
  /\ UNCHANGED config

Next ==
  \/ \E tx \in Transaction : Submit(tx)
  \/ \E i \in 1 .. Len(blocks) : Reinject(blocks[i])
  \/ \E miner \in Miner : ProduceBlock(miner)

Spec == Init /\ [][Next]_vars
-----------------------------------------------------------------------------
AllTxs(bs) == FoldLeft(LAMBDA s, b : s \o b.txs, <<>>, bs)

(* Every variable has its type; the pool holds no transaction twice. *)
TypeOK ==
  /\ config \in Config
  /\ Entries(pool) \subseteq Transaction
  /\ Cardinality(Entries(pool)) = Len(pool.order)
  /\ pool.slots \in [Account \X Nonce -> Transaction \cup {NoTx}]
  /\ state.balances \in [Account -> Int]
  /\ state.nonces \in [Account -> Nat]
  /\ state.burned \in Nat
  /\ baseFee \in Nat
  /\ \A i \in 1 .. Len(blocks) :
       ToSet(blocks[i].txs) \subseteq Transaction /\ blocks[i].miner \in Miner

(* The slot index and the entries say the same, and the limits of the      *)
(* policy hold, through replacement, eviction, expiry, inclusion and       *)
(* reinjection (mempool/policy.py keeps the two dictionaries by hand).     *)
PoolConsistent ==
  /\ \A s \in DOMAIN pool.slots :
       pool.slots[s] = NoTx <=> \A tx \in Entries(pool) : Slot(tx) # s
  /\ \A tx \in Entries(pool) : pool.slots[Slot(tx)] = tx
  /\ Len(pool.order) <= config.maxSize
  /\ \A a \in Account : SenderCount(pool, a) <= config.maxPerSender

(* No value is created or lost but by the block reward and the burn,       *)
(* whichever accounts coincide (ledger/base.py apply_block).               *)
ValueConserved ==
  SumOver(state.balances, Account) + state.burned
    = SumOver(Genesis, Account) + config.reward * Len(blocks)

(* The chain holds the transactions of each sender in nonce order, without *)
(* a gap and without a repetition, although the pool orders by fee and     *)
(* takes back transactions that are already in a block.                    *)
NonceOrder ==
  \A a \in Account :
    LET sent == Only(AllTxs(blocks), {tx \in Transaction : tx.sender = a})
    IN /\ \A i \in 1 .. Len(sent) : sent[i].nonce = i - 1
       /\ state.nonces[a] = Len(sent)

(* A fee that was enough when the transaction was submitted is looked at   *)
(* again when the block is made: what settlement charges is what it burns  *)
(* and tips, and no part of it is negative (FeeCharge would raise).  Each  *)
(* sender pays for its data beside the base fee, unless the price is the   *)
(* median of all.                                                          *)
ChargesSound ==
  \A b \in ToSet(blocks) : \A i \in DOMAIN b.txs :
    LET c == b.charges[i]
    IN /\ c.burned >= 0 /\ c.tip >= 0 /\ c.charged = c.burned + c.tip
       /\ config.policy # "median" =>
            c.charged >= c.burned + PayloadCost(b.txs[i], config.pricing)

(* validate() compares the funds with the declared fee and amount, one     *)
(* transaction of a block after the other: under a policy that charges     *)
(* what was declared no account is overdrawn (ledger/balance.py, where     *)
(* allow_overdraft is off).                                                *)
NoOverdraftAtBid ==
  config.policy # "median" => \A a \in Account : state.balances[a] >= 0

(* tests/test_ledger_properties.py, test_no_negative_balance_after_transfer: *)
(* the same under every fee policy.                                        *)
NoNegativeBalance == \A a \in Account : state.balances[a] >= 0

(* Where entries do not expire, a pending transaction leaves the pool only *)
(* into a block or for one that pays more (mempool/policy.py add).         *)
LostForMore ==
  [][~config.ttl => \A tx \in Entries(pool) \ Entries(pool') :
       \/ \E i \in Len(blocks) + 1 .. Len(blocks') : tx \in ToSet(blocks'[i].txs)
       \/ \E t \in Entries(pool') \ Entries(pool) : t.fee > tx.fee]_vars
=============================================================================
