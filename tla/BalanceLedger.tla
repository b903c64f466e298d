--------------------------- MODULE BalanceLedger ---------------------------
(***************************************************************************)
(* ledger/balance.py with its default of enforced nonces and no overdraft, *)
(* and the block application it inherits from ledger/base.py.              *)
(***************************************************************************)
EXTENDS Integers, Sequences, SequencesExt

CONSTANT Account

(* Faulty variants: a nonce from the past passes, and the sender's funds   *)
(* are compared with the amount alone.                                     *)
ValidOldNonce(tx, state) ==
  /\ tx.nonce <= state.nonces[tx.sender]
  /\ state.balances[tx.sender] >= tx.amount + tx.fee
ValidAmountOnly(tx, state) ==
  /\ tx.nonce = state.nonces[tx.sender]
  /\ state.balances[tx.sender] >= tx.amount

(* validate: the declared fee is what the sender must be able to pay. *)
Valid(tx, state) ==
  /\ tx.nonce = state.nonces[tx.sender]
  /\ state.balances[tx.sender] >= tx.amount + tx.fee

(* Faulty variant: all balances are read before any is written, which      *)
(* forgets an update when one account plays two roles.                     *)
TransferStale(tx, state, charge, miner) ==
  LET old == state.balances
  IN [balances |-> [old EXCEPT ![tx.sender] = @ - tx.amount - charge.charged,
                               ![tx.recipient] = old[tx.recipient] + tx.amount,
                               ![miner] = @ + charge.tip],
      nonces   |-> [state.nonces EXCEPT ![tx.sender] = @ + 1],
      burned   |-> state.burned + charge.burned]

(* apply_tx: one account may play several of the roles. *)
Transfer(tx, state, charge, miner) ==
  LET debited  == [state.balances EXCEPT
                     ![tx.sender] = @ - tx.amount - charge.charged]
      credited == [debited EXCEPT ![tx.recipient] = @ + tx.amount]
  IN [balances |-> [credited EXCEPT ![miner] = @ + charge.tip],
      nonces   |-> [state.nonces EXCEPT ![tx.sender] = @ + 1],
      burned   |-> state.burned + charge.burned]

(* _credit_coinbase *)
CreditCoinbase(state, miner, reward) ==
  [state EXCEPT !.balances[miner] = @ + reward]

(* apply_block: the transactions in order, each with its charge, against   *)
(* the state the ones before it left; one that is invalid raises           *)
(* LedgerError.                                                            *)
ApplyAll(txs, charges, state, miner) ==
  LET Step(acc, i) ==
        IF acc.ok /\ Valid(txs[i], acc.state)
        THEN [ok |-> TRUE, state |-> Transfer(txs[i], acc.state, charges[i], miner)]
        ELSE [ok |-> FALSE, state |-> acc.state]
  IN FoldLeftDomain(Step, [ok |-> TRUE, state |-> state], txs)
=============================================================================
