-------------------------- MODULE TransactionPool --------------------------
(***************************************************************************)
(* mempool/policy.py: admission and retention of pending transactions.  A  *)
(* transaction is its own id (the id hashes every field).  A pool holds    *)
(* its entries in the order they came, and the transaction that occupies   *)
(* each (sender, nonce) slot.                                              *)
(***************************************************************************)
EXTENDS Collections

CONSTANT NoTx           \* an empty slot

(* MempoolPolicy refuses to be made with other limits. *)
ValidPolicy(policy) ==
  /\ {policy.maxSize, policy.maxPerSender} \subseteq Nat \ {0}
  /\ policy.minFee \in Nat /\ policy.rbf \in BOOLEAN
  /\ policy.rbf => policy.bump \in Nat \ {0}

Slot(tx) == <<tx.sender, tx.nonce>>
Entries(p) == ToSet(p.order)
Rival(p, tx) == p.slots[Slot(tx)]
SenderCount(p, s) == Cardinality({tx \in Entries(p) : tx.sender = s})

(* _discard: nothing happens to a transaction that is not there. *)
Discard(p, tx) ==
  IF tx \notin Entries(p) THEN p
  ELSE [order |-> Only(p.order, Entries(p) \ {tx}),
        slots |-> [p.slots EXCEPT ![Slot(tx)] = NoTx]]

(* Faulty variant: the slot of a removed transaction stays taken. *)
DiscardAllKeepsSlots(p, T) ==
  [p EXCEPT !.order = Only(p.order, Entries(p) \ T)]

DiscardAll(p, T) ==
  [order |-> Only(p.order, Entries(p) \ T),
   slots |-> [s \in DOMAIN p.slots |->
                IF \E t \in T \cap Entries(p) : Slot(t) = s
                THEN NoTx ELSE p.slots[s]]]

(* evict_expired: arrival times grow, so the k oldest entries are past the *)
(* time-to-live.                                                           *)
Expire(p, k) == DiscardAll(p, {p.order[i] : i \in 1 .. k})

Insert(p, tx) == [order |-> Append(p.order, tx),
                  slots |-> [p.slots EXCEPT ![Slot(tx)] = tx]]

(* _lowest_fee_entry: of the cheapest, the oldest. *)
Lowest(p) ==
  LET first == CHOOSE i \in 1 .. Len(p.order) :
                 \A j \in 1 .. Len(p.order) :
                   \/ p.order[i].fee < p.order[j].fee
                   \/ p.order[i].fee = p.order[j].fee /\ i <= j
  IN p.order[first]

(* Faulty variant: replaces without looking at the fee. *)
RefusedAnyFee(p, tx, policy) ==
  \/ tx \in Entries(p)
  \/ tx.fee < policy.minFee
  \/ Rival(p, tx) # NoTx /\ ~policy.rbf
  \/ /\ Rival(p, tx) = NoTx
     /\ SenderCount(p, tx.sender) >= policy.maxPerSender

(* The refusals of add() that come before it changes anything. *)
Refused(p, tx, policy) ==
  \/ tx \in Entries(p)
  \/ tx.fee < policy.minFee
  \/ /\ Rival(p, tx) # NoTx
     /\ ~policy.rbf \/ tx.fee < Rival(p, tx).fee + policy.bump
  \/ /\ Rival(p, tx) = NoTx
     /\ SenderCount(p, tx.sender) >= policy.maxPerSender

(* add: a same-slot rival is discarded first; a full pool then refuses the *)
(* newcomer or makes room by evicting its cheapest entry.                  *)
Add(p, tx, policy) ==
  LET q == IF Rival(p, tx) = NoTx THEN p ELSE Discard(p, Rival(p, tx))
  IN IF Refused(p, tx, policy) THEN p
     ELSE IF Len(q.order) < policy.maxSize THEN Insert(q, tx)
     ELSE IF Lowest(q).fee >= tx.fee THEN q
     ELSE Insert(Discard(q, Lowest(q)), tx)

(* reinject: one by one, at one time of the clock. *)
AddAll(p, txs, policy) ==
  LET AddNext(q, tx) == Add(q, tx, policy)
  IN FoldLeft(AddNext, p, txs)
=============================================================================
