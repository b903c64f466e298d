------------------------- MODULE MCBlockProduction -------------------------
(***************************************************************************)
(* Instances of BlockProduction for TLC: three accounts, of which the      *)
(* miner also sends, transactions that compete for a slot, for room and    *)
(* for the sender's funds, one to oneself, and one that pays for data.     *)
(***************************************************************************)
EXTENDS BlockProduction

CONSTANTS alice, bob, carol

(* The data of a transaction grows when it is compressed. *)
Tx(s, r, a, f, n, d) ==
  [sender |-> s, recipient |-> r, amount |-> a, fee |-> f, nonce |-> n,
   data |-> d, packed |-> d + 8, total |-> d + 7]

MCTransaction ==
  { Tx(alice, bob,   2,  8, 0, 0),     \* replaced by the next one
    Tx(alice, carol, 2, 11, 0, 0),     \* alice can pay one of the two
    Tx(alice, alice, 0, 10, 1, 0),     \* to oneself, ahead of its nonce
    Tx(bob,   alice, 1, 10, 0, 2),     \* carries data
    Tx(carol, bob,   1, 10, 0, 0) }    \* sent by the miner

MCAccount == {alice, bob, carol}
MCNonce == 0 .. 1
Balances(a, b, c) ==
  [x \in MCAccount |-> CASE x = alice -> a [] x = bob -> b [] x = carol -> c]
MCGenesis == Balances(21, 10, 11)

Pricing(name, rate) == [name |-> name, rate |-> rate]

Assembly(policy, size, perSender, bump, rbf, ttl, fee, minFee, pricing, limit) ==
  [policy |-> policy, maxTransactions |-> 2, target |-> 1, reward |-> 4,
   initialBaseFee |-> fee, minBaseFee |-> IF fee = 0 THEN 0 ELSE fee - 1,
   minFee |-> minFee, rbf |-> rbf, bump |-> bump, maxSize |-> size,
   maxPerSender |-> perSender, ttl |-> ttl, pricing |-> pricing, maxPayload |-> limit]

MCConfig ==
  { Assembly("highest_first", 2, 2, 1, TRUE,  FALSE, 0, 9, Pricing("flat", 9), 9),
    Assembly("highest_first", 4, 1, 4, TRUE,  TRUE,  0, 0, Pricing("absolute", 8), 1),
    Assembly("median",        3, 3, 1, FALSE, FALSE, 0, 0, Pricing("none", 0), 9),
    Assembly("median",        3, 3, 1, TRUE,  FALSE, 0, 0,
             Pricing("per_compressed_byte", 1), 9),
    Assembly("eip1559",       3, 2, 1, TRUE,  FALSE, 8, 0, Pricing("per_byte", 1), 9),
    Assembly("eip1559",       2, 3, 1, TRUE,  TRUE,  1, 0, Pricing("total_bytes", 1), 9) }

(* The default policy limits, and a policy that clears at one price. *)
ClearingConfig == { Assembly("median", 5, 5, 1, TRUE, FALSE, 0, 0, Pricing("none", 0), 9) }
ThinGenesis == Balances(10, 10, 11)
=============================================================================
