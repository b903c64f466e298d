----------------------------- MODULE FeePolicy -----------------------------
(***************************************************************************)
(* fees/: which pending transactions enter a block, what each is charged,  *)
(* and the base fee of the next block.  A context is the configuration     *)
(* with the current base fee.                                              *)
(***************************************************************************)
EXTENDS Collections, PayloadPricing

Denominator == 8        \* base_fee_max_change_denominator

MinimumFee(tx, ctx) ==
  PayloadCost(tx, ctx.pricing) + IF ctx.policy = "eip1559" THEN ctx.baseFee ELSE 0

PayloadWithinLimit(tx, ctx) == tx.data <= ctx.maxPayload

IsValidFee(tx, ctx) == PayloadWithinLimit(tx, ctx) /\ tx.fee >= MinimumFee(tx, ctx)

(* Python's stable sort by descending fee. *)
Ranked(s) ==
  LET Ahead(i, j) == s[i].fee > s[j].fee \/ (s[i].fee = s[j].fee /\ i < j)
      Rank(i) == Cardinality({j \in 1 .. Len(s) : Ahead(j, i)}) + 1
  IN [r \in 1 .. Len(s) |-> s[CHOOSE i \in 1 .. Len(s) : Rank(i) = r]]

AtMost(s, n) == SubSeq(s, 1, IF Len(s) < n THEN Len(s) ELSE n)

(* Faulty variant: what submit() admitted is not looked at again. *)
SelectAdmitted(candidates, ctx) ==
  AtMost(Ranked(candidates), ctx.maxTransactions)

SelectForBlock(candidates, ctx) ==
  LET fit == {tx \in ToSet(candidates) : IsValidFee(tx, ctx)}
  IN AtMost(Ranked(Only(candidates, fit)), ctx.maxTransactions)

(* _median, of a selection in descending order. *)
Median(s) ==
  LET n == Len(s)
      mid == n \div 2
  IN IF n = 0 THEN 0
     ELSE IF n % 2 = 1 THEN s[n - mid].fee
     ELSE (s[n - mid + 1].fee + s[n - mid].fee) \div 2

(* effective_charge of each transaction of the selection s. *)
Charges(s, ctx) ==
  [i \in 1 .. Len(s) |->
     CASE ctx.policy = "highest_first" ->
            [charged |-> s[i].fee, burned |-> 0, tip |-> s[i].fee]
       [] ctx.policy = "median" ->
            [charged |-> Median(s), burned |-> 0, tip |-> Median(s)]
       [] ctx.policy = "eip1559" ->
            [charged |-> s[i].fee, burned |-> ctx.baseFee,
             tip |-> s[i].fee - ctx.baseFee]]

(* Faulty variant: falls by one at least, as it rises, and has no floor. *)
NextBaseFeeNoFloor(count, ctx) ==
  IF ctx.policy # "eip1559" THEN ctx.baseFee
  ELSE ctx.baseFee + (IF count > ctx.target THEN 1 ELSE IF count = ctx.target THEN 0 ELSE -1)

(* next_base_fee after a block of count transactions. *)
NextBaseFee(count, ctx) ==
  LET base == ctx.baseFee
      up == ((base * (count - ctx.target)) \div ctx.target) \div Denominator
      down == ((base * (ctx.target - count)) \div ctx.target) \div Denominator
      new == IF count > ctx.target THEN base + (IF up > 1 THEN up ELSE 1)
             ELSE base - down
  IN IF ctx.policy # "eip1559" THEN base
     ELSE IF new < ctx.minBaseFee THEN ctx.minBaseFee ELSE new
=============================================================================
