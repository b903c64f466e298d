--------------------------- MODULE PayloadPricing ---------------------------
(***************************************************************************)
(* fees/payload.py: the least fee a transaction owes for its data.  Sizes  *)
(* are in one unit: tx.data of the raw data, tx.packed of the compressed   *)
(* data, which for little data is larger, tx.total of the encoding of the  *)
(* whole transaction.  A pricing has a name and a rate; the fixed fees of  *)
(* "flat" and "absolute" are rates too.                                    *)
(***************************************************************************)
EXTENDS Integers

NoPricing(tx, rate) == 0
PerByte(tx, rate) == rate * tx.data
PerCompressedByte(tx, rate) == IF tx.data = 0 THEN 0 ELSE rate * tx.packed
FlatPricing(tx, rate) == IF tx.data = 0 THEN 0 ELSE rate
AbsolutePricing(tx, rate) == rate
TotalBytes(tx, rate) == rate * tx.total

PayloadPricings == {"none", "per_byte", "per_compressed_byte", "flat", "absolute",
                    "total_bytes"}

PayloadCost(tx, pricing) ==
  CASE pricing.name = "none" -> NoPricing(tx, pricing.rate)
    [] pricing.name = "per_byte" -> PerByte(tx, pricing.rate)
    [] pricing.name = "per_compressed_byte" -> PerCompressedByte(tx, pricing.rate)
    [] pricing.name = "flat" -> FlatPricing(tx, pricing.rate)
    [] pricing.name = "absolute" -> AbsolutePricing(tx, pricing.rate)
    [] pricing.name = "total_bytes" -> TotalBytes(tx, pricing.rate)
=============================================================================
