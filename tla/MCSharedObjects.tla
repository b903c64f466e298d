-------------------------- MODULE MCSharedObjects --------------------------
(* Small instances of the parts of SharedObjects: two or three nodes, the  *)
(* hashes of the example's blocks in an order of their own.                *)
EXTENDS SharedObjects, TLC

CONSTANTS n1, n2, n3, k1, k2, k3, none

MCPayment == {[sender |-> n1, recipient |-> n2, amount |-> 1, fee |-> 1],
              [sender |-> n2, recipient |-> n1, amount |-> 2, fee |-> 0]}
MCHashOrder == (0 :> 0) @@ (1 :> 3) @@ (2 :> 2) @@ (3 :> 1)
MCWriterRank == (n1 :> 1) @@ (n2 :> 2)
MCUtxoGenesis == (n1 :> 3) @@ (n2 :> 1)
=============================================================================
