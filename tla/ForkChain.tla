------------------------------ MODULE ForkChain ------------------------------
(***************************************************************************)
(* consensus/pow/chain.py: a graph of blocks and the heaviest chain in it. *)
(* A block is its position in a table B of all blocks; parent and rank,    *)
(* the place of its id in the order of ids, are what fork choice reads.    *)
(* Every caller adds blocks of work 1, so work is height.                  *)
(***************************************************************************)
EXTENDS Collections

Root == 0

EmptyChain == [nodes |-> {Root}, tips |-> {Root}, canonical |-> <<Root>>,
               extended |-> <<>>, reverted |-> <<>>]

ForkAwareChain(maxBlocks) ==
  [nodes : SUBSET (0 .. maxBlocks), tips : SUBSET (0 .. maxBlocks),
   canonical : Seq(0 .. maxBlocks),
   extended : Seq(0 .. maxBlocks), reverted : Seq(0 .. maxBlocks)]

ChainTo(B, tip) ==
  LET to[b \in 0 .. Len(B)] ==
        IF b = Root THEN <<Root>> ELSE Append(to[B[b].parent], b)
  IN to[tip]

HeightIn(B, b) == Len(ChainTo(B, b)) - 1

ChainTip(c) == c.canonical[Len(c.canonical)]
ChainHeight(c) == Len(c.canonical) - 1

(* _better: more work, or on a tie the lower id. *)
Better(B, b, c) ==
  \/ HeightIn(B, b) > HeightIn(B, c)
  \/ HeightIn(B, b) = HeightIn(B, c) /\ c # Root /\ B[b].rank < B[c].rank

(* Faulty variant: on a tie the tip a node saw first stays. *)
FirstSeenTip(B, c, tips) ==
  IF \E b \in tips : HeightIn(B, b) > ChainHeight(c)
  THEN CHOOSE b \in tips : \A d \in tips \ {b} : HeightIn(B, b) >= HeightIn(B, d)
  ELSE ChainTip(c)

BestTip(B, c, tips) == CHOOSE b \in tips : \A d \in tips \ {b} : Better(B, b, d)

(* Faulty variant: the winning block is put after the losing ones. *)
AddBlockAtEnd(B, c, b) ==
  LET tips == (c.tips \cup {b}) \ {B[b].parent}
      best == BestTip(B, c, tips)
      grown == [c EXCEPT !.nodes = @ \cup {b}, !.tips = tips]
  IN IF best = ChainTip(c) THEN [grown EXCEPT !.extended = <<>>, !.reverted = <<>>]
     ELSE [grown EXCEPT !.canonical = Append(@, best), !.extended = <<best>>,
                        !.reverted = <<>>]

(* Faulty variant: of a new chain only its last block is reported. *)
AddBlockReportLast(B, c, b) ==
  LET tips == (c.tips \cup {b}) \ {B[b].parent}
      best == BestTip(B, c, tips)
      new == ChainTo(B, best)
      grown == [c EXCEPT !.nodes = @ \cup {b}, !.tips = tips]
  IN IF best = ChainTip(c) THEN grown
     ELSE [grown EXCEPT
             !.canonical = new, !.extended = <<best>>,
             !.reverted = Only(c.canonical, ToSet(c.canonical) \ ToSet(new))]

(* add_block, of a new block whose parent is known; extended and reverted  *)
(* are the ForkChoiceResult, which the engines keep as last_result.        *)
AddBlock(B, c, b) ==
  LET tips == (c.tips \cup {b}) \ {B[b].parent}
      best == BestTip(B, c, tips)
      new == ChainTo(B, best)
      grown == [c EXCEPT !.nodes = @ \cup {b}, !.tips = tips]
  IN IF best = ChainTip(c) THEN [grown EXCEPT !.extended = <<>>, !.reverted = <<>>]
     ELSE [grown EXCEPT
             !.canonical = new,
             !.extended = Only(new, ToSet(new) \ ToSet(c.canonical)),
             !.reverted = Only(c.canonical, ToSet(c.canonical) \ ToSet(new))]

-----------------------------------------------------------------------------
(* The canonical chain ends in the best of all the blocks a node knows, so *)
(* that nodes which know the same blocks have the same chain.              *)
IsBestChain(B, c) ==
  /\ \A b \in c.nodes \ {ChainTip(c)} : Better(B, ChainTip(c), b)
  /\ c.canonical = ChainTo(B, ChainTip(c))

(* What a mempool relies on: without the reverted blocks and with the      *)
(* extended ones the old chain d is the new chain c, in order.             *)
IsRewrite(d, c) ==
  /\ Only(d.canonical, ToSet(d.canonical) \ ToSet(c.reverted)) \o c.extended
       = c.canonical
  /\ ToSet(c.reverted) \subseteq ToSet(d.canonical)
=============================================================================
