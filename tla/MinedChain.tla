----------------------------- MODULE MinedChain -----------------------------
(***************************************************************************)
(* The engines consensus/pow/proof_of_work.py and vdf_chain.py at every    *)
(* node: they differ in the proof only.  propose runs on the application's *)
(* thread and takes long; the listener adds blocks meanwhile.  The node    *)
(* below refuses a block is_valid refuses, and may deliver it again.       *)
(***************************************************************************)
EXTENDS ForkChain

CONSTANTS Miner,
          BlockRank,        \* BlockRank[i]: rank of the id of the i-th block
          Confirmations,
          MaxMined          \* bound: blocks that are mined

VARIABLES mined,            \* the blocks broadcast so far
          pow               \* pow[n]: the engine of node n

powVars == <<mined, pow>>

ASSUME PowAssumption ==
  /\ MaxMined \in Nat
  /\ BlockRank \in [1 .. MaxMined -> Nat] /\ Confirmations \in Nat \ {0}
  /\ \A i, j \in 1 .. MaxMined : BlockRank[i] = BlockRank[j] => i = j

(* header: what mine has read of the header so far. *)
PowTypeOK ==
  /\ mined \in Seq([parent : 0 .. MaxMined, height : Nat, rank : Nat])
  /\ pow \in [Miner -> [chain : ForkAwareChain(MaxMined),
                        header : {<<>>} \cup Seq(Nat)]]

PowInit == /\ mined = <<>>
           /\ pow = [n \in Miner |-> [chain |-> EmptyChain, header |-> <<>>]]

-----------------------------------------------------------------------------
(* mine reads the tip, then the height, with no lock against the listener. *)
MineReadTip(n) ==
  /\ pow[n].header = <<>> /\ Len(mined) < MaxMined
  /\ pow' = [pow EXCEPT ![n].header = <<ChainTip(pow[n].chain)>>]
  /\ UNCHANGED mined

MineReadHeight(n) ==
  /\ Len(pow[n].header) = 1
  /\ pow' = [pow EXCEPT ![n].header = Append(@, ChainHeight(pow[n].chain) + 1)]
  /\ UNCHANGED mined

PowVerify(B, c, block) ==
  block.parent \in c.nodes /\ block.height = HeightIn(B, block.parent) + 1

(* The node refuses to create a message its own is_valid refuses: propose  *)
(* ends in an exception and the block is gone.                             *)
PowPropose(n) ==
  /\ Len(pow[n].header) = 2 /\ Len(mined) < MaxMined
  /\ LET B == Append(mined, [parent |-> pow[n].header[1], height |-> pow[n].header[2],
                             rank |-> BlockRank[Len(mined) + 1]])
         idle == [pow[n] EXCEPT !.header = <<>>]
     IN IF PowVerify(mined, idle.chain, B[Len(B)])
        THEN /\ mined' = B
             /\ pow' = [pow EXCEPT ![n] =
                          [idle EXCEPT !.chain = AddBlock(B, @, Len(B))]]
        ELSE pow' = [pow EXCEPT ![n] = idle] /\ UNCHANGED mined

(* observe, and _ingest. *)
PowObserve(n, b) ==
  /\ b \notin pow[n].chain.nodes
  /\ PowVerify(mined, pow[n].chain, mined[b])
  /\ pow' = [pow EXCEPT ![n].chain = AddBlock(mined, @, b)]
  /\ UNCHANGED mined

PowNext ==
  \E n \in Miner : \/ MineReadTip(n) \/ MineReadHeight(n) \/ PowPropose(n)
                   \/ \E b \in DOMAIN mined : PowObserve(n, b)

PowSpec == PowInit /\ [][PowNext]_powVars

(* decision: the block that Confirmations blocks are on top of. *)
PowDecision(c) ==
  LET height == ChainHeight(c) - Confirmations
  IN IF height < 1 THEN Root ELSE c.canonical[height + 1]

-----------------------------------------------------------------------------
(* Whatever the order of arrival, each node's chain ends in the best block *)
(* it knows: nodes with the same blocks have the same tip and decision.    *)
(* And proof_of_work.py:135, "canonical_ids()[h] is the block at height    *)
(* h", by the height its miner wrote, although mining reads the tip and    *)
(* the height at different times.                                          *)
PowBestChain ==
  /\ \A n \in Miner : IsBestChain(mined, pow[n].chain)
  /\ \A n, m \in Miner : pow[n].chain.nodes = pow[m].chain.nodes =>
       PowDecision(pow[n].chain) = PowDecision(pow[m].chain)
  /\ \A n \in Miner : LET c == pow[n].chain.canonical
                      IN \A i \in 2 .. Len(c) : mined[c[i]].height = i - 1

(* last_result tells exactly how the canonical chain has changed.          *)
PowResultExact ==
  [][\A n \in Miner : pow[n].chain.nodes # pow'[n].chain.nodes =>
                        IsRewrite(pow[n].chain, pow'[n].chain)]_powVars
=============================================================================
