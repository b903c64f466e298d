----------------------------- MODULE BeaconChain -----------------------------
(***************************************************************************)
(* The randomness beacon: beacon/core.py behind the engine                 *)
(* consensus/pow/beacon.py at every node.  A block message carries what    *)
(* its id was computed from; messages with the same id are one block, of   *)
(* which a node keeps the first copy it gets.                              *)
(***************************************************************************)
EXTENDS ForkChain

CONSTANTS BeaconNode,
          BeaconRank,       \* BeaconRank[i]: rank of the id of the i-th message
          BeaconDepth,      \* confirmations
          Skew,             \* max_timestamp_skew
          MaxBeacon,        \* bound: blocks that are made
          MaxTime           \* bound: the clock

VARIABLES source,           \* the BlockSource all nodes are configured with
          clock,
          beaconBlocks,     \* the block messages made so far
          beacon            \* beacon[n]: the engine of node n

beaconVars == <<source, clock, beaconBlocks, beacon>>

Source == {"hash_chain", "sequential", "pow", "legacy_pow"}
Derivation == {"direct", "rehash", "timestamp_mix", "xor_chain", "modulo", "height_salt"}

ASSUME BeaconAssumption ==
  /\ MaxBeacon \in Nat /\ MaxTime \in Nat
  /\ BeaconRank \in [1 .. MaxBeacon -> Nat]
  /\ \A i, j \in 1 .. MaxBeacon : BeaconRank[i] = BeaconRank[j] => i = j
  /\ BeaconDepth \in Nat \ {0} /\ Skew \in Nat

(* id: the first message with the same id.  salt: the counter of           *)
(* "sequential", the coinbase of "legacy_pow".                             *)
BeaconMessage == [parent : 0 .. MaxBeacon, height : Nat, ts : 0 .. MaxTime,
                  salt : Nat \cup BeaconNode, rank : Nat, id : 1 .. MaxBeacon]

BeaconTypeOK ==
  /\ source \in Source /\ clock \in 0 .. MaxTime
  /\ beaconBlocks \in Seq(BeaconMessage)
  /\ beacon \in [BeaconNode ->
                   [chain : ForkAwareChain(MaxBeacon),
                    ts : [1 .. MaxBeacon -> 0 .. MaxTime],    \* of the copy kept
                    made : Nat, parent : {<<>>} \cup Seq(0 .. MaxBeacon)]]

BeaconInit ==
  /\ source \in Source /\ clock = 0 /\ beaconBlocks = <<>>
  /\ beacon = [n \in BeaconNode |->
                 [chain |-> EmptyChain, ts |-> [b \in 1 .. MaxBeacon |-> 0],
                  made |-> 0, parent |-> <<>>]]

-----------------------------------------------------------------------------
(* What tells the blocks of a source apart, beside parent and time.        *)
Salt(n) == CASE source = "sequential" -> beacon[n].made + 1
             [] source = "legacy_pow" -> n
             [] OTHER -> 0

(* The id is a hash of this, which verify recomputes from the message: of  *)
(* a produced block it finds the id again.  A proof of work starts its     *)
(* search at the same nonce, so the header determines it.                  *)
HashChainId(b) == <<b.parent, b.height, b.ts>>
SequentialId(b) == <<b.parent, b.height, b.salt>>
PowId(b) == <<b.parent, b.height, b.ts>>
LegacyId(b) == <<b.parent, b.salt>>

BlockId(b) == CASE source = "hash_chain" -> HashChainId(b)
                [] source = "sequential" -> SequentialId(b)
                [] source = "pow" -> PowId(b)
                [] source = "legacy_pow" -> LegacyId(b)

TimeBound == source \in {"hash_chain", "pow"}     \* the id fixes the timestamp

(* verify, and the checks of _ingest and is_valid_dict before it. *)
ValidBlock(B, c, block) ==
  /\ block.parent \in c.nodes
  /\ block.height = HeightIn(B, block.parent) + 1
  /\ block.ts >= clock - Skew /\ block.ts <= clock + Skew

(* Faulty variant: a block that is known is stored again. *)
RestoreBlock(B, e, i) ==
  LET b == B[i].id
  IN IF b \in e.chain.nodes THEN [e EXCEPT !.ts[b] = B[i].ts]
     ELSE [e EXCEPT !.chain = AddBlock(B, @, b), !.ts[b] = B[i].ts]

IngestBlock(B, e, i) ==
  LET b == B[i].id
  IN IF b \in e.chain.nodes THEN e
     ELSE [e EXCEPT !.chain = AddBlock(B, @, b), !.ts[b] = B[i].ts]

(* append reads the tip, then the height of the chain. *)
BeaconReadTip(n) ==
  /\ beacon[n].parent = <<>> /\ Len(beaconBlocks) < MaxBeacon
  /\ beacon' = [beacon EXCEPT ![n].parent = <<ChainTip(beacon[n].chain)>>]
  /\ UNCHANGED <<source, clock, beaconBlocks>>

(* The block append makes next, and its id: that of an earlier message of  *)
(* the same block, if there is one.                                        *)
NextBlock(n) ==
  [parent |-> beacon[n].parent[1], height |-> ChainHeight(beacon[n].chain) + 1,
   ts |-> clock, salt |-> Salt(n), rank |-> BeaconRank[Len(beaconBlocks) + 1],
   id |-> Len(beaconBlocks) + 1]

SameBlock(b) == {j \in DOMAIN beaconBlocks : BlockId(beaconBlocks[j]) = BlockId(b)}

NextId(n) ==
  LET same == SameBlock(NextBlock(n))
  IN IF same = {} THEN Len(beaconBlocks) + 1
     ELSE beaconBlocks[CHOOSE j \in same : TRUE].id

(* propose: a block the engine refuses itself, made of a tip and a height  *)
(* of different moments, ends in an exception; the counter has moved.      *)
BeaconPropose(n) ==
  /\ beacon[n].parent # <<>> /\ Len(beaconBlocks) < MaxBeacon
  /\ LET i == Len(beaconBlocks) + 1
         B == Append(beaconBlocks, [NextBlock(n) EXCEPT !.id = NextId(n)])
         e == [beacon[n] EXCEPT !.parent = <<>>, !.made = @ + 1]
     IN IF ValidBlock(B, e.chain, B[i])
        THEN /\ beaconBlocks' = B
             /\ beacon' = [beacon EXCEPT ![n] = IngestBlock(B, e, i)]
        ELSE beacon' = [beacon EXCEPT ![n] = e] /\ UNCHANGED beaconBlocks
  /\ UNCHANGED <<source, clock>>

(* A message is_valid refuses is not kept: it may come again, when it may  *)
(* be too old.                                                             *)
BeaconObserve(n, i) ==
  /\ ValidBlock(beaconBlocks, beacon[n].chain, beaconBlocks[i])
  /\ beacon' = [beacon EXCEPT ![n] = IngestBlock(beaconBlocks, @, i)]
  /\ UNCHANGED <<source, clock, beaconBlocks>>

ClockTick == /\ clock < MaxTime
             /\ clock' = clock + 1
             /\ UNCHANGED <<source, beaconBlocks, beacon>>

BeaconNext == \/ \E n \in BeaconNode :
                   \/ BeaconReadTip(n) \/ BeaconPropose(n)
                   \/ \E i \in DOMAIN beaconBlocks : BeaconObserve(n, i)
              \/ ClockTick

BeaconSpec == BeaconInit /\ [][BeaconNext]_beaconVars

-----------------------------------------------------------------------------
(* derive: what decides the number drawn from block b, as each derivation  *)
(* reads it.                                                               *)
Direct(b) == <<b>>
Rehash(b) == <<"sha256", b>>
TimestampMix(e, b) == <<b, e.ts[b]>>

(* The canonical block before b, or the genesis block. *)
PredecessorIn(c, b) ==
  LET at == {i \in DOMAIN c.canonical : c.canonical[i] = b}
  IN IF at = {} \/ 1 \in at THEN Root ELSE c.canonical[(CHOOSE i \in at : TRUE) - 1]
XorChain(e, b) == <<b, PredecessorIn(e.chain, b)>>

Modulo(b) == <<"mod", b>>
HeightSalt(b) == <<b, HeightIn(beaconBlocks, b)>>

Draw(e, d, b) ==
  CASE d = "direct" -> Direct(b)
    [] d = "rehash" -> Rehash(b)
    [] d = "timestamp_mix" -> TimestampMix(e, b)
    [] d = "xor_chain" -> XorChain(e, b)
    [] d = "modulo" -> Modulo(b)
    [] d = "height_salt" -> HeightSalt(b)

FinalizedBlock(e) ==
  LET h == ChainHeight(e.chain) - BeaconDepth
  IN IF h < 1 THEN Root ELSE e.chain.canonical[h + 1]

(* random_float without a block: of the finalized block or else the tip. *)
Random(e, d) == LET f == FinalizedBlock(e)
                    b == IF f # Root THEN f ELSE ChainTip(e.chain)
                IN IF b = Root THEN <<>> ELSE Draw(e, d, b)

(* Nodes that know the same blocks draw the same number, and a block on    *)
(* two nodes' canonical chains gives both the same number, whatever else   *)
(* they know; but when the id does not fix the timestamp, mixing it in     *)
(* makes them differ.                                                      *)
BeaconDrawAgreed ==
  \A n, m \in BeaconNode, d \in Derivation :
    LET e == beacon[n]
        f == beacon[m]
        shared == {b \in (e.chain.nodes \cap f.chain.nodes) \ {Root} :
                     \A g \in {e, f} : \E i \in DOMAIN g.chain.canonical :
                                         g.chain.canonical[i] = b}
    IN d # "timestamp_mix" \/ TimeBound =>
         /\ e.chain.nodes = f.chain.nodes => Random(e, d) = Random(f, d)
         /\ \A b \in shared : Draw(e, d, b) = Draw(f, d, b)

(* A number once drawn from a block does not change while the block is     *)
(* canonical, not even when a message repeats it with another timestamp.   *)
BeaconDrawStable ==
  [][\A n \in BeaconNode, d \in Derivation :
       LET e == beacon[n]
           f == beacon'[n]
           stay == {e.chain.canonical[i] : i \in 2 .. Len(e.chain.canonical)}
                     \cap {f.chain.canonical[i] : i \in 2 .. Len(f.chain.canonical)}
       IN \A b \in stay : Draw(e, d, b) = Draw(f, d, b)]_beaconVars
=============================================================================
