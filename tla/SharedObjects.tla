--------------------------- MODULE SharedObjects ---------------------------
(***************************************************************************)
(* What a node carries besides its consensus engine (add_shared_object of  *)
(* node.py): the objects of core_objects.py, the example blockchain, the   *)
(* application protocols, an output ledger; and the peer table they all    *)
(* send through.  use is the one part that is at work, the others stay in  *)
(* their initial states.                                                   *)
(***************************************************************************)
EXTENDS CoreObjects, MerkleSync, PeerTable, ExampleChain, ChatRoom,
        GossipStores, UTXOLedger

VARIABLE use

objectVars == <<use, coreVars, syncVars, peerVars, exVars, chatVars, storeVars,
                utxoVars>>

Use == {"core", "merkle", "peers", "blockchain", "chat", "stores", "utxo"}

(* The idle parts' parameters are left at any one value. *)
ObjectInit ==
  /\ use \in Use
  /\ CoreInit /\ SyncInit /\ PeerInit /\ ExInit /\ ChatInit
  /\ StoreInit /\ UtxoInit
  /\ use # "core" => core.class = "CacheObject"
  /\ use # "merkle" => object = "DAGObject"
  /\ use # "chat" => policy = "invite"
  /\ use # "stores" => shared = "CRDTKeyValue"
  /\ use # "utxo" => utxoBurn = 0

ObjectNext ==
  \/ /\ use = "core" /\ CoreNext
     /\ UNCHANGED <<use, syncVars, peerVars, exVars, chatVars,
                    storeVars, utxoVars>>
  \/ /\ use = "merkle" /\ SyncNext
     /\ UNCHANGED <<use, coreVars, peerVars, exVars, chatVars,
                    storeVars, utxoVars>>
  \/ /\ use = "peers" /\ PeerNext
     /\ UNCHANGED <<use, coreVars, syncVars, exVars, chatVars,
                    storeVars, utxoVars>>
  \/ /\ use = "blockchain" /\ ExNext
     /\ UNCHANGED <<use, coreVars, syncVars, peerVars, chatVars,
                    storeVars, utxoVars>>
  \/ /\ use = "chat" /\ ChatNext
     /\ UNCHANGED <<use, coreVars, syncVars, peerVars, exVars,
                    storeVars, utxoVars>>
  \/ /\ use = "stores" /\ StoreNext
     /\ UNCHANGED <<use, coreVars, syncVars, peerVars, exVars,
                    chatVars, utxoVars>>
  \/ /\ use = "utxo" /\ UtxoNext
     /\ UNCHANGED <<use, coreVars, syncVars, peerVars, exVars,
                    chatVars, storeVars>>

ObjectSpec == ObjectInit /\ [][ObjectNext]_objectVars

(* The type invariants of the parts. *)
ObjectTypeOK ==
  /\ use \in Use
  /\ CoreTypeOK /\ SyncTypeOK /\ PeerTypeOK /\ ExTypeOK /\ ChatTypeOK
  /\ StoreTypeOK /\ UtxoTypeOK
=============================================================================
