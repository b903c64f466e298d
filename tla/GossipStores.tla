---------------------------- MODULE GossipStores ----------------------------
(***************************************************************************)
(* Two objects without digests that every node fills from gossip alone:    *)
(* the last-write-wins CRDTKeyValue of protocols/crdt/kv.py and the        *)
(* TopicPubSub of protocols/pubsub/topic.py.  Messages come in any order,  *)
(* more than once or never; one that is older than the skew is refused.    *)
(***************************************************************************)
EXTENDS Integers, Sequences, FiniteSets

CONSTANTS
  StoreNode,            \* writers, one at each node
  Key, Topic,
  WriterRank,           \* how the writers' names sort
  KvSkew,               \* max_skew_seconds
  MaxClock, MaxWrites,  \* bounds: the clock, messages written
  Unwritten             \* the register before any write

VARIABLES
  shared,               \* the class of the object
  kvClock,              \* time.time()
  kvWrites,             \* writes so far: their number is their value
  kv,                   \* kv[n][k]: the register of key k at node n
  kvApplied,            \* kvApplied[n]: the writes n has applied
  notices,              \* TopicPubSub's messages so far
  noticed,              \* noticed[n]: those that came to n from the network
  subscribers,          \* subscribers[n][t]
  topicPosts            \* topicPosts[n][t]: the payloads published

storeVars == <<shared, kvClock, kvWrites, kv, kvApplied, notices, noticed,
               subscribers, topicPosts>>

Write == [key : Key, ts : 1 .. MaxClock, writer : StoreNode, value : 1 .. MaxWrites]
Notice == [action : {"SUBSCRIBE", "UNSUBSCRIBE", "PUBLISH"}, topic : Topic,
           sender : StoreNode, ts : 1 .. MaxClock]

ASSUME StoreAssumption ==
  /\ WriterRank \in [StoreNode -> Nat]
  /\ \A n, m \in StoreNode : WriterRank[n] = WriterRank[m] => n = m
  /\ MaxClock \in Nat \ {0} /\ MaxWrites \in Nat
  /\ Unwritten \notin Write

StoreTypeOK ==
  /\ shared \in {"CRDTKeyValue", "TopicPubSub"} /\ kvClock \in 1 .. MaxClock
  /\ kvWrites \subseteq Write
  /\ kv \in [StoreNode -> [Key -> Write \cup {Unwritten}]]
  /\ kvApplied \in [StoreNode -> SUBSET Write]
  /\ notices \subseteq Notice
  /\ noticed \in [StoreNode -> SUBSET notices]
  /\ subscribers \in [StoreNode -> [Topic -> SUBSET StoreNode]]
  /\ topicPosts \in [StoreNode -> [Topic -> Seq(StoreNode)]]

StoreInit ==
  /\ shared \in {"CRDTKeyValue", "TopicPubSub"}
  /\ kvClock = 1 /\ kvWrites = {} /\ notices = {}
  /\ kv = [n \in StoreNode |-> [k \in Key |-> Unwritten]]
  /\ kvApplied = [n \in StoreNode |-> {}]
  /\ noticed = [n \in StoreNode |-> {}]
  /\ subscribers = [n \in StoreNode |-> [t \in Topic |-> {}]]
  /\ topicPosts = [n \in StoreNode |-> [t \in Topic |-> <<>>]]

Fresh(ts) == kvClock - ts <= KvSkew
-----------------------------------------------------------------------------
(* Faulty variant: of two writes of the same time the first to arrive wins. *)
MergeLater(reg, w) == IF reg = Unwritten \/ w.ts > reg.ts THEN w ELSE reg

(* LWWRegister.merge *)
Merge(reg, w) ==
  IF \/ reg = Unwritten
     \/ w.ts > reg.ts
     \/ w.ts = reg.ts /\ WriterRank[w.writer] > WriterRank[reg.writer]
  THEN w ELSE reg

(* CRDTKeyValue.add_message *)
ApplyWrite(n, w) ==
  /\ kv' = [kv EXCEPT ![n][w.key] = Merge(@, w)]
  /\ kvApplied' = [kvApplied EXCEPT ![n] = @ \cup {w}]
  /\ UNCHANGED <<shared, kvClock, notices, noticed, subscribers, topicPosts>>

(* local_put, published: a writer's clock differs from one write to the    *)
(* next.                                                                   *)
LocalPut(n, k) ==
  /\ shared = "CRDTKeyValue" /\ Cardinality(kvWrites) < MaxWrites
  /\ \A w \in kvWrites : w.writer = n => w.ts # kvClock
  /\ LET w == [key |-> k, ts |-> kvClock, writer |-> n, value |-> Cardinality(kvWrites) + 1]
     IN kvWrites' = kvWrites \cup {w} /\ ApplyWrite(n, w)

(* is_valid, and add_message. *)
HearWrite(n, w) ==
  /\ w \in kvWrites /\ Fresh(w.ts)
  /\ ApplyWrite(n, w)
  /\ UNCHANGED kvWrites

StoreTick == /\ kvClock < MaxClock /\ kvClock' = kvClock + 1
             /\ UNCHANGED <<shared, kvWrites, kv, kvApplied, notices, noticed, subscribers,
                            topicPosts>>
-----------------------------------------------------------------------------
(* TopicPubSub.is_valid: only a known subscriber can leave, so that an     *)
(* UNSUBSCRIBE that overtakes its SUBSCRIBE is refused.                    *)
NoticeValid(n, x) ==
  /\ Fresh(x.ts)
  /\ x.action = "UNSUBSCRIBE" => x.sender \in subscribers[n][x.topic]

(* TopicPubSub.add_message: a post that comes twice is listed twice. *)
ApplyNotice(n, x) ==
  /\ subscribers' = [subscribers EXCEPT ![n][x.topic] =
                       CASE x.action = "SUBSCRIBE"   -> @ \cup {x.sender}
                         [] x.action = "UNSUBSCRIBE" -> @ \ {x.sender}
                         [] x.action = "PUBLISH"     -> @]
  /\ topicPosts' = IF x.action # "PUBLISH" THEN topicPosts
                   ELSE [topicPosts EXCEPT ![n][x.topic] = Append(@, x.sender)]
  /\ UNCHANGED <<shared, kvClock, kvWrites, kv, kvApplied>>

Announce(n, x) ==
  /\ x.sender = n /\ x.ts = kvClock /\ x \notin notices
  /\ shared = "TopicPubSub" /\ Cardinality(notices) < MaxWrites
  /\ NoticeValid(n, x)
  /\ notices' = notices \cup {x}
  /\ ApplyNotice(n, x) /\ UNCHANGED noticed

(* The node below drops what it has stored.  A node's own post can come    *)
(* back before it is stored, and is then added again.                      *)
HearNotice(n, x) ==
  /\ x \in notices \ noticed[n] /\ NoticeValid(n, x)
  /\ noticed' = [noticed EXCEPT ![n] = @ \cup {x}]
  /\ ApplyNotice(n, x) /\ UNCHANGED notices

StoreNext ==
  \/ StoreTick
  \/ \E n \in StoreNode :
       \/ \E k \in Key : LocalPut(n, k)
       \/ \E w \in kvWrites : HearWrite(n, w)
       \/ \E x \in Notice : Announce(n, x) \/ HearNotice(n, x)

StoreSpec == StoreInit /\ [][StoreNext]_storeVars
-----------------------------------------------------------------------------
(* Nodes that applied the same writes hold the same data, in whatever      *)
(* order and however often the writes came ("deterministic conflict        *)
(* resolution", kv.py).                                                    *)
KvConverges ==
  \A n \in StoreNode : \A m \in StoreNode :
    kvApplied[n] = kvApplied[m] => kv[n] = kv[m]
=============================================================================
