---------------------------- MODULE ObjectProofs ----------------------------
(* Proofs about the objects a node carries, for every number of nodes, of  *)
(* users, of keys and of messages.                                         *)
EXTENDS SharedObjects, FoldTheorems

-----------------------------------------------------------------------------
(* The last-write-wins map.  x wins over w. *)
Later(x, w) ==
  \/ x.ts > w.ts
  \/ x.ts = w.ts /\ WriterRank[x.writer] > WriterRank[w.writer]

(* The register of k at n is the last of the writes of k that n applied. *)
Latest(reg, k, W) ==
  \/ reg = Unwritten /\ \A w \in W : w.key # k
  \/ /\ reg \in W /\ reg.key = k
     /\ \A w \in W : w.key = k => w = reg \/ Later(reg, w)

(* A writer's clock tells its writes apart. *)
WritesDistinct ==
  \A w, x \in kvWrites : w.writer = x.writer /\ w.ts = x.ts => w = x

StoreInv ==
  /\ StoreTypeOK /\ IsFiniteSet(kvWrites) /\ Cardinality(kvWrites) <= MaxWrites
  /\ WritesDistinct
  /\ \A n \in StoreNode : kvApplied[n] \subseteq kvWrites
  /\ \A n \in StoreNode, k \in Key : Latest(kv[n][k], k, kvApplied[n])

LEMMA RanksTyped ==
  \A w \in Write : w.ts \in Int /\ WriterRank[w.writer] \in Int
BY StoreAssumption DEF Write

(* Of two different writes one wins, unless they are of one time and writer. *)
LEMMA LaterTotal ==
  ASSUME NEW w \in Write, NEW x \in Write, ~ (w.writer = x.writer /\ w.ts = x.ts)
  PROVE  /\ Later(w, x) \/ Later(x, w)
         /\ ~ (Later(w, x) /\ Later(x, w))
<1>1. w.writer \in StoreNode /\ x.writer \in StoreNode
  BY DEF Write
<1>2. WriterRank[w.writer] = WriterRank[x.writer] => w.writer = x.writer
  BY <1>1, StoreAssumption
<1> QED
  BY <1>2, RanksTyped DEF Later

LEMMA LaterTransitive ==
  ASSUME NEW w \in Write, NEW x \in Write, NEW y \in Write, Later(w, x), Later(x, y)
  PROVE  Later(w, y)
BY RanksTyped DEF Later

LEMMA LaterIrreflexive ==
  ASSUME NEW w \in Write
  PROVE  ~ Later(w, w)
BY RanksTyped DEF Later

(* merge keeps the register at the last of what was applied. *)
LEMMA MergeLatest ==
  ASSUME NEW W \in SUBSET Write, NEW w \in Write, NEW k \in Key, NEW reg,
         \A x, y \in W \cup {w} : x.writer = y.writer /\ x.ts = y.ts => x = y,
         Latest(reg, k, W), w.key = k
  PROVE  Latest(Merge(reg, w), k, W \cup {w})
<1>1. CASE reg = Unwritten
  <2>1. reg \notin W
    BY <1>1, StoreAssumption
  <2>2. \A x \in W : x.key # k
    BY <2>1 DEF Latest
  <2>3. Merge(reg, w) = w
    BY <1>1 DEF Merge
  <2> QED
    BY <2>2, <2>3 DEF Latest
<1>2. CASE reg # Unwritten
  <2>1. /\ reg \in W /\ reg.key = k /\ reg \in Write
        /\ \A x \in W : x.key = k => x = reg \/ Later(reg, x)
    BY <1>2 DEF Latest
  <2>2. Merge(reg, w) = IF Later(w, reg) THEN w ELSE reg
    BY <1>2 DEF Merge, Later
  <2>3. CASE Later(w, reg)
    <3>1. ASSUME NEW x \in W, x.key = k PROVE Later(w, x)
      <4>1. x \in Write
        OBVIOUS
      <4> QED
        BY <2>1, <2>3, <3>1, <4>1, LaterTransitive
    <3> QED
      BY <2>2, <2>3, <3>1 DEF Latest
  <2>4. CASE ~ Later(w, reg)
    <3>1. w = reg \/ Later(reg, w)
      BY <2>1, <2>4, LaterTotal
    <3> QED
      BY <2>1, <2>2, <2>4, <3>1 DEF Latest
  <2> QED
    BY <2>3, <2>4
<1> QED
  BY <1>1, <1>2

(* The last write is one. *)
LEMMA LatestOnce ==
  ASSUME NEW W \in SUBSET Write, NEW k, NEW reg, NEW other,
         Latest(reg, k, W), Latest(other, k, W)
  PROVE  reg = other
<1>1. CASE reg \in W /\ other \in W
  <2>1. reg \in Write /\ other \in Write
    BY <1>1
  <2>2. reg \notin {Unwritten} /\ other \notin {Unwritten}
    BY <2>1, StoreAssumption
  <2>3. other = reg \/ Later(reg, other)
    BY <1>1, <2>2 DEF Latest
  <2>4. reg = other \/ Later(other, reg)
    BY <1>1, <2>2 DEF Latest
  <2>5. Later(reg, other) /\ Later(other, reg) => Later(reg, reg)
    BY <2>1, LaterTransitive
  <2> QED
    BY <2>1, <2>3, <2>4, <2>5, LaterIrreflexive
<1>2. CASE reg \notin W
  BY <1>2 DEF Latest
<1>3. CASE other \notin W
  BY <1>3 DEF Latest
<1> QED
  BY <1>1, <1>2, <1>3

(* One write applied at n. *)
LEMMA ApplyWriteLatest ==
  ASSUME StoreInv, NEW n \in StoreNode, NEW w \in Write, ApplyWrite(n, w),
         kvWrites' \subseteq Write, kvWrites \subseteq kvWrites', w \in kvWrites',
         WritesDistinct'
  PROVE  /\ kv' \in [StoreNode -> [Key -> Write \cup {Unwritten}]]
         /\ kvApplied' \in [StoreNode -> SUBSET Write]
         /\ \A m \in StoreNode : kvApplied'[m] \subseteq kvWrites'
         /\ \A m \in StoreNode, k \in Key : Latest(kv'[m][k], k, kvApplied'[m])
<1>1. /\ kv \in [StoreNode -> [Key -> Write \cup {Unwritten}]]
      /\ kvApplied \in [StoreNode -> SUBSET Write]
  BY DEF StoreInv, StoreTypeOK
<1>2. w.key \in Key
  BY DEF Write
<1>3. PICK reg : reg = Merge(kv[n][w.key], w)
  OBVIOUS
<1>4. reg \in Write \cup {Unwritten}
  BY <1>1, <1>2, <1>3 DEF Merge
<1>5. PICK row : row = [kv[n] EXCEPT ![w.key] = reg]
  OBVIOUS
<1>6. row \in [Key -> Write \cup {Unwritten}]
  BY <1>1, <1>4, <1>5
<1>7. kv' = [kv EXCEPT ![n] = row]
  BY <1>1, <1>3, <1>5 DEF ApplyWrite
<1>8. kvApplied' = [kvApplied EXCEPT ![n] = @ \cup {w}]
  BY DEF ApplyWrite
<1>9. \A m \in StoreNode : kvApplied'[m] \subseteq kvWrites'
  BY <1>1, <1>8 DEF StoreInv
<1>10. ASSUME NEW m \in StoreNode, NEW k \in Key
       PROVE  Latest(kv'[m][k], k, kvApplied'[m])
  <2>1. PICK W : W = kvApplied[m]
    OBVIOUS
  <2>2. Latest(kv[m][k], k, W) /\ W \in SUBSET Write /\ W \subseteq kvWrites
    BY <1>1, <2>1 DEF StoreInv
  <2>3. CASE m # n
    BY <1>1, <1>7, <1>8, <2>1, <2>2, <2>3
  <2>4. CASE m = n /\ k # w.key
    <3>1. kv'[m][k] = kv[m][k] /\ kvApplied'[m] = W \cup {w}
      BY <1>1, <1>5, <1>7, <1>8, <2>1, <2>4
    <3> QED
      BY <2>2, <2>4, <3>1 DEF Latest
  <2>5. CASE m = n /\ k = w.key
    <3>1. kv'[m][k] = Merge(kv[m][k], w) /\ kvApplied'[m] = W \cup {w}
      BY <1>1, <1>3, <1>5, <1>7, <1>8, <2>1, <2>5
    <3>2. \A x, y \in W \cup {w} : x.writer = y.writer /\ x.ts = y.ts => x = y
      BY <2>2 DEF WritesDistinct
    <3>3. PICK old : old = kv[m][k]
      OBVIOUS
    <3>4. Latest(Merge(old, w), k, W \cup {w})
      BY <2>2, <2>5, <3>2, <3>3, MergeLatest
    <3> QED
      BY <3>1, <3>3, <3>4
  <2> QED
    BY <2>3, <2>4, <2>5
<1> QED
  BY <1>1, <1>6, <1>7, <1>8, <1>9, <1>10

LEMMA StoreInvInit == StoreInit => StoreInv
<1> SUFFICES ASSUME StoreInit PROVE StoreInv
  OBVIOUS
<1>1. IsFiniteSet(kvWrites) /\ Cardinality(kvWrites) = 0
  BY FS_EmptySet DEF StoreInit
<1>2. <<>> \in Seq(StoreNode)
  OBVIOUS
<1>3. [t \in Topic |-> <<>>] \in [Topic -> Seq(StoreNode)]
  BY <1>2
<1>4. topicPosts \in [StoreNode -> [Topic -> Seq(StoreNode)]]
  BY <1>3 DEF StoreInit
<1>5. StoreTypeOK
  BY <1>4, StoreAssumption DEF StoreInit, StoreTypeOK
<1>6. \A n \in StoreNode, k \in Key : Latest(kv[n][k], k, kvApplied[n])
  BY DEF StoreInit, Latest
<1> QED
  BY <1>1, <1>5, <1>6, StoreAssumption DEF StoreInit, StoreInv, WritesDistinct

LEMMA LocalPutKeeps ==
  ASSUME StoreInv, NEW n \in StoreNode, NEW k \in Key, LocalPut(n, k)
  PROVE  StoreInv'
<1>1. /\ kvWrites \subseteq Write /\ kvClock \in 1 .. MaxClock
      /\ IsFiniteSet(kvWrites) /\ WritesDistinct
  BY DEF StoreInv, StoreTypeOK
<1>2. PICK c \in Nat : c = Cardinality(kvWrites)
  BY <1>1, FS_CardinalityType
<1>3. PICK w : w = [key |-> k, ts |-> kvClock, writer |-> n, value |-> c + 1]
  OBVIOUS
<1>4. c < MaxWrites
  BY <1>2 DEF LocalPut
<1>5. w \in Write
  BY <1>1, <1>3, <1>4, StoreAssumption DEF Write
<1>6. kvWrites' = kvWrites \cup {w} /\ ApplyWrite(n, w)
  BY <1>2, <1>3 DEF LocalPut
<1>7. w \notin kvWrites
  BY <1>3 DEF LocalPut
<1>8. IsFiniteSet(kvWrites') /\ Cardinality(kvWrites') = c + 1
  BY <1>1, <1>2, <1>6, <1>7, FS_AddElement
<1>9. Cardinality(kvWrites') <= MaxWrites
  BY <1>2, <1>4, <1>8, StoreAssumption
<1>10. WritesDistinct'
  <2> SUFFICES ASSUME NEW x \in kvWrites', NEW y \in kvWrites',
                      x.writer = y.writer, x.ts = y.ts
               PROVE  x = y
    BY DEF WritesDistinct
  <2>1. \A z \in kvWrites : ~ (z.writer = w.writer /\ z.ts = w.ts)
    BY <1>3 DEF LocalPut
  <2> QED
    BY <1>1, <1>6, <2>1 DEF WritesDistinct
<1>11. /\ kv' \in [StoreNode -> [Key -> Write \cup {Unwritten}]]
       /\ kvApplied' \in [StoreNode -> SUBSET Write]
       /\ \A m \in StoreNode : kvApplied'[m] \subseteq kvWrites'
       /\ \A m \in StoreNode, l \in Key : Latest(kv'[m][l], l, kvApplied'[m])
  <2>1. kvWrites' \subseteq Write /\ kvWrites \subseteq kvWrites' /\ w \in kvWrites'
    BY <1>1, <1>5, <1>6
  <2> QED
    BY <1>5, <1>6, <1>10, <2>1, ApplyWriteLatest
<1>12. StoreTypeOK'
  BY <1>1, <1>5, <1>6, <1>11 DEF ApplyWrite, StoreInv, StoreTypeOK
<1> QED
  BY <1>8, <1>9, <1>10, <1>11, <1>12 DEF StoreInv

LEMMA HearWriteKeeps ==
  ASSUME StoreInv, NEW n \in StoreNode, NEW w \in kvWrites, HearWrite(n, w)
  PROVE  StoreInv'
<1>1. w \in Write /\ kvWrites' = kvWrites /\ ApplyWrite(n, w) /\ kvWrites \subseteq Write
  BY DEF HearWrite, StoreInv, StoreTypeOK
<1>2. WritesDistinct'
  BY <1>1 DEF StoreInv, WritesDistinct
<1>3. /\ kv' \in [StoreNode -> [Key -> Write \cup {Unwritten}]]
      /\ kvApplied' \in [StoreNode -> SUBSET Write]
      /\ \A m \in StoreNode : kvApplied'[m] \subseteq kvWrites'
      /\ \A m \in StoreNode, l \in Key : Latest(kv'[m][l], l, kvApplied'[m])
  BY <1>1, <1>2, ApplyWriteLatest
<1>4. StoreTypeOK'
  BY <1>1, <1>3 DEF ApplyWrite, StoreInv, StoreTypeOK
<1> QED
  BY <1>1, <1>2, <1>3, <1>4 DEF StoreInv

(* Nothing that concerns the map changed. *)
LEMMA StoreElsewhere ==
  ASSUME StoreInv, StoreTypeOK', UNCHANGED <<kvWrites, kv, kvApplied>>
  PROVE  StoreInv'
BY DEF StoreInv, WritesDistinct

LEMMA ApplyNoticeTypes ==
  ASSUME StoreTypeOK, NEW n \in StoreNode, NEW x \in Notice, ApplyNotice(n, x)
  PROVE  /\ subscribers' \in [StoreNode -> [Topic -> SUBSET StoreNode]]
         /\ topicPosts' \in [StoreNode -> [Topic -> Seq(StoreNode)]]
<1>1. x.topic \in Topic /\ x.sender \in StoreNode
      /\ x.action \in {"SUBSCRIBE", "UNSUBSCRIBE", "PUBLISH"}
  BY DEF Notice
<1>2. /\ subscribers \in [StoreNode -> [Topic -> SUBSET StoreNode]]
      /\ topicPosts \in [StoreNode -> [Topic -> Seq(StoreNode)]]
  BY DEF StoreTypeOK
<1>3. subscribers' \in [StoreNode -> [Topic -> SUBSET StoreNode]]
  <2>1. PICK T : T = CASE x.action = "SUBSCRIBE" -> subscribers[n][x.topic] \cup {x.sender}
                       [] x.action = "UNSUBSCRIBE" -> subscribers[n][x.topic] \ {x.sender}
                       [] x.action = "PUBLISH" -> subscribers[n][x.topic]
    OBVIOUS
  <2>2. T \subseteq StoreNode
    BY <1>1, <1>2, <2>1
  <2>3. subscribers' = [subscribers EXCEPT ![n][x.topic] = T]
    BY <1>1, <1>2, <2>1 DEF ApplyNotice
  <2>4. [subscribers[n] EXCEPT ![x.topic] = T] \in [Topic -> SUBSET StoreNode]
    BY <1>1, <1>2, <2>2
  <2> QED
    BY <1>2, <2>3, <2>4
<1>4. topicPosts' \in [StoreNode -> [Topic -> Seq(StoreNode)]]
  <2>1. PICK s : s = Append(topicPosts[n][x.topic], x.sender)
    OBVIOUS
  <2>2. s \in Seq(StoreNode)
    BY <1>1, <1>2, <2>1, AppendProperties
  <2>3. topicPosts' = topicPosts \/ topicPosts' = [topicPosts EXCEPT ![n][x.topic] = s]
    BY <1>1, <1>2, <2>1 DEF ApplyNotice
  <2>4. [topicPosts[n] EXCEPT ![x.topic] = s] \in [Topic -> Seq(StoreNode)]
    BY <1>1, <1>2, <2>2
  <2> QED
    BY <1>2, <2>3, <2>4
<1> QED
  BY <1>3, <1>4

LEMMA NoticesKeep ==
  ASSUME StoreInv, NEW n \in StoreNode, NEW x \in Notice, Announce(n, x) \/ HearNotice(n, x)
  PROVE  StoreInv'
<1>1. StoreTypeOK /\ ApplyNotice(n, x)
  BY DEF StoreInv, Announce, HearNotice
<1>2. /\ subscribers' \in [StoreNode -> [Topic -> SUBSET StoreNode]]
      /\ topicPosts' \in [StoreNode -> [Topic -> Seq(StoreNode)]]
  BY <1>1, ApplyNoticeTypes
<1>3. UNCHANGED <<shared, kvClock, kvWrites, kv, kvApplied>>
  BY <1>1 DEF ApplyNotice
<1>4. notices' \subseteq Notice /\ noticed' \in [StoreNode -> SUBSET notices']
  <2>1. CASE Announce(n, x)
    BY <1>1, <2>1 DEF Announce, StoreTypeOK
  <2>2. CASE HearNotice(n, x)
    BY <1>1, <2>2 DEF HearNotice, StoreTypeOK
  <2> QED
    BY <2>1, <2>2
<1>5. StoreTypeOK'
  BY <1>1, <1>2, <1>3, <1>4 DEF StoreTypeOK
<1> QED
  BY <1>3, <1>5, StoreElsewhere

LEMMA StoreTickKeeps ==
  ASSUME StoreInv, StoreTick
  PROVE  StoreInv'
<1>1. StoreTypeOK'
  BY StoreAssumption DEF StoreInv, StoreTypeOK, StoreTick
<1> QED
  BY <1>1, StoreElsewhere DEF StoreTick

(* The invariant, with every write the last of its key where it is held.   *)
THEOREM StoreInvariant == StoreSpec => []StoreInv
<1>1. StoreInv /\ [StoreNext]_storeVars => StoreInv'
  <2> SUFFICES ASSUME StoreInv, [StoreNext]_storeVars PROVE StoreInv'
    OBVIOUS
  <2>1. CASE UNCHANGED storeVars
    <3>1. StoreTypeOK'
      BY <2>1 DEF storeVars, StoreInv, StoreTypeOK
    <3> QED
      BY <2>1, <3>1, StoreElsewhere DEF storeVars
  <2>2. CASE StoreTick
    BY <2>2, StoreTickKeeps
  <2>3. ASSUME NEW n \in StoreNode, NEW k \in Key, LocalPut(n, k) PROVE StoreInv'
    BY <2>3, LocalPutKeeps
  <2>4. ASSUME NEW n \in StoreNode, NEW w \in kvWrites, HearWrite(n, w) PROVE StoreInv'
    BY <2>4, HearWriteKeeps
  <2>5. ASSUME NEW n \in StoreNode, NEW x \in Notice, Announce(n, x) \/ HearNotice(n, x)
        PROVE  StoreInv'
    BY <2>5, NoticesKeep
  <2> QED
    BY <2>1, <2>2, <2>3, <2>4, <2>5 DEF StoreNext
<1> QED
  BY <1>1, StoreInvInit, PTL DEF StoreSpec

(* Nodes that applied the same writes hold the same data, in whatever      *)
(* order and however often each came (merge of kv.py): a register is the   *)
(* last of the writes applied, and the last one is unique.                 *)
THEOREM KvConvergesHolds == StoreSpec => []KvConverges
<1>1. StoreInv => KvConverges
  <2> SUFFICES ASSUME StoreInv, NEW n \in StoreNode, NEW m \in StoreNode,
                      kvApplied[n] = kvApplied[m]
               PROVE  kv[n] = kv[m]
    BY DEF KvConverges
  <2>1. /\ kv \in [StoreNode -> [Key -> Write \cup {Unwritten}]]
        /\ kvApplied[n] \in SUBSET Write
    BY DEF StoreInv, StoreTypeOK
  <2>2. ASSUME NEW k \in Key PROVE kv[n][k] = kv[m][k]
    <3>1. Latest(kv[n][k], k, kvApplied[n]) /\ Latest(kv[m][k], k, kvApplied[n])
      BY DEF StoreInv
    <3> QED
      BY <2>1, <3>1, LatestOnce
  <2> QED
    BY <2>1, <2>2
<1> QED
  BY <1>1, StoreInvariant, PTL

-----------------------------------------------------------------------------
(* Chat rooms.  s, K: the messages of a room and the ids seen in it.       *)
Admitted(s, a, K) ==
  \/ \E j \in DOMAIN s : s[j].action = "ACCEPT" /\ s[j].member = a
  \/ policy = "open" /\ s[1].actor = a
  \/ policy = "open" /\ \E x \in K : x.action = "JOIN" /\ x.actor = a

(* The room a node has, as far as it follows from its messages. *)
RoomInv(r, K) ==
  /\ r \in [admin : User \cup {NoAdmin}, members : SUBSET User, messages : Seq(ChatMessage)]
  /\ K \subseteq ChatMessage
  /\ IsInjective(r.messages) /\ ToSet(r.messages) \subseteq K
  /\ Exists(r) => /\ r.messages # <<>>
                  /\ r.messages[1].action = "CREATE" /\ r.messages[1].actor = r.admin
  /\ ~Exists(r) => r.messages = <<>> /\ K = {}
  /\ \A a \in r.members : Admitted(r.messages, a, K)

(* The threads of node n: A, L are what the application and the listener   *)
(* found valid, H the node's database, S what was broadcast.               *)
ThreadInv(n, r, K, A, L, H, S) ==
  /\ (\A x, y \in A : x = y) /\ (\A x, y \in L : x = y) /\ L \subseteq S /\ K \subseteq S
  /\ \A x \in A : x.actor = n
  /\ \A x \in S : x.actor = n => x \in K
  /\ \A x \in K : x.actor # n => x \in H
  /\ \A x \in L : x \in H => x.actor = n
  /\ \A x \in L : x.action = "CREATE" => x.actor # n
  /\ \A x \in A \ S : x.action = "CREATE" => \A y \in K : y.actor # n
  /\ \A x \in K : x.action = "ACCEPT" /\ x.actor = n /\ r.admin = n => x \in ToSet(r.messages)
  /\ \A x \in L \cap K : x.action = "ACCEPT" => x \in ToSet(r.messages)
  /\ \A x \in (A \ S) \cup L : x.action # "CREATE" => Exists(r)

(* What the threads will add that the room has not seen. *)
Waiting(K, A, L, S) == (A \ S) \cup (L \ K)

(* Messages that stand, or are going to, with nothing to entitle them. *)
Strays(s, K, W) ==
  {x \in ChatMessage : \/ \E k \in DOMAIN s : s[k] = x /\ ~Entitled(s, k, x, K)
                       \/ x \in W /\ ~Entitled(s, Len(s) + 1, x, K)}

TwoCreated(K) == \E x, y \in K : x.action = "CREATE" /\ y.action = "CREATE" /\ x # y

StrayInv(s, K, W) ==
  /\ \A x, y \in Strays(s, K, W) : x = y
  /\ Strays(s, K, W) # {} => TwoCreated(K)

NodeInv(n, r, K, A, L, H, S) ==
  /\ RoomInv(r, K)
  /\ ThreadInv(n, r, K, A, L, H, S)
  /\ StrayInv(r.messages, K, Waiting(K, A, L, S))

ChatInv ==
  /\ ChatTypeOK
  /\ \A n \in User : NodeInv(n, room[n], seen[n], speaking[n], listening[n], heard[n], spoken)

LEMMA ChatMessageTypes ==
  ASSUME NEW m \in ChatMessage
  PROVE  /\ m.actor \in User /\ m.actor # NoAdmin
         /\ m.action \in {"CREATE", "JOIN", "POST", "ACCEPT"}
         /\ m.action = "ACCEPT" => m.member \in User
BY ChatAssumption DEF ChatMessage

(* One message more, unless its id was seen. *)
LEMMA AppendOnceKeeps ==
  ASSUME NEW s \in Seq(ChatMessage), NEW m \in ChatMessage, NEW K,
         IsInjective(s), ToSet(s) \subseteq K
  PROVE  LET t == AppendOnce(s, K, m)
         IN /\ t \in Seq(ChatMessage) /\ IsInjective(t)
            /\ ToSet(t) \subseteq K \cup {m}
            /\ m \in K => t = s
            /\ m \notin K => /\ Len(t) = Len(s) + 1 /\ t[Len(s) + 1] = m
                             /\ ToSet(t) = ToSet(s) \cup {m}
            /\ \A j \in DOMAIN s : j \in DOMAIN t /\ t[j] = s[j]
<1>1. PICK t : t = AppendOnce(s, K, m)
  OBVIOUS
<1>2. CASE m \in K
  <2>1. t = s
    BY <1>1, <1>2 DEF AppendOnce
  <2> QED
    BY <1>1, <1>2, <2>1
<1>3. CASE m \notin K
  <2>1. t = Append(s, m)
    BY <1>1, <1>3 DEF AppendOnce
  <2>2. /\ t \in Seq(ChatMessage) /\ Len(t) = Len(s) + 1 /\ Len(s) \in Nat
        /\ DOMAIN t = 1 .. Len(s) + 1 /\ DOMAIN s = 1 .. Len(s)
        /\ \A j \in 1 .. Len(s) : t[j] = s[j]
        /\ t[Len(s) + 1] = m
    BY <2>1, AppendProperties
  <2>3. IsInjective(t) /\ ToSet(t) = ToSet(s) \cup {m}
    BY <1>3, <2>1, MembersAppend
  <2>4. \A j \in DOMAIN s : j \in DOMAIN t /\ t[j] = s[j]
    BY <2>2
  <2> QED
    BY <1>1, <1>3, <2>2, <2>3, <2>4
<1> QED
  BY <1>2, <1>3

(* What entitles a message does so wherever more of the room stands before *)
(* it and more was seen.                                                   *)
LEMMA EntitledLater ==
  ASSUME NEW s, NEW t, NEW k \in Nat, NEW l \in Nat, k <= l, t[1] = s[1],
         \A j \in 1 .. k - 1 : t[j] = s[j],
         NEW K, NEW M, K \subseteq M, NEW m, Entitled(s, k, m, K)
  PROVE  Entitled(t, l, m, M)
<1>1. CASE m.action = "POST"
  <2>1. CASE \E j \in 1 .. k - 1 : s[j].action = "ACCEPT" /\ s[j].member = m.actor
    <3>1. PICK j \in 1 .. k - 1 : s[j].action = "ACCEPT" /\ s[j].member = m.actor
      BY <2>1
    <3>2. j \in 1 .. l - 1 /\ t[j] = s[j]
      OBVIOUS
    <3> QED
      BY <1>1, <3>1, <3>2 DEF Entitled
  <2>2. CASE m.actor = s[1].actor /\ policy # "admin_approval"
    BY <1>1, <2>2 DEF Entitled
  <2>3. CASE policy = "open" /\ \E x \in K : x.action = "JOIN" /\ x.actor = m.actor
    BY <1>1, <2>3 DEF Entitled
  <2> QED
    BY <1>1, <2>1, <2>2, <2>3 DEF Entitled
<1>2. CASE m.action = "ACCEPT"
  BY <1>2 DEF Entitled
<1>3. CASE m.action # "POST" /\ m.action # "ACCEPT"
  BY <1>3 DEF Entitled
<1> QED
  BY <1>1, <1>2, <1>3

(* add_message, of the room. *)
LEMMA ChattedRoom ==
  ASSUME NEW r, NEW K, RoomInv(r, K), NEW m \in ChatMessage, policy \in Policy,
         m.action = "CREATE" => m \notin K,
         m.action # "CREATE" => Exists(r),
         m \in K /\ m.action = "ACCEPT" => m \in ToSet(r.messages)
  PROVE  RoomInv(Chatted(r, K, m), K \cup {m})
<1>1. PICK c : c = Chatted(r, K, m)
  OBVIOUS
<1>2. PICK M : M = K \cup {m}
  OBVIOUS
<1>3. /\ r \in [admin : User \cup {NoAdmin}, members : SUBSET User, messages : Seq(ChatMessage)]
      /\ K \subseteq ChatMessage /\ M \subseteq ChatMessage
      /\ m.actor \in User /\ m.actor # NoAdmin
      /\ m.action \in {"CREATE", "JOIN", "POST", "ACCEPT"}
      /\ m.action = "ACCEPT" => m.member \in User
  BY <1>2, ChatMessageTypes DEF RoomInv
<1>4. CASE m.action = "CREATE"
  <2>1. PICK t : t = AppendOnce(<<>>, K, m)
    OBVIOUS
  <2>2. t = <<m>>
    BY <1>4, <2>1 DEF AppendOnce
  <2>3. /\ t \in Seq(ChatMessage) /\ Len(t) = 1 /\ t[1] = m /\ IsInjective(t)
        /\ ToSet(t) = {m} /\ t # <<>>
    BY <2>2 DEF IsInjective, ToSet
  <2>4. PICK P : P = IF policy = "open" THEN {m.actor} ELSE {}
    OBVIOUS
  <2>5. c = [admin |-> m.actor, members |-> P, messages |-> t]
    BY <1>1, <1>4, <2>1, <2>4 DEF Chatted
  <2>6. P \subseteq User /\ \A a \in P : Admitted(t, a, M)
    BY <1>3, <2>3, <2>4 DEF Admitted
  <2>7. c.admin = m.actor /\ c.members = P /\ c.messages = t
    BY <2>5
  <2>8. c \in [admin : User \cup {NoAdmin}, members : SUBSET User, messages : Seq(ChatMessage)]
    BY <1>3, <2>3, <2>5, <2>6
  <2> QED
    BY <1>1, <1>2, <1>3, <1>4, <2>3, <2>6, <2>7, <2>8 DEF RoomInv, Exists
<1>5. CASE m.action # "CREATE"
  <2>1. PICK s \in Seq(ChatMessage) : s = r.messages
    BY <1>3
  <2>2. PICK t : t = AppendOnce(s, K, m)
    OBVIOUS
  <2>3. /\ IsInjective(s) /\ ToSet(s) \subseteq K /\ s # <<>>
        /\ s[1].action = "CREATE" /\ s[1].actor = r.admin /\ Exists(r)
        /\ \A a \in r.members : Admitted(s, a, K)
    BY <1>5, <2>1 DEF RoomInv
  <2>4. /\ t \in Seq(ChatMessage) /\ IsInjective(t)
        /\ ToSet(t) \subseteq K \cup {m}
        /\ m \in K => t = s
        /\ m \notin K => /\ Len(t) = Len(s) + 1 /\ t[Len(s) + 1] = m
                         /\ ToSet(t) = ToSet(s) \cup {m}
        /\ \A j \in DOMAIN s : j \in DOMAIN t /\ t[j] = s[j]
    BY <2>2, <2>3, AppendOnceKeeps
  <2>5. 1 \in DOMAIN s
    BY <2>3
  <2>6. t # <<>> /\ t[1] = s[1]
    BY <2>4, <2>5
  <2>7. PICK P : P = CASE m.action = "JOIN" ->
                            r.members \cup (IF policy = "open" THEN {m.actor} ELSE {})
                       [] m.action = "ACCEPT" -> r.members \cup {m.member}
                       [] m.action = "POST" -> r.members
    OBVIOUS
  <2>8. c = [r EXCEPT !.members = P, !.messages = t]
    BY <1>1, <1>3, <1>5, <2>1, <2>2, <2>7 DEF Chatted
  <2>9. P \subseteq User
    BY <1>3, <1>5, <2>7
  <2>10. c.admin = r.admin /\ c.members = P /\ c.messages = t
    BY <1>3, <2>8
  <2>11. c \in [admin : User \cup {NoAdmin}, members : SUBSET User, messages : Seq(ChatMessage)]
    BY <1>3, <2>4, <2>8, <2>9
  <2>12. ASSUME NEW a \in P PROVE Admitted(t, a, M)
    <3>1. CASE a \in r.members
      <4>1. Admitted(s, a, K)
        BY <2>3, <3>1
      <4> QED
        BY <1>2, <2>4, <2>6, <4>1 DEF Admitted
    <3>2. CASE a \notin r.members /\ m.action = "JOIN"
      <4>1. policy = "open" /\ a = m.actor /\ m \in M
        BY <1>2, <2>7, <2>12, <3>2
      <4> QED
        BY <3>2, <4>1 DEF Admitted
    <3>3. CASE a \notin r.members /\ m.action = "ACCEPT"
      <4>1. a = m.member
        BY <2>7, <2>12, <3>3
      <4>2. m \in ToSet(t)
        BY <2>1, <2>4, <3>3
      <4>3. PICK j \in DOMAIN t : t[j] = m
        BY <4>2 DEF ToSet
      <4> QED
        BY <3>3, <4>1, <4>3 DEF Admitted
    <3> QED
      BY <1>3, <1>5, <2>7, <2>12, <3>1, <3>2, <3>3
  <2>13. Exists(c)
    BY <2>3, <2>10 DEF Exists
  <2> QED
    BY <1>1, <1>2, <1>3, <2>3, <2>4, <2>6, <2>10, <2>11, <2>12, <2>13 DEF RoomInv
<1> QED
  BY <1>4, <1>5

(* With fewer messages waiting there are no more strays. *)
LEMMA StraysFewer ==
  ASSUME NEW s, NEW K, NEW W, NEW V, V \subseteq W, StrayInv(s, K, W)
  PROVE  StrayInv(s, K, V)
<1>1. Strays(s, K, V) \subseteq Strays(s, K, W)
  BY DEF Strays
<1> QED
  BY <1>1 DEF StrayInv

(* add_message, of the strays: m is added, V waits on. *)
LEMMA ChattedStrays ==
  ASSUME NEW r, NEW K, RoomInv(r, K), NEW m \in ChatMessage, NEW W, NEW V,
         StrayInv(r.messages, K, W), m \in W \cup K, V \subseteq W \ {m},
         \A x, y \in V : x = y, \A x \in W : x.action # "CREATE" => Exists(r),
         m.action = "CREATE" => m \notin K,
         m.action # "CREATE" => Exists(r)
  PROVE  StrayInv(Chatted(r, K, m).messages, K \cup {m}, V)
<1>1. PICK s \in Seq(ChatMessage) : s = r.messages
  BY DEF RoomInv
<1>2. PICK M : M = K \cup {m}
  OBVIOUS
<1>3. PICK t : t = Chatted(r, K, m).messages
  OBVIOUS
<1>4. r \in [admin : User \cup {NoAdmin}, members : SUBSET User, messages : Seq(ChatMessage)]
  BY DEF RoomInv
<1>5. CASE m.action = "CREATE"
  <2>1. t = <<m>>
    BY <1>3, <1>5 DEF Chatted, AppendOnce
  <2>2. DOMAIN t = {1} /\ t[1] = m /\ Entitled(t, 1, m, M)
    BY <1>5, <2>1 DEF Entitled
  <2>3. Strays(t, M, V) \subseteq V
    BY <2>2 DEF Strays
  <2>4. ASSUME NEW x \in Strays(t, M, V) PROVE TwoCreated(M)
    <3>1. x.action # "CREATE" /\ x \in V /\ x \in W
      BY <2>3, <2>4 DEF Strays, Entitled
    <3>2. Exists(r)
      BY <3>1
    <3>3. s # <<>> /\ s[1].action = "CREATE" /\ ToSet(s) \subseteq K
      BY <1>1, <3>2 DEF RoomInv
    <3>4. s[1] \in ToSet(s)
      BY <3>3 DEF ToSet
    <3>5. s[1] \in M /\ m \in M /\ s[1] # m
      BY <1>2, <1>5, <3>3, <3>4
    <3> QED
      BY <1>5, <3>3, <3>5 DEF TwoCreated
  <2> QED
    BY <1>2, <1>3, <2>3, <2>4 DEF StrayInv
<1>6. CASE m.action # "CREATE"
  <2>1. t = AppendOnce(s, K, m)
    BY <1>1, <1>3, <1>4, <1>6, ChatMessageTypes DEF Chatted
  <2>2. IsInjective(s) /\ ToSet(s) \subseteq K /\ s # <<>>
    BY <1>1, <1>6 DEF RoomInv
  <2>3. /\ t \in Seq(ChatMessage) /\ IsInjective(t)
        /\ ToSet(t) \subseteq K \cup {m}
        /\ m \in K => t = s
        /\ m \notin K => /\ Len(t) = Len(s) + 1 /\ t[Len(s) + 1] = m
                         /\ ToSet(t) = ToSet(s) \cup {m}
        /\ \A j \in DOMAIN s : j \in DOMAIN t /\ t[j] = s[j]
    BY <2>1, <2>2, AppendOnceKeeps
  <2>4. PICK N \in Nat : N = Len(s) /\ DOMAIN s = 1 .. N /\ 1 \in 1 .. N
    BY <2>2
  <2>5. PICK P \in Nat : P = Len(t) /\ DOMAIN t = 1 .. P /\ (P = N \/ P = N + 1)
    <3>1. Len(t) = N \/ Len(t) = N + 1
      BY <2>3, <2>4
    <3> QED
      BY <2>3, <3>1
  <2>6. (\A j \in 1 .. N : t[j] = s[j]) /\ K \subseteq M /\ t[1] = s[1]
    BY <1>2, <2>3, <2>4
  <2>7. /\ P = N + 1 => m \notin K /\ t[N + 1] = m /\ m \in W
    <3>1. P = N + 1 => m \notin K
      BY <2>3, <2>4, <2>5
    <3> QED
      BY <2>3, <2>4, <3>1
  <2>8. ASSUME NEW x \in ChatMessage, NEW k \in 1 .. P, t[k] = x, ~Entitled(t, k, x, M)
         PROVE  x \in Strays(s, K, W)
    <3>1. k \in Nat /\ k <= k /\ \A j \in 1 .. k - 1 : j \in 1 .. N
      BY <2>5
    <3>2. \A j \in 1 .. k - 1 : t[j] = s[j]
      BY <2>6, <3>1
    <3>3. ~Entitled(s, k, x, K)
      BY <2>6, <2>8, <3>1, <3>2, EntitledLater
    <3>4. CASE k \in 1 .. N
      BY <2>4, <2>6, <2>8, <3>3, <3>4 DEF Strays
    <3>5. CASE k \notin 1 .. N
      <4>1. k = N + 1 /\ P = N + 1
        BY <2>5, <3>5
      <4>2. x = m /\ m \in W
        BY <2>7, <2>8, <4>1
      <4> QED
        BY <2>4, <3>3, <4>1, <4>2 DEF Strays
    <3> QED
      BY <3>4, <3>5
  <2>9. ASSUME NEW x \in V, x \in ChatMessage, ~Entitled(t, Len(t) + 1, x, M)
         PROVE  x \in Strays(s, K, W)
    <3>1. PICK k \in Nat : k = N + 1
      OBVIOUS
    <3>2. PICK l \in Nat : l = P + 1
      OBVIOUS
    <3>3. k <= l /\ \A j \in 1 .. k - 1 : j \in 1 .. N
      BY <2>5, <3>1, <3>2
    <3>4. \A j \in 1 .. k - 1 : t[j] = s[j]
      BY <2>6, <3>3
    <3>5. ~Entitled(t, l, x, M)
      BY <2>5, <2>9, <3>2
    <3>6. ~Entitled(s, k, x, K)
      BY <2>6, <3>3, <3>4, <3>5, EntitledLater
    <3>7. x \in W
      BY <2>9
    <3> QED
      BY <2>4, <2>9, <3>1, <3>6, <3>7 DEF Strays
  <2>10. Strays(t, M, V) \subseteq Strays(s, K, W)
    BY <2>5, <2>8, <2>9 DEF Strays
  <2>11. TwoCreated(K) => TwoCreated(M)
    BY <2>6 DEF TwoCreated
  <2> QED
    BY <1>1, <1>2, <1>3, <2>10, <2>11 DEF StrayInv
<1> QED
  BY <1>5, <1>6

(* is_valid at the moment it is asked: what is valid is entitled. *)
LEMMA ValidEntitled ==
  ASSUME NEW r, NEW K, RoomInv(r, K), NEW m \in ChatMessage, ChatValid(r, m),
         policy \in Policy
  PROVE  /\ m.action = "CREATE" <=> ~Exists(r)
         /\ m.action = "ACCEPT" => m.actor = r.admin
         /\ Entitled(r.messages, Len(r.messages) + 1, m, K)
<1>1. /\ m.action \in {"CREATE", "JOIN", "POST", "ACCEPT"}
      /\ m.actor \in User
  BY ChatMessageTypes
<1>2. /\ m.action = "CREATE" <=> ~Exists(r)
      /\ m.action = "ACCEPT" => m.actor = r.admin
      /\ m.action = "POST" => MayPost(r, m.actor)
  BY <1>1 DEF ChatValid, ChatroomValid
<1>3. PICK s \in Seq(ChatMessage) : s = r.messages
  BY DEF RoomInv
<1>4. Len(s) \in Nat /\ DOMAIN s = 1 .. (Len(s) + 1) - 1
  OBVIOUS
<1>5. Exists(r) => s[1].actor = r.admin
  BY <1>3 DEF RoomInv
<1>6. ASSUME m.action = "POST" PROVE Entitled(s, Len(s) + 1, m, K)
  <2>1. CASE m.actor \in r.members
    <3>1. Admitted(s, m.actor, K)
      BY <1>3, <2>1 DEF RoomInv
    <3>2. policy = "open" => policy # "admin_approval"
      OBVIOUS
    <3>3. CASE \E j \in DOMAIN s : s[j].action = "ACCEPT" /\ s[j].member = m.actor
      BY <1>4, <1>6, <3>3 DEF Entitled
    <3>4. CASE policy = "open" /\ s[1].actor = m.actor
      BY <1>6, <3>2, <3>4 DEF Entitled
    <3>5. CASE policy = "open" /\ \E x \in K : x.action = "JOIN" /\ x.actor = m.actor
      BY <1>6, <3>5 DEF Entitled
    <3> QED
      BY <3>1, <3>3, <3>4, <3>5 DEF Admitted
  <2>2. CASE m.actor = r.admin /\ policy # "admin_approval"
    BY <1>2, <1>3, <1>5, <1>6, <2>2 DEF Entitled
  <2> QED
    BY <1>2, <1>6, <2>1, <2>2 DEF MayPost
<1>7. ASSUME m.action = "ACCEPT" PROVE Entitled(s, Len(s) + 1, m, K)
  BY <1>2, <1>3, <1>5, <1>7 DEF Entitled
<1>8. ASSUME m.action # "POST", m.action # "ACCEPT" PROVE Entitled(s, Len(s) + 1, m, K)
  BY <1>8 DEF Entitled
<1> QED
  BY <1>2, <1>3, <1>6, <1>7, <1>8

(* One more waiting, valid now. *)
LEMMA ValidNoStray ==
  ASSUME NEW s, NEW K, NEW W, NEW V, NEW m, V \subseteq W \cup {m}, StrayInv(s, K, W),
         Entitled(s, Len(s) + 1, m, K)
  PROVE  StrayInv(s, K, V)
<1>1. Strays(s, K, V) \subseteq Strays(s, K, W)
  BY DEF Strays
<1> QED
  BY <1>1 DEF StrayInv

LEMMA ChatInvInit == ChatInit => ChatInv
<1> SUFFICES ASSUME ChatInit PROVE ChatInv
  OBVIOUS
<1>1. PICK r : r = [admin |-> NoAdmin, members |-> {}, messages |-> <<>>]
  OBVIOUS
<1>2. /\ <<>> \in Seq(ChatMessage) /\ Len(<<>>) = 0 /\ DOMAIN <<>> = {}
      /\ IsInjective(<<>>) /\ ToSet(<<>>) = {}
  BY MembersEmpty
<1>3. /\ r \in [admin : User \cup {NoAdmin}, members : SUBSET User, messages : Seq(ChatMessage)]
      /\ r.admin = NoAdmin /\ r.members = {} /\ r.messages = <<>>
  BY <1>1, <1>2
<1>4. RoomInv(r, {})
  BY <1>2, <1>3 DEF RoomInv, Exists
<1>5. \A n : ThreadInv(n, r, {}, {}, {}, {}, {})
  BY DEF ThreadInv
<1>6. StrayInv(r.messages, {}, Waiting({}, {}, {}, {}))
  <2>1. Strays(<<>>, {}, Waiting({}, {}, {}, {})) = {}
    BY <1>2 DEF Strays, Waiting
  <2> QED
    BY <1>3, <2>1 DEF StrayInv
<1>7. /\ room = [n \in User |-> r] /\ policy \in Policy /\ spoken = {}
      /\ seen = [n \in User |-> {}] /\ heard = [n \in User |-> {}]
      /\ speaking = [n \in User |-> {}] /\ listening = [n \in User |-> {}]
  BY <1>1 DEF ChatInit
<1>8. Cardinality(ToSet(<<>>)) = 0
  BY MembersEmpty, FS_EmptySet
<1>9. \A n \in User : Len(room[n].messages) = Cardinality(ToSet(room[n].messages))
  BY <1>2, <1>3, <1>7, <1>8
<1>10. ChatTypeOK
  BY <1>3, <1>7, <1>9 DEF ChatTypeOK
<1>11. \A n \in User : NodeInv(n, r, {}, {}, {}, {}, {})
  BY <1>4, <1>5, <1>6 DEF NodeInv
<1> QED
  BY <1>7, <1>10, <1>11 DEF ChatInv

(* The state of the threads of n before and after a step of its own, r the *)
(* room, K, A, L, H, S as above.                                           *)
LEMMA JudgeNode ==
  ASSUME NEW n, NEW r, NEW K, NEW H, NEW S, NEW L,
         NodeInv(n, r, K, {}, L, H, S), policy \in Policy,
         NEW m \in ChatMessage, m.actor = n, m \notin S, ChatValid(r, m)
  PROVE  NodeInv(n, r, K, {m}, L, H, S)
<1>1. RoomInv(r, K) /\ ThreadInv(n, r, K, {}, L, H, S)
  BY DEF NodeInv
<1>2. /\ m.action = "CREATE" <=> ~Exists(r)
      /\ Entitled(r.messages, Len(r.messages) + 1, m, K)
  BY <1>1, ValidEntitled
<1>3. m.action = "CREATE" => K = {}
  BY <1>1, <1>2 DEF RoomInv
<1>4. ThreadInv(n, r, K, {m}, L, H, S)
  BY <1>1, <1>2, <1>3 DEF ThreadInv
<1>5. Waiting(K, {m}, L, S) \subseteq Waiting(K, {}, L, S) \cup {m}
  BY DEF Waiting
<1>6. StrayInv(r.messages, K, Waiting(K, {m}, L, S))
  <2>1. StrayInv(r.messages, K, Waiting(K, {}, L, S))
    BY DEF NodeInv
  <2> QED
    BY <1>2, <1>5, <2>1, ValidNoStray
<1> QED
  BY <1>1, <1>4, <1>6 DEF NodeInv

LEMMA HearNode ==
  ASSUME NEW n \in User, NEW r, NEW K, NEW A, NEW H, NEW S,
         NodeInv(n, r, K, A, {}, H, S), policy \in Policy,
         NEW m \in ChatMessage, m \in S \ H, ChatValid(r, m)
  PROVE  NodeInv(n, r, K, A, {m}, H, S)
<1>1. RoomInv(r, K) /\ ThreadInv(n, r, K, A, {}, H, S)
  BY DEF NodeInv
<1>2. /\ m.action = "CREATE" <=> ~Exists(r)
      /\ m.action = "ACCEPT" => m.actor = r.admin
      /\ Entitled(r.messages, Len(r.messages) + 1, m, K)
  BY <1>1, ValidEntitled
<1>3. m.action = "CREATE" => K = {}
  BY <1>1, <1>2 DEF RoomInv
<1>4. m.action = "CREATE" => m.actor # n
  BY <1>1, <1>3 DEF ThreadInv
<1>5. m \in K /\ m.action = "ACCEPT" => m \in ToSet(r.messages)
  BY <1>1, <1>2 DEF ThreadInv
<1>6. ThreadInv(n, r, K, A, {m}, H, S)
  BY <1>1, <1>2, <1>4, <1>5 DEF ThreadInv
<1>7. Waiting(K, A, {m}, S) \subseteq Waiting(K, A, {}, S) \cup {m}
  BY DEF Waiting
<1>8. StrayInv(r.messages, K, Waiting(K, A, {m}, S))
  <2>1. StrayInv(r.messages, K, Waiting(K, A, {}, S))
    BY DEF NodeInv
  <2> QED
    BY <1>2, <1>7, <2>1, ValidNoStray
<1> QED
  BY <1>1, <1>6, <1>8 DEF NodeInv

(* The room after the addition of m, as the threads see it. *)
LEMMA ChattedFacts ==
  ASSUME NEW r, NEW K, RoomInv(r, K), NEW m \in ChatMessage,
         m.action # "CREATE" => Exists(r)
  PROVE  /\ Exists(Chatted(r, K, m))
         /\ m.action = "CREATE" => Chatted(r, K, m).admin = m.actor
         /\ m.action # "CREATE" =>
              /\ Chatted(r, K, m).admin = r.admin
              /\ ToSet(r.messages) \subseteq ToSet(Chatted(r, K, m).messages)
              /\ m \notin K => m \in ToSet(Chatted(r, K, m).messages)
<1>1. /\ r \in [admin : User \cup {NoAdmin}, members : SUBSET User, messages : Seq(ChatMessage)]
      /\ m.actor # NoAdmin /\ m.action \in {"CREATE", "JOIN", "POST", "ACCEPT"}
  BY ChatMessageTypes DEF RoomInv
<1>2. CASE m.action = "CREATE"
  BY <1>1, <1>2 DEF Chatted, Exists
<1>3. CASE m.action # "CREATE"
  <2>1. PICK c : c = Chatted(r, K, m)
    OBVIOUS
  <2>2. PICK s \in Seq(ChatMessage) : s = r.messages
    BY <1>1
  <2>3. c.admin = r.admin /\ c.messages = AppendOnce(s, K, m)
    BY <1>1, <1>3, <2>1, <2>2 DEF Chatted
  <2>4. IsInjective(s) /\ ToSet(s) \subseteq K
    BY <2>2 DEF RoomInv
  <2>5. ToSet(s) \subseteq ToSet(c.messages) /\ (m \notin K => m \in ToSet(c.messages))
    BY <2>3, <2>4, AppendOnceKeeps
  <2> QED
    BY <1>3, <2>1, <2>2, <2>3, <2>5 DEF Exists
<1> QED
  BY <1>2, <1>3

LEMMA SayNode ==
  ASSUME NEW n, NEW r, NEW K, NEW A, NEW L, NEW H, NEW S,
         NodeInv(n, r, K, A, L, H, S), policy \in Policy,
         NEW m \in ChatMessage, m \in A \ S
  PROVE  NodeInv(n, Chatted(r, K, m), K \cup {m}, A, L, H, S \cup {m})
<1>1. PICK c : c = Chatted(r, K, m)
  OBVIOUS
<1>2. RoomInv(r, K) /\ ThreadInv(n, r, K, A, L, H, S)
  BY DEF NodeInv
<1>3. /\ A = {m} /\ m.actor = n /\ m \notin K /\ m \notin L
      /\ m.action # "CREATE" => Exists(r)
  BY <1>2 DEF ThreadInv
<1>4. RoomInv(c, K \cup {m})
  BY <1>1, <1>2, <1>3, ChattedRoom
<1>5. /\ Exists(c)
      /\ m.action # "CREATE" => /\ c.admin = r.admin
                                /\ ToSet(r.messages) \subseteq ToSet(c.messages)
                                /\ m \in ToSet(c.messages)
  BY <1>1, <1>2, <1>3, ChattedFacts
<1>6. \A x \in K \cup {m} : x.action = "ACCEPT" /\ x.actor = n /\ c.admin = n
                              => x \in ToSet(c.messages)
  <2>1. CASE m.action = "CREATE"
    BY <1>2, <1>3, <2>1 DEF ThreadInv
  <2>2. CASE m.action # "CREATE"
    BY <1>2, <1>5, <2>2 DEF ThreadInv
  <2> QED
    BY <2>1, <2>2
<1>7. \A x \in L \cap (K \cup {m}) : x.action = "ACCEPT" => x \in ToSet(c.messages)
  <2>1. \A x \in L \cap K : x.actor = n
    BY <1>2 DEF ThreadInv
  <2>2. CASE m.action = "CREATE"
    BY <1>2, <1>3, <2>1, <2>2 DEF ThreadInv
  <2>3. CASE m.action # "CREATE"
    BY <1>2, <1>3, <1>5, <2>3 DEF ThreadInv
  <2> QED
    BY <2>2, <2>3
<1>8. ThreadInv(n, c, K \cup {m}, A, L, H, S \cup {m})
  BY <1>2, <1>3, <1>5, <1>6, <1>7 DEF ThreadInv
<1>9. PICK W : W = Waiting(K, A, L, S)
  OBVIOUS
<1>10. PICK V : V = Waiting(K \cup {m}, A, L, S \cup {m})
  OBVIOUS
<1>11. m \in W /\ V \subseteq W \ {m} /\ V \subseteq L
  BY <1>3, <1>9, <1>10 DEF Waiting
<1>12. (\A x, y \in V : x = y) /\ \A x \in W : x.action # "CREATE" => Exists(r)
  BY <1>2, <1>9, <1>11 DEF ThreadInv, Waiting
<1>13. StrayInv(r.messages, K, W)
  BY <1>9 DEF NodeInv
<1>14. StrayInv(c.messages, K \cup {m}, V)
  BY <1>1, <1>2, <1>3, <1>11, <1>12, <1>13, ChattedStrays
<1> QED
  BY <1>1, <1>4, <1>8, <1>10, <1>14 DEF NodeInv

LEMMA AddHeardNode ==
  ASSUME NEW n, NEW r, NEW K, NEW A, NEW L, NEW H, NEW S,
         NodeInv(n, r, K, A, L, H, S), policy \in Policy,
         NEW m \in ChatMessage, m \in L
  PROVE  NodeInv(n, Chatted(r, K, m), K \cup {m}, A, {}, H \cup {m}, S)
<1>1. PICK c : c = Chatted(r, K, m)
  OBVIOUS
<1>2. RoomInv(r, K) /\ ThreadInv(n, r, K, A, L, H, S)
  BY DEF NodeInv
<1>3. /\ L = {m} /\ m \in S
      /\ m.action # "CREATE" => Exists(r)
      /\ m.action = "CREATE" => m.actor # n
      /\ m \in K => m.actor = n
      /\ m.actor = n => m \in K
      /\ m \in K /\ m.action = "ACCEPT" => m \in ToSet(r.messages)
  BY <1>2 DEF ThreadInv
<1>4. RoomInv(c, K \cup {m})
  BY <1>1, <1>2, <1>3, ChattedRoom
<1>5. /\ Exists(c)
      /\ m.action = "CREATE" => c.admin = m.actor
      /\ m.action # "CREATE" => /\ c.admin = r.admin
                                /\ ToSet(r.messages) \subseteq ToSet(c.messages)
  BY <1>1, <1>2, <1>3, ChattedFacts
<1>6. \A x \in K \cup {m} : x.action = "ACCEPT" /\ x.actor = n /\ c.admin = n
                              => x \in ToSet(c.messages)
  <2>1. CASE m.action = "CREATE"
    BY <1>3, <1>5, <2>1
  <2>2. CASE m.action # "CREATE"
    BY <1>2, <1>3, <1>5, <2>2 DEF ThreadInv
  <2> QED
    BY <2>1, <2>2
<1>7. ThreadInv(n, c, K \cup {m}, A, {}, H \cup {m}, S)
  BY <1>2, <1>3, <1>5, <1>6 DEF ThreadInv
<1>8. PICK W : W = Waiting(K, A, L, S)
  OBVIOUS
<1>9. PICK V : V = Waiting(K \cup {m}, A, {}, S)
  OBVIOUS
<1>10. m \in W \cup K /\ V \subseteq W \ {m} /\ V \subseteq A
  BY <1>3, <1>8, <1>9 DEF Waiting
<1>11. (\A x, y \in V : x = y) /\ \A x \in W : x.action # "CREATE" => Exists(r)
  BY <1>2, <1>8, <1>10 DEF ThreadInv, Waiting
<1>12. StrayInv(r.messages, K, W)
  BY <1>8 DEF NodeInv
<1>13. StrayInv(c.messages, K \cup {m}, V)
  BY <1>1, <1>2, <1>3, <1>10, <1>11, <1>12, ChattedStrays
<1> QED
  BY <1>1, <1>4, <1>7, <1>9, <1>13 DEF NodeInv

LEMMA SaveNode ==
  ASSUME NEW n, NEW r, NEW K, NEW A, NEW L, NEW H, NEW S,
         NodeInv(n, r, K, A, L, H, S), NEW m, m \in A \cap S
  PROVE  NodeInv(n, r, K, {}, L, H \cup {m}, S)
<1>1. RoomInv(r, K) /\ ThreadInv(n, r, K, A, L, H, S)
  BY DEF NodeInv
<1>2. ThreadInv(n, r, K, {}, L, H \cup {m}, S)
  BY <1>1 DEF ThreadInv
<1>3. Waiting(K, {}, L, S) \subseteq Waiting(K, A, L, S)
  BY DEF Waiting
<1> QED
  BY <1>1, <1>2, <1>3, StraysFewer DEF NodeInv

(* Another node's broadcast. *)
LEMMA OthersSay ==
  ASSUME NEW n, NEW r, NEW K, NEW A, NEW L, NEW H, NEW S,
         NodeInv(n, r, K, A, L, H, S), NEW m, m.actor # n
  PROVE  NodeInv(n, r, K, A, L, H, S \cup {m})
<1>1. RoomInv(r, K) /\ ThreadInv(n, r, K, A, L, H, S)
  BY DEF NodeInv
<1>2. ThreadInv(n, r, K, A, L, H, S \cup {m})
  BY <1>1 DEF ThreadInv
<1>3. Waiting(K, A, L, S \cup {m}) \subseteq Waiting(K, A, L, S)
  BY DEF Waiting
<1> QED
  BY <1>1, <1>2, <1>3, StraysFewer DEF NodeInv

(* A step of node n keeps the invariant when it keeps that of every node.  *)
LEMMA NodeInvLater ==
  ASSUME NEW n, policy' = policy,
         NodeInv(n, room'[n], seen'[n], speaking'[n], listening'[n], heard'[n], spoken')
  PROVE  NodeInv(n, room[n], seen[n], speaking[n], listening[n], heard[n], spoken)'
<1>1. PICK s : s = room'[n].messages
  OBVIOUS
<1>2. PICK K : K = seen'[n]
  OBVIOUS
<1>3. PICK W : W = Waiting(seen'[n], speaking'[n], listening'[n], spoken')
  OBVIOUS
<1>4. RoomInv(room'[n], seen'[n]) /\ StrayInv(s, K, W)
      /\ ThreadInv(n, room'[n], seen'[n], speaking'[n], listening'[n], heard'[n], spoken')
  BY <1>1, <1>2, <1>3 DEF NodeInv
<1>5. RoomInv(room[n], seen[n])'
  BY <1>4 DEF RoomInv, Admitted, Exists
<1>6. ThreadInv(n, room[n], seen[n], speaking[n], listening[n], heard[n], spoken)'
  BY <1>4 DEF ThreadInv, Exists
<1>7. \A k, x : Entitled(s, k, x, K)' <=> Entitled(s, k, x, K)
  BY DEF Entitled
<1>8. StrayInv(s, K, W)'
  BY <1>4, <1>7 DEF StrayInv, Strays, TwoCreated
<1>9. W = Waiting(seen[n], speaking[n], listening[n], spoken)'
  BY <1>3 DEF Waiting
<1>10. StrayInv(room[n].messages, seen[n],
                Waiting(seen[n], speaking[n], listening[n], spoken))'
  BY <1>1, <1>2, <1>8, <1>9 DEF StrayInv, Strays, TwoCreated, Entitled
<1> QED
  BY <1>5, <1>6, <1>10 DEF NodeInv

LEMMA ChatInvLater ==
  ASSUME policy \in Policy, policy' = policy, room' \in [User -> [admin : User \cup {NoAdmin},
           members : SUBSET User, messages : Seq(ChatMessage)]],
         seen' \in [User -> SUBSET ChatMessage], heard' \in [User -> SUBSET ChatMessage],
         speaking' \in [User -> SUBSET ChatMessage], listening' \in [User -> SUBSET ChatMessage],
         spoken' \subseteq ChatMessage,
         \A u \in User :
           NodeInv(u, room'[u], seen'[u], speaking'[u], listening'[u], heard'[u], spoken')
  PROVE  ChatInv'
<1>1. \A u \in User :
        NodeInv(u, room[u], seen[u], speaking[u], listening[u], heard[u], spoken)'
  BY NodeInvLater
<1>2. ASSUME NEW u \in User
      PROVE  Len(room'[u].messages) = Cardinality(ToSet(room'[u].messages))
  <2>1. PICK s \in Seq(ChatMessage) : s = room'[u].messages
    OBVIOUS
  <2>2. IsInjective(s)
    BY <2>1 DEF NodeInv, RoomInv
  <2> QED
    BY <2>1, <2>2, MembersCounted
<1>3. ChatTypeOK'
  BY <1>2 DEF ChatTypeOK
<1> QED
  BY <1>1, <1>3 DEF ChatInv

LEMMA ChatStep ==
  ASSUME ChatInv, NEW n \in User, NEW m \in ChatMessage,
         Judge(n, m) \/ Say(n, m) \/ Save(n, m) \/ Hear(n, m) \/ AddHeard(n, m)
  PROVE  ChatInv'
<1>1. /\ policy \in Policy /\ spoken \subseteq ChatMessage
      /\ room \in [User -> [admin : User \cup {NoAdmin}, members : SUBSET User,
                            messages : Seq(ChatMessage)]]
      /\ seen \in [User -> SUBSET ChatMessage] /\ heard \in [User -> SUBSET ChatMessage]
      /\ speaking \in [User -> SUBSET ChatMessage]
      /\ listening \in [User -> SUBSET ChatMessage]
      /\ \A u \in User :
           NodeInv(u, room[u], seen[u], speaking[u], listening[u], heard[u], spoken)
  BY DEF ChatInv, ChatTypeOK
<1>2. CASE Judge(n, m)
  <2>1. /\ m.actor = n /\ m \notin spoken /\ speaking[n] = {} /\ ChatValid(room[n], m)
        /\ speaking' = [speaking EXCEPT ![n] = {m}]
        /\ policy' = policy /\ room' = room /\ seen' = seen /\ listening' = listening
        /\ spoken' = spoken /\ heard' = heard
    BY <1>2 DEF Judge
  <2>2. NodeInv(n, room[n], seen[n], {m}, listening[n], heard[n], spoken)
    BY <1>1, <2>1, JudgeNode
  <2>3. \A u \in User :
          NodeInv(u, room'[u], seen'[u], speaking'[u], listening'[u], heard'[u], spoken')
    BY <1>1, <2>1, <2>2
  <2>4. speaking' \in [User -> SUBSET ChatMessage]
    BY <1>1, <2>1
  <2> QED
    BY <1>1, <2>1, <2>3, <2>4, ChatInvLater
<1>3. CASE Hear(n, m)
  <2>1. /\ m \in spoken \ heard[n] /\ listening[n] = {} /\ ChatValid(room[n], m)
        /\ listening' = [listening EXCEPT ![n] = {m}]
        /\ policy' = policy /\ room' = room /\ seen' = seen /\ speaking' = speaking
        /\ spoken' = spoken /\ heard' = heard
    BY <1>3 DEF Hear
  <2>2. NodeInv(n, room[n], seen[n], speaking[n], {m}, heard[n], spoken)
    BY <1>1, <2>1, HearNode
  <2>3. \A u \in User :
          NodeInv(u, room'[u], seen'[u], speaking'[u], listening'[u], heard'[u], spoken')
    BY <1>1, <2>1, <2>2
  <2>4. listening' \in [User -> SUBSET ChatMessage]
    BY <1>1, <2>1
  <2> QED
    BY <1>1, <2>1, <2>3, <2>4, ChatInvLater
<1>4. CASE Save(n, m)
  <2>1. /\ m \in speaking[n] \cap spoken
        /\ heard' = [heard EXCEPT ![n] = @ \cup {m}]
        /\ speaking' = [speaking EXCEPT ![n] = {}]
        /\ policy' = policy /\ room' = room /\ seen' = seen /\ listening' = listening
        /\ spoken' = spoken
    BY <1>4 DEF Save
  <2>2. NodeInv(n, room[n], seen[n], {}, listening[n], heard[n] \cup {m}, spoken)
    BY <1>1, <2>1, SaveNode
  <2>3. \A u \in User :
          NodeInv(u, room'[u], seen'[u], speaking'[u], listening'[u], heard'[u], spoken')
    BY <1>1, <2>1, <2>2
  <2>4. /\ speaking' \in [User -> SUBSET ChatMessage]
        /\ heard' \in [User -> SUBSET ChatMessage]
    BY <1>1, <2>1
  <2> QED
    BY <1>1, <2>1, <2>3, <2>4, ChatInvLater
<1>5. PICK c : c = Chatted(room[n], seen[n], m)
  OBVIOUS
<1>6. CASE Say(n, m)
  <2>1. /\ m \in speaking[n] \ spoken /\ spoken' = spoken \cup {m}
        /\ room' = [room EXCEPT ![n] = c] /\ seen' = [seen EXCEPT ![n] = @ \cup {m}]
        /\ policy' = policy /\ speaking' = speaking /\ listening' = listening
        /\ heard' = heard
    BY <1>5, <1>6 DEF Say, Add
  <2>2. NodeInv(n, c, seen[n] \cup {m}, speaking[n], listening[n], heard[n],
                spoken \cup {m})
    BY <1>1, <1>5, <2>1, SayNode
  <2>3. m.actor = n
    BY <1>1, <2>1 DEF NodeInv, ThreadInv
  <2>4. ASSUME NEW u \in User, u # n
        PROVE  NodeInv(u, room[u], seen[u], speaking[u], listening[u], heard[u],
                       spoken \cup {m})
    BY <1>1, <2>3, <2>4, OthersSay
  <2>5. \A u \in User :
          NodeInv(u, room'[u], seen'[u], speaking'[u], listening'[u], heard'[u], spoken')
    BY <1>1, <2>1, <2>2, <2>4
  <2>6. seen' \in [User -> SUBSET ChatMessage] /\ spoken' \subseteq ChatMessage
    BY <1>1, <2>1
  <2>7. c \in [admin : User \cup {NoAdmin}, members : SUBSET User, messages : Seq(ChatMessage)]
    BY <2>2 DEF NodeInv, RoomInv
  <2>8. room' \in [User -> [admin : User \cup {NoAdmin}, members : SUBSET User,
                            messages : Seq(ChatMessage)]]
    BY <1>1, <2>1, <2>7
  <2> QED
    BY <1>1, <2>1, <2>5, <2>6, <2>8, ChatInvLater
<1>7. CASE AddHeard(n, m)
  <2>1. /\ m \in listening[n] /\ listening' = [listening EXCEPT ![n] = {}]
        /\ room' = [room EXCEPT ![n] = c] /\ seen' = [seen EXCEPT ![n] = @ \cup {m}]
        /\ heard' = [heard EXCEPT ![n] = @ \cup {m}]
        /\ policy' = policy /\ speaking' = speaking /\ spoken' = spoken
    BY <1>5, <1>7 DEF AddHeard, Add
  <2>2. NodeInv(n, c, seen[n] \cup {m}, speaking[n], {}, heard[n] \cup {m}, spoken)
    BY <1>1, <1>5, <2>1, AddHeardNode
  <2>3. \A u \in User :
          NodeInv(u, room'[u], seen'[u], speaking'[u], listening'[u], heard'[u], spoken')
    BY <1>1, <2>1, <2>2
  <2>4. /\ seen' \in [User -> SUBSET ChatMessage] /\ heard' \in [User -> SUBSET ChatMessage]
        /\ listening' \in [User -> SUBSET ChatMessage]
    BY <1>1, <2>1
  <2>5. c \in [admin : User \cup {NoAdmin}, members : SUBSET User, messages : Seq(ChatMessage)]
    BY <2>2 DEF NodeInv, RoomInv
  <2>6. room' \in [User -> [admin : User \cup {NoAdmin}, members : SUBSET User,
                            messages : Seq(ChatMessage)]]
    BY <1>1, <2>1, <2>5
  <2> QED
    BY <1>1, <2>1, <2>3, <2>4, <2>6, ChatInvLater
<1> QED
  BY <1>2, <1>3, <1>4, <1>6, <1>7

(* The invariant, with what a verdict is still worth when its message is   *)
(* added: of the messages in the room and the two that can wait, one at    *)
(* most is a stray.                                                        *)
THEOREM ChatInvariant == ChatSpec => []ChatInv
<1>1. ChatInv /\ [ChatNext]_chatVars => ChatInv'
  <2> SUFFICES ASSUME ChatInv, [ChatNext]_chatVars PROVE ChatInv'
    OBVIOUS
  <2>1. CASE UNCHANGED chatVars
    <3>1. /\ policy' = policy /\ room' = room /\ seen' = seen /\ speaking' = speaking
          /\ listening' = listening /\ spoken' = spoken /\ heard' = heard
      BY <2>1 DEF chatVars
    <3>2. /\ policy \in Policy /\ spoken \subseteq ChatMessage
          /\ room \in [User -> [admin : User \cup {NoAdmin}, members : SUBSET User,
                                messages : Seq(ChatMessage)]]
          /\ seen \in [User -> SUBSET ChatMessage] /\ heard \in [User -> SUBSET ChatMessage]
          /\ speaking \in [User -> SUBSET ChatMessage]
          /\ listening \in [User -> SUBSET ChatMessage]
          /\ \A u \in User :
               NodeInv(u, room[u], seen[u], speaking[u], listening[u], heard[u], spoken)
      BY DEF ChatInv, ChatTypeOK
    <3> QED
      BY <3>1, <3>2, ChatInvLater
  <2>2. ASSUME NEW n \in User, NEW m \in ChatMessage,
               Judge(n, m) \/ Say(n, m) \/ Save(n, m) \/ Hear(n, m) \/ AddHeard(n, m)
        PROVE  ChatInv'
    BY <2>2, ChatStep
  <2> QED
    BY <2>1, <2>2 DEF ChatNext
<1> QED
  BY <1>1, ChatInvInit, PTL DEF ChatSpec

(* Creations judged side by side at a node replace its room while another  *)
(* verdict is waiting (chatgroup.py): one message may then stand in the    *)
(* new room with nothing to entitle it, never two; and none where the node *)
(* knows one creation, although membership changes between the verdict of  *)
(* is_valid and add_message.                                               *)
THEOREM ChatPostsByMembersHolds == ChatSpec => []ChatPostsByMembers
<1>1. ChatInv => ChatPostsByMembers
  <2> SUFFICES ASSUME ChatInv, NEW n \in User PROVE
        LET s == room[n].messages
            stray == {k \in DOMAIN s : ~Entitled(s, k, s[k], seen[n])}
        IN /\ \A i, k \in stray : i = k
           /\ stray # {} =>
                \E x, y \in seen[n] : x.action = "CREATE" /\ y.action = "CREATE" /\ x # y
    BY DEF ChatPostsByMembers
  <2>1. PICK W : StrayInv(room[n].messages, seen[n], W)
    BY DEF ChatInv, NodeInv
  <2>2. PICK s \in Seq(ChatMessage) : s = room[n].messages
    BY DEF ChatInv, ChatTypeOK
  <2>3. IsInjective(s)
    BY <2>2 DEF ChatInv, NodeInv, RoomInv
  <2>4. PICK X : X = Strays(s, seen[n], W)
    OBVIOUS
  <2>5. \A k \in DOMAIN s : ~Entitled(s, k, s[k], seen[n]) => s[k] \in X
    BY <2>4 DEF Strays
  <2>6. (\A x, y \in X : x = y) /\ (X # {} => TwoCreated(seen[n]))
    BY <2>1, <2>2, <2>4 DEF StrayInv
  <2>7. ASSUME NEW i \in DOMAIN s, NEW k \in DOMAIN s,
               ~Entitled(s, i, s[i], seen[n]), ~Entitled(s, k, s[k], seen[n])
        PROVE  i = k
    <3>1. s[i] = s[k]
      BY <2>5, <2>6, <2>7
    <3> QED
      BY <2>3, <3>1 DEF IsInjective
  <2>8. ASSUME NEW k \in DOMAIN s, ~Entitled(s, k, s[k], seen[n])
        PROVE  TwoCreated(seen[n])
    BY <2>5, <2>6, <2>8
  <2> QED
    BY <2>2, <2>7, <2>8 DEF TwoCreated
<1> QED
  BY <1>1, ChatInvariant, PTL

-----------------------------------------------------------------------------
(* Core objects.  A record cached is the view's, and so is the one in the  *)
(* store, of every key written since the attachment.                       *)
CoreGood(o, K) ==
  /\ o \in [class : CoreClass, view : CoreRecords, own : CoreRecords, db : CoreRecords,
            attached : BOOLEAN, cache : Seq(CacheEntry)]
  /\ Len(o.cache) <= CacheSize
  /\ \A k \in K : Backing(o)[k] = o.view[k]
  /\ \A e \in ToSet(o.cache) : e.key \in K => e.value = o.view[e.key]

CoreInv == coreKept \subseteq CoreKey /\ CoreGood(core, coreKept)

LEMMA OnlyShorter ==
  ASSUME NEW X, NEW T, NEW s \in Seq(X)
  PROVE  Len(Only(s, T)) <= Len(s)
<1>1. PICK P : P = {u \in Seq(X) : Len(Only(u, T)) <= Len(u)}
  OBVIOUS
<1>2. <<>> \in P
  <2>1. <<>> \in Seq(X)
    OBVIOUS
  <2> QED
    BY <1>1, <2>1, OnlyEmpty
<1>3. ASSUME NEW u \in Seq(X), NEW x \in X, u \in P PROVE Append(u, x) \in P
  <2>1. Only(u, T) \in Seq(X)
    BY OnlyProperties
  <2>2. PICK v \in Seq(X) : v = Only(u, T)
    BY <2>1
  <2>3. Len(v) <= Len(u)
    BY <1>1, <1>3, <2>2
  <2>4. Only(Append(u, x), T) = Append(v, x) \/ Only(Append(u, x), T) = v
    BY <2>2, OnlyAppend
  <2>5. Len(Append(v, x)) = Len(v) + 1 /\ Len(Append(u, x)) = Len(u) + 1
        /\ Append(u, x) \in Seq(X) /\ Len(u) \in Nat /\ Len(v) \in Nat
    BY AppendProperties
  <2> QED
    BY <1>1, <2>3, <2>4, <2>5
<1>4. \A u \in Seq(X) : u \in P
  BY <1>2, <1>3, EverySequence
<1> QED
  BY <1>1, <1>4

LEMMA UncachedProperties ==
  ASSUME NEW s \in Seq(CacheEntry), NEW k
  PROVE  /\ Uncached(s, k) \in Seq(CacheEntry) /\ Len(Uncached(s, k)) <= Len(s)
         /\ \A e : e \in ToSet(Uncached(s, k)) <=> e \in ToSet(s) /\ e.key # k
<1>1. PICK T : T = {e \in ToSet(s) : e.key # k}
  OBVIOUS
<1>2. Uncached(s, k) = Only(s, T)
  BY <1>1 DEF Uncached
<1>3. /\ Only(s, T) \in Seq(CacheEntry) /\ ToSet(Only(s, T)) = ToSet(s) \cap T
      /\ Len(Only(s, T)) <= Len(s)
  BY OnlyProperties, OnlyShorter
<1> QED
  BY <1>1, <1>2, <1>3

(* The entry set is the only one of its key, and all others were there.    *)
LEMMA CacheSetProperties ==
  ASSUME NEW s \in Seq(CacheEntry), Len(s) <= CacheSize,
         NEW k \in CoreKey, NEW v \in CoreValue \ {None}
  PROVE  /\ CacheSet(s, k, v) \in Seq(CacheEntry) /\ Len(CacheSet(s, k, v)) <= CacheSize
         /\ \A e \in ToSet(CacheSet(s, k, v)) :
              \/ e = [key |-> k, value |-> v]
              \/ e \in ToSet(s) /\ e.key # k
<1>1. PICK u \in Seq(CacheEntry) : u = Uncached(s, k)
  BY UncachedProperties
<1>2. PICK x \in CacheEntry : x = [key |-> k, value |-> v]
  BY DEF CacheEntry
<1>3. PICK t : t = Append(u, x)
  OBVIOUS
<1>4. /\ t \in Seq(CacheEntry) /\ Len(t) = Len(u) + 1 /\ Len(u) \in Nat /\ Len(u) <= Len(s)
      /\ ToSet(t) = ToSet(u) \cup {x}
  BY <1>1, <1>3, AppendProperties, MembersAppend, UncachedProperties
<1>5. \A e \in ToSet(t) : e = x \/ (e \in ToSet(s) /\ e.key # k)
  BY <1>1, <1>4, UncachedProperties
<1>6. CacheSet(s, k, v) = IF Len(t) > CacheSize THEN Tail(t) ELSE t
  BY <1>1, <1>2, <1>3 DEF CacheSet, Trimmed
<1>7. CASE Len(t) > CacheSize
  <2>1. t # <<>>
    BY <1>4
  <2>2. /\ Tail(t) \in Seq(CacheEntry) /\ Len(Tail(t)) = Len(t) - 1
        /\ \A i \in 1 .. Len(Tail(t)) : Tail(t)[i] = t[i + 1]
    BY <1>4, <2>1
  <2>3. ToSet(Tail(t)) \subseteq ToSet(t)
    <3> SUFFICES ASSUME NEW i \in DOMAIN Tail(t) PROVE Tail(t)[i] \in ToSet(t)
      BY DEF ToSet
    <3>1. i \in 1 .. Len(Tail(t)) /\ i + 1 \in DOMAIN t
      BY <1>4, <2>2
    <3> QED
      BY <2>2, <3>1 DEF ToSet
  <2>4. Len(Tail(t)) <= CacheSize
    <3>1. Len(s) \in Nat /\ CacheSize \in Nat
      BY CoreAssumption
    <3> QED
      BY <1>4, <2>2, <3>1
  <2> QED
    BY <1>2, <1>5, <1>6, <1>7, <2>2, <2>3, <2>4
<1>8. CASE ~ (Len(t) > CacheSize)
  <2>1. Len(t) <= CacheSize
    BY <1>4, <1>8, CoreAssumption
  <2> QED
    BY <1>2, <1>4, <1>5, <1>6, <1>8, <2>1
<1> QED
  BY <1>7, <1>8

CoreTypes == [class : CoreClass, view : CoreRecords, own : CoreRecords, db : CoreRecords,
              attached : BOOLEAN, cache : Seq(CacheEntry)]

(* The record of k becomes v in the store that is in use, and nowhere else. *)
LEMMA SetBackingProperties ==
  ASSUME NEW o \in CoreTypes, NEW k \in CoreKey, NEW v \in CoreValue
  PROVE  LET p == SetBacking(o, k, v)
         IN /\ p \in CoreTypes
            /\ p.class = o.class /\ p.view = o.view /\ p.attached = o.attached
            /\ p.cache = o.cache
            /\ Backing(p)[k] = v
            /\ \A l \in CoreKey \ {k} : Backing(p)[l] = Backing(o)[l]
<1>1. PICK p : p = SetBacking(o, k, v)
  OBVIOUS
<1>2. /\ o.own \in [CoreKey -> CoreValue] /\ o.db \in [CoreKey -> CoreValue]
      /\ o.attached \in BOOLEAN
  BY DEF CoreTypes, CoreRecords
<1>3. PICK w : w = [o.own EXCEPT ![k] = v]
  OBVIOUS
<1>4. PICK d : d = [o.db EXCEPT ![k] = v]
  OBVIOUS
<1>5. /\ w \in CoreRecords /\ w[k] = v /\ \A l \in CoreKey \ {k} : w[l] = o.own[l]
      /\ d \in CoreRecords /\ d[k] = v /\ \A l \in CoreKey \ {k} : d[l] = o.db[l]
  BY <1>2, <1>3, <1>4 DEF CoreRecords
<1>6. CASE o.attached
  <2>1. p = [o EXCEPT !.db = d]
    BY <1>1, <1>4, <1>6 DEF SetBacking
  <2>2. p \in CoreTypes /\ p.class = o.class /\ p.view = o.view
        /\ p.attached = o.attached /\ p.cache = o.cache /\ p.db = d
    BY <1>5, <2>1 DEF CoreTypes
  <2> QED
    BY <1>1, <1>5, <1>6, <2>2 DEF Backing
<1>7. CASE ~ o.attached
  <2>1. p = [o EXCEPT !.own = w]
    BY <1>1, <1>3, <1>7 DEF SetBacking
  <2>2. p \in CoreTypes /\ p.class = o.class /\ p.view = o.view
        /\ p.attached = o.attached /\ p.cache = o.cache /\ p.own = w
    BY <1>5, <2>1 DEF CoreTypes
  <2> QED
    BY <1>1, <1>5, <1>7, <2>2 DEF Backing
<1> QED
  BY <1>6, <1>7

LEMMA CacheChanged ==
  ASSUME NEW o \in CoreTypes, NEW c \in Seq(CacheEntry)
  PROVE  LET p == [o EXCEPT !.cache = c]
         IN /\ p \in CoreTypes /\ p.cache = c /\ p.view = o.view /\ p.class = o.class
            /\ p.attached = o.attached /\ Backing(p) = Backing(o)
BY DEF CoreTypes, Backing

(* _write_store of what the view holds. *)
LEMMA WriteStoreKeeps ==
  ASSUME NEW o, NEW K \in SUBSET CoreKey, CoreGood(o, K), NEW k \in CoreKey,
         o.view[k] # None
  PROVE  LET p == WriteStore(o, k, o.view[k])
         IN CoreGood(p, K \cup {k}) /\ p.view = o.view /\ p.class = o.class
<1>1. o \in CoreTypes /\ o.view \in [CoreKey -> CoreValue] /\ o.cache \in Seq(CacheEntry)
  BY DEF CoreGood, CoreTypes, CoreRecords
<1>2. PICK v \in CoreValue \ {None} : v = o.view[k]
  BY <1>1
<1>3. PICK q : q = SetBacking(o, k, v)
  OBVIOUS
<1>4. /\ q \in CoreTypes /\ q.view = o.view /\ q.class = o.class /\ q.cache = o.cache
      /\ Backing(q)[k] = v
      /\ \A l \in CoreKey \ {k} : Backing(q)[l] = Backing(o)[l]
  <2>1. v \in CoreValue
    OBVIOUS
  <2>2. LET s == SetBacking(o, k, v)
        IN /\ s \in CoreTypes
           /\ s.class = o.class /\ s.view = o.view /\ s.attached = o.attached
           /\ s.cache = o.cache
           /\ Backing(s)[k] = v
           /\ \A l \in CoreKey \ {k} : Backing(s)[l] = Backing(o)[l]
    BY <1>1, <2>1, SetBackingProperties
  <2> QED
    BY <1>3, <2>2
<1>5. PICK c : c = CacheSet(o.cache, k, v)
  OBVIOUS
<1>6. /\ c \in Seq(CacheEntry) /\ Len(c) <= CacheSize
      /\ \A e \in ToSet(c) : \/ e = [key |-> k, value |-> v]
                             \/ e \in ToSet(o.cache) /\ e.key # k
  <2>1. Len(o.cache) <= CacheSize
    BY DEF CoreGood
  <2> QED
    BY <1>1, <1>5, <2>1, CacheSetProperties
<1>7. PICK p : p = [q EXCEPT !.cache = c]
  OBVIOUS
<1>8. p = WriteStore(o, k, v)
  BY <1>3, <1>4, <1>5, <1>7 DEF WriteStore
<1>9. /\ p \in CoreTypes /\ p.cache = c /\ p.view = o.view /\ p.class = o.class
      /\ Backing(p) = Backing(q)
  BY <1>4, <1>6, <1>7, CacheChanged
<1>10. \A l \in K \cup {k} : Backing(p)[l] = p.view[l]
  BY <1>2, <1>4, <1>9 DEF CoreGood
<1>11. ASSUME NEW e \in ToSet(p.cache), e.key \in K \cup {k} PROVE e.value = p.view[e.key]
  <2>1. CASE e = [key |-> k, value |-> v]
    BY <1>2, <1>9, <2>1
  <2>2. CASE e \in ToSet(o.cache) /\ e.key # k
    BY <1>9, <1>11, <2>2 DEF CoreGood
  <2> QED
    BY <1>6, <1>9, <2>1, <2>2
<1>12. CoreGood(p, K \cup {k})
  BY <1>6, <1>9, <1>10, <1>11 DEF CoreGood, CoreTypes
<1> QED
  BY <1>2, <1>8, <1>9, <1>12

(* _delete_store of what the view no longer holds. *)
LEMMA DeleteStoreKeeps ==
  ASSUME NEW o, NEW K \in SUBSET CoreKey, CoreGood(o, K), NEW k \in CoreKey,
         o.view[k] = None
  PROVE  LET p == DeleteStore(o, k)
         IN CoreGood(p, K \cup {k}) /\ p.view = o.view /\ p.class = o.class
<1>1. o \in CoreTypes /\ o.view \in [CoreKey -> CoreValue] /\ o.cache \in Seq(CacheEntry)
  BY DEF CoreGood, CoreTypes, CoreRecords
<1>2. None \in CoreValue
  BY DEF CoreValue
<1>3. PICK q : q = SetBacking(o, k, None)
  OBVIOUS
<1>4. /\ q \in CoreTypes /\ q.view = o.view /\ q.class = o.class /\ q.cache = o.cache
      /\ Backing(q)[k] = None
      /\ \A l \in CoreKey \ {k} : Backing(q)[l] = Backing(o)[l]
  BY <1>1, <1>2, <1>3, SetBackingProperties
<1>5. PICK c : c = Uncached(o.cache, k)
  OBVIOUS
<1>6. /\ c \in Seq(CacheEntry) /\ Len(c) <= Len(o.cache)
      /\ \A e \in ToSet(c) : e \in ToSet(o.cache) /\ e.key # k
  BY <1>1, <1>5, UncachedProperties
<1>7. Len(c) <= CacheSize
  <2>1. Len(o.cache) <= CacheSize
    BY DEF CoreGood
  <2>2. Len(c) \in Nat /\ Len(o.cache) \in Nat /\ CacheSize \in Nat
    BY <1>1, <1>6, CoreAssumption
  <2> QED
    BY <1>6, <2>1, <2>2
<1>8. PICK p : p = [q EXCEPT !.cache = c]
  OBVIOUS
<1>9. p = DeleteStore(o, k)
  BY <1>3, <1>4, <1>5, <1>8 DEF DeleteStore
<1>10. /\ p \in CoreTypes /\ p.cache = c /\ p.view = o.view /\ p.class = o.class
       /\ Backing(p) = Backing(q)
  BY <1>4, <1>6, <1>8, CacheChanged
<1>11. \A l \in K \cup {k} : Backing(p)[l] = p.view[l]
  BY <1>4, <1>10 DEF CoreGood
<1>12. \A e \in ToSet(p.cache) : e.key \in K \cup {k} => e.value = p.view[e.key]
  BY <1>6, <1>10 DEF CoreGood
<1>13. CoreGood(p, K \cup {k})
  BY <1>7, <1>10, <1>11, <1>12 DEF CoreGood, CoreTypes
<1> QED
  BY <1>9, <1>10, <1>13

WithView(o, k, v) == [o EXCEPT !.view[k] = v]

(* Until it is written again, a key whose view changed is excepted. *)
LEMMA ViewChanged ==
  ASSUME NEW o, NEW K \in SUBSET CoreKey, CoreGood(o, K), NEW k \in CoreKey,
         NEW v \in CoreValue
  PROVE  LET p == WithView(o, k, v)
         IN CoreGood(p, K \ {k}) /\ p.view[k] = v
<1>1. o \in CoreTypes /\ o.view \in [CoreKey -> CoreValue]
  BY DEF CoreGood, CoreTypes, CoreRecords
<1>2. PICK w : w = [o.view EXCEPT ![k] = v]
  OBVIOUS
<1>3. /\ w \in CoreRecords /\ w[k] = v /\ \A l \in CoreKey \ {k} : w[l] = o.view[l]
  BY <1>1, <1>2 DEF CoreRecords
<1>4. PICK p : p = [o EXCEPT !.view = w]
  OBVIOUS
<1>5. p = WithView(o, k, v)
  BY <1>1, <1>2, <1>4 DEF WithView
<1>6. /\ p \in CoreTypes /\ p.view = w /\ p.class = o.class /\ p.cache = o.cache
      /\ Backing(p) = Backing(o)
  BY <1>1, <1>3, <1>4 DEF CoreTypes, Backing
<1>7. CoreGood(p, K \ {k})
  BY <1>3, <1>6 DEF CoreGood, CoreTypes
<1> QED
  BY <1>3, <1>5, <1>6, <1>7

LEMMA ViewElsewhere ==
  ASSUME NEW o \in CoreTypes, NEW k, NEW v, NEW l \in CoreKey \ {k}
  PROVE  WithView(o, k, v).view[l] = o.view[l]
BY DEF CoreTypes, CoreRecords, WithView

LEMMA PutKeeps ==
  ASSUME NEW o, NEW K \in SUBSET CoreKey, CoreGood(o, K), NEW k \in CoreKey,
         NEW v \in CoreValue \ {None}
  PROVE  CoreGood(Put(o, k, v), K \cup {k})
<1>1. PICK p : p = [o EXCEPT !.view[k] = v]
  OBVIOUS
<1>2. CoreGood(p, K \ {k}) /\ p.view[k] = v /\ K \ {k} \in SUBSET CoreKey
  BY <1>1, ViewChanged DEF WithView
<1>3. CoreGood(WriteStore(p, k, p.view[k]), (K \ {k}) \cup {k})
  BY <1>2, WriteStoreKeeps
<1>4. Put(o, k, v) = WriteStore(p, k, p.view[k]) /\ (K \ {k}) \cup {k} = K \cup {k}
  BY <1>1, <1>2 DEF Put
<1> QED
  BY <1>3, <1>4

LEMMA DropKeeps ==
  ASSUME NEW o, NEW K \in SUBSET CoreKey, CoreGood(o, K), NEW k \in CoreKey
  PROVE  CoreGood(Drop(o, k), K \cup {k})
<1>1. PICK p : p = [o EXCEPT !.view[k] = None]
  OBVIOUS
<1>2. None \in CoreValue
  BY DEF CoreValue
<1>3. CoreGood(p, K \ {k}) /\ p.view[k] = None /\ K \ {k} \in SUBSET CoreKey
  <2>1. PICK v \in CoreValue : v = None
    BY <1>2
  <2>2. p = WithView(o, k, v)
    BY <1>1, <2>1 DEF WithView
  <2>3. CoreGood(p, K \ {k}) /\ p.view[k] = v
    BY <2>2, ViewChanged
  <2> QED
    BY <2>1, <2>3
<1>4. CoreGood(DeleteStore(p, k), (K \ {k}) \cup {k})
  BY <1>3, DeleteStoreKeeps
<1>5. Drop(o, k) = DeleteStore(p, k) /\ (K \ {k}) \cup {k} = K \cup {k}
  BY <1>1 DEF Drop
<1> QED
  BY <1>4, <1>5

(* _read_store answers with the view's record. *)
LEMMA ReadStoreValue ==
  ASSUME NEW o, NEW K \in SUBSET CoreKey, CoreGood(o, K), NEW k \in CoreKey
  PROVE  /\ ReadStore(o, k) \in CoreValue
         /\ k \in K => ReadStore(o, k) = o.view[k]
<1>1. o \in CoreTypes /\ o.cache \in Seq(CacheEntry) /\ Backing(o) \in [CoreKey -> CoreValue]
  BY DEF CoreGood, CoreTypes, CoreRecords, Backing
<1>2. CASE Cached(o.cache, k)
  <2>1. PICK i : i = CHOOSE j \in DOMAIN o.cache : o.cache[j].key = k
    OBVIOUS
  <2>2. i \in DOMAIN o.cache /\ o.cache[i].key = k
    BY <1>2, <2>1 DEF Cached
  <2>3. o.cache[i] \in CacheEntry
    BY <1>1, <2>2
  <2>4. o.cache[i] \in ToSet(o.cache)
    BY <2>2 DEF ToSet
  <2>5. ReadStore(o, k) = o.cache[i].value
    BY <1>2, <2>1 DEF ReadStore
  <2>6. k \in K => o.cache[i].value = o.view[k]
    BY <2>2, <2>4 DEF CoreGood
  <2> QED
    BY <2>3, <2>5, <2>6 DEF CacheEntry
<1>3. CASE ~ Cached(o.cache, k)
  BY <1>1, <1>3 DEF ReadStore, CoreGood
<1> QED
  BY <1>2, <1>3

LEMMA TouchKeeps ==
  ASSUME NEW o, NEW K \in SUBSET CoreKey, CoreGood(o, K), NEW k \in CoreKey
  PROVE  CoreGood(Touch(o, k), K)
<1>1. o \in CoreTypes /\ o.cache \in Seq(CacheEntry) /\ Len(o.cache) <= CacheSize
  BY DEF CoreGood, CoreTypes
<1>2. CASE ReadStore(o, k) = None
  BY <1>2 DEF Touch
<1>3. CASE ReadStore(o, k) # None
  <2>1. PICK v \in CoreValue \ {None} : v = ReadStore(o, k)
    BY <1>3, ReadStoreValue
  <2>2. PICK c : c = CacheSet(o.cache, k, v)
    OBVIOUS
  <2>3. /\ c \in Seq(CacheEntry) /\ Len(c) <= CacheSize
        /\ \A e \in ToSet(c) : \/ e = [key |-> k, value |-> v]
                               \/ e \in ToSet(o.cache) /\ e.key # k
    BY <1>1, <2>2, CacheSetProperties
  <2>4. PICK p : p = [o EXCEPT !.cache = c]
    OBVIOUS
  <2>5. p = Touch(o, k)
    BY <1>3, <2>1, <2>2, <2>4 DEF Touch
  <2>6. /\ p \in CoreTypes /\ p.cache = c /\ p.view = o.view /\ Backing(p) = Backing(o)
    BY <1>1, <2>3, <2>4, CacheChanged
  <2>7. ASSUME NEW e \in ToSet(p.cache), e.key \in K PROVE e.value = p.view[e.key]
    <3>1. CASE e = [key |-> k, value |-> v]
      BY <2>1, <2>6, <2>7, <3>1, ReadStoreValue
    <3>2. CASE e \in ToSet(o.cache) /\ e.key # k
      BY <2>6, <2>7, <3>2 DEF CoreGood
    <3> QED
      BY <2>3, <2>6, <2>7, <3>1, <3>2
  <2>8. CoreGood(p, K)
    BY <2>3, <2>6, <2>7 DEF CoreGood, CoreTypes
  <2> QED
    BY <2>5, <2>8
<1> QED
  BY <1>2, <1>3

LEMMA AmountTyped ==
  ASSUME NEW o, NEW K, CoreGood(o, K), NEW k \in CoreKey
  PROVE  Amount(o, k) \in 0 .. MaxBalance
<1>1. o.view[k] \in CoreValue
  BY DEF CoreGood, CoreRecords
<1>2. 0 \in 0 .. MaxBalance
  BY CoreAssumption
<1> QED
  BY <1>1, <1>2 DEF Amount, CoreValue

LEMMA AmountsAreValues ==
  /\ \A v \in 0 .. MaxBalance : v \in CoreValue \ {None} /\ v \in CoreValue
  /\ CoreAmount \subseteq 0 .. MaxBalance
BY CoreAssumption DEF CoreValue, None

(* The message's own record. *)
LEMMA RecordedKeeps ==
  ASSUME NEW o, NEW K \in SUBSET CoreKey, CoreGood(o, K), NEW p \in Merkelized(o)
  PROVE  CoreGood(p, K) /\ p.view = o.view
<1>1. CASE p = o
  BY <1>1
<1>2. CASE p = Recorded(o)
  <2>1. o \in CoreTypes /\ o.cache \in Seq(CacheEntry) /\ Len(o.cache) <= CacheSize
    BY DEF CoreGood, CoreTypes
  <2>2. PICK s \in Seq(CacheEntry) : s = o.cache
    BY <2>1
  <2>3. 0 \in CoreValue \ {None}
    BY CoreAssumption DEF CoreValue, None
  <2>4. PICK x \in CacheEntry : x = [key |-> Digest, value |-> 0]
    BY <2>3 DEF CacheEntry
  <2>5. PICK t : t = Append(s, x)
    OBVIOUS
  <2>6. /\ t \in Seq(CacheEntry) /\ Len(t) = Len(s) + 1 /\ Len(s) \in Nat
        /\ ToSet(t) = ToSet(s) \cup {x}
    BY <2>5, AppendProperties, MembersAppend
  <2>7. PICK c : c = Trimmed(t)
    OBVIOUS
  <2>8. c \in Seq(CacheEntry) /\ Len(c) <= CacheSize /\ ToSet(c) \subseteq ToSet(t)
    <3>1. CASE Len(t) > CacheSize
      <4>1. c = Tail(t) /\ t # <<>>
        BY <2>6, <2>7, <3>1 DEF Trimmed
      <4>2. /\ c \in Seq(CacheEntry) /\ Len(c) = Len(t) - 1
            /\ \A i \in 1 .. Len(c) : c[i] = t[i + 1]
        BY <2>6, <4>1
      <4>3. ASSUME NEW i \in DOMAIN c PROVE c[i] \in ToSet(t)
        <5>1. i \in 1 .. Len(c) /\ i + 1 \in DOMAIN t
          BY <2>6, <4>2
        <5> QED
          BY <4>2, <5>1 DEF ToSet
      <4>4. ToSet(c) \subseteq ToSet(t)
        BY <4>3 DEF ToSet
      <4>5. Len(c) <= CacheSize
        BY <2>1, <2>2, <2>6, <4>2
      <4> QED
        BY <4>2, <4>4, <4>5
    <3>2. CASE ~ (Len(t) > CacheSize)
      <4>1. Len(t) <= CacheSize
        BY <2>6, <3>2, CoreAssumption
      <4> QED
        BY <2>6, <2>7, <3>2, <4>1 DEF Trimmed
    <3> QED
      BY <3>1, <3>2
  <2>9. p = [o EXCEPT !.cache = c]
    BY <1>2, <2>2, <2>4, <2>5, <2>7 DEF Recorded
  <2>10. p \in CoreTypes /\ p.cache = c /\ p.view = o.view /\ Backing(p) = Backing(o)
    BY <2>1, <2>8, <2>9, CacheChanged
  <2>11. ASSUME NEW e \in ToSet(p.cache), e.key \in K PROVE e.value = p.view[e.key]
    <3>1. e # x
      BY <2>4, <2>11, CoreAssumption
    <3>2. e \in ToSet(o.cache)
      BY <2>2, <2>6, <2>8, <2>10, <2>11, <3>1
    <3> QED
      BY <2>10, <2>11, <3>2 DEF CoreGood
  <2>12. CoreGood(p, K)
    BY <2>8, <2>10, <2>11 DEF CoreGood, CoreTypes
  <2> QED
    BY <2>10, <2>12
<1> QED
  BY <1>1, <1>2 DEF Merkelized

(* A transfer writes both accounts, also when they are one. *)
LEMMA TransferredKeeps ==
  ASSUME NEW o, NEW K \in SUBSET CoreKey, CoreGood(o, K),
         NEW k \in CoreKey, NEW l \in CoreKey, NEW v \in CoreAmount,
         Amount(o, k) >= v, Transferred(o, k, l, v).view[l] <= MaxBalance
  PROVE  LET c == Transferred(o, k, l, v)
         IN CoreGood(WriteStore(WriteStore(c, k, c.view[k]), l, c.view[l]), K \cup {k, l})
<1>1. PICK a \in 0 .. MaxBalance : a = Amount(o, k) - v
  <2>1. Amount(o, k) \in 0 .. MaxBalance /\ v \in 0 .. MaxBalance
    BY AmountTyped, AmountsAreValues
  <2>2. Amount(o, k) - v \in 0 .. MaxBalance
    BY <2>1, CoreAssumption
  <2> QED
    BY <2>2
<1>2. PICK debited : debited = [o EXCEPT !.view[k] = a]
  OBVIOUS
<1>3. a \in CoreValue
  BY AmountsAreValues
<1>4. CoreGood(debited, K \ {k}) /\ debited.view[k] = a
  <2>1. debited = WithView(o, k, a)
    BY <1>2 DEF WithView
  <2> QED
    BY <1>3, <2>1, ViewChanged
<1>5. PICK b : b = Amount(debited, l) + v
  OBVIOUS
<1>6. PICK c : c = [debited EXCEPT !.view[l] = b]
  OBVIOUS
<1>7. c = Transferred(o, k, l, v) /\ c.view[l] <= MaxBalance
  BY <1>1, <1>2, <1>5, <1>6 DEF Transferred
<1>8. c.view[l] = b
  <2>1. debited \in CoreTypes
    BY <1>4 DEF CoreGood, CoreTypes
  <2>2. debited.view \in [CoreKey -> CoreValue]
    BY <2>1 DEF CoreTypes, CoreRecords
  <2> QED
    BY <1>6, <2>1, <2>2 DEF CoreTypes
<1>9. b \in 0 .. MaxBalance
  <2>1. Amount(debited, l) \in 0 .. MaxBalance /\ v \in 0 .. MaxBalance
    BY <1>4, AmountTyped, AmountsAreValues
  <2>2. b <= MaxBalance
    BY <1>7, <1>8
  <2> QED
    BY <1>5, <2>1, <2>2, CoreAssumption
<1>10. PICK L \in SUBSET CoreKey : L = K \ {k}
  OBVIOUS
<1>11. PICK M \in SUBSET CoreKey : M = L \ {l}
  OBVIOUS
<1>12. c = WithView(debited, l, b) /\ b \in CoreValue /\ CoreGood(debited, L)
  BY <1>4, <1>6, <1>9, <1>10, AmountsAreValues DEF WithView
<1>13. CoreGood(c, M)
  <2>1. CoreGood(c, L \ {l})
    BY <1>12, ViewChanged
  <2> QED
    BY <1>11, <2>1
<1>14. c.view[k] # None /\ c.view[l] # None
  <2>1. CASE k = l
    BY <1>8, <1>9, <2>1, AmountsAreValues
  <2>2. CASE k # l
    <3>1. debited \in CoreTypes
      BY <1>12 DEF CoreGood, CoreTypes
    <3>2. k \in CoreKey \ {l}
      BY <2>2
    <3>3. c.view[k] = debited.view[k]
      BY <1>12, <3>1, <3>2, ViewElsewhere
    <3> QED
      BY <1>4, <1>8, <1>9, <3>3, AmountsAreValues
  <2> QED
    BY <2>1, <2>2
<1>15. PICK first : first = WriteStore(c, k, c.view[k])
  OBVIOUS
<1>16. CoreGood(first, M \cup {k}) /\ first.view = c.view /\ M \cup {k} \in SUBSET CoreKey
  BY <1>13, <1>15, <1>14, WriteStoreKeeps
<1>17. CoreGood(WriteStore(first, l, first.view[l]), (M \cup {k}) \cup {l})
  BY <1>16, <1>14, WriteStoreKeeps
<1>18. (M \cup {k}) \cup {l} = K \cup {k, l}
  BY <1>10, <1>11
<1> QED
  BY <1>7, <1>15, <1>16, <1>17, <1>18

(* One object put in the place of core. *)
LEMMA CoreMoves ==
  ASSUME CoreInv, NEW o, NEW K \in SUBSET CoreKey, CoreGood(o, coreKept \cup K),
         CoreBecomes(o, K)
  PROVE  CoreInv'
<1>1. core' = o /\ coreKept' = coreKept \cup K
  BY DEF CoreBecomes
<1>2. CoreGood(core', coreKept') /\ coreKept' \subseteq CoreKey
  BY <1>1 DEF CoreInv
<1> QED
  BY <1>2 DEF CoreInv, CoreGood, Backing

LEMMA TransferKeeps ==
  ASSUME CoreInv, NEW k \in CoreKey, NEW l \in CoreKey, NEW v \in CoreAmount, Transfer(k, l, v)
  PROVE  CoreInv'
<1>1. PICK o \in Merkelized(core) :
        LET credited == Transferred(o, k, l, v)
        IN /\ credited.view[l] <= MaxBalance
           /\ CoreBecomes(WriteStore(WriteStore(credited, k, credited.view[k]),
                                     l, credited.view[l]), {k, l})
  BY DEF Transfer
<1>2. CoreGood(o, coreKept) /\ o.view = core.view /\ coreKept \in SUBSET CoreKey
  BY RecordedKeeps DEF CoreInv
<1>3. Amount(o, k) >= v
  BY <1>2 DEF Transfer, Amount
<1>4. PICK c : c = Transferred(o, k, l, v)
  OBVIOUS
<1>5. PICK p : p = WriteStore(WriteStore(c, k, c.view[k]), l, c.view[l])
  OBVIOUS
<1>6. c.view[l] <= MaxBalance /\ CoreBecomes(p, {k, l})
  BY <1>1, <1>4, <1>5
<1>7. CoreGood(p, coreKept \cup {k, l})
  BY <1>2, <1>3, <1>4, <1>5, <1>6, TransferredKeeps
<1> QED
  BY <1>6, <1>7, CoreMoves

LEMMA CoreInvInit == CoreInit => CoreInv
<1> SUFFICES ASSUME CoreInit PROVE CoreInv
  OBVIOUS
<1>1. PICK class \in CoreClass :
        core = [class |-> class, view |-> [k \in CoreKey |-> None],
                own |-> [k \in CoreKey |-> None], db |-> [k \in CoreKey |-> None],
                attached |-> FALSE, cache |-> <<>>]
  BY DEF CoreInit
<1>2. [k \in CoreKey |-> None] \in CoreRecords
  BY DEF CoreRecords, CoreValue
<1>3. <<>> \in Seq(CacheEntry) /\ Len(<<>>) = 0 /\ ToSet(<<>>) = {}
  BY MembersEmpty
<1>4. core \in CoreTypes /\ core.cache = <<>>
  BY <1>1, <1>2, <1>3 DEF CoreTypes
<1>5. coreKept = {}
  BY DEF CoreInit
<1>6. Len(core.cache) <= CacheSize
  BY <1>3, <1>4, CoreAssumption
<1> QED
  BY <1>3, <1>4, <1>5, <1>6 DEF CoreInv, CoreGood, CoreTypes

LEMMA CoreAttachKeeps ==
  ASSUME CoreInv, CoreAttach
  PROVE  CoreInv'
<1>1. CoreGood(core, coreKept) /\ core' = [core EXCEPT !.attached = TRUE] /\ coreKept' = {}
  BY DEF CoreInv, CoreAttach
<1>2. /\ core' \in [class : CoreClass, view : CoreRecords, own : CoreRecords,
                    db : CoreRecords, attached : BOOLEAN, cache : Seq(CacheEntry)]
      /\ core'.cache = core.cache
  BY <1>1 DEF CoreGood
<1>3. Len(core'.cache) <= CacheSize
  BY <1>1, <1>2 DEF CoreGood
<1> QED
  BY <1>1, <1>2, <1>3 DEF CoreInv, CoreGood

LEMMA CoreEntryKeeps ==
  ASSUME CoreInv, NEW k \in CoreKey, NEW v \in CoreAmount \cup {None},
         NEW o \in Merkelized(core),
         CoreBecomes(IF v = None THEN Drop(o, k) ELSE Put(o, k, v), {k})
  PROVE  CoreInv'
<1>1. CoreGood(o, coreKept) /\ coreKept \in SUBSET CoreKey /\ {k} \in SUBSET CoreKey
  BY RecordedKeeps DEF CoreInv
<1>2. CASE v = None
  <2>1. CoreGood(Drop(o, k), coreKept \cup {k}) /\ CoreBecomes(Drop(o, k), {k})
    BY <1>1, <1>2, DropKeeps
  <2> QED
    BY <1>1, <2>1, CoreMoves
<1>3. CASE v # None
  <2>1. v \in CoreValue \ {None}
    BY <1>3, AmountsAreValues
  <2>2. CoreGood(Put(o, k, v), coreKept \cup {k}) /\ CoreBecomes(Put(o, k, v), {k})
    BY <1>1, <1>3, <2>1, PutKeeps
  <2> QED
    BY <1>1, <2>2, CoreMoves
<1> QED
  BY <1>2, <1>3

LEMMA CoreAmountKeeps ==
  ASSUME CoreInv, NEW k \in CoreKey, NEW v \in CoreAmount, Credit(k, v) \/ Debit(k, v)
  PROVE  CoreInv'
<1>1. CoreGood(core, coreKept) /\ coreKept \in SUBSET CoreKey /\ {k} \in SUBSET CoreKey
  BY DEF CoreInv
<1>2. Amount(core, k) \in 0 .. MaxBalance /\ v \in 0 .. MaxBalance
  BY <1>1, AmountTyped, AmountsAreValues
<1>3. PICK w \in 0 .. MaxBalance, o \in Merkelized(core) : CoreBecomes(Put(o, k, w), {k})
  <2>1. CASE Credit(k, v)
    <3>1. Amount(core, k) + v \in 0 .. MaxBalance
      BY <1>2, <2>1, CoreAssumption DEF Credit
    <3> QED
      BY <2>1, <3>1 DEF Credit
  <2>2. CASE Debit(k, v)
    <3>1. Amount(core, k) - v \in 0 .. MaxBalance
      BY <1>2, <2>2, CoreAssumption DEF Debit
    <3> QED
      BY <2>2, <3>1 DEF Debit
  <2> QED
    BY <2>1, <2>2
<1>4. w \in CoreValue \ {None}
  BY AmountsAreValues
<1>5. CoreGood(Put(o, k, w), coreKept \cup {k})
  <2>1. CoreGood(o, coreKept)
    BY <1>1, RecordedKeeps
  <2> QED
    BY <1>1, <1>4, <2>1, PutKeeps
<1> QED
  BY <1>1, <1>3, <1>5, CoreMoves

LEMMA CoreReadKeeps ==
  ASSUME CoreInv, NEW k \in CoreKey, CoreRead(k)
  PROVE  CoreInv'
<1>1. CoreGood(core, coreKept) /\ coreKept \in SUBSET CoreKey /\ {} \in SUBSET CoreKey
  BY DEF CoreInv
<1>2. CoreGood(Touch(core, k), coreKept)
  BY <1>1, TouchKeeps
<1>3. coreKept \cup {} = coreKept /\ CoreBecomes(Touch(core, k), {})
  BY DEF CoreRead
<1> QED
  BY <1>1, <1>2, <1>3, CoreMoves

(* The invariant: cache and store follow the view write for write.         *)
THEOREM CoreInvariant == CoreSpec => []CoreInv
<1>1. CoreInv /\ [CoreNext]_coreVars => CoreInv'
  <2> SUFFICES ASSUME CoreInv, [CoreNext]_coreVars PROVE CoreInv'
    OBVIOUS
  <2>1. CASE UNCHANGED coreVars
    BY <2>1 DEF coreVars, CoreInv, CoreGood, Backing
  <2>2. CASE CoreAttach
    BY <2>2, CoreAttachKeeps
  <2>3. ASSUME NEW k \in CoreKey, CoreRead(k) PROVE CoreInv'
    BY <2>3, CoreReadKeeps
  <2>4. ASSUME NEW k \in CoreKey, NEW v \in CoreAmount \cup {None},
               CacheAdd(k, v) \/ PoolAdd(k, v) \/ DocumentAdd(k, v) \/ UtxoAdd(k, v)
        PROVE  CoreInv'
    <3>1. core \in Merkelized(core)
      BY DEF Merkelized
    <3>2. \E o \in Merkelized(core) :
            CoreBecomes(IF v = None THEN Drop(o, k) ELSE Put(o, k, v), {k})
      BY <2>4, <3>1 DEF CacheAdd, PoolAdd, DocumentAdd, UtxoAdd
    <3> QED
      BY <3>2, CoreEntryKeeps
  <2>5. ASSUME NEW k \in CoreKey, NEW v \in CoreAmount, Credit(k, v) \/ Debit(k, v)
        PROVE  CoreInv'
    BY <2>5, CoreAmountKeeps
  <2>6. ASSUME NEW k \in CoreKey, NEW v \in CoreAmount, NEW l \in CoreKey, Transfer(k, l, v)
        PROVE  CoreInv'
    BY <2>6, TransferKeeps
  <2> QED
    BY <2>1, <2>2, <2>3, <2>4, <2>5, <2>6 DEF CoreNext
<1> QED
  BY <1>1, CoreInvInit, PTL DEF CoreSpec

(* Reading a record gives what the object's own view holds, whatever was   *)
(* evicted, deleted or written twice (_read_store of core_objects.py): the *)
(* cache is written through, and nobody else writes behind it.             *)
THEOREM StoreReadsBackHolds == CoreSpec => []StoreReadsBack
<1>1. CoreInv => StoreReadsBack
  <2> SUFFICES ASSUME CoreInv, NEW k \in coreKept PROVE ReadStore(core, k) = core.view[k]
    BY DEF StoreReadsBack
  <2>1. CoreGood(core, coreKept) /\ coreKept \in SUBSET CoreKey /\ k \in CoreKey
    BY DEF CoreInv
  <2> QED
    BY <2>1, ReadStoreValue
<1> QED
  BY <1>1, CoreInvariant, PTL

-----------------------------------------------------------------------------
(* A sum over places that are named one by one is the sum over the names.  *)
LEMMA SumNamed ==
  ASSUME NEW T, IsFiniteSet(T), NEW h, NEW f, NEW g,
         \A x, y \in T : h[x] = h[y] => x = y,
         \A x \in T : f[x] \in Int /\ g[h[x]] = f[x]
  PROVE  /\ IsFiniteSet({h[x] : x \in T})
         /\ SumOver(g, {h[x] : x \in T}) = SumOver(f, T)
<1>1. PICK P : P = {s \in SUBSET T : /\ IsFiniteSet({h[x] : x \in s})
                                     /\ SumOver(g, {h[x] : x \in s}) = SumOver(f, s)}
  OBVIOUS
<1>2. {} \in P
  <2>1. {h[x] : x \in {}} = {}
    OBVIOUS
  <2>2. SumOver(g, {}) = 0 /\ SumOver(f, {}) = 0 /\ IsFiniteSet({})
    BY SumEmpty, FS_EmptySet
  <2> QED
    BY <1>1, <2>1, <2>2
<1>3. ASSUME NEW s \in SUBSET T, s # {}, \A x \in s : s \ {x} \in P PROVE s \in P
  <2>1. PICK y \in s : TRUE
    BY <1>3
  <2>2. PICK A : A = {h[x] : x \in s \ {y}}
    OBVIOUS
  <2>3. IsFiniteSet(A) /\ SumOver(g, A) = SumOver(f, s \ {y})
    BY <1>1, <1>3, <2>2
  <2>4. h[y] \notin A /\ {h[x] : x \in s} = A \cup {h[y]}
    BY <2>2
  <2>5. g[h[y]] \in Int /\ \A x \in A : g[x] \in Int
    BY <2>2
  <2>6. SumOver(g, A \cup {h[y]}) = SumOver(g, A) + g[h[y]]
    BY <2>3, <2>4, <2>5, SumInsert
  <2>7. IsFiniteSet(s)
    BY FS_Subset
  <2>8. \A x \in s : f[x] \in Int
    OBVIOUS
  <2>9. /\ SumOver(f, s) = f[y] + SumOver(f, s \ {y})
        /\ SumOver(f, s \ {y}) \in Int
    BY <2>7, <2>8, SumRemove
  <2>10. IsFiniteSet(A \cup {h[y]})
    BY <2>3, FS_AddElement
  <2>11. g[h[y]] = f[y] /\ f[y] \in Int
    OBVIOUS
  <2>12. SumOver(g, A \cup {h[y]}) = SumOver(f, s)
    BY <2>3, <2>6, <2>9, <2>11
  <2>13. IsFiniteSet({h[x] : x \in s}) /\ SumOver(g, {h[x] : x \in s}) = SumOver(f, s)
    BY <2>4, <2>10, <2>12
  <2> QED
    BY <1>1, <2>13
<1>4. \A s \in SUBSET T : s \in P
  BY <1>2, <1>3, EverySubset
<1> QED
  BY <1>1, <1>4

(* The ledger of outputs.                                                  *)
Output == [owner : Owner, amount : Nat]

UtxoState(s) == IsFiniteSet(DOMAIN s) /\ s \in [DOMAIN s -> Output]

UtxoTx(tx) == /\ \E S : tx.inputs \in Seq(S)
              /\ tx.outputs \in Seq(Output) /\ tx.fee \in Nat

(* H has every id that was ever taken: what an output was made of is spent,*)
(* and a coinbase's supply was passed.                                     *)
UtxoHistory(H, s) ==
  /\ DOMAIN s \subseteq H
  /\ \A tx, i : <<"output", tx, i>> \in H => ToSet(tx.inputs) \subseteq H \ DOMAIN s
  /\ \A o, k : <<"coinbase", o, k>> \in H => k \in Int /\ k < TotalSupply(s)

LEMMA SumOfType ==
  ASSUME NEW s, UtxoState(s), NEW S \in SUBSET DOMAIN s
  PROVE  /\ SumOf(s, S) \in Nat /\ IsFiniteSet(S)
         /\ SumOf(s, DOMAIN s) = SumOf(s, S) + SumOf(s, DOMAIN s \ S)
<1>1. PICK D : D = DOMAIN s
  OBVIOUS
<1>2. PICK f : f = [u \in D |-> s[u].amount]
  OBVIOUS
<1>3. PICK g : g = [u \in S |-> s[u].amount]
  OBVIOUS
<1>4. PICK R : R = D \ S
  OBVIOUS
<1>5. PICK k : k = [u \in R |-> s[u].amount]
  OBVIOUS
<1>6. IsFiniteSet(D) /\ \A u \in D : f[u] \in Nat /\ f[u] \in Int
  BY <1>1, <1>2 DEF UtxoState, Output
<1>7. IsFiniteSet(S)
  BY <1>1, <1>6, FS_Subset
<1>8. IsFiniteSet(R)
  BY <1>4, <1>6, FS_Subset
<1>9. SumOver(f, S) \in Nat
  BY <1>1, <1>6, SumGrows
<1>10. SumOver(f, D) = SumOver(f, S) + SumOver(f, D \ S)
  BY <1>1, <1>6, SumParts
<1>11. \A u \in S : f[u] \in Int /\ g[u] = f[u]
  BY <1>1, <1>2, <1>3, <1>6
<1>12. SumOver(g, S) = SumOver(f, S)
  BY <1>7, <1>11, SumAgree
<1>13. \A u \in R : f[u] \in Int /\ k[u] = f[u]
  BY <1>2, <1>4, <1>5, <1>6
<1>14. SumOver(k, R) = SumOver(f, R)
  BY <1>8, <1>13, SumAgree
<1>15. SumOf(s, D) = SumOver(f, D) /\ SumOf(s, S) = SumOver(g, S) /\ SumOf(s, R) = SumOver(k, R)
  BY <1>2, <1>3, <1>5 DEF SumOf
<1> QED
  BY <1>1, <1>4, <1>7, <1>9, <1>10, <1>12, <1>14, <1>15

LEMMA SumOfAgree ==
  ASSUME NEW s, UtxoState(s), NEW S \in SUBSET DOMAIN s, NEW r, \A u \in S : r[u] = s[u]
  PROVE  SumOf(r, S) = SumOf(s, S)
<1>1. [u \in S |-> r[u].amount] = [u \in S |-> s[u].amount]
  OBVIOUS
<1> QED
  BY <1>1 DEF SumOf

(* New outputs under ids that are not taken add what they are worth.       *)
LEMMA WrittenAdds ==
  ASSUME NEW s, UtxoState(s), NEW new, UtxoState(new), DOMAIN s \cap DOMAIN new = {}
  PROVE  /\ UtxoState(Written(s, new))
         /\ DOMAIN Written(s, new) = DOMAIN s \cup DOMAIN new
         /\ TotalSupply(Written(s, new)) = TotalSupply(s) + TotalSupply(new)
<1>1. PICK r : r = Written(s, new)
  OBVIOUS
<1>2. PICK D, C : D = DOMAIN s /\ C = DOMAIN new
  OBVIOUS
<1>3. /\ DOMAIN r = D \cup C /\ (\A u \in C : r[u] = new[u]) /\ (\A u \in D : r[u] = s[u])
      /\ r \in [D \cup C -> Output]
  BY <1>1, <1>2 DEF Written, UtxoState
<1>4. IsFiniteSet(D \cup C)
  BY <1>2, FS_Union DEF UtxoState
<1>5. UtxoState(r)
  BY <1>3, <1>4 DEF UtxoState
<1>6. /\ SumOf(r, DOMAIN r) = SumOf(r, D) + SumOf(r, DOMAIN r \ D)
      /\ SumOf(r, D) \in Nat
  BY <1>3, <1>5, SumOfType
<1>7. DOMAIN r \ D = C
  BY <1>2, <1>3
<1>8. SumOf(r, D) = SumOf(s, D)
  BY <1>2, <1>3, SumOfAgree
<1>9. SumOf(r, C) = SumOf(new, C)
  BY <1>2, <1>3, SumOfAgree
<1> QED
  BY <1>1, <1>2, <1>3, <1>5, <1>6, <1>7, <1>8, <1>9 DEF TotalSupply

(* What a transaction creates is worth its outlay, less what is burned.    *)
LEMMA CreatedWorth ==
  ASSUME NEW tx, UtxoTx(tx), NEW owner \in Owner, NEW burn \in Nat, burn <= tx.fee
  PROVE  /\ UtxoState(Created(tx, owner, tx.fee - burn))
         /\ TotalSupply(Created(tx, owner, tx.fee - burn)) = Outlay(tx) - burn
         /\ Outlay(tx) \in Nat
<1>1. PICK tip : tip = tx.fee - burn /\ tip \in Nat
  BY DEF UtxoTx
<1>2. PICK N \in Nat : N = Len(tx.outputs) /\ DOMAIN tx.outputs = 1 .. N
  BY DEF UtxoTx
<1>3. PICK J : J = (1 .. N) \cup (IF tip = 0 THEN {} ELSE {0})
  OBVIOUS
<1>4. PICK h : h = [i \in J |-> <<"output", tx, i>>]
  OBVIOUS
<1>5. PICK c : c = Created(tx, owner, tip)
  OBVIOUS
<1>6. PICK C : C = {h[i] : i \in J}
  OBVIOUS
<1>7. C = {<<"output", tx, i>> : i \in J}
  BY <1>4, <1>6
<1>8. /\ \A i \in 1 .. N : tx.outputs[i] \in Output /\ i # 0
      /\ [owner |-> owner, amount |-> tip] \in Output
  <2>1. tx.outputs \in Seq(Output) /\ \A i \in 1 .. N : i # 0
    BY DEF UtxoTx
  <2>2. \A i \in 1 .. N : tx.outputs[i] \in Output
    BY <1>2, <2>1
  <2>3. [owner |-> owner, amount |-> tip] \in Output
    BY <1>1 DEF Output
  <2> QED
    BY <2>1, <2>2, <2>3
<1>9. c = [u \in C |-> IF u[3] = 0 THEN [owner |-> owner, amount |-> tip] ELSE tx.outputs[u[3]]]
  BY <1>2, <1>3, <1>5, <1>7 DEF Created
<1>10. \A i \in J : /\ h[i] \in C /\ h[i][3] = i
                     /\ c[h[i]] = IF i = 0 THEN [owner |-> owner, amount |-> tip] ELSE tx.outputs[i]
  BY <1>4, <1>6, <1>9
<1>11. \A u \in C : \E i \in J : u = h[i]
  BY <1>6
<1>12. ASSUME NEW i \in J PROVE c[h[i]] \in Output
  BY <1>3, <1>8, <1>10
<1>13. c \in [C -> Output] /\ DOMAIN c = C
  BY <1>9, <1>11, <1>12
<1>14. PICK f : f = [i \in J |-> c[h[i]].amount]
  OBVIOUS
<1>15. PICK g : g = [u \in C |-> c[u].amount]
  OBVIOUS
<1>16. \A i \in J : f[i] \in Nat /\ f[i] \in Int /\ g[h[i]] = f[i]
  BY <1>10, <1>12, <1>14, <1>15 DEF Output
<1>17. IsFiniteSet(1 .. N) /\ IsFiniteSet(J)
  <2>1. IsFiniteSet(1 .. N)
    BY FS_Interval
  <2>2. IsFiniteSet((1 .. N) \cup {0})
    BY <2>1, FS_AddElement
  <2> QED
    BY <1>3, <2>1, <2>2
<1>18. \A x, y \in J : h[x] = h[y] => x = y
  BY <1>10
<1>19. IsFiniteSet(C) /\ SumOver(g, C) = SumOver(f, J)
  <2>1. \A i \in J : f[i] \in Int /\ g[h[i]] = f[i]
    BY <1>16
  <2> QED
    BY <1>6, <1>17, <1>18, <2>1, SumNamed
<1>20. UtxoState(c)
  BY <1>13, <1>19 DEF UtxoState
<1>21. PICK o : o = [i \in 1 .. N |-> tx.outputs[i].amount]
  OBVIOUS
<1>22. \A i \in 1 .. N : o[i] \in Nat /\ o[i] \in Int /\ f[i] = o[i]
  BY <1>3, <1>8, <1>10, <1>14, <1>21 DEF Output
<1>23. SumOver(o, 1 .. N) \in Nat
  BY <1>17, <1>22, SumGrows
<1>24. SumOver(f, 1 .. N) = SumOver(o, 1 .. N)
  BY <1>17, <1>22, SumAgree
<1>25. SumOver(f, J) = SumOver(o, 1 .. N) + tip
  <2>1. CASE tip = 0
    <3>1. J = 1 .. N
      BY <1>3, <2>1
    <3> QED
      BY <1>23, <1>24, <2>1, <3>1
  <2>2. CASE tip # 0
    <3>1. J = (1 .. N) \cup {0} /\ 0 \notin 1 .. N
      BY <1>3, <2>2
    <3>2. f[0] = tip /\ f[0] \in Int /\ \A i \in 1 .. N : f[i] \in Int
      <4>1. 0 \in J
        BY <3>1
      <4>2. c[h[0]] = [owner |-> owner, amount |-> tip]
        BY <1>10, <4>1
      <4>3. f[0] = c[h[0]].amount
        BY <1>14, <4>1
      <4>4. f[0] = tip
        BY <4>2, <4>3
      <4> QED
        BY <1>1, <1>22, <4>4
    <3>3. SumOver(f, (1 .. N) \cup {0}) = SumOver(f, 1 .. N) + f[0]
      BY <1>17, <3>1, <3>2, SumInsert
    <3> QED
      BY <1>24, <3>1, <3>2, <3>3
  <2> QED
    BY <2>1, <2>2
<1>26. Outlay(tx) = tx.fee + SumOver(o, 1 .. N)
  BY <1>2, <1>21 DEF Outlay, SumOf
<1>27. TotalSupply(c) = SumOver(g, C)
  BY <1>13, <1>15 DEF TotalSupply, SumOf
<1>28. Outlay(tx) \in Nat /\ TotalSupply(c) = Outlay(tx) - burn
  BY <1>1, <1>19, <1>23, <1>25, <1>26, <1>27 DEF UtxoTx
<1> QED
  BY <1>1, <1>5, <1>20, <1>28

(* What a transaction leaves of the outputs.                               *)
Left(tx, s) == [u \in DOMAIN s \ ToSet(tx.inputs) |-> s[u]]

LEMMA LeftWorth ==
  ASSUME NEW s, UtxoState(s), NEW tx, ToSet(tx.inputs) \subseteq DOMAIN s
  PROVE  /\ UtxoState(Left(tx, s)) /\ DOMAIN Left(tx, s) = DOMAIN s \ ToSet(tx.inputs)
         /\ TotalSupply(s) = SumOf(s, ToSet(tx.inputs)) + TotalSupply(Left(tx, s))
         /\ TotalSupply(Left(tx, s)) \in Nat /\ TotalSupply(s) \in Nat
         /\ SumOf(s, ToSet(tx.inputs)) \in Nat
<1>1. PICK I : I = ToSet(tx.inputs) /\ I \in SUBSET DOMAIN s
  OBVIOUS
<1>2. PICK R : R = DOMAIN s \ I /\ R \in SUBSET DOMAIN s
  OBVIOUS
<1>3. PICK l : l = Left(tx, s)
  OBVIOUS
<1>4. l = [u \in R |-> s[u]]
  BY <1>1, <1>2, <1>3 DEF Left
<1>5. DOMAIN l = R /\ (\A u \in R : l[u] = s[u]) /\ l \in [R -> Output]
  BY <1>2, <1>4 DEF UtxoState
<1>6. /\ SumOf(s, DOMAIN s) = SumOf(s, I) + SumOf(s, DOMAIN s \ I)
      /\ SumOf(s, I) \in Nat
  BY <1>1, SumOfType
<1>7. SumOf(s, R) \in Nat /\ IsFiniteSet(R)
  BY <1>2, SumOfType
<1>8. SumOf(l, R) = SumOf(s, R)
  BY <1>2, <1>5, SumOfAgree
<1>9. UtxoState(l)
  BY <1>5, <1>7 DEF UtxoState
<1> QED
  BY <1>1, <1>2, <1>3, <1>5, <1>6, <1>7, <1>8, <1>9 DEF TotalSupply

(* A transaction that is applied leaves outputs, whatever is burned.       *)
LEMMA AppliedTyped ==
  ASSUME NEW s, UtxoState(s), NEW tx, UtxoTx(tx), UtxoValid(tx, s),
         NEW owner \in Owner, NEW burn \in Nat, burn <= tx.fee
  PROVE  UtxoState(UtxoApply(tx, s, owner, burn))
<1>1. PICK l, c : l = Left(tx, s) /\ c = Created(tx, owner, tx.fee - burn)
  OBVIOUS
<1>2. UtxoState(c)
  BY <1>1, CreatedWorth
<1>3. UtxoState(l)
  BY <1>1, LeftWorth DEF UtxoValid
<1>4. UtxoApply(tx, s, owner, burn) = Written(l, c)
  BY <1>1 DEF UtxoApply, Left
<1>5. IsFiniteSet(DOMAIN l \cup DOMAIN c)
  BY <1>2, <1>3, FS_Union DEF UtxoState
<1> QED
  BY <1>2, <1>3, <1>4, <1>5 DEF UtxoState, Written

(* Where nothing is burned it moves what there is, under ids never taken.  *)
LEMMA AppliedWorth ==
  ASSUME NEW s, UtxoState(s), NEW tx, UtxoTx(tx), UtxoValid(tx, s), NEW owner \in Owner,
         NEW H, UtxoHistory(H, s)
  PROVE  /\ TotalSupply(UtxoApply(tx, s, owner, 0)) = TotalSupply(s)
         /\ \E G : UtxoHistory(G, UtxoApply(tx, s, owner, 0))
<1>1. PICK l, c : l = Left(tx, s) /\ c = Created(tx, owner, tx.fee - 0)
  OBVIOUS
<1>2. tx.fee \in Nat /\ 0 <= tx.fee /\ 0 \in Nat
  BY DEF UtxoTx
<1>3. UtxoState(c) /\ TotalSupply(c) = Outlay(tx) - 0 /\ Outlay(tx) \in Nat
  BY <1>1, <1>2, CreatedWorth
<1>4. PICK I : I = ToSet(tx.inputs)
  OBVIOUS
<1>5. I \subseteq DOMAIN s /\ SumOf(s, I) = Outlay(tx)
  BY <1>4 DEF UtxoValid
<1>6. /\ UtxoState(l) /\ DOMAIN l = DOMAIN s \ I
      /\ TotalSupply(s) = SumOf(s, I) + TotalSupply(l)
      /\ TotalSupply(l) \in Nat
  BY <1>1, <1>4, <1>5, LeftWorth
<1>7. I # {}
  <2>1. PICK S : tx.inputs \in Seq(S) /\ tx.inputs # <<>>
    BY DEF UtxoTx, UtxoValid
  <2>2. 1 \in DOMAIN tx.inputs
    BY <2>1
  <2> QED
    BY <1>4, <2>2 DEF ToSet
<1>8. \A u \in DOMAIN c : \E i : u = <<"output", tx, i>>
  BY <1>1 DEF Created
<1>9. \A i : <<"output", tx, i>> \notin H
  BY <1>4, <1>5, <1>7 DEF UtxoHistory
<1>10. H \cap DOMAIN c = {}
  BY <1>8, <1>9
<1>11. DOMAIN l \cap DOMAIN c = {}
  BY <1>6, <1>10 DEF UtxoHistory
<1>12. PICK r : r = UtxoApply(tx, s, owner, 0)
  OBVIOUS
<1>13. r = Written(l, c)
  BY <1>1, <1>12 DEF UtxoApply, Left
<1>14. /\ DOMAIN r = DOMAIN l \cup DOMAIN c
       /\ TotalSupply(r) = TotalSupply(l) + TotalSupply(c)
  BY <1>3, <1>6, <1>11, <1>13, WrittenAdds
<1>15. TotalSupply(r) = TotalSupply(s)
  BY <1>3, <1>5, <1>6, <1>14
<1>16. PICK G : G = H \cup DOMAIN c
  OBVIOUS
<1>17. UtxoHistory(G, r)
  <2>1. DOMAIN r \subseteq G
    BY <1>6, <1>14, <1>16 DEF UtxoHistory
  <2>2. ASSUME NEW x, NEW i, <<"output", x, i>> \in G PROVE ToSet(x.inputs) \subseteq G \ DOMAIN r
    <3>1. CASE <<"output", x, i>> \in H
      <4>1. ToSet(x.inputs) \subseteq H \ DOMAIN s
        BY <3>1 DEF UtxoHistory
      <4> QED
        BY <1>6, <1>10, <1>14, <1>16, <4>1
    <3>2. CASE <<"output", x, i>> \in DOMAIN c
      <4>1. PICK j : <<"output", x, i>> = <<"output", tx, j>>
        BY <1>8, <3>2
      <4>2. x = tx
        BY <4>1
      <4>3. I \subseteq H
        BY <1>5 DEF UtxoHistory
      <4> QED
        BY <1>4, <1>6, <1>10, <1>14, <1>16, <4>2, <4>3
    <3> QED
      BY <1>16, <2>2, <3>1, <3>2
  <2>3. ASSUME NEW o, NEW k, <<"coinbase", o, k>> \in G PROVE k \in Int /\ k < TotalSupply(r)
    <3>1. <<"coinbase", o, k>> \notin DOMAIN c
      BY <1>8
    <3> QED
      BY <1>15, <1>16, <2>3, <3>1 DEF UtxoHistory
  <2> QED
    BY <2>1, <2>2, <2>3 DEF UtxoHistory
<1> QED
  BY <1>12, <1>15, <1>17

(* The coinbase adds the reward, under an id of its own.                   *)
LEMMA CoinbaseTyped ==
  ASSUME NEW s, UtxoState(s), NEW owner \in Owner, NEW reward \in Nat
  PROVE  UtxoState(UtxoCoinbase(s, owner, reward))
<1>1. PICK id : id = <<"coinbase", owner, TotalSupply(s)>>
  OBVIOUS
<1>2. PICK c : c = [u \in {id} |-> [owner |-> owner, amount |-> reward]]
  OBVIOUS
<1>3. c \in [{id} -> Output] /\ UtxoCoinbase(s, owner, reward) = Written(s, c)
  BY <1>1, <1>2 DEF Output, UtxoCoinbase
<1>4. IsFiniteSet(DOMAIN s \cup {id})
  BY FS_AddElement DEF UtxoState
<1> QED
  BY <1>3, <1>4 DEF UtxoState, Written

LEMMA CoinbaseWorth ==
  ASSUME NEW s, UtxoState(s), NEW owner \in Owner, NEW reward \in Nat \ {0},
         NEW H, UtxoHistory(H, s)
  PROVE  /\ TotalSupply(UtxoCoinbase(s, owner, reward)) = TotalSupply(s) + reward
         /\ TotalSupply(s) \in Nat
         /\ \E G : UtxoHistory(G, UtxoCoinbase(s, owner, reward))
<1>1. PICK id : id = <<"coinbase", owner, TotalSupply(s)>>
  OBVIOUS
<1>2. PICK c : c = [u \in {id} |-> [owner |-> owner, amount |-> reward]]
  OBVIOUS
<1>3. PICK r : r = UtxoCoinbase(s, owner, reward)
  OBVIOUS
<1>4. /\ c \in [{id} -> Output] /\ r = Written(s, c)
      /\ DOMAIN c = {id} /\ c[id].amount = reward
  BY <1>1, <1>2, <1>3 DEF Output, UtxoCoinbase
<1>5. TotalSupply(s) \in Nat
  BY SumOfType DEF TotalSupply
<1>6. id \notin H
  BY <1>1, <1>5 DEF UtxoHistory
<1>7. UtxoState(c)
  BY <1>4, FS_Singleton DEF UtxoState
<1>8. TotalSupply(c) = reward
  <2>1. PICK f : f = [u \in {id} |-> c[u].amount]
    OBVIOUS
  <2>2. f[id] = reward /\ f[id] \in Int /\ id \notin {} /\ \A u \in {} : f[u] \in Int
    BY <1>4, <2>1
  <2>3. SumOver(f, {} \cup {id}) = SumOver(f, {}) + f[id]
    BY <2>2, FS_EmptySet, SumInsert
  <2>4. SumOver(f, {}) = 0 /\ {} \cup {id} = {id}
    BY SumEmpty
  <2>5. TotalSupply(c) = SumOver(f, {id})
    BY <1>4, <2>1 DEF TotalSupply, SumOf
  <2> QED
    BY <2>2, <2>3, <2>4, <2>5
<1>9. DOMAIN s \cap DOMAIN c = {}
  BY <1>4, <1>6 DEF UtxoHistory
<1>10. /\ DOMAIN r = DOMAIN s \cup {id}
       /\ TotalSupply(r) = TotalSupply(s) + reward
  BY <1>4, <1>7, <1>8, <1>9, WrittenAdds
<1>11. PICK G : G = H \cup {id}
  OBVIOUS
<1>12. UtxoHistory(G, r)
  <2>1. DOMAIN r \subseteq G
    BY <1>10, <1>11 DEF UtxoHistory
  <2>2. ASSUME NEW x, NEW i, <<"output", x, i>> \in G PROVE ToSet(x.inputs) \subseteq G \ DOMAIN r
    <3>1. <<"output", x, i>> \in H
      BY <1>1, <1>11, <2>2
    <3>2. ToSet(x.inputs) \subseteq H \ DOMAIN s
      BY <3>1 DEF UtxoHistory
    <3> QED
      BY <1>6, <1>10, <1>11, <3>2
  <2>3. ASSUME NEW o, NEW k, <<"coinbase", o, k>> \in G PROVE k \in Int /\ k < TotalSupply(r)
    <3>1. CASE <<"coinbase", o, k>> \in H
      BY <1>5, <1>10, <3>1 DEF UtxoHistory
    <3>2. CASE <<"coinbase", o, k>> = id
      <4>1. k = TotalSupply(s)
        BY <1>1, <3>2
      <4> QED
        BY <1>5, <1>10, <4>1
    <3> QED
      BY <1>11, <2>3, <3>1, <3>2
  <2> QED
    BY <2>1, <2>2, <2>3 DEF UtxoHistory
<1> QED
  BY <1>3, <1>5, <1>10, <1>12

(* The states a block passes through are what UtxoAfter says they are.     *)
Passes(a, state, txs, burn) ==
  /\ a[0] = state
  /\ \A i \in 1 .. Len(txs) : a[i] = UtxoApply(txs[i], a[i - 1], UtxoMiner, burn)

LEMMA AfterPasses ==
  ASSUME NEW state, NEW txs, Len(txs) \in Nat, NEW burn
  PROVE  Passes(UtxoAfter(state, txs, burn), state, txs, burn)
<1>1. PICK N \in Nat : N = Len(txs)
  OBVIOUS
<1>2. PICK P : P = {n \in 0 .. N : \E f :
               f = [i \in 0 .. n |-> IF i = 0 THEN state
                                     ELSE UtxoApply(txs[i], f[i - 1], UtxoMiner, burn)]}
  OBVIOUS
<1>3. 0 \in P
  <2>1. PICK f : f = [i \in 0 .. 0 |-> state]
    OBVIOUS
  <2>2. f = [i \in 0 .. 0 |-> IF i = 0 THEN state
                               ELSE UtxoApply(txs[i], f[i - 1], UtxoMiner, burn)]
    BY <2>1
  <2> QED
    BY <1>2, <2>2
<1>4. ASSUME NEW n \in 1 .. N, n - 1 \in P PROVE n \in P
  <2>1. PICK f : f = [i \in 0 .. n - 1 |-> IF i = 0 THEN state
                        ELSE UtxoApply(txs[i], f[i - 1], UtxoMiner, burn)]
    BY <1>2, <1>4
  <2>2. PICK last : last = UtxoApply(txs[n], f[n - 1], UtxoMiner, burn)
    OBVIOUS
  <2>3. PICK g : g = [i \in 0 .. n |-> IF i = n THEN last ELSE f[i]]
    OBVIOUS
  <2>4. ASSUME NEW i \in 0 .. n
        PROVE  g[i] = IF i = 0 THEN state ELSE UtxoApply(txs[i], g[i - 1], UtxoMiner, burn)
    <3>1. CASE i = 0
      <4>1. 0 \in 0 .. n - 1 /\ i # n
        BY <3>1
      <4>2. f[0] = state
        BY <2>1, <4>1
      <4> QED
        BY <2>3, <3>1, <4>1, <4>2
    <3>2. CASE i # 0 /\ i # n
      <4>1. i \in 0 .. n - 1 /\ i - 1 \in 0 .. n /\ i - 1 # n
        BY <3>2
      <4>2. f[i] = UtxoApply(txs[i], f[i - 1], UtxoMiner, burn)
        BY <2>1, <3>2, <4>1
      <4>3. g[i - 1] = f[i - 1] /\ g[i] = f[i]
        BY <2>3, <3>2, <4>1
      <4> QED
        BY <3>2, <4>2, <4>3
    <3>3. CASE i = n
      <4>1. n - 1 \in 0 .. n /\ n - 1 # n /\ n # 0
        OBVIOUS
      <4>2. g[n - 1] = f[n - 1] /\ g[n] = last
        BY <2>3, <4>1
      <4> QED
        BY <2>2, <3>3, <4>1, <4>2
    <3> QED
      BY <3>1, <3>2, <3>3
  <2>5. g = [i \in 0 .. n |-> IF i = 0 THEN state
                               ELSE UtxoApply(txs[i], g[i - 1], UtxoMiner, burn)]
    BY <2>3, <2>4
  <2>6. n \in 0 .. N
    OBVIOUS
  <2> QED
    BY <1>2, <2>5, <2>6
<1>5. \A n \in 0 .. N : n \in P
  BY <1>3, <1>4, EveryPosition
<1>6. N \in P
  BY <1>5
<1>7. PICK f : f = [i \in 0 .. N |-> IF i = 0 THEN state
                                     ELSE UtxoApply(txs[i], f[i - 1], UtxoMiner, burn)]
  BY <1>2, <1>6
<1>8. PICK a : a = CHOOSE g : g = [i \in 0 .. N |->
                 IF i = 0 THEN state ELSE UtxoApply(txs[i], g[i - 1], UtxoMiner, burn)]
  OBVIOUS
<1>9. a = [i \in 0 .. N |->
                 IF i = 0 THEN state ELSE UtxoApply(txs[i], a[i - 1], UtxoMiner, burn)]
  BY <1>7, <1>8
<1>10. UtxoAfter(state, txs, burn) = a
  BY <1>1, <1>8 DEF UtxoAfter
<1>11. a[0] = state
  BY <1>9
<1>12. ASSUME NEW i \in 1 .. N PROVE a[i] = UtxoApply(txs[i], a[i - 1], UtxoMiner, burn)
  <2>1. i \in 0 .. N /\ i # 0
    OBVIOUS
  <2> QED
    BY <1>9, <2>1
<1> QED
  BY <1>1, <1>10, <1>11, <1>12 DEF Passes

(* What a wallet pays is a transaction.                                    *)
LEMMA SpendTyped ==
  ASSUME NEW s, UtxoAssumption, UtxoState(s), NEW inputs \in Purses(s), NEW o \in Owner,
         NEW f \in UtxoFee, f <= Worth(s, inputs)
  PROVE  UtxoTx(Spend(inputs, o, f, s))
<1>1. PICK D : D = DOMAIN s
  OBVIOUS
<1>2. PICK n \in {1, 2} : inputs \in [1 .. n -> D]
  BY <1>1 DEF Purses
<1>3. PICK w : w = Worth(s, inputs)
  OBVIOUS
<1>4. PICK tx : tx = Spend(inputs, o, f, s)
  OBVIOUS
<1>5. inputs \in Seq(D) /\ \A i \in DOMAIN inputs : inputs[i] \in D
  BY <1>2
<1>6. PICK I : I = DOMAIN inputs
  OBVIOUS
<1>7. IsFiniteSet(I)
  <2>1. I = 1 .. Len(inputs) /\ Len(inputs) \in Nat
    BY <1>5, <1>6
  <2> QED
    BY <2>1, FS_Interval
<1>8. PICK a : a = [i \in I |-> s[inputs[i]].amount]
  OBVIOUS
<1>9. \A i \in I : a[i] \in Nat
  <2>1. ASSUME NEW i \in I PROVE a[i] \in Nat
    <3>1. s[inputs[i]] \in Output
      BY <1>1, <1>5, <1>6 DEF UtxoState
    <3> QED
      BY <1>8, <3>1 DEF Output
  <2> QED
    BY <2>1
<1>10. SumOver(a, I) \in Nat
  BY <1>7, <1>9, SumGrows
<1>11. w \in Nat
  BY <1>3, <1>6, <1>8, <1>10 DEF Worth
<1>12. f \in Nat /\ w - f \in Nat
  BY <1>3, <1>11 DEF UtxoAssumption
<1>13. [owner |-> o, amount |-> w - f] \in Output
  BY <1>12 DEF Output
<1>14. tx.inputs = inputs /\ tx.fee = f /\ tx.outputs = <<[owner |-> o, amount |-> w - f]>>
  BY <1>3, <1>4 DEF Spend
<1>15. tx.outputs \in Seq(Output)
  BY <1>13, <1>14
<1> QED
  BY <1>4, <1>5, <1>12, <1>14, <1>15 DEF UtxoTx

(* The invariant: outputs and owners are typed; where nothing is burned    *)
(* the ids that were taken are explained and the outputs are accounted for.*)
UtxoInv ==
  /\ UtxoState(utxos)
  /\ utxoBurned \in Nat /\ utxoBurn \in UtxoBurn /\ utxoBlocks \in 0 .. MaxUtxoBlocks
  /\ utxoBurn = 0 => utxoBurned = 0 /\ Accounted /\ \E H : UtxoHistory(H, utxos)

LEMMA UtxoStarts == ASSUME UtxoAssumption, UtxoInit PROVE UtxoInv
<1>1. PICK h : h = [o \in Owner |-> <<"genesis", o, 0>>]
  OBVIOUS
<1>2. PICK D : D = {h[o] : o \in Owner}
  OBVIOUS
<1>3. D = {<<"genesis", o, 0>> : o \in Owner}
  BY <1>1, <1>2
<1>4. utxos = [u \in D |-> [owner |-> u[2], amount |-> UtxoGenesis[u[2]]]]
  BY <1>3 DEF UtxoInit
<1>5. PICK g : g = [u \in D |-> utxos[u].amount]
  OBVIOUS
<1>6. ASSUME NEW o \in Owner
      PROVE  h[o] \in D /\ h[o][2] = o /\ utxos[h[o]] = [owner |-> o, amount |-> UtxoGenesis[o]]
  <2>1. h[o] \in D /\ h[o][2] = o
    BY <1>1, <1>2
  <2> QED
    BY <1>4, <2>1
<1>7. \A o \in Owner : UtxoGenesis[o] \in Nat
  BY DEF UtxoAssumption
<1>8. ASSUME NEW o \in Owner
      PROVE  UtxoGenesis[o] \in Int /\ g[h[o]] = UtxoGenesis[o] /\ utxos[h[o]] \in Output
  <2>1. h[o] \in D /\ utxos[h[o]] = [owner |-> o, amount |-> UtxoGenesis[o]]
    BY <1>6
  <2>2. UtxoGenesis[o] \in Nat
    BY <1>7
  <2>3. g[h[o]] = utxos[h[o]].amount
    BY <1>5, <2>1
  <2>4. utxos[h[o]] \in Output
    BY <2>1, <2>2 DEF Output
  <2>5. g[h[o]] = UtxoGenesis[o]
    BY <2>1, <2>3
  <2> QED
    BY <2>2, <2>4, <2>5
<1>9. \A x, y \in Owner : h[x] = h[y] => x = y
  BY <1>6
<1>10. IsFiniteSet(Owner)
  BY DEF UtxoAssumption
<1>11. IsFiniteSet(D) /\ SumOver(g, D) = SumOver(UtxoGenesis, Owner)
  <2>1. \A o \in Owner : UtxoGenesis[o] \in Int /\ g[h[o]] = UtxoGenesis[o]
    BY <1>8
  <2> QED
    BY <1>2, <1>9, <1>10, <2>1, SumNamed
<1>12. \A u \in D : utxos[u] \in Output
  BY <1>2, <1>8
<1>13. DOMAIN utxos = D /\ utxos \in [D -> Output]
  BY <1>4, <1>12
<1>14. UtxoState(utxos)
  BY <1>11, <1>13 DEF UtxoState
<1>15. TotalSupply(utxos) = SumOver(g, D)
  BY <1>5, <1>13 DEF TotalSupply, SumOf
<1>16. SumOver(UtxoGenesis, Owner) \in Nat
  BY <1>7, <1>10, SumGrows
<1>17. /\ utxoBurned = 0 /\ utxoBlocks = 0 /\ utxoBurn \in UtxoBurn
       /\ UtxoReward \in Nat /\ MaxUtxoBlocks \in Nat
  BY DEF UtxoInit, UtxoAssumption
<1>18. UtxoReward * 0 = 0
  BY <1>17
<1>19. Accounted
  BY <1>11, <1>15, <1>16, <1>17, <1>18 DEF Accounted
<1>20. UtxoHistory(D, utxos)
  <2>1. ASSUME NEW x, NEW i, <<"output", x, i>> \in D PROVE FALSE
    BY <1>3, <2>1
  <2>2. ASSUME NEW o, NEW k, <<"coinbase", o, k>> \in D PROVE FALSE
    BY <1>3, <2>2
  <2> QED
    BY <1>13, <2>1, <2>2 DEF UtxoHistory
<1> QED
  BY <1>14, <1>17, <1>19, <1>20 DEF UtxoInv

(* A block of any transactions that are valid where it applies them.       *)
LEMMA UtxoBlockKeeps ==
  ASSUME UtxoAssumption, UtxoInv, NEW txs, Len(txs) \in Nat,
         DOMAIN txs = 1 .. Len(txs), \A i \in DOMAIN txs : UtxoTx(txs[i]), UtxoBlock(txs)
  PROVE  UtxoInv'
<1>1. PICK N \in Nat : N = Len(txs) /\ DOMAIN txs = 1 .. N
  OBVIOUS
<1>2. PICK a : a = UtxoAfter(utxos, txs, utxoBurn)
  OBVIOUS
<1>3. Passes(a, utxos, txs, utxoBurn)
  BY <1>2, AfterPasses
<1>4. /\ utxoBlocks < MaxUtxoBlocks
      /\ \A i \in DOMAIN txs : txs[i].fee >= utxoBurn /\ UtxoValid(txs[i], a[i - 1])
      /\ utxos' = UtxoCoinbase(a[N], UtxoMiner, UtxoReward)
      /\ utxoBurned' = utxoBurned + utxoBurn * N
      /\ utxoBlocks' = utxoBlocks + 1 /\ utxoBurn' = utxoBurn
  BY <1>1, <1>2 DEF UtxoBlock
<1>5. /\ UtxoState(utxos) /\ utxoBurned \in Nat /\ utxoBurn \in Nat /\ utxoBurn \in UtxoBurn
      /\ utxoBlocks \in 0 .. MaxUtxoBlocks /\ MaxUtxoBlocks \in Nat
      /\ UtxoReward \in Nat \ {0} /\ UtxoMiner \in Owner
  BY DEF UtxoInv, UtxoAssumption
<1>6. \A i \in 1 .. N : /\ a[i] = UtxoApply(txs[i], a[i - 1], UtxoMiner, utxoBurn)
                        /\ UtxoTx(txs[i]) /\ UtxoValid(txs[i], a[i - 1])
                        /\ utxoBurn <= txs[i].fee
  <2>1. ASSUME NEW i \in 1 .. N
        PROVE  /\ a[i] = UtxoApply(txs[i], a[i - 1], UtxoMiner, utxoBurn)
               /\ UtxoTx(txs[i]) /\ UtxoValid(txs[i], a[i - 1])
               /\ utxoBurn <= txs[i].fee
    <3>1. a[i] = UtxoApply(txs[i], a[i - 1], UtxoMiner, utxoBurn)
      BY <1>1, <1>3 DEF Passes
    <3>2. UtxoTx(txs[i]) /\ UtxoValid(txs[i], a[i - 1]) /\ txs[i].fee >= utxoBurn
      BY <1>1, <1>4
    <3>3. txs[i].fee \in Nat
      BY <3>2 DEF UtxoTx
    <3> QED
      BY <1>5, <3>1, <3>2, <3>3
  <2> QED
    BY <2>1
<1>7. a[0] = utxos
  BY <1>3 DEF Passes
<1>8. PICK P : P = {i \in 0 .. N : UtxoState(a[i])}
  OBVIOUS
<1>9. 0 \in P
  BY <1>5, <1>7, <1>8
<1>10. ASSUME NEW i \in 1 .. N, i - 1 \in P PROVE i \in P
  <2>1. UtxoState(a[i - 1])
    BY <1>8, <1>10
  <2>2. UtxoState(UtxoApply(txs[i], a[i - 1], UtxoMiner, utxoBurn))
    BY <1>5, <1>6, <2>1, AppliedTyped
  <2> QED
    BY <1>6, <1>8, <2>2
<1>11. \A i \in 0 .. N : i \in P
  BY <1>9, <1>10, EveryPosition
<1>12. \A i \in 0 .. N : UtxoState(a[i])
  BY <1>8, <1>11
<1>13. UtxoState(a[N]) /\ N \in 0 .. N
  BY <1>12
<1>14. UtxoState(utxos')
  BY <1>4, <1>5, <1>13, CoinbaseTyped
<1>15. /\ utxoBurn * N \in Nat /\ utxoBurned' \in Nat /\ utxoBlocks' \in 0 .. MaxUtxoBlocks
  <2>1. PICK m : m = utxoBurn * N /\ m \in Nat
    BY <1>5
  <2>2. utxoBurned' = utxoBurned + m
    BY <1>4, <2>1
  <2>3. utxoBurned \in Nat
    BY <1>5
  <2>4. utxoBurned' \in Nat
    BY <2>1, <2>2, <2>3
  <2>5. utxoBlocks' = utxoBlocks + 1 /\ utxoBlocks < MaxUtxoBlocks
    BY <1>4
  <2>6. utxoBlocks \in 0 .. MaxUtxoBlocks /\ MaxUtxoBlocks \in Nat
    BY <1>5
  <2>7. utxoBlocks' \in 0 .. MaxUtxoBlocks
    BY <2>5, <2>6
  <2> QED
    BY <2>1, <2>4, <2>7
<1>16. ASSUME utxoBurn = 0
       PROVE  utxoBurned' = 0 /\ Accounted' /\ \E H : UtxoHistory(H, utxos')
  <2>1. utxoBurned = 0 /\ Accounted /\ \E H : UtxoHistory(H, utxos)
    BY <1>16 DEF UtxoInv
  <2>2. PICK Q : Q = {i \in 0 .. N : /\ TotalSupply(a[i]) = TotalSupply(utxos)
                                     /\ \E H : UtxoHistory(H, a[i])}
    OBVIOUS
  <2>3. 0 \in Q
    BY <1>7, <2>1, <2>2
  <2>4. ASSUME NEW i \in 1 .. N, i - 1 \in Q PROVE i \in Q
    <3>1. PICK H : UtxoHistory(H, a[i - 1])
      BY <2>2, <2>4
    <3>2. TotalSupply(a[i - 1]) = TotalSupply(utxos)
      BY <2>2, <2>4
    <3>3. UtxoState(a[i - 1]) /\ UtxoTx(txs[i]) /\ UtxoValid(txs[i], a[i - 1])
      <4>1. i - 1 \in 0 .. N
        OBVIOUS
      <4> QED
        BY <1>6, <1>12, <4>1
    <3>4. /\ TotalSupply(UtxoApply(txs[i], a[i - 1], UtxoMiner, 0)) = TotalSupply(a[i - 1])
          /\ \E G : UtxoHistory(G, UtxoApply(txs[i], a[i - 1], UtxoMiner, 0))
      BY <1>5, <3>1, <3>3, AppliedWorth
    <3>5. a[i] = UtxoApply(txs[i], a[i - 1], UtxoMiner, 0) /\ i \in 0 .. N
      BY <1>6, <1>16
    <3> QED
      BY <2>2, <3>2, <3>4, <3>5
  <2>5. \A i \in 0 .. N : i \in Q
    BY <2>3, <2>4, EveryPosition
  <2>6. TotalSupply(a[N]) = TotalSupply(utxos) /\ \E H : UtxoHistory(H, a[N])
    BY <1>13, <2>2, <2>5
  <2>7. PICK H : UtxoHistory(H, a[N])
    BY <2>6
  <2>8. /\ TotalSupply(UtxoCoinbase(a[N], UtxoMiner, UtxoReward)) = TotalSupply(a[N]) + UtxoReward
        /\ TotalSupply(a[N]) \in Nat
        /\ \E G : UtxoHistory(G, UtxoCoinbase(a[N], UtxoMiner, UtxoReward))
    BY <1>5, <1>13, <2>7, CoinbaseWorth
  <2>9. /\ TotalSupply(utxos') = TotalSupply(utxos) + UtxoReward
        /\ TotalSupply(utxos) \in Nat
        /\ \E G : UtxoHistory(G, utxos')
    BY <1>4, <2>6, <2>8
  <2>10. utxoBurned' = 0
    BY <1>4, <1>16, <2>1
  <2>11. SumOver(UtxoGenesis, Owner) \in Nat
    <3>1. IsFiniteSet(Owner) /\ \A o \in Owner : UtxoGenesis[o] \in Nat
      BY DEF UtxoAssumption
    <3> QED
      BY <3>1, SumGrows
  <2>12. TotalSupply(utxos) = SumOver(UtxoGenesis, Owner) + UtxoReward * utxoBlocks
    BY <2>1, <2>9 DEF Accounted
  <2>13. /\ UtxoReward * (utxoBlocks + 1) = UtxoReward * utxoBlocks + UtxoReward
         /\ UtxoReward * utxoBlocks \in Nat
    <3>1. utxoBlocks \in Nat /\ UtxoReward \in Nat
      BY <1>5
    <3> QED
      BY <3>1
  <2>14. TotalSupply(utxos') + 0
           = SumOver(UtxoGenesis, Owner) + UtxoReward * (utxoBlocks + 1)
    BY <1>5, <2>9, <2>11, <2>12, <2>13
  <2>15. Accounted'
    BY <1>4, <2>10, <2>14 DEF Accounted, TotalSupply
  <2> QED
    BY <2>9, <2>10, <2>15
<1> QED
  BY <1>4, <1>5, <1>14, <1>15, <1>16 DEF UtxoInv

LEMMA UtxoSteps == ASSUME UtxoAssumption, UtxoInv, [UtxoNext]_utxoVars PROVE UtxoInv'
<1>1. CASE UtxoBlock(<<>>)
  <2>1. Len(<<>>) = 0 /\ DOMAIN <<>> = 1 .. Len(<<>>) /\ \A i \in DOMAIN <<>> : UtxoTx(<<>>[i])
    OBVIOUS
  <2> QED
    BY <1>1, <2>1, UtxoBlockKeeps
<1>2. ASSUME NEW inputs \in Purses(utxos), NEW o \in Owner, NEW f \in UtxoFee,
             f <= Worth(utxos, inputs), UtxoBlock(<<Spend(inputs, o, f, utxos)>>)
      PROVE  UtxoInv'
  <2>1. PICK tx : tx = Spend(inputs, o, f, utxos)
    OBVIOUS
  <2>2. UtxoTx(tx)
    BY <1>2, <2>1, SpendTyped DEF UtxoInv
  <2>3. PICK txs : txs = <<tx>>
    OBVIOUS
  <2>4. /\ Len(txs) \in Nat /\ DOMAIN txs = 1 .. Len(txs)
        /\ \A i \in DOMAIN txs : UtxoTx(txs[i])
    BY <2>2, <2>3
  <2>5. UtxoBlock(txs)
    BY <1>2, <2>1, <2>3
  <2> QED
    BY <2>4, <2>5, UtxoBlockKeeps
<1>3. CASE UNCHANGED utxoVars
  <2>1. utxos' = utxos /\ utxoBurned' = utxoBurned /\ utxoBurn' = utxoBurn /\ utxoBlocks' = utxoBlocks
    BY <1>3 DEF utxoVars
  <2>2. Accounted' <=> Accounted
    BY <2>1 DEF Accounted, TotalSupply
  <2> QED
    BY <2>1, <2>2 DEF UtxoInv
<1> QED
  BY <1>1, <1>2, <1>3 DEF UtxoNext

LEMMA UtxoHolds == ASSUME UtxoInv PROVE UtxoTypeOK /\ UtxoConservedAtTip
<1>1. \A u \in DOMAIN utxos : utxos[u] \in [owner : Owner, amount : Nat]
  BY DEF UtxoInv, UtxoState, Output
<1>2. UtxoTypeOK
  BY <1>1 DEF UtxoInv, UtxoTypeOK
<1>3. UtxoConservedAtTip
  BY DEF UtxoInv, UtxoConservedAtTip
<1> QED
  BY <1>2, <1>3

(* The invariant: the outputs are typed, whatever is burned; where nothing *)
(* is, they are worth the genesis allocations and the rewards, and every   *)
(* id that was ever taken is explained by what it was made of.             *)
THEOREM UtxoInvariant == UtxoSpec => []UtxoInv
<1>1. UtxoInit => UtxoInv
  BY UtxoAssumption, UtxoStarts
<1>2. UtxoInv /\ [UtxoNext]_utxoVars => UtxoInv'
  BY UtxoAssumption, UtxoSteps
<1> QED
  BY <1>1, <1>2, PTL DEF UtxoSpec

(* Where no base fee is burned, what the outputs of the chain's tip are    *)
(* worth is the genesis allocations and the rewards (apply_tx and          *)
(* _credit_coinbase of utxo.py): an id that is written was never taken, so *)
(* that nothing is overwritten, and an output is spent once.               *)
THEOREM UtxoConservedAtTipHolds == UtxoSpec => []UtxoConservedAtTip
BY UtxoInvariant, UtxoHolds, PTL

-----------------------------------------------------------------------------
(* What a frontier becomes by one post. *)
Frontier(P, X) == [a \in (SUBSET X) \X X |-> (a[1] \ P[a[2]]) \cup {a[2]}]

LEMMA HeadsRun ==
  ASSUME NEW X, NEW P, NEW s \in Seq(X)
  PROVE  FoldsTo(Heads(P, s), s, SUBSET X, {}, Frontier(P, X))
<1>1. PICK N \in Nat : N = Len(s)
  OBVIOUS
<1>2. PICK V, G : V = SUBSET X /\ G = Frontier(P, X)
  OBVIOUS
<1>3. \A v \in V, x \in X : G[<<v, x>>] = (v \ P[x]) \cup {x} /\ G[<<v, x>>] \in V
  BY <1>2 DEF Frontier
<1>4. {} \in V /\ FoldStays(G, V, X)
  BY <1>2, <1>3 DEF FoldStays
<1>5. PICK it : FoldSets(it, s, V, {}, G)
  BY <1>4, FoldExists
<1>6. \A i \in 1 .. N : s[i] \in X
  BY <1>1
<1>7. it = [t \in SUBSET (1 .. N) |->
              IF t = {} THEN {} ELSE (it[t \ {Max(t)}] \ P[s[Max(t)]]) \cup {s[Max(t)]}]
  <2>1. ASSUME NEW t \in SUBSET (1 .. N), t # {}
        PROVE  it[t] = (it[t \ {Max(t)}] \ P[s[Max(t)]]) \cup {s[Max(t)]}
    <3>1. Max(t) \in 1 .. N /\ it[t] = G[<<it[t \ {Max(t)}], s[Max(t)]>>]
      BY <1>1, <1>5, <2>1 DEF FoldSets
    <3>2. it[t \ {Max(t)}] \in V
      BY <1>1, <1>5 DEF FoldSets
    <3> QED
      BY <1>3, <1>6, <3>1, <3>2
  <2>2. it \in [SUBSET (1 .. N) -> V] /\ it[{}] = {}
    BY <1>1, <1>5 DEF FoldSets
  <2> QED
    BY <2>1, <2>2
<1>8. PICK fold : fold = CHOOSE f : f = [t \in SUBSET (1 .. N) |->
              IF t = {} THEN {} ELSE (f[t \ {Max(t)}] \ P[s[Max(t)]]) \cup {s[Max(t)]}]
  OBVIOUS
<1>9. fold = [t \in SUBSET (1 .. N) |->
              IF t = {} THEN {} ELSE (fold[t \ {Max(t)}] \ P[s[Max(t)]]) \cup {s[Max(t)]}]
  BY <1>7, <1>8
<1>10. DOMAIN s = 1 .. N
  BY <1>1
<1>11. Heads(P, s) = fold[1 .. N]
  BY <1>8, <1>10 DEF Heads, FoldLeft, MapThenFoldSet
<1>12. fold[{}] = {}
  BY <1>9
<1>13. ASSUME NEW t \in SUBSET (1 .. N), t # {}, fold[t \ {Max(t)}] \in V
       PROVE  fold[t] = G[<<fold[t \ {Max(t)}], s[Max(t)]>>]
  <2>1. Max(t) \in 1 .. N
    BY <1>13, GreatestPosition
  <2>2. fold[t] = (fold[t \ {Max(t)}] \ P[s[Max(t)]]) \cup {s[Max(t)]}
    BY <1>9, <1>13
  <2> QED
    BY <1>3, <1>6, <1>13, <2>1, <2>2
<1>14. FoldsTo(fold[1 .. Len(s)], s, V, {}, G)
  <2>1. FoldSolves(fold, s, V, {}, G)
    BY <1>1, <1>12, <1>13 DEF FoldSolves
  <2> QED
    BY <1>4, <2>1, FoldFound
<1> QED
  BY <1>1, <1>2, <1>11, <1>14

LEMMA HeadsEmpty == ASSUME NEW P PROVE Heads(P, <<>>) = {}
<1>1. PICK X, s : X = {} /\ s = <<>>
  OBVIOUS
<1>2. s \in Seq(X)
  BY <1>1
<1>3. FoldsTo(Heads(P, s), s, SUBSET X, {}, Frontier(P, X))
  BY <1>2, HeadsRun
<1> QED
  BY <1>1, <1>3, FoldNone

LEMMA HeadsAppend ==
  ASSUME NEW X, NEW P, NEW s \in Seq(X), NEW x \in X
  PROVE  /\ Heads(P, Append(s, x)) = (Heads(P, s) \ P[x]) \cup {x}
         /\ Heads(P, s) \in SUBSET X
<1>1. PICK V, G : V = SUBSET X /\ G = Frontier(P, X)
  OBVIOUS
<1>2. PICK u \in Seq(X) : u = Append(s, x)
  BY AppendProperties
<1>3. FoldsTo(Heads(P, s), s, V, {}, G) /\ FoldsTo(Heads(P, u), u, V, {}, G)
  BY <1>1, HeadsRun
<1>4. Heads(P, u) = G[<<Heads(P, s), x>>]
  <2>1. LongerBy(u, s, x)
    BY <1>2 DEF LongerBy
  <2> QED
    BY <1>3, <2>1, FoldNext
<1>7. Heads(P, s) \in V
  BY <1>3, FoldTyped
<1>5. PICK h \in SUBSET X : h = Heads(P, s)
  BY <1>1, <1>7
<1>6. Frontier(P, X)[<<h, x>>] = (h \ P[x]) \cup {x}
  BY DEF Frontier
<1> QED
  BY <1>1, <1>2, <1>4, <1>5, <1>6

(* What nobody in S is a parent of... *)
Tips(P, S) == {p \in S : \A q \in S : p \notin P[q]}
Closed(P, S) == \A p \in S : P[p] \subseteq S

(* ... and what is_valid asks of a post by them. *)
Attaches(P, S, p) ==
  \/ object = "Blockchain" /\ P[p] = Tips(P, S)
  \/ object = "DAGObject" /\ P[p] \subseteq Tips(P, S)
  \/ object = "TransactionChain"

Before(l, j) == {l[i] : i \in 1 .. (j - 1)}

(* A log that grew post by post. *)
Grown(P, l) ==
  /\ l \in Seq(1 .. Len(P)) /\ IsInjective(l)
  /\ \A j \in 1 .. Len(l) : Attaches(P, Before(l, j), l[j])

LEMMA GrownAppend ==
  ASSUME NEW P, NEW s \in Seq(1 .. Len(P)), NEW x \in 1 .. Len(P)
  PROVE  Grown(P, Append(s, x)) <=>
           Grown(P, s) /\ x \notin ToSet(s) /\ Attaches(P, ToSet(s), x)
<1>1. PICK X, u, N : X = 1 .. Len(P) /\ u = Append(s, x) /\ N = Len(s)
  OBVIOUS
<1>2. N \in Nat /\ u \in Seq(X) /\ Len(u) = N + 1 /\ u[N + 1] = x /\ \A i \in 1 .. N : u[i] = s[i]
  BY <1>1, AppendProperties
<1>3. Before(u, N + 1) = ToSet(s)
  <2>1. (N + 1) - 1 = N /\ DOMAIN s = 1 .. N
    BY <1>1, <1>2
  <2> QED
    BY <1>2, <2>1 DEF Before, ToSet
<1>4. ASSUME NEW j \in 1 .. N PROVE Before(u, j) = Before(s, j)
  <2>1. \A i \in 1 .. (j - 1) : i \in 1 .. N
    BY <1>2
  <2> QED
    BY <1>2, <2>1 DEF Before
<1>5. IsInjective(u) <=> IsInjective(s) /\ x \notin ToSet(s)
  BY <1>1, MembersAppend
<1>6. \A j \in 1 .. (N + 1) : j \in 1 .. N \/ j = N + 1
  BY <1>2
<1>7. (\A j \in 1 .. (N + 1) : Attaches(P, Before(u, j), u[j])) <=>
        (\A j \in 1 .. N : Attaches(P, Before(s, j), s[j])) /\ Attaches(P, ToSet(s), x)
  <2>1. \A j \in 1 .. N : Attaches(P, Before(u, j), u[j]) <=> Attaches(P, Before(s, j), s[j])
    BY <1>2, <1>4
  <2>2. Attaches(P, Before(u, N + 1), u[N + 1]) <=> Attaches(P, ToSet(s), x)
    BY <1>2, <1>3
  <2>3. N + 1 \in 1 .. (N + 1) /\ \A j \in 1 .. N : j \in 1 .. (N + 1)
    BY <1>2
  <2> QED
    BY <1>6, <2>1, <2>2, <2>3
<1> QED
  BY <1>1, <1>2, <1>5, <1>7 DEF Grown

LEMMA GrownPrefix ==
  ASSUME NEW P, NEW l, Grown(P, l), NEW k \in 0 .. Len(l)
  PROVE  Grown(P, SubSeq(l, 1, k)) /\ ToSet(SubSeq(l, 1, k)) = {l[i] : i \in 1 .. k}
<1>1. PICK X, u, N : X = 1 .. Len(P) /\ u = SubSeq(l, 1, k) /\ N = Len(l)
  OBVIOUS
<1>2. l \in Seq(X) /\ N \in Nat /\ k \in 0 .. N /\ DOMAIN l = 1 .. N
  BY <1>1 DEF Grown
<1>3. \A i \in 1 .. k : l[i] \in X
  BY <1>1, <1>2
<1>4. u \in Seq(X) /\ Len(u) = k /\ \A i \in 1 .. k : u[i] = l[i]
  BY <1>1, <1>2, <1>3
<1>5. DOMAIN u = 1 .. k
  BY <1>4
<1>6. ToSet(u) = {l[i] : i \in 1 .. k}
  BY <1>4, <1>5 DEF ToSet
<1>7. \A i \in 1 .. k : i \in 1 .. N
  BY <1>2
<1>8. IsInjective(u)
  BY <1>2, <1>4, <1>5, <1>7 DEF IsInjective, Grown
<1>9. ASSUME NEW j \in 1 .. k PROVE Attaches(P, Before(u, j), u[j])
  <2>1. \A i \in 1 .. (j - 1) : i \in 1 .. k
    BY <1>2
  <2>2. Before(u, j) = Before(l, j)
    BY <1>4, <2>1 DEF Before
  <2>3. Attaches(P, Before(l, j), l[j])
    BY <1>1, <1>7 DEF Grown
  <2> QED
    BY <1>4, <2>2, <2>3
<1> QED
  BY <1>1, <1>4, <1>6, <1>8, <1>9 DEF Grown

(* The digest of a log is the tips of its members, for either class that   *)
(* links its posts.                                                        *)
LEMMA TipsAppend ==
  ASSUME NEW P, NEW S, NEW x, x \notin S, Closed(P, S), Attaches(P, S, x),
         object # "TransactionChain"
  PROVE  /\ Tips(P, S \cup {x}) = (Tips(P, S) \ P[x]) \cup {x}
         /\ object = "Blockchain" => Tips(P, S \cup {x}) = {x}
         /\ Closed(P, S \cup {x})
<1>1. P[x] \subseteq Tips(P, S)
  BY DEF Attaches
<1>2. P[x] \subseteq S
  BY <1>1 DEF Tips
<1>3. \A q \in S : x \notin P[q]
  BY DEF Closed
<1>4. Tips(P, S \cup {x}) = (Tips(P, S) \ P[x]) \cup {x}
  BY <1>2, <1>3 DEF Tips
<1>5. object = "Blockchain" => P[x] = Tips(P, S)
  BY DEF Attaches
<1> QED
  BY <1>2, <1>4, <1>5 DEF Closed

LEMMA DigestGrown ==
  ASSUME NEW P, NEW l, Grown(P, l), object \in MerkleClass, object # "TransactionChain"
  PROVE  LatestDigest(P, l) = Tips(P, ToSet(l)) /\ Closed(P, ToSet(l))
<1>1. PICK X : X = 1 .. Len(P)
  OBVIOUS
<1>2. PICK Q : Q = {s \in Seq(X) : Grown(P, s) =>
                      LatestDigest(P, s) = Tips(P, ToSet(s)) /\ Closed(P, ToSet(s))}
  OBVIOUS
<1>3. <<>> \in Q
  <2>1. ToSet(<<>>) = {} /\ Heads(P, <<>>) = {}
    BY MembersEmpty, HeadsEmpty
  <2>2. LatestDigest(P, <<>>) = {}
    BY <2>1 DEF LatestDigest
  <2>3. <<>> \in Seq(X)
    OBVIOUS
  <2> QED
    BY <1>2, <2>1, <2>2, <2>3 DEF Tips, Closed
<1>4. ASSUME NEW s \in Seq(X), NEW x \in X, s \in Q PROVE Append(s, x) \in Q
  <2>1. PICK u \in Seq(X) : u = Append(s, x)
    BY AppendProperties
  <2>2. SUFFICES ASSUME Grown(P, u)
        PROVE  LatestDigest(P, u) = Tips(P, ToSet(u)) /\ Closed(P, ToSet(u))
    BY <1>2, <2>1
  <2>3. Grown(P, s) /\ x \notin ToSet(s) /\ Attaches(P, ToSet(s), x)
    BY <1>1, <2>1, <2>2, GrownAppend
  <2>4. LatestDigest(P, s) = Tips(P, ToSet(s)) /\ Closed(P, ToSet(s))
    BY <1>2, <1>4, <2>3
  <2>5. ToSet(u) = ToSet(s) \cup {x}
    BY <2>1, MembersAppend
  <2>6. /\ Tips(P, ToSet(u)) = (Tips(P, ToSet(s)) \ P[x]) \cup {x}
        /\ object = "Blockchain" => Tips(P, ToSet(u)) = {x}
        /\ Closed(P, ToSet(u))
    <3>1. PICK S : S = ToSet(s)
      OBVIOUS
    <3>2. x \notin S /\ Closed(P, S) /\ Attaches(P, S, x)
      BY <2>3, <2>4, <3>1
    <3>3. Tips(P, S \cup {x}) = (Tips(P, S) \ P[x]) \cup {x}
      BY <3>2, TipsAppend
    <3>4. object = "Blockchain" => Tips(P, S \cup {x}) = {x}
      BY <3>2, TipsAppend
    <3>5. Closed(P, S \cup {x})
      BY <3>2, TipsAppend
    <3> QED
      BY <2>5, <3>1, <3>3, <3>4, <3>5
  <2>7. CASE object = "DAGObject"
    <3>1. LatestDigest(P, s) = Heads(P, s) /\ LatestDigest(P, u) = Heads(P, u)
      BY <2>7 DEF LatestDigest
    <3>2. Heads(P, u) = (Heads(P, s) \ P[x]) \cup {x}
      BY <2>1, HeadsAppend
    <3> QED
      BY <2>4, <2>6, <3>1, <3>2
  <2>8. CASE object = "Blockchain"
    <3>1. u # <<>> /\ Last(u) = x
      <4>1. Len(u) = Len(s) + 1 /\ u[Len(s) + 1] = x /\ u # <<>>
        BY <2>1, AppendProperties
      <4> QED
        BY <4>1 DEF Last
    <3>2. LatestDigest(P, u) = {x}
      BY <2>8, <3>1 DEF LatestDigest
    <3> QED
      BY <2>6, <2>8, <3>2
  <2> QED
    BY <2>7, <2>8 DEF MerkleClass
<1>5. \A s \in Seq(X) : s \in Q
  BY <1>3, <1>4, EverySequence
<1> QED
  BY <1>1, <1>2, <1>5 DEF Grown

LEMMA AcceptableGrown ==
  ASSUME NEW P, NEW l, Grown(P, l), object \in MerkleClass, NEW p
  PROVE  Acceptable(P, l, p) <=> Attaches(P, ToSet(l), p)
<1>1. CASE object = "TransactionChain"
  BY <1>1 DEF Acceptable, Attaches
<1>2. CASE object # "TransactionChain"
  <2>1. LatestDigest(P, l) = Tips(P, ToSet(l))
    BY <1>2, DigestGrown
  <2>2. object = "DAGObject" => Heads(P, l) = LatestDigest(P, l)
    BY DEF LatestDigest
  <2> QED
    BY <2>1, <2>2 DEF Acceptable, Attaches, NamesLast, AttachesToHeads
<1> QED
  BY <1>1, <1>2

(* A set that holds the parents of its members is decided by its tips. *)
LEMMA TipsDecide ==
  ASSUME NEW N \in Nat, NEW P, \A p \in 1 .. N : P[p] \subseteq 1 .. (p - 1),
         NEW S \in SUBSET (1 .. N), NEW T \in SUBSET (1 .. N),
         Closed(P, T), Tips(P, S) = Tips(P, T)
  PROVE  S \subseteq T
<1> SUFFICES ASSUME S \ T # {} PROVE FALSE
  OBVIOUS
<1>1. PICK D \in SUBSET (1 .. N) : D = S \ T
  OBVIOUS
<1>2. PICK p \in D : \A y \in D : p >= y
  BY <1>1, GreatestPosition
<1>3. p \in S /\ p \notin Tips(P, S)
  BY <1>1, <1>2 DEF Tips
<1>4. PICK q \in S : p \in P[q]
  BY <1>3 DEF Tips
<1>5. p \in 1 .. (q - 1) /\ q \in 1 .. N /\ p \in 1 .. N
  BY <1>1, <1>2, <1>4
<1>6. p < q
  BY <1>5
<1>7. q \notin D
  BY <1>2, <1>5, <1>6
<1>8. q \in T
  BY <1>1, <1>4, <1>7
<1> QED
  BY <1>1, <1>2, <1>4, <1>8 DEF Closed

LEMMA DigestFound ==
  ASSUME NEW P, NEW X, NEW l \in Seq(X), NEW d, DigestIndex(P, l, d) # -1
  PROVE  /\ DigestIndex(P, l, d) \in 0 .. Len(l)
         /\ LatestDigest(P, SubSeq(l, 1, DigestIndex(P, l, d))) = d
<1>1. PICK N \in Nat : N = Len(l)
  OBVIOUS
<1>2. PICK at : at = {i \in 0 .. N : LatestDigest(P, SubSeq(l, 1, i)) = d}
  OBVIOUS
<1>3. at # {} /\ DigestIndex(P, l, d) = CHOOSE i \in at : \A j \in at : j <= i
  BY <1>1, <1>2 DEF DigestIndex
<1>4. PICK f : f = [i \in 0 .. N |-> N - i]
  OBVIOUS
<1>5. \A i \in at : i \in 0 .. N /\ f[i] = N - i /\ f[i] \in Nat
  BY <1>2, <1>4
<1>6. PICK i \in at : \A j \in at : f[i] <= f[j]
  BY <1>3, <1>5, Least
<1>7. \A j \in at : j <= i
  BY <1>5, <1>6
<1>8. DigestIndex(P, l, d) \in at
  BY <1>3, <1>6, <1>7
<1> QED
  BY <1>1, <1>2, <1>8

(* Replay takes one post more. *)
Taking(P, X) ==
  [a \in Seq(X) \X X |-> IF Acceptable(P, a[1], a[2]) /\ a[2] \notin ToSet(a[1])
                         THEN Append(a[1], a[2]) ELSE a[1]]

LEMMA ReplayRun ==
  ASSUME NEW X, NEW P, NEW l \in Seq(X), NEW s \in Seq(X)
  PROVE  FoldsTo(Replay(P, l, s), s, Seq(X), l, Taking(P, X))
<1>1. PICK N \in Nat : N = Len(s)
  OBVIOUS
<1>2. PICK V, G : V = Seq(X) /\ G = Taking(P, X)
  OBVIOUS
<1>3. \A v \in V, x \in X :
        /\ G[<<v, x>>] = IF Acceptable(P, v, x) /\ x \notin ToSet(v) THEN Append(v, x) ELSE v
        /\ G[<<v, x>>] \in V
  <2> SUFFICES ASSUME NEW v \in V, NEW x \in X
               PROVE  /\ G[<<v, x>>] = IF Acceptable(P, v, x) /\ x \notin ToSet(v)
                                       THEN Append(v, x) ELSE v
                      /\ G[<<v, x>>] \in V
    OBVIOUS
  <2>1. G[<<v, x>>] = IF Acceptable(P, v, x) /\ x \notin ToSet(v) THEN Append(v, x) ELSE v
    BY <1>2 DEF Taking
  <2>2. Append(v, x) \in V
    BY <1>2, AppendProperties
  <2> QED
    BY <2>1, <2>2
<1>4. l \in V /\ FoldStays(G, V, X)
  BY <1>2, <1>3 DEF FoldStays
<1>5. PICK it : FoldSets(it, s, V, l, G)
  BY <1>4, FoldExists
<1>6. \A i \in 1 .. N : s[i] \in X
  BY <1>1
<1>7. it = [t \in SUBSET (1 .. N) |->
              IF t = {} THEN l
              ELSE IF Acceptable(P, it[t \ {Max(t)}], s[Max(t)]) /\ s[Max(t)] \notin ToSet(it[t \ {Max(t)}])
                   THEN Append(it[t \ {Max(t)}], s[Max(t)]) ELSE it[t \ {Max(t)}]]
  <2>1. ASSUME NEW t \in SUBSET (1 .. N), t # {}
        PROVE  it[t] = IF Acceptable(P, it[t \ {Max(t)}], s[Max(t)]) /\ s[Max(t)] \notin ToSet(it[t \ {Max(t)}])
                       THEN Append(it[t \ {Max(t)}], s[Max(t)]) ELSE it[t \ {Max(t)}]
    <3>1. Max(t) \in 1 .. N /\ it[t] = G[<<it[t \ {Max(t)}], s[Max(t)]>>]
      BY <1>1, <1>5, <2>1 DEF FoldSets
    <3>2. it[t \ {Max(t)}] \in V
      BY <1>1, <1>5 DEF FoldSets
    <3>3. PICK v \in V, x \in X : v = it[t \ {Max(t)}] /\ x = s[Max(t)]
      BY <1>6, <3>1, <3>2
    <3>4. it[t] = IF Acceptable(P, v, x) /\ x \notin ToSet(v) THEN Append(v, x) ELSE v
      BY <1>3, <3>1, <3>3
    <3> QED
      BY <3>3, <3>4
  <2>2. it \in [SUBSET (1 .. N) -> V] /\ it[{}] = l
    BY <1>1, <1>5 DEF FoldSets
  <2> QED
    BY <2>1, <2>2
<1>8. PICK fold : fold = CHOOSE f : f = [t \in SUBSET (1 .. N) |->
              IF t = {} THEN l
              ELSE IF Acceptable(P, f[t \ {Max(t)}], s[Max(t)]) /\ s[Max(t)] \notin ToSet(f[t \ {Max(t)}])
                   THEN Append(f[t \ {Max(t)}], s[Max(t)]) ELSE f[t \ {Max(t)}]]
  OBVIOUS
<1>9. fold = [t \in SUBSET (1 .. N) |->
              IF t = {} THEN l
              ELSE IF Acceptable(P, fold[t \ {Max(t)}], s[Max(t)]) /\ s[Max(t)] \notin ToSet(fold[t \ {Max(t)}])
                   THEN Append(fold[t \ {Max(t)}], s[Max(t)]) ELSE fold[t \ {Max(t)}]]
  BY <1>7, <1>8
<1>10. DOMAIN s = 1 .. N
  BY <1>1
<1>11. Replay(P, l, s) = fold[1 .. N]
  BY <1>8, <1>10 DEF Replay, FoldLeft, MapThenFoldSet
<1>12. fold[{}] = l
  BY <1>9
<1>13. ASSUME NEW t \in SUBSET (1 .. N), t # {}, fold[t \ {Max(t)}] \in V
       PROVE  fold[t] = G[<<fold[t \ {Max(t)}], s[Max(t)]>>]
  <2>1. Max(t) \in 1 .. N
    BY <1>13, GreatestPosition
  <2>2. PICK v \in V, x \in X : v = fold[t \ {Max(t)}] /\ x = s[Max(t)]
    BY <1>6, <1>13, <2>1
  <2>3. fold[t] = IF Acceptable(P, v, x) /\ x \notin ToSet(v) THEN Append(v, x) ELSE v
    BY <1>9, <1>13, <2>2
  <2> QED
    BY <1>3, <2>2, <2>3
<1>14. FoldsTo(fold[1 .. Len(s)], s, V, l, G)
  <2>1. FoldSolves(fold, s, V, l, G)
    BY <1>1, <1>12, <1>13 DEF FoldSolves
  <2> QED
    BY <1>4, <2>1, FoldFound
<1> QED
  BY <1>1, <1>2, <1>11, <1>14

LEMMA ReplayEmpty ==
  ASSUME NEW X, NEW P, NEW l \in Seq(X)
  PROVE  Replay(P, l, <<>>) = l
<1>1. PICK e : e = <<>> /\ e \in Seq(X)
  <2>1. <<>> \in Seq(X)
    OBVIOUS
  <2> QED
    BY <2>1
<1>2. FoldsTo(Replay(P, l, e), e, Seq(X), l, Taking(P, X))
  BY <1>1, ReplayRun
<1> QED
  BY <1>1, <1>2, FoldNone

LEMMA ReplayAppend ==
  ASSUME NEW X, NEW P, NEW l \in Seq(X), NEW s \in Seq(X), NEW x \in X
  PROVE  /\ Replay(P, l, s) \in Seq(X)
         /\ Replay(P, l, Append(s, x)) =
              IF Acceptable(P, Replay(P, l, s), x) /\ x \notin ToSet(Replay(P, l, s))
              THEN Append(Replay(P, l, s), x) ELSE Replay(P, l, s)
<1>1. PICK V, G : V = Seq(X) /\ G = Taking(P, X)
  OBVIOUS
<1>2. PICK u \in Seq(X) : u = Append(s, x)
  BY AppendProperties
<1>3. FoldsTo(Replay(P, l, s), s, V, l, G) /\ FoldsTo(Replay(P, l, u), u, V, l, G)
  BY <1>1, ReplayRun
<1>4. Replay(P, l, u) = G[<<Replay(P, l, s), x>>]
  <2>1. LongerBy(u, s, x)
    BY <1>2 DEF LongerBy
  <2> QED
    BY <1>3, <2>1, FoldNext
<1>5. Replay(P, l, s) \in V
  BY <1>3, FoldTyped
<1>6. PICK m \in Seq(X) : m = Replay(P, l, s)
  BY <1>1, <1>5
<1>7. Taking(P, X)[<<m, x>>] = IF Acceptable(P, m, x) /\ x \notin ToSet(m) THEN Append(m, x) ELSE m
  BY DEF Taking
<1> QED
  BY <1>1, <1>2, <1>4, <1>5, <1>6, <1>7

(* What a node has is what stands in the peer's log up to i; it takes the  *)
(* rest of it.                                                             *)
LEMMA ReplayCatchesUp ==
  ASSUME NEW P, NEW l, NEW L, Grown(P, l), Grown(P, L), object \in MerkleClass,
         NEW i \in 0 .. Len(L), ToSet(l) = {L[k] : k \in 1 .. i}
  PROVE  ToSet(Replay(P, l, SubSeq(L, i + 1, Len(L)))) = ToSet(L)
<1>1. PICK X, M : X = 1 .. Len(P) /\ M = Len(L)
  OBVIOUS
<1>2. l \in Seq(X) /\ L \in Seq(X) /\ M \in Nat /\ i \in 0 .. M /\ DOMAIN L = 1 .. M
  BY <1>1 DEF Grown
<1>3. PICK Part : Part = [k \in 0 .. M - i |-> SubSeq(L, i + 1, i + k)]
  OBVIOUS
<1>4. PICK Have : Have = [k \in 0 .. M - i |-> {L[j] : j \in 1 .. (i + k)}]
  OBVIOUS
<1>5. PICK Q : Q = {k \in 0 .. M - i : /\ Part[k] \in Seq(X)
                                       /\ Grown(P, Replay(P, l, Part[k]))
                                       /\ ToSet(Replay(P, l, Part[k])) = Have[k]}
  OBVIOUS
<1>6. 0 \in Q
  <2>1. 0 \in 0 .. M - i
    BY <1>2
  <2>2. Part[0] = <<>>
    <3>1. Part[0] = SubSeq(L, i + 1, i + 0) /\ i + 0 < i + 1 /\ i + 0 \in Int /\ i + 1 \in Int
      BY <1>2, <1>3, <2>1
    <3> QED
      BY <3>1, SubSeqEmpty
  <2>3. <<>> \in Seq(X)
    OBVIOUS
  <2>4. Replay(P, l, <<>>) = l
    BY <1>2, ReplayEmpty
  <2>5. Have[0] = {L[j] : j \in 1 .. i}
    <3>1. i + 0 = i
      BY <1>2
    <3> QED
      BY <1>4, <2>1, <3>1
  <2> QED
    BY <1>5, <2>1, <2>2, <2>3, <2>4, <2>5
<1>7. ASSUME NEW k \in 1 .. M - i, k - 1 \in Q PROVE k \in Q
  <2>1. PICK s, m, x : s = Part[k - 1] /\ m = Replay(P, l, s) /\ x = L[i + k]
    OBVIOUS
  <2>2. k - 1 \in 0 .. M - i /\ k \in 0 .. M - i /\ i + k \in 1 .. M /\ (i + k) - 1 = i + (k - 1)
    BY <1>2
  <2>3. x \in X
    BY <1>2, <2>1, <2>2
  <2>4. s \in Seq(X) /\ Grown(P, m) /\ ToSet(m) = Have[k - 1]
    BY <1>5, <1>7, <2>1
  <2>5. Part[k] = Append(s, x)
    <3>1. Part[k] = SubSeq(L, i + 1, i + k) /\ s = SubSeq(L, i + 1, i + (k - 1))
      BY <1>3, <2>1, <2>2
    <3>2. i + 1 \in 1 .. Len(L) /\ i + k \in (i + 1) .. Len(L)
      BY <1>1, <1>2, <2>2
    <3>3. SubSeq(L, i + 1, i + k) = SubSeq(L, i + 1, (i + k) - 1) \o <<L[i + k]>>
      BY <1>2, <3>2, SubSeqRecursiveSecond
    <3>4. Append(s, x) = s \o <<x>>
      BY <2>3, <2>4, AppendIsConcat
    <3> QED
      BY <2>1, <2>2, <3>1, <3>3, <3>4
  <2>6. Have[k - 1] = Before(L, i + k) /\ Have[k] = Have[k - 1] \cup {x}
    <3>1. Have[k] = {L[j] : j \in 1 .. (i + k)} /\ Have[k - 1] = {L[j] : j \in 1 .. ((i + k) - 1)}
      BY <1>4, <2>2
    <3>2. \A j \in 1 .. (i + k) : j = i + k \/ j \in 1 .. ((i + k) - 1)
      BY <2>2
    <3>3. i + k \in 1 .. (i + k) /\ \A j \in 1 .. ((i + k) - 1) : j \in 1 .. (i + k)
      BY <2>2
    <3> QED
      BY <2>1, <3>1, <3>2, <3>3 DEF Before
  <2>7. Attaches(P, ToSet(m), x)
    <3>1. Attaches(P, Before(L, i + k), L[i + k])
      BY <1>1, <2>2 DEF Grown
    <3> QED
      BY <2>1, <2>4, <2>6, <3>1
  <2>8. x \notin ToSet(m)
    <3>1. ASSUME NEW j \in 1 .. ((i + k) - 1) PROVE L[j] # L[i + k]
      <4>1. j \in DOMAIN L /\ i + k \in DOMAIN L /\ j # i + k
        BY <1>2, <2>2
      <4>2. IsInjective(L)
        BY DEF Grown
      <4> QED
        BY <4>1, <4>2 DEF IsInjective
    <3>2. x \notin Before(L, i + k)
      BY <2>1, <3>1 DEF Before
    <3> QED
      BY <2>4, <2>6, <3>2
  <2>9. Acceptable(P, m, x)
    BY <2>4, <2>7, AcceptableGrown
  <2>10. m \in Seq(X) /\ Replay(P, l, Append(s, x)) = Append(m, x)
    BY <1>2, <2>1, <2>3, <2>4, <2>8, <2>9, ReplayAppend
  <2>11. Grown(P, Append(m, x))
    BY <1>1, <2>3, <2>4, <2>7, <2>8, <2>10, GrownAppend
  <2>12. ToSet(Append(m, x)) = ToSet(m) \cup {x}
    BY <2>3, <2>10, MembersAppend
  <2>13. Append(s, x) \in Seq(X)
    BY <2>3, <2>4, AppendProperties
  <2> QED
    BY <1>5, <2>2, <2>4, <2>5, <2>6, <2>10, <2>11, <2>12, <2>13
<1>8. M - i \in Nat /\ M - i \in 0 .. M - i /\ i + (M - i) = M
  BY <1>2
<1>9. \A k \in 0 .. M - i : k \in Q
  BY <1>6, <1>7, <1>8, EveryPosition
<1>10. ToSet(Replay(P, l, Part[M - i])) = Have[M - i]
  BY <1>5, <1>8, <1>9
<1>11. Part[M - i] = SubSeq(L, i + 1, M) /\ Have[M - i] = {L[j] : j \in 1 .. M}
  BY <1>3, <1>4, <1>8
<1>12. ToSet(L) = {L[j] : j \in 1 .. M}
  BY <1>2 DEF ToSet
<1> QED
  BY <1>1, <1>10, <1>11, <1>12

LEMMA DigestTyped ==
  ASSUME NEW P, NEW X, NEW l \in Seq(X)
  PROVE  LatestDigest(P, l) \in SUBSET X
<1>1. Heads(P, l) \in SUBSET X
  <2>1. PICK V, G : V = SUBSET X /\ G = Frontier(P, X)
    OBVIOUS
  <2>2. FoldsTo(Heads(P, l), l, V, {}, G)
    BY <2>1, HeadsRun
  <2>3. Heads(P, l) \in V
    BY <2>2, FoldTyped
  <2> QED
    BY <2>1, <2>3
<1>2. l # <<>> => Last(l) \in X
  BY DEF Last
<1> QED
  BY <1>1, <1>2 DEF LatestDigest

LEMMA SinceTyped ==
  ASSUME NEW P, NEW X, NEW l \in Seq(X), NEW d
  PROVE  Since(P, l, d) \in Seq(X)
<1>1. CASE DigestIndex(P, l, d) = -1
  BY <1>1 DEF Since
<1>2. CASE DigestIndex(P, l, d) # -1
  <2>1. PICK i \in 0 .. Len(l) : i = DigestIndex(P, l, d)
    BY <1>2, DigestFound
  <2>2. Since(P, l, d) = SubSeq(l, i + 1, Len(l))
    BY <1>2, <2>1 DEF Since
  <2>3. i + 1 \in Int /\ Len(l) \in Int /\ \A j \in (i + 1) .. Len(l) : l[j] \in X
    OBVIOUS
  <2> QED
    BY <2>2, <2>3, SubSeqProperties
<1> QED
  BY <1>1, <1>2

LEMMA GrownKept ==
  ASSUME NEW S, NEW P \in Seq(S), NEW parents \in S, NEW l, Grown(P, l)
  PROVE  Grown(Append(P, parents), l)
<1>1. PICK Q, N : Q = Append(P, parents) /\ N = Len(P)
  OBVIOUS
<1>2. N \in Nat /\ Len(Q) = N + 1 /\ \A p \in 1 .. N : Q[p] = P[p]
  BY <1>1, AppendProperties
<1>3. l \in Seq(1 .. N) /\ Len(l) \in Nat
  BY <1>1 DEF Grown
<1>4. l \in Seq(1 .. Len(Q))
  BY <1>2, <1>3
<1>5. ASSUME NEW j \in 1 .. Len(l) PROVE Attaches(Q, Before(l, j), l[j])
  <2>1. PICK B : B = Before(l, j)
    OBVIOUS
  <2>2. B \subseteq 1 .. N /\ l[j] \in 1 .. N
    <3>1. \A i \in 1 .. Len(l) : l[i] \in 1 .. N
      <4>1. PICK X : X = 1 .. N
        OBVIOUS
      <4>2. l \in Seq(X)
        BY <1>3, <4>1
      <4>3. \A i \in 1 .. Len(l) : l[i] \in X
        BY <4>2
      <4> QED
        BY <4>1, <4>3
    <3>2. \A i \in 1 .. (j - 1) : i \in 1 .. Len(l)
      BY <1>3
    <3> QED
      BY <2>1, <3>1, <3>2 DEF Before
  <2>3. Tips(Q, B) = Tips(P, B) /\ Q[l[j]] = P[l[j]]
    BY <1>2, <2>2 DEF Tips
  <2>4. Attaches(P, B, l[j])
    BY <2>1 DEF Grown
  <2> QED
    BY <2>1, <2>3, <2>4 DEF Attaches
<1> QED
  BY <1>1, <1>4, <1>5 DEF Grown

(* Parents come before their children, and every log grew as is_valid      *)
(* demands.                                                                *)
SyncInv ==
  /\ object \in MerkleClass
  /\ posts \in Seq(SUBSET Post) /\ Len(posts) <= MaxPosts
  /\ \A p \in 1 .. Len(posts) : posts[p] \subseteq 1 .. (p - 1)
  /\ DOMAIN log = SyncNode /\ log = [n \in SyncNode |-> log[n]]
  /\ \A n \in SyncNode : Grown(posts, log[n])
  /\ sent \subseteq [to : SyncNode, post : 1 .. Len(posts)]
  /\ asked \subseteq [to : SyncNode, from : SyncNode, digest : SUBSET Post]

LEMMA SyncStart == SyncInit => SyncInv
<1> SUFFICES ASSUME SyncInit PROVE SyncInv
  OBVIOUS
<1>1. Len(posts) = 0 /\ posts \in Seq(SUBSET Post) /\ Len(posts) <= MaxPosts
  BY SyncAssumption DEF SyncInit
<1>2. Grown(posts, <<>>)
  BY MembersEmpty DEF Grown
<1> QED
  BY <1>1, <1>2 DEF SyncInit, SyncInv

LEMMA SyncTypes ==
  ASSUME SyncInv
  PROVE  /\ SyncTypeOK /\ Len(posts) \in Nat /\ 1 .. Len(posts) \subseteq Post
         /\ \A n \in SyncNode : log[n] \in Seq(1 .. Len(posts))
<1>1. PICK N \in Nat : N = Len(posts) /\ N <= MaxPosts
  BY DEF SyncInv
<1>2. 1 .. N \subseteq Post
  BY <1>1, SyncAssumption DEF Post
<1>3. ASSUME NEW n \in SyncNode
      PROVE  /\ log[n] \in Seq(1 .. N) /\ log[n] \in Seq(Post)
             /\ Cardinality(ToSet(log[n])) = Len(log[n])
  <2>1. log[n] \in Seq(1 .. N) /\ IsInjective(log[n])
    BY <1>1 DEF SyncInv, Grown
  <2>2. log[n] \in Seq(Post)
    BY <1>2, <2>1
  <2> QED
    BY <2>1, <2>2, MembersCounted
<1>4. log \in [SyncNode -> Seq(Post)]
  BY <1>3 DEF SyncInv
<1>5. sent \subseteq [to : SyncNode, post : Post]
  BY <1>1, <1>2 DEF SyncInv
<1> QED
  BY <1>1, <1>2, <1>3, <1>4, <1>5 DEF SyncInv, SyncTypeOK

LEMMA SyncPublish ==
  ASSUME SyncInv, NEW n \in SyncNode, NEW parents \in SUBSET ToSet(log[n]), Publish(n, parents)
  PROVE  SyncInv'
<1>1. PICK N \in Nat : N = Len(posts) /\ N < MaxPosts
  BY SyncTypes DEF Publish
<1>2. PICK p, P : p = N + 1 /\ P = Append(posts, parents)
  OBVIOUS
<1>3. /\ Acceptable(P, log[n], p) /\ posts' = P /\ object' = object /\ asked' = asked
      /\ log' = [log EXCEPT ![n] = Append(@, p)]
      /\ sent' = sent \cup Posted(p, SyncNode \ {n})
  BY <1>1, <1>2 DEF Publish
<1>4. log[n] \in Seq(1 .. N) /\ posts \in Seq(SUBSET Post) /\ 1 .. N \subseteq Post
  BY <1>1, SyncTypes DEF SyncInv
<1>5. ToSet(log[n]) \subseteq 1 .. N
  BY <1>4, MembersCounted
<1>6. parents \in SUBSET Post /\ parents \subseteq 1 .. N
  BY <1>4, <1>5
<1>7. P \in Seq(SUBSET Post) /\ Len(P) = N + 1 /\ P[p] = parents /\ \A i \in 1 .. N : P[i] = posts[i]
  BY <1>1, <1>2, <1>4, <1>6, AppendProperties
<1>8. Len(P) <= MaxPosts
  BY <1>1, <1>7, SyncAssumption
<1>9. \A i \in 1 .. Len(P) : P[i] \subseteq 1 .. (i - 1)
  <2>1. \A i \in 1 .. N : posts[i] \subseteq 1 .. (i - 1)
    BY <1>1 DEF SyncInv
  <2>2. \A i \in 1 .. Len(P) : i \in 1 .. N \/ (i = p /\ p - 1 = N)
    BY <1>1, <1>2, <1>7
  <2> QED
    BY <1>6, <1>7, <2>1, <2>2
<1>10. \A m \in SyncNode : Grown(P, log[m])
  <2> SUFFICES ASSUME NEW m \in SyncNode PROVE Grown(P, log[m])
    OBVIOUS
  <2>1. Grown(posts, log[m])
    BY DEF SyncInv
  <2> QED
    BY <1>2, <1>4, <1>6, <2>1, GrownKept
<1>11. Grown(P, Append(log[n], p))
  <2>1. Grown(P, log[n]) /\ object \in MerkleClass
    BY <1>10 DEF SyncInv
  <2>2. Attaches(P, ToSet(log[n]), p)
    BY <1>3, <2>1, AcceptableGrown
  <2>3. log[n] \in Seq(1 .. Len(P)) /\ p \in 1 .. Len(P)
    BY <1>1, <1>2, <1>4, <1>7
  <2>4. p \notin ToSet(log[n])
    BY <1>1, <1>2, <1>5
  <2> QED
    BY <2>1, <2>2, <2>3, <2>4, GrownAppend
<1>12. \A m \in SyncNode : Grown(P, log'[m])
  BY <1>3, <1>10, <1>11 DEF SyncInv
<1>13. sent' \subseteq [to : SyncNode, post : 1 .. Len(P)]
  <2>1. 1 .. N \subseteq 1 .. Len(P) /\ p \in 1 .. Len(P)
    BY <1>1, <1>2, <1>7
  <2>2. sent \subseteq [to : SyncNode, post : 1 .. N]
    BY <1>1 DEF SyncInv
  <2> QED
    BY <1>3, <2>1, <2>2 DEF Posted
<1>14. (\A m \in SyncNode : Grown(posts, log[m]))'
  <2> SUFFICES ASSUME NEW m \in SyncNode PROVE Grown(posts, log[m])'
    OBVIOUS
  <2>1. Grown(P, log'[m])
    BY <1>12
  <2> QED
    BY <1>3, <2>1 DEF Grown, Attaches
<1>15. DOMAIN log' = SyncNode /\ log' = [m \in SyncNode |-> log'[m]]
  BY <1>3 DEF SyncInv
<1> QED
  BY <1>3, <1>7, <1>8, <1>9, <1>13, <1>14, <1>15 DEF SyncInv

LEMMA SyncHandle ==
  ASSUME SyncInv, NEW n \in SyncNode, NEW p \in Post, HandlePost(n, p)
  PROVE  SyncInv'
<1>1. PICK N \in Nat : N = Len(posts) /\ p \in 1 .. N
  <2>1. [to |-> n, post |-> p].post \in 1 .. Len(posts)
    BY DEF HandlePost, SyncInv
  <2> QED
    BY <2>1, SyncTypes
<1>2. posts' = posts /\ object' = object /\ asked' = asked
  BY DEF HandlePost
<1>3. sent' \subseteq [to : SyncNode, post : 1 .. N]
  <2>1. sent \subseteq [to : SyncNode, post : 1 .. N]
    BY <1>1 DEF SyncInv
  <2>2. sent' \subseteq sent \cup Posted(p, SyncNode)
    BY DEF HandlePost, Posted
  <2> QED
    BY <1>1, <2>1, <2>2 DEF Posted
<1>4. /\ DOMAIN log' = SyncNode /\ log' = [m \in SyncNode |-> log'[m]]
      /\ \A m \in SyncNode : Grown(posts, log'[m])
  <2>1. CASE p \notin ToSet(log[n]) /\ Acceptable(posts, log[n], p)
    <3>1. log' = [log EXCEPT ![n] = Append(@, p)]
      BY <2>1 DEF HandlePost
    <3>2. Grown(posts, log[n]) /\ object \in MerkleClass /\ log[n] \in Seq(1 .. N)
      BY <1>1, SyncTypes DEF SyncInv
    <3>3. Attaches(posts, ToSet(log[n]), p)
      BY <2>1, <3>2, AcceptableGrown
    <3>4. Grown(posts, Append(log[n], p))
      BY <1>1, <2>1, <3>2, <3>3, GrownAppend
    <3> QED
      BY <3>1, <3>4 DEF SyncInv
  <2>2. CASE ~ (p \notin ToSet(log[n]) /\ Acceptable(posts, log[n], p))
    <3>1. log' = log
      BY <2>2 DEF HandlePost
    <3> QED
      BY <3>1 DEF SyncInv
  <2> QED
    BY <2>1, <2>2
<1>5. (\A m \in SyncNode : Grown(posts, log[m]))'
  <2> SUFFICES ASSUME NEW m \in SyncNode PROVE Grown(posts, log[m])'
    OBVIOUS
  <2>1. Grown(posts, log'[m])
    BY <1>4
  <2> QED
    BY <1>2, <2>1 DEF Grown, Attaches
<1> QED
  BY <1>1, <1>2, <1>3, <1>4, <1>5 DEF SyncInv

LEMMA SyncUnmoved ==
  ASSUME SyncInv, UNCHANGED <<object, posts, log>>,
         sent' \subseteq [to : SyncNode, post : 1 .. Len(posts)],
         asked' \subseteq [to : SyncNode, from : SyncNode, digest : SUBSET Post]
  PROVE  SyncInv'
<1>1. (\A m \in SyncNode : Grown(posts, log[m]))'
  <2> SUFFICES ASSUME NEW m \in SyncNode PROVE Grown(posts, log[m])'
    OBVIOUS
  <2>1. Grown(posts, log[m])
    BY DEF SyncInv
  <2> QED
    BY <2>1 DEF Grown, Attaches
<1> QED
  BY <1>1 DEF SyncInv

LEMMA SyncStep == SyncInv /\ [SyncNext]_syncVars => SyncInv'
<1> SUFFICES ASSUME SyncInv, [SyncNext]_syncVars PROVE SyncInv'
  OBVIOUS
<1>1. ASSUME NEW n \in SyncNode, NEW parents \in SUBSET ToSet(log[n]), Publish(n, parents)
      PROVE  SyncInv'
  BY <1>1, SyncPublish
<1>2. ASSUME NEW n \in SyncNode, NEW p \in Post, HandlePost(n, p) PROVE SyncInv'
  BY <1>2, SyncHandle
<1>3. ASSUME NEW n \in SyncNode, RequestUpdate(n) PROVE SyncInv'
  <2>1. LatestDigest(posts, log[n]) \in SUBSET Post
    <3>1. log[n] \in Seq(Post)
      BY SyncTypes DEF SyncTypeOK
    <3> QED
      BY <3>1, DigestTyped
  <2>2. asked' \subseteq [to : SyncNode, from : SyncNode, digest : SUBSET Post]
    BY <1>3, <2>1 DEF RequestUpdate, SyncInv
  <2>3. sent' \subseteq [to : SyncNode, post : 1 .. Len(posts)]
    BY <1>3 DEF RequestUpdate, SyncInv
  <2> QED
    BY <1>3, <2>2, <2>3, SyncUnmoved DEF RequestUpdate
<1>4. ASSUME NEW n \in SyncNode, NEW r \in asked, AnswerUpdate(n, r) PROVE SyncInv'
  <2>1. PICK X : X = 1 .. Len(posts)
    OBVIOUS
  <2>2. PICK s \in Seq(X) : s = Since(posts, log[n], r.digest)
    BY <2>1, SyncTypes, SinceTyped
  <2>3. ToSet(s) \subseteq X
    BY MembersCounted
  <2>4. r.from \in SyncNode
    BY DEF SyncInv
  <2>5. sent' \subseteq [to : SyncNode, post : X]
    BY <1>4, <2>1, <2>2, <2>3, <2>4 DEF AnswerUpdate, SyncInv
  <2>6. asked' \subseteq [to : SyncNode, from : SyncNode, digest : SUBSET Post]
    BY <1>4 DEF AnswerUpdate, SyncInv
  <2> QED
    BY <1>4, <2>1, <2>5, <2>6, SyncUnmoved DEF AnswerUpdate
<1>5. ASSUME UNCHANGED syncVars PROVE SyncInv'
  BY <1>5, SyncUnmoved DEF syncVars, SyncInv
<1> QED
  BY <1>1, <1>2, <1>3, <1>4, <1>5 DEF SyncNext

LEMMA SyncUpToDate == ASSUME SyncInv PROVE SyncBringsUpToDate
<1> SUFFICES ASSUME object # "TransactionChain", NEW n \in SyncNode, NEW m \in SyncNode,
                    DigestIndex(posts, log[m], LatestDigest(posts, log[n])) # -1
             PROVE  ToSet(Replay(posts, log[n],
                            Since(posts, log[m], LatestDigest(posts, log[n])))) = ToSet(log[m])
  BY DEF SyncBringsUpToDate
<1>1. PICK N \in Nat : N = Len(posts)
  BY SyncTypes
<1>2. PICK l, L, d : l = log[n] /\ L = log[m] /\ d = LatestDigest(posts, log[n])
  OBVIOUS
<1>3. /\ Grown(posts, l) /\ Grown(posts, L) /\ object \in MerkleClass
      /\ \A p \in 1 .. N : posts[p] \subseteq 1 .. (p - 1)
  BY <1>1, <1>2 DEF SyncInv
<1>4. l \in Seq(1 .. N) /\ L \in Seq(1 .. N)
  BY <1>1, <1>3 DEF Grown
<1>5. PICK i \in 0 .. Len(L) : /\ i = DigestIndex(posts, L, d) /\ DigestIndex(posts, L, d) # -1
                               /\ LatestDigest(posts, SubSeq(L, 1, i)) = d
  BY <1>2, <1>4, DigestFound
<1>6. PICK u : u = SubSeq(L, 1, i)
  OBVIOUS
<1>7. Grown(posts, u) /\ ToSet(u) = {L[k] : k \in 1 .. i}
  BY <1>3, <1>6, GrownPrefix
<1>8. u \in Seq(1 .. N)
  BY <1>1, <1>7 DEF Grown
<1>9. PICK S, T : S = ToSet(l) /\ T = ToSet(u)
  OBVIOUS
<1>10. S \in SUBSET (1 .. N) /\ T \in SUBSET (1 .. N)
  BY <1>4, <1>8, <1>9, MembersCounted
<1>11. d = Tips(posts, S) /\ Closed(posts, S)
  BY <1>2, <1>3, <1>9, DigestGrown
<1>12. d = Tips(posts, T) /\ Closed(posts, T)
  BY <1>3, <1>5, <1>6, <1>7, <1>9, DigestGrown
<1>13. S \subseteq T
  BY <1>3, <1>10, <1>11, <1>12, TipsDecide
<1>14. T \subseteq S
  BY <1>3, <1>10, <1>11, <1>12, TipsDecide
<1>15. ToSet(l) = {L[k] : k \in 1 .. i}
  BY <1>7, <1>9, <1>13, <1>14
<1>16. ToSet(Replay(posts, l, SubSeq(L, i + 1, Len(L)))) = ToSet(L)
  BY <1>3, <1>15, ReplayCatchesUp
<1>17. Since(posts, L, d) = SubSeq(L, i + 1, Len(L))
  BY <1>5 DEF Since
<1> QED
  BY <1>2, <1>16, <1>17

(* What a peer sends to a node whose digest it recognises is accepted post *)
(* by post and brings the node up to it, for every number of nodes, posts  *)
(* and requests and every order of delivery (core_objects.py, node.py).    *)
THEOREM SyncBringsUpToDateHolds == SyncSpec => [](SyncTypeOK /\ SyncBringsUpToDate)
<1>1. SyncInit => SyncInv
  BY SyncStart
<1>2. SyncInv /\ [SyncNext]_syncVars => SyncInv'
  BY SyncStep
<1>3. SyncInv => SyncTypeOK /\ SyncBringsUpToDate
  BY SyncTypes, SyncUpToDate
<1> QED
  BY <1>1, <1>2, <1>3, PTL DEF SyncSpec

-----------------------------------------------------------------------------
(* The tables, and those without a restored entry. *)
PeerList == {s \in Seq(Entry) : Len(s) <= MaxPeers + 1}
Tuples == [node : PeerNode, form : {"tuple"}]

LEMMA JoinedTyped ==
  ASSUME NEW s \in PeerList, NEW x \in PeerNode
  PROVE  /\ Joined(s, x) \in PeerList
         /\ ~Crowded(s) => Joined(s, x) = Append(s, Pair(x))
<1>1. PICK N \in Nat : N = Len(s) /\ s \in Seq(Entry) /\ N <= MaxPeers + 1
  BY DEF PeerList
<1>2. Pair(x) \in Entry
  BY DEF Pair, Entry, Form
<1>3. MakeRoom(s) \in Seq(Entry) /\ Len(MakeRoom(s)) <= MaxPeers
  <2>1. CASE N >= MaxPeers
    <3>1. MakeRoom(s) = SubSeq(s, 1, N - 1)
      BY <1>1, <2>1 DEF MakeRoom
    <3>2. \A i \in 1 .. N - 1 : s[i] \in Entry
      BY <1>1
    <3>3. SubSeq(s, 1, N - 1) \in Seq(Entry)
      BY <1>1, <3>2, SubSeqProperties
    <3>4. Len(SubSeq(s, 1, N - 1)) = IF 1 <= N - 1 THEN N - 1 ELSE 0
      BY <1>1, <3>2, SubSeqProperties
    <3> QED
      BY <1>1, <3>1, <3>3, <3>4, PeerAssumption
  <2>2. CASE ~(N >= MaxPeers)
    BY <1>1, <2>2, PeerAssumption DEF MakeRoom
  <2> QED
    BY <2>1, <2>2
<1>4. Joined(s, x) \in Seq(Entry) /\ Len(Joined(s, x)) = Len(MakeRoom(s)) + 1
  BY <1>2, <1>3, AppendProperties DEF Joined
<1>5. Joined(s, x) \in PeerList
  <2>1. Len(MakeRoom(s)) \in Nat
    BY <1>3
  <2> QED
    BY <1>3, <1>4, <2>1, PeerAssumption DEF PeerList
<1>6. ~Crowded(s) => MakeRoom(s) = s
  BY DEF Crowded, MakeRoom
<1> QED
  BY <1>5, <1>6 DEF Joined

LEMMA SendableTyped ==
  ASSUME NEW s \in PeerList
  PROVE  /\ Sendable(s) \in PeerList
         /\ s \in Seq(Tuples) => Sendable(s) = s
         /\ Sendable(s) = s => s \in Seq(Tuples)
<1>1. s \in Seq(Entry) /\ Len(s) \in Nat /\ Len(s) <= MaxPeers + 1
  BY DEF PeerList
<1>2. Sendable(s) \in Seq(Entry) /\ ToSet(Sendable(s)) = ToSet(s) \cap Tuples
  BY <1>1, OnlyProperties DEF Sendable, Tuples
<1>3. Len(Sendable(s)) <= Len(s) /\ Len(Sendable(s)) \in Nat
  BY <1>1, <1>2, OnlyShorter DEF Sendable
<1>4. Sendable(s) \in PeerList
  BY <1>1, <1>2, <1>3, PeerAssumption DEF PeerList
<1>5. ASSUME s \in Seq(Tuples) PROVE Sendable(s) = s
  <2>1. ToSet(s) \subseteq Tuples
    BY <1>5, MembersCounted
  <2> QED
    BY <1>1, <2>1, OnlyAll DEF Sendable, Tuples
<1>6. ASSUME Sendable(s) = s PROVE s \in Seq(Tuples)
  <2>1. ToSet(s) \subseteq Tuples
    BY <1>2, <1>6
  <2>2. \A i \in 1 .. Len(s) : s[i] \in Tuples
    BY <1>1, <2>1 DEF ToSet
  <2> QED
    BY <1>1, <2>2
<1> QED
  BY <1>4, <1>5, <1>6

LEMMA BannedTyped ==
  ASSUME NEW s \in PeerList, NEW e
  PROVE  RemoveFirst(s, e) \in PeerList
<1>1. PICK N \in Nat : N = Len(s) /\ s \in Seq(Entry) /\ N <= MaxPeers + 1
  BY DEF PeerList
<1>2. CASE \E i \in 1 .. Len(s) : s[i] = e
  <2>1. PICK I \in SUBSET (1 .. N) : I = {i \in 1 .. N : s[i] = e}
    OBVIOUS
  <2>2. I # {}
    BY <1>1, <1>2, <2>1
  <2>3. PICK k : k = Min(I)
    OBVIOUS
  <2>4. k \in 1 .. N
    <3>1. PICK f : f = [i \in I |-> i]
      OBVIOUS
    <3>2. \A i \in I : f[i] = i /\ f[i] \in Nat
      BY <2>1, <3>1
    <3>3. PICK i \in I : \A j \in I : f[i] <= f[j]
      BY <2>2, <3>2, Least
    <3>4. \A j \in I : i <= j
      BY <3>2, <3>3
    <3>5. Min(I) \in I
      BY <3>4 DEF Min
    <3> QED
      BY <2>1, <2>3, <3>5
  <2>5. RemoveFirst(s, e) = SubSeq(s, 1, k - 1) \o SubSeq(s, k + 1, N)
    BY <1>1, <1>2, <2>1, <2>2, <2>3 DEF RemoveFirst, RemoveAt, SelectInSeq
  <2>6. PICK a, b : a = SubSeq(s, 1, k - 1) /\ b = SubSeq(s, k + 1, N)
    OBVIOUS
  <2>7. a \in Seq(Entry) /\ Len(a) = k - 1
    <3>1. \A i \in 1 .. k - 1 : s[i] \in Entry
      BY <1>1, <2>4
    <3>2. SubSeq(s, 1, k - 1) \in Seq(Entry)
      BY <2>4, <3>1, SubSeqProperties
    <3>3. Len(SubSeq(s, 1, k - 1)) = IF 1 <= k - 1 THEN (k - 1) - 1 + 1 ELSE 0
      BY <2>4, <3>1, SubSeqProperties
    <3> QED
      BY <2>4, <2>6, <3>2, <3>3
  <2>8. b \in Seq(Entry) /\ Len(b) = N - k
    <3>1. \A i \in k + 1 .. N : s[i] \in Entry
      BY <1>1, <2>4
    <3>2. SubSeq(s, k + 1, N) \in Seq(Entry)
      BY <1>1, <2>4, <3>1, SubSeqProperties
    <3>3. Len(SubSeq(s, k + 1, N)) = IF k + 1 <= N THEN N - (k + 1) + 1 ELSE 0
      BY <1>1, <2>4, <3>1, SubSeqProperties
    <3> QED
      BY <1>1, <2>4, <2>6, <3>2, <3>3
  <2>9. a \o b \in Seq(Entry) /\ Len(a \o b) = Len(a) + Len(b)
    BY <2>7, <2>8
  <2>10. Len(a \o b) = N - 1
    BY <1>1, <2>4, <2>7, <2>8, <2>9
  <2>11. N - 1 <= MaxPeers + 1
    BY <1>1, PeerAssumption
  <2>12. RemoveFirst(s, e) = a \o b
    BY <2>5, <2>6
  <2> QED
    BY <2>9, <2>10, <2>11, <2>12 DEF PeerList
<1>3. CASE ~ (\E i \in 1 .. Len(s) : s[i] = e)
  BY <1>3 DEF RemoveFirst
<1> QED
  BY <1>2, <1>3

(* Peers added in turn. *)
Joining == [a \in PeerList \X PeerNode |-> Joined(a[1], a[2])]

LEMMA AllJoined ==
  ASSUME NEW s \in PeerList, NEW order \in Seq(PeerNode)
  PROVE  /\ FoldLeft(Joined, s, order) \in PeerList
         /\ order = <<>> => FoldLeft(Joined, s, order) = s
<1>1. PICK N \in Nat : N = Len(order)
  OBVIOUS
<1>2. PICK V, G : V = PeerList /\ G = Joining
  OBVIOUS
<1>3. \A v \in V, x \in PeerNode : G[<<v, x>>] = Joined(v, x) /\ G[<<v, x>>] \in V
  BY <1>2, JoinedTyped DEF Joining
<1>4. s \in V /\ FoldStays(G, V, PeerNode)
  BY <1>2, <1>3 DEF FoldStays
<1>5. PICK it : FoldSets(it, order, V, s, G)
  BY <1>4, FoldExists
<1>6. \A i \in 1 .. N : order[i] \in PeerNode
  BY <1>1
<1>7. it = [t \in SUBSET (1 .. N) |->
              IF t = {} THEN s ELSE Joined(it[t \ {Max(t)}], order[Max(t)])]
  <2>1. ASSUME NEW t \in SUBSET (1 .. N), t # {}
        PROVE  it[t] = Joined(it[t \ {Max(t)}], order[Max(t)])
    <3>1. Max(t) \in 1 .. N /\ it[t] = G[<<it[t \ {Max(t)}], order[Max(t)]>>]
      BY <1>1, <1>5, <2>1 DEF FoldSets
    <3>2. it[t \ {Max(t)}] \in V
      BY <1>1, <1>5 DEF FoldSets
    <3>3. PICK v \in V, x \in PeerNode : v = it[t \ {Max(t)}] /\ x = order[Max(t)]
      BY <1>6, <3>1, <3>2
    <3> QED
      BY <1>3, <3>1, <3>3
  <2>2. it \in [SUBSET (1 .. N) -> V] /\ it[{}] = s
    BY <1>1, <1>5 DEF FoldSets
  <2> QED
    BY <2>1, <2>2
<1>8. PICK fold : fold = CHOOSE f : f = [t \in SUBSET (1 .. N) |->
              IF t = {} THEN s ELSE Joined(f[t \ {Max(t)}], order[Max(t)])]
  OBVIOUS
<1>9. fold = [t \in SUBSET (1 .. N) |->
              IF t = {} THEN s ELSE Joined(fold[t \ {Max(t)}], order[Max(t)])]
  BY <1>7, <1>8
<1>10. DOMAIN order = 1 .. N
  BY <1>1
<1>11. FoldLeft(Joined, s, order) = fold[1 .. N]
  BY <1>8, <1>10 DEF FoldLeft, MapThenFoldSet
<1>12. fold[{}] = s
  BY <1>9
<1>13. ASSUME NEW t \in SUBSET (1 .. N), t # {}, fold[t \ {Max(t)}] \in V
       PROVE  fold[t] = G[<<fold[t \ {Max(t)}], order[Max(t)]>>]
  <2>1. Max(t) \in 1 .. N
    BY <1>13, GreatestPosition
  <2>2. PICK v \in V, x \in PeerNode : v = fold[t \ {Max(t)}] /\ x = order[Max(t)]
    BY <1>6, <1>13, <2>1
  <2>3. fold[t] = Joined(v, x)
    BY <1>9, <1>13, <2>2
  <2> QED
    BY <1>3, <2>2, <2>3
<1>14. FoldsTo(fold[1 .. Len(order)], order, V, s, G)
  <2>1. FoldSolves(fold, order, V, s, G)
    BY <1>1, <1>12, <1>13 DEF FoldSolves
  <2> QED
    BY <1>4, <2>1, FoldFound
<1>15. FoldsTo(FoldLeft(Joined, s, order), order, V, s, G)
  BY <1>1, <1>11, <1>14
<1>16. FoldLeft(Joined, s, order) \in V
  BY <1>15, FoldTyped
<1>17. order = <<>> => FoldLeft(Joined, s, order) = s
  BY <1>15, FoldNone
<1> QED
  BY <1>2, <1>16, <1>17

-----------------------------------------------------------------------------
LEMMA NodesTyped ==
  ASSUME NEW s \in PeerList
  PROVE  Nodes(s) \subseteq PeerNode
<1>1. s \in Seq(Entry)
  BY DEF PeerList
<1>2. \A i \in DOMAIN s : s[i] \in Entry
  BY <1>1
<1> QED
  BY <1>2 DEF Nodes, Entry

LEMMA NodesAppend ==
  ASSUME NEW s \in Seq(Entry), NEW x \in PeerNode
  PROVE  Nodes(Append(s, Pair(x))) = Nodes(s) \cup {x}
<1>1. PICK u, N, e : u = Append(s, Pair(x)) /\ N = Len(s) /\ e = Pair(x)
  OBVIOUS
<1>2. e \in Entry /\ e.node = x
  BY <1>1 DEF Pair, Entry, Form
<1>3. /\ N \in Nat /\ DOMAIN s = 1 .. N /\ DOMAIN u = 1 .. (N + 1) /\ u[N + 1] = e
      /\ \A i \in 1 .. N : u[i] = s[i]
  BY <1>1, <1>2, AppendProperties
<1>4. \A i \in 1 .. (N + 1) : i \in 1 .. N \/ i = N + 1
  BY <1>3
<1>5. \A i \in 1 .. N : i \in 1 .. (N + 1)
  BY <1>3
<1>6. N + 1 \in 1 .. (N + 1)
  BY <1>3
<1>7. Nodes(u) = Nodes(s) \cup {e.node}
  BY <1>3, <1>4, <1>5, <1>6 DEF Nodes
<1> QED
  BY <1>1, <1>2, <1>7

LEMMA ConnectedNode ==
  ASSUME NEW s \in PeerList, NEW x \in PeerNode, Pair(x) \in ToSet(s)
  PROVE  x \in Nodes(s)
<1>1. PICK i \in DOMAIN s : s[i] = Pair(x)
  BY DEF ToSet
<1>2. s[i].node = x
  BY <1>1 DEF Pair
<1> QED
  BY <1>2 DEF Nodes

LEMMA AdvertTyped ==
  ASSUME NEW x \in PeerNode, NEW N \in SUBSET PeerNode
  PROVE  Advert(x, N) \subseteq Datagram
BY DEF Advert, Datagram

(* x has stored n's advertisement, or it is on its way. *)
Advertised(D, n, x) == [type |-> "advert", to |-> x, about |-> n] \in D
Known(A, D, n, x) == n \in A[x] \/ Advertised(D, n, x)

(* What holds while no peer is replaced or removed: who is listed learns   *)
(* of it, who is advertised is listed, and of two nodes whose              *)
(* advertisements some node has stored one learns of the other.            *)
Spread(T, A, D) ==
  /\ \A n \in PeerNode : T[n] \in Seq(Tuples)
  /\ \A n, x \in PeerNode : x \in Nodes(T[n]) => Known(A, D, n, x)
  /\ \A n, x \in PeerNode : n \in A[x] /\ n # x => n \in Nodes(T[x])
  /\ \A x, n, y \in PeerNode :
       n \in A[x] /\ y \in A[x] /\ n # y => Known(A, D, n, y) \/ Known(A, D, y, n)

(* What a step leaves of it, and what it must provide for what is new.     *)
Listed(T, U) == \A n \in PeerNode : U[n] \in Seq(Tuples) /\ Nodes(T[n]) \subseteq Nodes(U[n])
StillKnown(A, D, B, E) == \A n, x \in PeerNode : Known(A, D, n, x) => Known(B, E, n, x)
NewListed(T, U, B, E) ==
  \A n, x \in PeerNode : x \in Nodes(U[n]) /\ x \notin Nodes(T[n]) => Known(B, E, n, x)
NewStored(A, U, B) ==
  \A n, x \in PeerNode : n \in B[x] /\ n \notin A[x] /\ n # x => n \in Nodes(U[x])
NewPairs(A, B, E) ==
  \A x, n, y \in PeerNode :
    n \in B[x] /\ n \notin A[x] /\ y \in B[x] /\ n # y => Known(B, E, n, y) \/ Known(B, E, y, n)

LEMMA SpreadGrows ==
  ASSUME NEW T, NEW A, NEW D, Spread(T, A, D), NEW U, NEW B, NEW E,
         Listed(T, U), StillKnown(A, D, B, E), NewListed(T, U, B, E),
         NewStored(A, U, B), NewPairs(A, B, E)
  PROVE  Spread(U, B, E)
<1>1. \A n, x \in PeerNode : x \in Nodes(U[n]) => Known(B, E, n, x)
  BY DEF Spread, StillKnown, NewListed
<1>2. \A n, x \in PeerNode : n \in B[x] /\ n # x => n \in Nodes(U[x])
  BY DEF Spread, Listed, NewStored
<1>3. \A x, n, y \in PeerNode :
        n \in B[x] /\ y \in B[x] /\ n # y => Known(B, E, n, y) \/ Known(B, E, y, n)
  <2> SUFFICES ASSUME NEW x \in PeerNode, NEW n \in PeerNode, NEW y \in PeerNode,
                      n \in B[x], y \in B[x], n # y
               PROVE  Known(B, E, n, y) \/ Known(B, E, y, n)
    OBVIOUS
  <2>1. CASE n \in A[x] /\ y \in A[x]
    BY <2>1 DEF Spread, StillKnown
  <2>2. CASE n \notin A[x]
    BY <2>2 DEF NewPairs
  <2>3. CASE y \notin A[x]
    BY <2>3 DEF NewPairs
  <2> QED
    BY <2>1, <2>2, <2>3
<1> QED
  BY <1>1, <1>2, <1>3 DEF Spread, Listed

(* The message that nobody but its receiver takes away. *)
LEMMA SpreadSame ==
  ASSUME NEW T, NEW A, NEW D, Spread(T, A, D), NEW E,
         \A n, x \in PeerNode : Advertised(D, n, x) => n \in A[x] \/ Advertised(E, n, x)
  PROVE  Spread(T, A, E)
<1>1. \A n, x \in PeerNode : Known(A, D, n, x) => Known(A, E, n, x)
  BY DEF Known
<1>2. \A n \in PeerNode : T[n] \in Seq(Tuples) /\ Nodes(T[n]) \subseteq Nodes(T[n])
  BY DEF Spread
<1> QED
  BY <1>1, <1>2 DEF Spread

LEMMA SpreadJoin ==
  ASSUME NEW T \in [PeerNode -> PeerList], NEW A, NEW D, Spread(T, A, D), NEW E,
         NEW n \in PeerNode, NEW x \in PeerNode, ~Crowded(T[n]), Advertised(E, n, x),
         \A m, y \in PeerNode : Advertised(D, m, y) => m \in A[y] \/ Advertised(E, m, y)
  PROVE  Spread([T EXCEPT ![n] = Joined(T[n], x)], A, E)
<1>1. PICK U : U = [T EXCEPT ![n] = Joined(T[n], x)]
  OBVIOUS
<1>2. PICK s \in PeerList : s = T[n] /\ s \in Seq(Tuples) /\ s \in Seq(Entry)
  BY DEF Spread, PeerList
<1>3. U[n] = Append(s, Pair(x)) /\ \A m \in PeerNode : m # n => U[m] = T[m]
  BY <1>1, <1>2, JoinedTyped
<1>4. Append(s, Pair(x)) \in Seq(Tuples)
  <2>1. Pair(x) \in Tuples
    BY DEF Pair, Tuples
  <2> QED
    BY <1>2, <2>1, AppendProperties
<1>5. Nodes(U[n]) = Nodes(T[n]) \cup {x}
  BY <1>2, <1>3, NodesAppend
<1>6. \A m \in PeerNode : U[m] \in Seq(Tuples) /\ Nodes(T[m]) \subseteq Nodes(U[m])
  <2> SUFFICES ASSUME NEW m \in PeerNode
               PROVE  U[m] \in Seq(Tuples) /\ Nodes(T[m]) \subseteq Nodes(U[m])
    OBVIOUS
  <2>1. CASE m = n
    BY <1>3, <1>4, <1>5, <2>1
  <2>2. CASE m # n
    BY <1>3, <2>2 DEF Spread
  <2> QED
    BY <2>1, <2>2
<1>7. \A m, y \in PeerNode : Known(A, D, m, y) => Known(A, E, m, y)
  BY DEF Known
<1>8. \A m, y \in PeerNode : y \in Nodes(U[m]) /\ y \notin Nodes(T[m]) => Known(A, E, m, y)
  BY <1>3, <1>5 DEF Known
<1>9. Listed(T, U) /\ StillKnown(A, D, A, E) /\ NewListed(T, U, A, E)
  BY <1>6, <1>7, <1>8 DEF Listed, StillKnown, NewListed
<1>10. NewStored(A, U, A) /\ NewPairs(A, A, E)
  BY DEF NewStored, NewPairs
<1>11. Spread(U, A, E)
  BY <1>9, <1>10, SpreadGrows
<1> QED
  BY <1>1, <1>11

(* An advertisement is handled: the table has its node afterwards, which   *)
(* is told when it is new, and every peer is told of it.                   *)
Tabled(T, U, n, x, table) ==
  /\ U = [T EXCEPT ![n] = table] /\ table \in Seq(Tuples)
  /\ Nodes(T[n]) \subseteq Nodes(table) /\ Nodes(table) \subseteq Nodes(T[n]) \cup {x}
  /\ x \in Nodes(table) \/ x = n
Told(T, D, E, n, x, table) ==
  /\ x \in Nodes(T[n]) \/ x \notin Nodes(table) \/ Advertised(E, n, x)
  /\ \A y \in Nodes(table) : Advertised(E, x, y)
  /\ \A m, y \in PeerNode : Advertised(D, m, y) => (m = x /\ y = n) \/ Advertised(E, m, y)

LEMMA SpreadAdvert ==
  ASSUME NEW T \in [PeerNode -> PeerList], NEW A \in [PeerNode -> SUBSET PeerNode],
         NEW D, Spread(T, A, D),
         NEW n \in PeerNode, NEW x \in PeerNode, NEW U, NEW table, Tabled(T, U, n, x, table),
         NEW E, Told(T, D, E, n, x, table)
  PROVE  Spread(U, [A EXCEPT ![n] = A[n] \cup {x}], E)
<1> DEFINE B == [A EXCEPT ![n] = A[n] \cup {x}]
<1> USE DEF Tabled, Told
<1>1. U[n] = table /\ \A m \in PeerNode : m # n => U[m] = T[m]
  OBVIOUS
<1>2. B[n] = A[n] \cup {x} /\ \A m \in PeerNode : m # n => B[m] = A[m]
  OBVIOUS
<1>3. \A m \in PeerNode : U[m] \in Seq(Tuples) /\ Nodes(T[m]) \subseteq Nodes(U[m])
  <2> SUFFICES ASSUME NEW m \in PeerNode
               PROVE  U[m] \in Seq(Tuples) /\ Nodes(T[m]) \subseteq Nodes(U[m])
    OBVIOUS
  <2>1. CASE m = n
    BY <1>1, <2>1
  <2>2. CASE m # n
    BY <1>1, <2>2 DEF Spread
  <2> QED
    BY <2>1, <2>2
<1>4. \A m, y \in PeerNode : Known(A, D, m, y) => Known(B, E, m, y)
  BY <1>2 DEF Known
<1>5. \A m, y \in PeerNode : y \in Nodes(U[m]) /\ y \notin Nodes(T[m]) => Known(B, E, m, y)
  BY <1>1 DEF Known
<1>6. \A m, y \in PeerNode : m \in B[y] /\ m \notin A[y] /\ m # y => m \in Nodes(U[y])
  BY <1>1, <1>2
<1>7. ASSUME NEW z \in PeerNode, NEW m \in PeerNode, NEW y \in PeerNode,
             m \in B[z], m \notin A[z], y \in B[z], m # y
      PROVE  Known(B, E, m, y) \/ Known(B, E, y, m)
  <2>1. z = n /\ m = x /\ y \in A[n]
    BY <1>2, <1>7
  <2>2. CASE y = n
    BY <1>2, <2>1, <2>2 DEF Known
  <2>3. CASE y # n
    <3>1. y \in Nodes(T[n])
      BY <2>1, <2>3 DEF Spread
    <3> QED
      BY <2>1, <3>1 DEF Known
  <2> QED
    BY <2>2, <2>3
<1>8. \A z, m, y \in PeerNode :
        m \in B[z] /\ m \notin A[z] /\ y \in B[z] /\ m # y =>
          Known(B, E, m, y) \/ Known(B, E, y, m)
  BY <1>7
<1>9. Listed(T, U) /\ StillKnown(A, D, B, E) /\ NewListed(T, U, B, E)
  BY <1>3, <1>4, <1>5 DEF Listed, StillKnown, NewListed
<1>10. NewStored(A, U, B) /\ NewPairs(A, B, E)
  BY <1>6, <1>8 DEF NewStored, NewPairs
<1> QED
  BY <1>9, <1>10, SpreadGrows

-----------------------------------------------------------------------------
PeerShape ==
  /\ peers \in [PeerNode -> PeerList]
  /\ joining \in [PeerNode -> SUBSET PeerNode]
  /\ adverts \in [PeerNode -> SUBSET PeerNode]
  /\ waiting \in [PeerNode -> SUBSET PeerNode]
  /\ peerNet \subseteq Datagram
  /\ bans \in [PeerNode -> SUBSET Entry]
  /\ calls \in 0 .. MaxCalls /\ disturbed \in BOOLEAN

Meshing == ~disturbed => Spread(peers, adverts, peerNet)

PeerInv == PeerShape /\ Meshing

LEMMA PeerTypes == PeerShape => PeerTypeOK
<1> SUFFICES ASSUME PeerShape PROVE PeerTypeOK
  OBVIOUS
<1>1. \A n \in PeerNode : peers[n] \in Seq(Entry) /\ Len(peers[n]) <= MaxPeers + 1
  BY DEF PeerShape, PeerList
<1>2. peers \in [PeerNode -> Seq(Entry)]
  BY <1>1 DEF PeerShape
<1> QED
  BY <1>1, <1>2 DEF PeerShape, PeerTypeOK

LEMMA PeerStart == PeerInit => PeerInv
<1> SUFFICES ASSUME PeerInit PROVE PeerInv
  OBVIOUS
<1>1. <<>> \in PeerList /\ <<>> \in Seq(Tuples) /\ Nodes(<<>>) = {}
  <2>1. Len(<<>>) = 0 /\ <<>> \in Seq(Entry) /\ <<>> \in Seq(Tuples)
    OBVIOUS
  <2> QED
    BY <2>1, PeerAssumption DEF PeerList, Nodes
<1>2. PeerShape
  <2>1. peers \in [PeerNode -> PeerList]
    BY <1>1 DEF PeerInit
  <2>2. joining \in [PeerNode -> SUBSET PeerNode]
    BY DEF PeerInit, Nobody
  <2>3. adverts \in [PeerNode -> SUBSET PeerNode] /\ waiting \in [PeerNode -> SUBSET PeerNode]
    BY DEF PeerInit
  <2>4. bans \in [PeerNode -> SUBSET Entry] /\ peerNet \subseteq Datagram
    BY DEF PeerInit
  <2>5. calls = 0 /\ disturbed = FALSE
    BY DEF PeerInit
  <2>6. calls \in 0 .. MaxCalls
    BY <2>5, PeerAssumption
  <2>7. disturbed \in BOOLEAN
    BY <2>5
  <2> QED
    BY <2>1, <2>2, <2>3, <2>4, <2>6, <2>7 DEF PeerShape
<1>3. \A n \in PeerNode : peers[n] \in Seq(Tuples) /\ Nodes(peers[n]) = {} /\ adverts[n] = {}
  <2>1. \A n \in PeerNode : peers[n] = <<>> /\ adverts[n] = {}
    BY DEF PeerInit
  <2> QED
    BY <1>1, <2>1
<1>4. Spread(peers, adverts, peerNet)
  BY <1>3 DEF Spread
<1> QED
  BY <1>2, <1>4 DEF PeerInv, Meshing

(* Steps that leave the tables, the advertisements and disturbed alone.    *)
LEMMA PeerQuiet ==
  ASSUME PeerInv, UNCHANGED <<peers, adverts, disturbed>>,
         joining' \in [PeerNode -> SUBSET PeerNode],
         waiting' \in [PeerNode -> SUBSET PeerNode], calls' \in 0 .. MaxCalls,
         bans' = bans, peerNet' \subseteq Datagram,
         \A n, x \in PeerNode : Advertised(peerNet, n, x) => Advertised(peerNet', n, x)
  PROVE  PeerInv'
<1>1. PeerShape'
  BY DEF PeerInv, PeerShape
<1>2. ASSUME ~disturbed' PROVE Spread(peers', adverts', peerNet')
  <2>1. Spread(peers, adverts, peerNet)
    BY <1>2 DEF PeerInv, Meshing
  <2>2. Spread(peers, adverts, peerNet')
    BY <2>1, SpreadSame
  <2> QED
    BY <2>2
<1> QED
  BY <1>1, <1>2 DEF PeerInv, Meshing

LEMMA MoreCalls == ASSUME PeerInv, calls < MaxCalls PROVE calls + 1 \in 0 .. MaxCalls
BY PeerAssumption DEF PeerInv, PeerShape

LEMMA ConnectStep ==
  ASSUME PeerInv, NEW n \in PeerNode, NEW x \in PeerNode, Connect(n, x)
  PROVE  PeerInv'
<1>1. joining' \in [PeerNode -> SUBSET PeerNode]
  BY DEF Connect, PeerInv, PeerShape
<1>2. calls' \in 0 .. MaxCalls
  BY MoreCalls DEF Connect
<1> QED
  BY <1>1, <1>2, PeerQuiet DEF Connect, PeerInv, PeerShape

LEMMA AskLocallyStep ==
  ASSUME PeerInv, NEW n \in PeerNode, NEW x \in PeerNode, AskLocally(n, x)
  PROVE  PeerInv'
<1>1. waiting' \in [PeerNode -> SUBSET PeerNode]
  BY DEF AskLocally, PeerInv, PeerShape
<1>2. calls' \in 0 .. MaxCalls
  BY MoreCalls DEF AskLocally
<1>3. [type |-> "ask", to |-> x, about |-> n] \in Datagram
  BY DEF Datagram
<1>4. peerNet' \subseteq Datagram
  BY <1>3 DEF AskLocally, PeerInv, PeerShape
<1>5. \A m, y \in PeerNode : Advertised(peerNet, m, y) => Advertised(peerNet', m, y)
  BY DEF AskLocally, Advertised
<1> QED
  BY <1>1, <1>2, <1>4, <1>5, PeerQuiet DEF AskLocally, PeerInv, PeerShape

LEMMA AnswerLocallyStep ==
  ASSUME PeerInv, NEW n \in PeerNode, NEW x \in PeerNode, AnswerLocally(n, x)
  PROVE  PeerInv'
<1>1. Nodes(peers[n]) \in SUBSET PeerNode
  BY NodesTyped DEF PeerInv, PeerShape
<1>2. [type |-> "answer", to |-> x, about |-> n, list |-> Nodes(peers[n])] \in Datagram
  BY <1>1 DEF Datagram
<1>3. peerNet' \subseteq Datagram
  BY <1>2 DEF AnswerLocally, PeerInv, PeerShape
<1>4. \A m, y \in PeerNode : Advertised(peerNet, m, y) => Advertised(peerNet', m, y)
  BY DEF AnswerLocally, Advertised
<1> QED
  BY <1>3, <1>4, PeerQuiet DEF AnswerLocally, PeerInv, PeerShape

LEMMA AskIntroductionStep ==
  ASSUME PeerInv, NEW n \in PeerNode, NEW x \in PeerNode, NEW relay \in PeerNode,
         AskIntroduction(n, relay, x)
  PROVE  PeerInv'
<1>1. calls' \in 0 .. MaxCalls
  BY MoreCalls DEF AskIntroduction
<1>2. [type |-> "introduce", to |-> relay, about |-> n, target |-> x] \in Datagram
  BY DEF Datagram
<1>3. peerNet' \subseteq Datagram
  BY <1>2 DEF AskIntroduction, PeerInv, PeerShape
<1>4. \A m, y \in PeerNode : Advertised(peerNet, m, y) => Advertised(peerNet', m, y)
  BY DEF AskIntroduction, Advertised
<1> QED
  BY <1>1, <1>3, <1>4, PeerQuiet DEF AskIntroduction, PeerInv, PeerShape

LEMMA IntroduceStep ==
  ASSUME PeerInv, NEW n \in PeerNode, NEW d \in peerNet, Introduce(n, d)
  PROVE  PeerInv'
<1>1. d \in Datagram /\ d.type = "introduce"
  BY DEF Introduce, PeerInv, PeerShape
<1>2. d.target \in PeerNode /\ d.about \in PeerNode
  BY <1>1 DEF Datagram
<1>3. [type |-> "introduction", to |-> d.target, about |-> d.about] \in Datagram
  BY <1>2 DEF Datagram
<1>4. peerNet' \subseteq Datagram
  BY <1>3 DEF Introduce, PeerInv, PeerShape
<1>5. \A m, y \in PeerNode : Advertised(peerNet, m, y) => Advertised(peerNet', m, y)
  BY <1>1 DEF Introduce, Advertised
<1> QED
  BY <1>4, <1>5, PeerQuiet DEF Introduce, PeerInv, PeerShape

LEMMA DisturbedStep ==
  ASSUME PeerInv, disturbed' = TRUE, peers' \in [PeerNode -> PeerList], PeerShape'
  PROVE  PeerInv'
BY DEF PeerInv, Meshing

LEMMA BanStep ==
  ASSUME PeerInv, NEW n \in PeerNode, NEW x \in PeerNode, Ban(n, x)
  PROVE  PeerInv'
<1>1. RemoveFirst(peers[n], Pair(x)) \in PeerList
  BY BannedTyped DEF PeerInv, PeerShape
<1>2. peers' \in [PeerNode -> PeerList]
  BY <1>1 DEF Ban, PeerInv, PeerShape
<1>3. Pair(x) \in Entry
  BY DEF Pair, Entry, Form
<1>4. bans' \in [PeerNode -> SUBSET Entry]
  BY <1>3 DEF Ban, PeerInv, PeerShape
<1>5. calls' \in 0 .. MaxCalls
  BY MoreCalls DEF Ban
<1> QED
  BY <1>2, <1>4, <1>5 DEF Ban, PeerInv, PeerShape, Meshing

LEMMA RestartStep ==
  ASSUME PeerInv, NEW n \in PeerNode, PeerRestart(n)
  PROVE  PeerInv'
<1>1. PICK s \in PeerList : s = peers[n]
  BY DEF PeerInv, PeerShape
<1>2. PICK u : u = [i \in DOMAIN s |-> [s[i] EXCEPT !.form = "list"]]
  OBVIOUS
<1>3. \A e \in Entry : [e EXCEPT !.form = "list"] \in Entry
  BY DEF Entry, Form
<1>4. u \in PeerList
  <2>1. PICK N \in Nat : N = Len(s) /\ s \in Seq(Entry) /\ N <= MaxPeers + 1 /\ DOMAIN s = 1 .. N
    BY DEF PeerList
  <2>2. \A i \in 1 .. N : s[i] \in Entry
    BY <2>1
  <2>3. u \in [1 .. N -> Entry]
    BY <1>2, <1>3, <2>1, <2>2
  <2>4. u \in Seq(Entry) /\ Len(u) = N
    BY <2>1, <2>3
  <2> QED
    BY <2>1, <2>4 DEF PeerList
<1>5. peers' = [peers EXCEPT ![n] = u]
  BY <1>1, <1>2 DEF PeerRestart
<1>6. peers' \in [PeerNode -> PeerList]
  BY <1>4, <1>5 DEF PeerInv, PeerShape
<1>7. {[e EXCEPT !.form = "list"] : e \in bans[n]} \in SUBSET Entry
  BY <1>3 DEF PeerInv, PeerShape
<1>8. bans' \in [PeerNode -> SUBSET Entry]
  BY <1>7 DEF PeerRestart, PeerInv, PeerShape
<1>9. calls' \in 0 .. MaxCalls
  BY MoreCalls DEF PeerRestart
<1>10. /\ joining' \in [PeerNode -> SUBSET PeerNode] /\ waiting' \in [PeerNode -> SUBSET PeerNode]
  BY DEF PeerRestart, PeerInv, PeerShape, Nobody
<1> QED
  BY <1>6, <1>8, <1>9, <1>10 DEF PeerRestart, PeerInv, PeerShape, Meshing

LEMMA LocalPeersStep ==
  ASSUME PeerInv, NEW n \in PeerNode, NEW d \in peerNet, HandleLocalPeers(n, d)
  PROVE  PeerInv'
<1>1. d \in Datagram /\ d.type = "answer"
  BY DEF HandleLocalPeers, PeerInv, PeerShape
<1>2. d.list \in SUBSET PeerNode
  BY <1>1 DEF Datagram
<1>3. PICK new : new = {x \in d.list : ~Connected(n, x)}
  OBVIOUS
<1>4. /\ waiting' \in [PeerNode -> SUBSET PeerNode] /\ peerNet' \subseteq Datagram
      /\ UNCHANGED <<joining, adverts, bans, calls>>
  BY DEF HandleLocalPeers, PeerInv, PeerShape
<1>5. \A m, y \in PeerNode : Advertised(peerNet, m, y) => Advertised(peerNet', m, y)
  BY <1>1 DEF HandleLocalPeers, Advertised
<1>6. CASE d.about \in waiting[n]
  <2>1. PICK order \in SetToSeqs(new) : peers' = [peers EXCEPT ![n] = FoldLeft(Joined, peers[n], order)]
    BY <1>3, <1>6 DEF HandleLocalPeers
  <2>2. disturbed' = (disturbed \/ new # {})
    BY <1>3, <1>6 DEF HandleLocalPeers
  <2>3. IsFiniteSet(new) /\ new \subseteq PeerNode
    <3>1. new \in SUBSET PeerNode
      BY <1>2, <1>3
    <3> QED
      BY <3>1, PeerAssumption, FS_Subset
  <2>4. PICK N \in Nat : N = Cardinality(new) /\ (N = 0 <=> new = {})
    BY <2>3, FS_CardinalityType, FS_EmptySet
  <2>5. order \in [1 .. N -> new]
    BY <2>1, <2>4 DEF SetToSeqs
  <2>6. order \in Seq(PeerNode) /\ Len(order) = N
    BY <2>3, <2>5
  <2>7. peers[n] \in PeerList
    BY DEF PeerInv, PeerShape
  <2>8. /\ FoldLeft(Joined, peers[n], order) \in PeerList
        /\ order = <<>> => FoldLeft(Joined, peers[n], order) = peers[n]
    BY <2>6, <2>7, AllJoined
  <2>9. peers' \in [PeerNode -> PeerList]
    BY <2>1, <2>8 DEF PeerInv, PeerShape
  <2>10. PeerShape'
    BY <1>4, <2>2, <2>9 DEF PeerInv, PeerShape
  <2>11. CASE new = {}
    <3>1. order = <<>>
      BY <2>4, <2>6, <2>11
    <3>2. peers' = peers /\ disturbed' = disturbed
      BY <2>1, <2>2, <2>8, <2>11, <3>1 DEF PeerInv, PeerShape
    <3> QED
      BY <1>4, <1>5, <3>2, PeerQuiet DEF PeerInv, PeerShape
  <2>12. CASE new # {}
    BY <2>2, <2>9, <2>10, <2>12, DisturbedStep
  <2> QED
    BY <2>11, <2>12
<1>7. CASE d.about \notin waiting[n]
  <2>1. UNCHANGED <<peers, disturbed>>
    BY <1>3, <1>7 DEF HandleLocalPeers
  <2> QED
    BY <1>4, <1>5, <2>1, PeerQuiet DEF PeerInv, PeerShape
<1> QED
  BY <1>6, <1>7

(* A peer joins a table, and is told so.                                   *)
LEMMA JoinStep ==
  ASSUME PeerInv, NEW n \in PeerNode, NEW x \in PeerNode,
         peers' = [peers EXCEPT ![n] = Joined(peers[n], x)],
         disturbed' = (disturbed \/ Crowded(peers[n])),
         Advertised(peerNet', n, x), peerNet' \subseteq Datagram,
         \A m, y \in PeerNode : Advertised(peerNet, m, y) => Advertised(peerNet', m, y),
         joining' \in [PeerNode -> SUBSET PeerNode], UNCHANGED <<adverts, waiting, bans, calls>>
  PROVE  PeerInv'
<1>1. Joined(peers[n], x) \in PeerList
  BY JoinedTyped DEF PeerInv, PeerShape
<1>2. PeerShape'
  BY <1>1 DEF PeerInv, PeerShape
<1>3. ASSUME ~disturbed' PROVE Spread(peers', adverts', peerNet')
  <2>1. Spread(peers, adverts, peerNet) /\ ~Crowded(peers[n])
    BY <1>3 DEF PeerInv, Meshing
  <2>2. peers \in [PeerNode -> PeerList]
    BY DEF PeerInv, PeerShape
  <2>3. \A m, y \in PeerNode :
          Advertised(peerNet, m, y) => m \in adverts[y] \/ Advertised(peerNet', m, y)
    OBVIOUS
  <2>4. Spread([peers EXCEPT ![n] = Joined(peers[n], x)], adverts, peerNet')
    BY <2>1, <2>2, <2>3, SpreadJoin
  <2> QED
    BY <2>4
<1>4. Meshing'
  BY <1>3 DEF Meshing
<1> QED
  BY <1>2, <1>4 DEF PeerInv

LEMMA ConnectAppendStep ==
  ASSUME PeerInv, NEW n \in PeerNode, ConnectAppend(n)
  PROVE  PeerInv'
<1>1. PICK x \in joining[n] :
        /\ peers' = [peers EXCEPT ![n] = Joined(peers[n], x)]
        /\ disturbed' = (disturbed \/ Crowded(peers[n]))
        /\ peerNet' = peerNet \cup Advert(n, {x})
        /\ joining' = [joining EXCEPT ![n] = Nobody]
        /\ UNCHANGED <<adverts, waiting, bans, calls>>
  BY DEF ConnectAppend
<1>2. x \in PeerNode
  BY DEF PeerInv, PeerShape
<1>3. Advert(n, {x}) \subseteq Datagram
  BY <1>2, AdvertTyped
<1>4. peerNet' \subseteq Datagram
  BY <1>1, <1>3 DEF PeerInv, PeerShape
<1>5. Advertised(peerNet', n, x)
  BY <1>1 DEF Advertised, Advert
<1>6. \A m, y \in PeerNode : Advertised(peerNet, m, y) => Advertised(peerNet', m, y)
  BY <1>1 DEF Advertised
<1>7. joining' \in [PeerNode -> SUBSET PeerNode]
  BY <1>1 DEF PeerInv, PeerShape, Nobody
<1> QED
  BY <1>1, <1>2, <1>4, <1>5, <1>6, <1>7, JoinStep

LEMMA IntroductionStep ==
  ASSUME PeerInv, NEW n \in PeerNode, NEW x \in PeerNode, HandleIntroduction(n, x)
  PROVE  PeerInv'
<1>1. PICK arrived : arrived = {[type |-> "introduction", to |-> n, about |-> x]}
  OBVIOUS
<1>2. joining' = joining /\ UNCHANGED <<adverts, waiting, bans, calls>>
  BY DEF HandleIntroduction
<1>3. \A m, y \in PeerNode : [type |-> "advert", to |-> y, about |-> m] \notin arrived
  BY <1>1
<1>4. CASE Connected(n, x)
  <2>1. peerNet' = peerNet \ arrived /\ UNCHANGED <<peers, disturbed>>
    BY <1>1, <1>4 DEF HandleIntroduction
  <2>2. \A m, y \in PeerNode : Advertised(peerNet, m, y) => Advertised(peerNet', m, y)
    BY <1>3, <2>1 DEF Advertised
  <2>3. peerNet' \subseteq Datagram
    BY <2>1 DEF PeerInv, PeerShape
  <2> QED
    BY <1>2, <2>1, <2>2, <2>3, PeerQuiet DEF PeerInv, PeerShape
<1>5. CASE ~Connected(n, x)
  <2>1. /\ peers' = [peers EXCEPT ![n] = Joined(peers[n], x)]
        /\ disturbed' = (disturbed \/ Crowded(peers[n]))
        /\ peerNet' = (peerNet \ arrived) \cup Advert(n, {x})
    BY <1>1, <1>5 DEF HandleIntroduction
  <2>2. Advert(n, {x}) \subseteq Datagram
    BY AdvertTyped
  <2>3. peerNet' \subseteq Datagram
    BY <2>1, <2>2 DEF PeerInv, PeerShape
  <2>4. Advertised(peerNet', n, x)
    BY <2>1 DEF Advertised, Advert
  <2>5. \A m, y \in PeerNode : Advertised(peerNet, m, y) => Advertised(peerNet', m, y)
    BY <1>3, <2>1 DEF Advertised
  <2>6. joining' \in [PeerNode -> SUBSET PeerNode]
    BY <1>2 DEF PeerInv, PeerShape
  <2> QED
    BY <1>2, <2>1, <2>3, <2>4, <2>5, <2>6, JoinStep
<1> QED
  BY <1>4, <1>5

LEMMA GossipStep ==
  ASSUME PeerInv, NEW n \in PeerNode, NEW x \in PeerNode, GossipAdvert(n, x)
  PROVE  PeerInv'
<1>1. PICK s : s = Sendable(peers[n])
  OBVIOUS
<1>2. peers[n] \in PeerList
  BY DEF PeerInv, PeerShape
<1>3. s \in PeerList
  BY <1>1, <1>2, SendableTyped
<1>4. /\ peers' = [peers EXCEPT ![n] = s]
      /\ peerNet' = peerNet \cup Advert(x, {y \in Nodes(s) : x \notin adverts[y]})
      /\ UNCHANGED <<joining, adverts, waiting, bans, calls, disturbed>>
  BY <1>1 DEF GossipAdvert
<1>5. PICK N \in SUBSET PeerNode : N = {y \in Nodes(s) : x \notin adverts[y]}
  <2>1. Nodes(s) \subseteq PeerNode
    BY <1>3, NodesTyped
  <2> QED
    BY <2>1
<1>6. Advert(x, N) \subseteq Datagram
  BY AdvertTyped
<1>7. PeerShape'
  <2>1. peerNet' \subseteq Datagram
    BY <1>4, <1>5, <1>6 DEF PeerInv, PeerShape
  <2>2. peers' \in [PeerNode -> PeerList]
    BY <1>3, <1>4 DEF PeerInv, PeerShape
  <2> QED
    BY <1>4, <2>1, <2>2 DEF PeerInv, PeerShape
<1>8. ASSUME ~disturbed' PROVE Spread(peers', adverts', peerNet')
  <2>1. Spread(peers, adverts, peerNet)
    BY <1>4, <1>8 DEF PeerInv, Meshing
  <2>2. peers[n] \in Seq(Tuples)
    BY <2>1 DEF Spread
  <2>3. s = peers[n]
    BY <1>1, <1>2, <2>2, SendableTyped
  <2>4. peers' = peers
    BY <1>4, <2>3 DEF PeerInv, PeerShape
  <2>5. \A m, y \in PeerNode :
          Advertised(peerNet, m, y) => m \in adverts[y] \/ Advertised(peerNet', m, y)
    BY <1>4 DEF Advertised
  <2>6. Spread(peers, adverts, peerNet')
    BY <2>1, <2>5, SpreadSame
  <2> QED
    BY <1>4, <2>4, <2>6
<1>9. Meshing'
  BY <1>8 DEF Meshing
<1> QED
  BY <1>7, <1>9 DEF PeerInv

LEMMA AdvertStep ==
  ASSUME PeerInv, NEW n \in PeerNode, NEW x \in PeerNode, HandleAdvert(n, x)
  PROVE  PeerInv'
<1>1. PICK arrived, table :
        /\ arrived = Advert(x, {n})
        /\ table = IF Connected(n, x) THEN peers[n] ELSE Joined(peers[n], x)
  OBVIOUS
<1>2. \A m, y \in PeerNode :
        [type |-> "advert", to |-> y, about |-> m] \in arrived => m = x /\ y = n
  BY <1>1 DEF Advert
<1>3. UNCHANGED <<joining, waiting, bans, calls>>
  BY DEF HandleAdvert
<1>4. peers \in [PeerNode -> PeerList] /\ adverts \in [PeerNode -> SUBSET PeerNode]
  BY DEF PeerInv, PeerShape
<1>5. CASE x \in adverts[n]
  <2>1. peerNet' = peerNet \ arrived /\ UNCHANGED <<peers, adverts, disturbed>>
    BY <1>1, <1>5 DEF HandleAdvert
  <2>2. PeerShape'
    BY <1>3, <2>1 DEF PeerInv, PeerShape
  <2>3. ASSUME ~disturbed' PROVE Spread(peers', adverts', peerNet')
    <3>1. Spread(peers, adverts, peerNet)
      BY <2>1, <2>3 DEF PeerInv, Meshing
    <3>2. \A m, y \in PeerNode :
            Advertised(peerNet, m, y) => m \in adverts[y] \/ Advertised(peerNet', m, y)
      BY <1>2, <1>5, <2>1 DEF Advertised
    <3>3. Spread(peers, adverts, peerNet')
      BY <3>1, <3>2, SpreadSame
    <3> QED
      BY <2>1, <3>3
  <2>4. Meshing'
    BY <2>3 DEF Meshing
  <2> QED
    BY <2>2, <2>4 DEF PeerInv
<1>6. CASE x \notin adverts[n]
  <2>1. PICK s, told : /\ s = Sendable(table)
                       /\ told = IF Connected(n, x) THEN {} ELSE Advert(n, {x})
    OBVIOUS
  <2>2. /\ peers' = [peers EXCEPT ![n] = s]
        /\ adverts' = [adverts EXCEPT ![n] = adverts[n] \cup {x}]
        /\ peerNet' = (peerNet \ arrived) \cup told \cup Advert(x, Nodes(s))
        /\ disturbed' = (disturbed \/ (~Connected(n, x) /\ Crowded(peers[n])) \/ s # table)
    BY <1>1, <1>6, <2>1 DEF HandleAdvert
  <2>3. table \in PeerList
    BY <1>1, <1>4, JoinedTyped
  <2>4. s \in PeerList /\ Nodes(s) \subseteq PeerNode
    BY <2>1, <2>3, SendableTyped, NodesTyped
  <2>5. told \subseteq Datagram /\ Advert(x, Nodes(s)) \subseteq Datagram
    <3>1. Advert(n, {x}) \subseteq Datagram
      BY AdvertTyped
    <3>2. Advert(x, Nodes(s)) \subseteq Datagram
      BY <2>4, AdvertTyped
    <3> QED
      BY <2>1, <3>1, <3>2
  <2>6. PeerShape'
    <3>1. peerNet' \subseteq Datagram
      BY <2>2, <2>5 DEF PeerInv, PeerShape
    <3>2. peers' \in [PeerNode -> PeerList] /\ adverts' \in [PeerNode -> SUBSET PeerNode]
      BY <1>4, <2>2, <2>4
    <3> QED
      BY <1>3, <2>2, <3>1, <3>2 DEF PeerInv, PeerShape
  <2>7. ASSUME ~disturbed' PROVE Spread(peers', adverts', peerNet')
    <3>1. /\ Spread(peers, adverts, peerNet) /\ s = table
          /\ ~Connected(n, x) => ~Crowded(peers[n])
      BY <2>2, <2>7 DEF PeerInv, Meshing
    <3>2. table \in Seq(Tuples)
      BY <2>1, <2>3, <3>1, SendableTyped
    <3>3. /\ Nodes(peers[n]) \subseteq Nodes(table)
          /\ Nodes(table) \subseteq Nodes(peers[n]) \cup {x}
          /\ x \in Nodes(table) \/ x = n
          /\ Connected(n, x) => Nodes(table) = Nodes(peers[n])
      <4>1. CASE Connected(n, x)
        <5>1. table = peers[n]
          BY <1>1, <4>1
        <5>2. x = n \/ x \in Nodes(peers[n])
          BY <1>4, <4>1, ConnectedNode DEF Connected
        <5> QED
          BY <5>1, <5>2
      <4>2. CASE ~Connected(n, x)
        <5>1. table = Append(peers[n], Pair(x))
          BY <1>1, <1>4, <3>1, <4>2, JoinedTyped
        <5>2. peers[n] \in Seq(Entry)
          BY <1>4 DEF PeerList
        <5>3. Nodes(table) = Nodes(peers[n]) \cup {x}
          BY <5>1, <5>2, NodesAppend
        <5> QED
          BY <4>2, <5>3
      <4> QED
        BY <4>1, <4>2
    <3>4. \A y \in Nodes(table) : Advertised(peerNet', x, y)
      BY <2>2, <3>1 DEF Advertised, Advert
    <3>5. x \in Nodes(peers[n]) \/ x \notin Nodes(table) \/ Advertised(peerNet', n, x)
      <4>1. CASE Connected(n, x)
        BY <3>3, <4>1
      <4>2. CASE ~Connected(n, x)
        <5>1. told = Advert(n, {x})
          BY <2>1, <4>2
        <5>2. Advertised(peerNet', n, x)
          BY <2>2, <5>1 DEF Advertised, Advert
        <5> QED
          BY <5>2
      <4> QED
        BY <4>1, <4>2
    <3>6. \A m, y \in PeerNode :
            Advertised(peerNet, m, y) => (m = x /\ y = n) \/ Advertised(peerNet', m, y)
      BY <1>2, <2>2 DEF Advertised
    <3>7. peers' = [peers EXCEPT ![n] = table]
      BY <2>2, <3>1
    <3>8. Tabled(peers, peers', n, x, table) /\ Told(peers, peerNet, peerNet', n, x, table)
      BY <3>2, <3>3, <3>4, <3>5, <3>6, <3>7 DEF Tabled, Told
    <3>9. Spread(peers', [adverts EXCEPT ![n] = adverts[n] \cup {x}], peerNet')
      BY <1>4, <3>1, <3>8, SpreadAdvert
    <3> QED
      BY <2>2, <3>9
  <2>8. Meshing'
    BY <2>7 DEF Meshing
  <2> QED
    BY <2>6, <2>8 DEF PeerInv
<1> QED
  BY <1>5, <1>6

LEMMA PeerStep == PeerInv /\ [PeerNext]_peerVars => PeerInv'
<1> SUFFICES ASSUME PeerInv, [PeerNext]_peerVars PROVE PeerInv'
  OBVIOUS
<1>1. ASSUME NEW n \in PeerNode, ConnectAppend(n) \/ PeerRestart(n) PROVE PeerInv'
  BY <1>1, ConnectAppendStep, RestartStep
<1>2. ASSUME NEW n \in PeerNode, NEW x \in PeerNode,
             \/ Connect(n, x) \/ HandleAdvert(n, x) \/ GossipAdvert(n, x)
             \/ AskLocally(n, x) \/ AnswerLocally(n, x) \/ Ban(n, x)
             \/ HandleIntroduction(n, x)
             \/ \E relay \in PeerNode : AskIntroduction(n, relay, x)
      PROVE  PeerInv'
  BY <1>2, ConnectStep, AdvertStep, GossipStep, AskLocallyStep, AnswerLocallyStep, BanStep,
     IntroductionStep, AskIntroductionStep
<1>3. ASSUME NEW n \in PeerNode, NEW d \in peerNet, HandleLocalPeers(n, d) \/ Introduce(n, d)
      PROVE  PeerInv'
  BY <1>3, LocalPeersStep, IntroduceStep
<1>4. ASSUME UNCHANGED peerVars PROVE PeerInv'
  BY <1>4, PeerQuiet DEF peerVars, PeerInv, PeerShape
<1> QED
  BY <1>1, <1>2, <1>3, <1>4 DEF PeerNext

LEMMA PeersMesh == ASSUME PeerInv PROVE DiscoveryMeshes
<1> SUFFICES ASSUME peerNet = {}, ~disturbed,
                    NEW n \in PeerNode, NEW x \in Nodes(peers[n]),
                    NEW y \in ({x} \cup Nodes(peers[x])) \ {n}
             PROVE  n \in Nodes(peers[y]) /\ y \in Nodes(peers[n])
  BY DEF DiscoveryMeshes
<1>1. Spread(peers, adverts, peerNet) /\ peers \in [PeerNode -> PeerList]
  BY DEF PeerInv, PeerShape, Meshing
<1>2. x \in PeerNode
  BY <1>1, NodesTyped
<1>3. y \in PeerNode
  <2>1. Nodes(peers[x]) \subseteq PeerNode
    BY <1>1, <1>2, NodesTyped
  <2> QED
    BY <1>2, <2>1
<1>4. \A m, z \in PeerNode : z \in Nodes(peers[m]) => m \in adverts[z]
  BY <1>1 DEF Spread, Known, Advertised
<1>5. \A m, z \in PeerNode : m \in adverts[z] /\ m # z => m \in Nodes(peers[z])
  BY <1>1 DEF Spread
<1>6. \A z, m, w \in PeerNode :
        m \in adverts[z] /\ w \in adverts[z] /\ m # w => m \in adverts[w] \/ w \in adverts[m]
  BY <1>1 DEF Spread, Known, Advertised
<1>7. n \in adverts[x]
  BY <1>2, <1>4
<1>8. CASE y = x
  BY <1>2, <1>5, <1>7, <1>8
<1>9. CASE y # x
  <2>1. y \in Nodes(peers[x])
    BY <1>9
  <2>2. y \in adverts[x]
    BY <1>2, <1>3, <1>4, <1>5, <1>9, <2>1
  <2>3. n \in adverts[y] \/ y \in adverts[n]
    BY <1>2, <1>3, <1>6, <1>7, <2>2
  <2> QED
    BY <1>3, <1>4, <1>5, <2>3
<1> QED
  BY <1>8, <1>9

(* Two nodes that reach each other through peers are each other's peers    *)
(* when discovery is quiet, for every number of nodes and calls            *)
(* (_handle_peer_discovery, connect_to_peer of node.py).                   *)
THEOREM DiscoveryMeshesHolds == PeerSpec => [](PeerTypeOK /\ DiscoveryMeshes)
<1>1. PeerInit => PeerInv
  BY PeerStart
<1>2. PeerInv /\ [PeerNext]_peerVars => PeerInv'
  BY PeerStep
<1>3. PeerInv => PeerTypeOK /\ DiscoveryMeshes
  BY PeerTypes, PeersMesh DEF PeerInv
<1> QED
  BY <1>1, <1>2, <1>3, PTL DEF PeerSpec

-----------------------------------------------------------------------------
(* The example blockchain.  Balances, and what a payment makes of them.    *)
Balances == [Wallet -> Int]

Covered(bal) == \A w \in Wallet : bal[w] >= 0

LEMMA MoveFacts ==
  ASSUME NEW s \in Balances, NEW a \in Wallet, NEW b \in Wallet, NEW n \in Nat
  PROVE  /\ Move(s, a, b, n) \in Balances
         /\ SumOver(Move(s, a, b, n), Wallet) = SumOver(s, Wallet)
         /\ Covered(s) /\ s[a] >= n => Covered(Move(s, a, b, n))
         /\ Move(s, a, b, n)[a] >= s[a] - n
<1>1. PICK q : q = [s EXCEPT ![a] = s[a] - n]
  OBVIOUS
<1>2. q \in Balances /\ q[a] = s[a] - n /\ \A w \in Wallet \ {a} : q[w] = s[w]
  BY <1>1 DEF Balances
<1>3. PICK r : r = [q EXCEPT ![b] = q[b] + n]
  OBVIOUS
<1>4. r \in Balances /\ r[b] = q[b] + n /\ \A w \in Wallet \ {b} : r[w] = q[w]
  BY <1>2, <1>3 DEF Balances
<1>5. Move(s, a, b, n) = r
  BY <1>1, <1>3 DEF Move
<1>6. IsFiniteSet(Wallet)
  BY ExampleAssumption
<1>7. \A w \in Wallet : s[w] \in Int /\ q[w] \in Int /\ r[w] \in Int
  BY <1>2, <1>4 DEF Balances
<1>8. SumOver(q, Wallet) = SumOver(s, Wallet) + q[a] - s[a]
  BY <1>2, <1>6, <1>7, SumChange
<1>9. SumOver(r, Wallet) = SumOver(q, Wallet) + r[b] - q[b]
  BY <1>4, <1>6, <1>7, SumChange
<1>10. SumOver(s, Wallet) \in Int /\ SumOver(q, Wallet) \in Int
  BY <1>6, <1>7, SumType
<1>11. SumOver(r, Wallet) = SumOver(s, Wallet)
  BY <1>2, <1>4, <1>7, <1>8, <1>9, <1>10
<1>12. ASSUME Covered(s), s[a] >= n PROVE Covered(r)
  <2>1. \A w \in Wallet : q[w] >= 0
    BY <1>2, <1>7, <1>12 DEF Covered
  <2>2. \A w \in Wallet : r[w] >= 0
    BY <1>4, <1>7, <2>1
  <2> QED
    BY <2>2 DEF Covered
<1>13. r[a] >= s[a] - n
  <2>1. r[a] = q[a] \/ r[a] = q[a] + n
    BY <1>4
  <2> QED
    BY <1>2, <1>7, <2>1
<1> QED
  BY <1>4, <1>5, <1>11, <1>12, <1>13

(* A sender who has what it pays pays for nobody's loss. *)
LEMMA PaidFacts ==
  ASSUME NEW s \in Balances, NEW tx \in Payment, NEW m \in Wallet
  PROVE  /\ Paid(s, tx, m) \in Balances
         /\ SumOver(Paid(s, tx, m), Wallet) = SumOver(s, Wallet)
         /\ Covered(s) /\ s[tx.sender] >= tx.amount + tx.fee => Covered(Paid(s, tx, m))
<1>1. PICK a \in Wallet, b \in Wallet, n \in Nat, f \in Nat :
        a = tx.sender /\ b = tx.recipient /\ n = tx.amount /\ f = tx.fee
  BY ExampleAssumption
<1>2. PICK q : q = Move(s, a, b, n)
  OBVIOUS
<1>3. /\ q \in Balances /\ SumOver(q, Wallet) = SumOver(s, Wallet)
      /\ Covered(s) /\ s[a] >= n => Covered(q)
      /\ q[a] >= s[a] - n
  BY <1>2, MoveFacts
<1>4. PICK r : r = Move(q, a, m, f)
  OBVIOUS
<1>5. /\ r \in Balances /\ SumOver(r, Wallet) = SumOver(q, Wallet)
      /\ Covered(q) /\ q[a] >= f => Covered(r)
  BY <1>3, <1>4, MoveFacts
<1>6. Paid(s, tx, m) = r
  BY <1>1, <1>2, <1>4 DEF Paid
<1>7. s[a] \in Int /\ q[a] \in Int
  BY <1>3 DEF Balances
<1>8. ASSUME Covered(s), s[a] >= n + f PROVE Covered(r)
  <2>1. s[a] >= n
    BY <1>7, <1>8
  <2>2. q[a] >= f
    BY <1>3, <1>7, <1>8
  <2> QED
    BY <1>3, <1>5, <1>8, <2>1, <2>2
<1> QED
  BY <1>1, <1>3, <1>5, <1>6, <1>8

LEMMA RewardedFacts ==
  ASSUME NEW s \in Balances, NEW block, block.miner \in Wallet
  PROVE  /\ Rewarded(s, block) \in Balances
         /\ SumOver(Rewarded(s, block), Wallet) = SumOver(s, Wallet) + Reward
         /\ Covered(s) => Covered(Rewarded(s, block))
<1>1. PICK m \in Wallet : m = block.miner
  OBVIOUS
<1>2. PICK q : q = [s EXCEPT ![m] = s[m] + Reward]
  OBVIOUS
<1>3. q = Rewarded(s, block)
  BY <1>1, <1>2 DEF Rewarded
<1>4. Reward \in Nat /\ IsFiniteSet(Wallet)
  BY ExampleAssumption
<1>5. q \in Balances /\ q[m] = s[m] + Reward /\ \A w \in Wallet \ {m} : q[w] = s[w]
  BY <1>2, <1>4 DEF Balances
<1>6. \A w \in Wallet : s[w] \in Int /\ q[w] \in Int
  BY <1>5 DEF Balances
<1>7. SumOver(q, Wallet) = SumOver(s, Wallet) + q[m] - s[m]
  BY <1>4, <1>5, <1>6, SumChange
<1>8. SumOver(s, Wallet) \in Int
  BY <1>4, <1>6, SumType
<1>9. SumOver(q, Wallet) = SumOver(s, Wallet) + Reward
  BY <1>4, <1>5, <1>6, <1>7, <1>8
<1>10. ASSUME Covered(s) PROVE Covered(q)
  BY <1>4, <1>5, <1>6, <1>10 DEF Covered
<1> QED
  BY <1>3, <1>5, <1>9, <1>10

-----------------------------------------------------------------------------
(* _compute_next_state, as a fold. *)
Settled(m) == [a \in Balances \X Payment |-> Paid(a[1], a[2], m)]

LEMMA NextStateRun ==
  ASSUME NEW bal \in Balances, NEW block, block.miner \in Wallet, block.txs \in Seq(Payment)
  PROVE  FoldsTo(ComputeNextState(bal, block), block.txs, Balances, Rewarded(bal, block),
                 Settled(block.miner))
<1>1. PICK s \in Seq(Payment), m \in Wallet : s = block.txs /\ m = block.miner
  OBVIOUS
<1>2. PICK N \in Nat : N = Len(s)
  OBVIOUS
<1>3. PICK base \in Balances : base = Rewarded(bal, block)
  BY RewardedFacts
<1>4. PICK V, G : V = Balances /\ G = Settled(m)
  OBVIOUS
<1>5. \A v \in V, x \in Payment : G[<<v, x>>] = Paid(v, x, m) /\ G[<<v, x>>] \in V
  BY <1>4, PaidFacts DEF Settled
<1>6. base \in V /\ FoldStays(G, V, Payment)
  BY <1>4, <1>5 DEF FoldStays
<1>7. PICK it : FoldSets(it, s, V, base, G)
  BY <1>6, FoldExists
<1>8. \A i \in 1 .. N : s[i] \in Payment
  BY <1>2
<1>9. it = [t \in SUBSET (1 .. N) |->
              IF t = {} THEN base ELSE Paid(it[t \ {Max(t)}], s[Max(t)], m)]
  <2>1. ASSUME NEW t \in SUBSET (1 .. N), t # {}
        PROVE  it[t] = Paid(it[t \ {Max(t)}], s[Max(t)], m)
    <3>1. Max(t) \in 1 .. N /\ it[t] = G[<<it[t \ {Max(t)}], s[Max(t)]>>]
      BY <1>2, <1>7, <2>1 DEF FoldSets
    <3>2. it[t \ {Max(t)}] \in V
      BY <1>2, <1>7 DEF FoldSets
    <3> QED
      BY <1>5, <1>8, <3>1, <3>2
  <2>2. it \in [SUBSET (1 .. N) -> V] /\ it[{}] = base
    BY <1>2, <1>7 DEF FoldSets
  <2> QED
    BY <2>1, <2>2
<1>10. PICK fold : fold = CHOOSE f : f = [t \in SUBSET (1 .. N) |->
              IF t = {} THEN base ELSE Paid(f[t \ {Max(t)}], s[Max(t)], m)]
  OBVIOUS
<1>11. fold = [t \in SUBSET (1 .. N) |->
              IF t = {} THEN base ELSE Paid(fold[t \ {Max(t)}], s[Max(t)], m)]
  BY <1>9, <1>10
<1>12. DOMAIN s = 1 .. N
  BY <1>2
<1>13. ComputeNextState(bal, block) = fold[1 .. N]
  BY <1>1, <1>3, <1>10, <1>12 DEF ComputeNextState, FoldLeft, MapThenFoldSet
<1>14. fold[{}] = base
  BY <1>11
<1>15. ASSUME NEW t \in SUBSET (1 .. N), t # {}, fold[t \ {Max(t)}] \in V
       PROVE  fold[t] = G[<<fold[t \ {Max(t)}], s[Max(t)]>>]
  <2>1. Max(t) \in 1 .. N
    BY <1>15, GreatestPosition
  <2>2. fold[t] = Paid(fold[t \ {Max(t)}], s[Max(t)], m)
    BY <1>11, <1>15
  <2> QED
    BY <1>5, <1>8, <1>15, <2>1, <2>2
<1>16. FoldsTo(fold[1 .. Len(s)], s, V, base, G)
  <2>1. FoldSolves(fold, s, V, base, G)
    BY <1>2, <1>14, <1>15 DEF FoldSolves
  <2> QED
    BY <1>6, <2>1, FoldFound
<1> QED
  BY <1>1, <1>2, <1>3, <1>4, <1>13, <1>16

(* A block and what it starts with. *)
Cut(block, i) == [block EXCEPT !.txs = SubSeq(block.txs, 1, i)]
Affordable(bal, block) ==
  \A i \in 1 .. Len(block.txs) :
    ComputeNextState(bal, Cut(block, i - 1))[block.txs[i].sender]
      >= block.txs[i].amount + block.txs[i].fee

LEMMA NextStateSound ==
  ASSUME NEW bal \in Balances, NEW block \in MintedBlock
  PROVE  /\ ComputeNextState(bal, block) \in Balances
         /\ SumOver(ComputeNextState(bal, block), Wallet) = SumOver(bal, Wallet) + Reward
         /\ Covered(bal) /\ Affordable(bal, block) => Covered(ComputeNextState(bal, block))
<1>1. PICK s \in Seq(Payment), m \in Wallet : s = block.txs /\ m = block.miner
  BY DEF MintedBlock
<1>2. PICK N \in Nat : N = Len(s)
  OBVIOUS
<1>3. PICK base \in Balances : base = Rewarded(bal, block)
  BY <1>1, RewardedFacts
<1>4. ASSUME NEW i \in 0 .. N
      PROVE  /\ SubSeq(s, 1, i) \in Seq(Payment)
             /\ Cut(block, i).txs = SubSeq(s, 1, i) /\ Cut(block, i).miner = m
             /\ Rewarded(bal, Cut(block, i)) = base
             /\ Len(SubSeq(s, 1, i)) = i
             /\ \A j \in 1 .. i : SubSeq(s, 1, i)[j] = s[j]
  <2>1. \A j \in 1 .. i : s[j] \in Payment
    BY <1>2
  <2>2. SubSeq(s, 1, i) \in Seq(Payment)
    BY <2>1, <1>2, SubSeqProperties
  <2>3. Len(SubSeq(s, 1, i)) = IF 1 <= i THEN i - 1 + 1 ELSE 0
    BY <2>1, <1>2, SubSeqProperties
  <2>4. \A j \in 1 .. i : SubSeq(s, 1, i)[j] = s[1 + j - 1]
    BY <2>1, <1>2, SubSeqProperties
  <2>5. Cut(block, i).txs = SubSeq(s, 1, i) /\ Cut(block, i).miner = m
    BY <1>1 DEF Cut, MintedBlock
  <2>6. Rewarded(bal, Cut(block, i)) = base
    BY <1>1, <1>3, <2>5 DEF Rewarded
  <2>7. Len(SubSeq(s, 1, i)) = i
    BY <2>3
  <2>8. \A j \in 1 .. i : SubSeq(s, 1, i)[j] = s[j]
    BY <2>4
  <2> QED
    BY <2>2, <2>5, <2>6, <2>7, <2>8
<1>5. PICK A : A = [i \in 0 .. N |-> ComputeNextState(bal, Cut(block, i))]
  OBVIOUS
<1>6. ASSUME NEW i \in 0 .. N
      PROVE  FoldsTo(A[i], SubSeq(s, 1, i), Balances, base, Settled(m))
  <2>1. PICK c : c = Cut(block, i)
    OBVIOUS
  <2>2. c.miner \in Wallet /\ c.txs \in Seq(Payment) /\ c.miner = m
        /\ c.txs = SubSeq(s, 1, i) /\ Rewarded(bal, c) = base
    BY <1>4, <2>1
  <2>3. FoldsTo(ComputeNextState(bal, c), c.txs, Balances, Rewarded(bal, c), Settled(c.miner))
    BY <2>2, NextStateRun
  <2>4. A[i] = ComputeNextState(bal, c)
    BY <1>5, <2>1
  <2> QED
    BY <2>2, <2>3, <2>4
<1>7. \A i \in 0 .. N : A[i] \in Balances
  <2> SUFFICES ASSUME NEW i \in 0 .. N PROVE A[i] \in Balances
    OBVIOUS
  <2>1. PICK u \in Seq(Payment) : u = SubSeq(s, 1, i)
    BY <1>4
  <2>2. FoldsTo(A[i], u, Balances, base, Settled(m))
    BY <1>6, <2>1
  <2> QED
    BY <2>2, FoldTyped
<1>8. A[0] = base
  <2>1. PICK u : u = SubSeq(s, 1, 0)
    OBVIOUS
  <2>2. u \in Seq(Payment) /\ Len(u) = 0
    BY <1>2, <1>4, <2>1
  <2>3. u = <<>>
    BY <2>2
  <2>4. FoldsTo(A[0], u, Balances, base, Settled(m))
    BY <1>2, <1>6, <2>1
  <2> QED
    BY <2>3, <2>4, FoldNone
<1>9. ASSUME NEW i \in 1 .. N PROVE A[i] = Paid(A[i - 1], s[i], m)
  <2>1. PICK u, v : u = SubSeq(s, 1, i - 1) /\ v = SubSeq(s, 1, i)
    OBVIOUS
  <2>2. i - 1 \in 0 .. N /\ i \in 0 .. N /\ s[i] \in Payment
    BY <1>2
  <2>3. u \in Seq(Payment) /\ Len(u) = i - 1 /\ \A j \in 1 .. i - 1 : u[j] = s[j]
    BY <1>4, <2>1, <2>2
  <2>4. v \in Seq(Payment) /\ Len(v) = i /\ \A j \in 1 .. i : v[j] = s[j]
    BY <1>4, <2>1, <2>2
  <2>5. LongerBy(v, u, s[i])
    <3>1. PICK x \in Payment : x = s[i]
      BY <2>2
    <3>2. Append(u, x) \in Seq(Payment) /\ Len(Append(u, x)) = i
      BY <2>3
    <3>3. \A j \in 1 .. i : Append(u, x)[j] = v[j]
      BY <2>3, <2>4, <3>1
    <3>4. v = Append(u, x)
      BY <2>4, <3>2, <3>3
    <3> QED
      BY <3>1, <3>4 DEF LongerBy
  <2>6. FoldsTo(A[i - 1], u, Balances, base, Settled(m)) /\ FoldsTo(A[i], v, Balances, base, Settled(m))
    BY <1>6, <2>1, <2>2
  <2>7. A[i] = Settled(m)[<<A[i - 1], s[i]>>]
    BY <2>2, <2>3, <2>5, <2>6, FoldNext
  <2>8. A[i - 1] \in Balances
    BY <1>7, <2>2
  <2> QED
    BY <2>2, <2>7, <2>8 DEF Settled
<1>10. A[N] = ComputeNextState(bal, block)
  <2>1. PICK u : u = SubSeq(s, 1, N)
    OBVIOUS
  <2>2. N \in 0 .. N /\ u \in Seq(Payment) /\ Len(u) = N /\ \A j \in 1 .. N : u[j] = s[j]
    BY <1>4, <2>1
  <2>3. u = s
    BY <1>2, <2>2
  <2>4. Cut(block, N) = block
    BY <1>1, <2>1, <2>3 DEF Cut, MintedBlock
  <2> QED
    BY <1>5, <2>2, <2>4
<1>11. PICK total \in Int : total = SumOver(bal, Wallet)
  <2>1. IsFiniteSet(Wallet) /\ \A w \in Wallet : bal[w] \in Int
    BY ExampleAssumption DEF Balances
  <2> QED
    BY <2>1, SumType
<1>12. PICK P : P = {i \in 0 .. N : SumOver(A[i], Wallet) = total + Reward}
  OBVIOUS
<1>13. 0 \in P
  BY <1>1, <1>3, <1>8, <1>11, <1>12, RewardedFacts
<1>14. ASSUME NEW i \in 1 .. N, i - 1 \in P PROVE i \in P
  <2>1. A[i - 1] \in Balances /\ s[i] \in Payment /\ i \in 0 .. N
    BY <1>2, <1>7
  <2>2. SumOver(Paid(A[i - 1], s[i], m), Wallet) = SumOver(A[i - 1], Wallet)
    BY <2>1, PaidFacts
  <2> QED
    BY <1>9, <1>12, <1>14, <2>1, <2>2
<1>15. \A i \in 0 .. N : i \in P
  BY <1>13, <1>14, EveryPosition
<1>16. ASSUME Covered(bal), Affordable(bal, block) PROVE Covered(A[N])
  <2>1. PICK Q : Q = {i \in 0 .. N : Covered(A[i])}
    OBVIOUS
  <2>2. 0 \in Q
    BY <1>1, <1>3, <1>8, <1>16, <2>1, RewardedFacts
  <2>3. ASSUME NEW i \in 1 .. N, i - 1 \in Q PROVE i \in Q
    <3>1. A[i - 1] \in Balances /\ s[i] \in Payment /\ i \in 0 .. N /\ i - 1 \in 0 .. N
      BY <1>2, <1>7
    <3>2. A[i - 1][s[i].sender] >= s[i].amount + s[i].fee
      BY <1>1, <1>2, <1>5, <1>16, <3>1 DEF Affordable
    <3>3. Covered(A[i - 1])
      BY <2>1, <2>3
    <3>4. Covered(Paid(A[i - 1], s[i], m))
      BY <3>1, <3>2, <3>3, PaidFacts
    <3> QED
      BY <1>9, <2>1, <3>1, <3>4
  <2>4. \A i \in 0 .. N : i \in Q
    BY <2>2, <2>3, EveryPosition
  <2> QED
    BY <2>1, <2>4
<1>17. SumOver(A[N], Wallet) = total + Reward /\ A[N] \in Balances
  BY <1>7, <1>12, <1>15
<1> QED
  BY <1>10, <1>11, <1>16, <1>17

-----------------------------------------------------------------------------
(* The ways to the blocks, which are what ChainToTip computes. *)
MadeOf(M) == [b \in 1 .. Len(M) |-> M[b].parent]
Minting(M) == M \in Seq(MintedBlock) /\ ParentsFirst(MadeOf(M), Len(M))

ChainWays(f, M) ==
  /\ PathsIn(f, Len(M), MadeOf(M), <<>>)
  /\ \A b \in 0 .. Len(M) : ChainToTip(M, b) = f[b]

LEMMA ChainIsAWay ==
  ASSUME NEW M, Minting(M)
  PROVE  \E f : ChainWays(f, M)
<1>1. PICK N \in Nat : N = Len(M)
  BY DEF Minting
<1>2. PICK par : par = MadeOf(M)
  OBVIOUS
<1>3. ParentsFirst(par, N) /\ \A b \in 1 .. N : par[b] = M[b].parent
  BY <1>1, <1>2 DEF Minting, MadeOf
<1>4. <<>> \in Seq(0 .. N)
  OBVIOUS
<1>5. PICK f : PathsIn(f, N, par, <<>>)
  BY <1>3, <1>4, PathsExist
<1>6. /\ f \in [0 .. N -> Seq(0 .. N)] /\ f[0] = <<>>
      /\ \A b \in 1 .. N : f[b] = Append(f[par[b]], b)
  BY <1>5 DEF PathsIn
<1>7. f = [b \in 0 .. N |-> IF b = 0 THEN <<>> ELSE Append(f[M[b].parent], b)]
  <2>1. ASSUME NEW b \in 0 .. N
        PROVE  f[b] = IF b = 0 THEN <<>> ELSE Append(f[M[b].parent], b)
    <3>1. CASE b = 0
      BY <1>6, <3>1
    <3>2. CASE b # 0
      <4>1. b \in 1 .. N
        BY <3>2
      <4> QED
        BY <1>3, <1>6, <3>2, <4>1
    <3> QED
      BY <3>1, <3>2
  <2> QED
    BY <1>6, <2>1
<1>8. PICK to : to = CHOOSE g : g = [b \in 0 .. N |->
                       IF b = 0 THEN <<>> ELSE Append(g[M[b].parent], b)]
  OBVIOUS
<1>9. to = [b \in 0 .. N |-> IF b = 0 THEN <<>> ELSE Append(to[M[b].parent], b)]
  BY <1>7, <1>8
<1>10. PICK P : P = {b \in 0 .. N : to[b] = f[b]}
  OBVIOUS
<1>11. 0 \in P
  BY <1>6, <1>9, <1>10
<1>12. ASSUME NEW b \in 1 .. N, par[b] \in P PROVE b \in P
  <2>1. b \in 0 .. N /\ b # 0
    OBVIOUS
  <2>2. to[b] = Append(to[M[b].parent], b)
    BY <1>9, <2>1
  <2>3. f[b] = Append(f[par[b]], b) /\ to[par[b]] = f[par[b]] /\ M[b].parent = par[b]
    BY <1>3, <1>6, <1>10, <1>12
  <2>4. to[b] = f[b]
    BY <2>2, <2>3
  <2> QED
    BY <1>10, <2>1, <2>4
<1>13. \A b \in 0 .. N : b \in P
  BY <1>3, <1>11, <1>12, EveryChild
<1>14. \A b \in 0 .. N : ChainToTip(M, b) = to[b]
  BY <1>1, <1>8 DEF ChainToTip
<1>15. ChainWays(f, M)
  BY <1>1, <1>2, <1>5, <1>10, <1>13, <1>14 DEF ChainWays
<1> QED
  BY <1>15

(* A chain is its parent's and one block more. *)
LEMMA ChainSteps ==
  ASSUME NEW M, Minting(M)
  PROVE  /\ ChainToTip(M, 0) = <<>>
         /\ \A b \in 1 .. Len(M) :
              /\ M[b].parent \in 0 .. b - 1
              /\ LongerBy(ChainToTip(M, b), ChainToTip(M, M[b].parent), b)
         /\ \A b \in 0 .. Len(M) : ChainToTip(M, b) \in Seq(1 .. Len(M))
<1>1. PICK N \in Nat : N = Len(M)
  BY DEF Minting
<1>2. PICK par : par = MadeOf(M)
  OBVIOUS
<1>3. ParentsFirst(par, N) /\ \A b \in 1 .. N : par[b] = M[b].parent
  BY <1>1, <1>2 DEF Minting, MadeOf
<1>4. PICK f : ChainWays(f, M)
  BY ChainIsAWay
<1>5. /\ f[0] = <<>> /\ \A b \in 1 .. N : f[b] = Append(f[par[b]], b)
      /\ \A b \in 0 .. N : ChainToTip(M, b) = f[b]
  BY <1>1, <1>2, <1>4 DEF ChainWays, PathsIn
<1>6. ChainToTip(M, 0) = <<>>
  BY <1>5
<1>7. ASSUME NEW b \in 1 .. N
      PROVE  /\ M[b].parent \in 0 .. b - 1
             /\ LongerBy(ChainToTip(M, b), ChainToTip(M, M[b].parent), b)
  <2>1. par[b] \in 0 .. b - 1 /\ par[b] = M[b].parent
    BY <1>3 DEF ParentsFirst
  <2>2. b \in 0 .. N /\ par[b] \in 0 .. N
    BY <2>1
  <2>3. ChainToTip(M, b) = f[b] /\ ChainToTip(M, par[b]) = f[par[b]]
    BY <1>5, <2>2
  <2> QED
    BY <1>5, <2>1, <2>3 DEF LongerBy
<1>8. PICK X : X = 1 .. N
  OBVIOUS
<1>9. PICK P : P = {b \in 0 .. N : f[b] \in Seq(X)}
  OBVIOUS
<1>10. 0 \in P
  <2>1. <<>> \in Seq(X)
    OBVIOUS
  <2>2. f[0] \in Seq(X)
    BY <1>5, <2>1
  <2>3. 0 \in 0 .. N
    OBVIOUS
  <2> QED
    BY <1>9, <2>2, <2>3
<1>11. ASSUME NEW b \in 1 .. N, par[b] \in P PROVE b \in P
  <2>1. f[par[b]] \in Seq(X) /\ b \in X /\ b \in 0 .. N
    BY <1>8, <1>9, <1>11
  <2>2. Append(f[par[b]], b) \in Seq(X)
    BY <2>1, AppendProperties
  <2> QED
    BY <1>5, <1>9, <2>1, <2>2
<1>12. \A b \in 0 .. N : b \in P
  BY <1>3, <1>10, <1>11, EveryChild
<1>13. \A b \in 0 .. N : ChainToTip(M, b) \in Seq(X)
  BY <1>5, <1>9, <1>12
<1> QED
  BY <1>1, <1>6, <1>7, <1>8, <1>13

(* Blocks that come later change no chain. *)
LEMMA ChainsKept ==
  ASSUME NEW M, Minting(M), NEW W, Minting(W), Len(W) >= Len(M),
         \A b \in 1 .. Len(M) : W[b] = M[b]
  PROVE  \A b \in 0 .. Len(M) : ChainToTip(W, b) = ChainToTip(M, b)
<1>1. PICK N \in Nat, K \in Nat : N = Len(M) /\ K = Len(W) /\ K >= N
  BY DEF Minting
<1>2. PICK par, q : par = MadeOf(M) /\ q = MadeOf(W)
  OBVIOUS
<1>3. ParentsFirst(par, N) /\ ParentsFirst(q, K)
  BY <1>1, <1>2 DEF Minting
<1>4. \A b \in 1 .. N : q[b] = par[b]
  <2>1. \A b \in 1 .. N : b \in 1 .. K
    BY <1>1
  <2> QED
    BY <1>1, <1>2, <2>1 DEF MadeOf
<1>5. PICK f : ChainWays(f, M)
  BY ChainIsAWay
<1>6. PICK g : ChainWays(g, W)
  BY ChainIsAWay
<1>7. PathsIn(f, N, par, <<>>) /\ PathsIn(g, K, q, <<>>)
  BY <1>1, <1>2, <1>5, <1>6 DEF ChainWays
<1>8. \A b \in 0 .. N : g[b] = f[b]
  BY <1>1, <1>3, <1>4, <1>7, PathsUnique
<1>9. \A b \in 0 .. N : b \in 0 .. K
  BY <1>1
<1> QED
  BY <1>1, <1>5, <1>6, <1>8, <1>9 DEF ChainWays

LEMMA IndexFacts ==
  ASSUME NEW M, Minting(M)
  PROVE  /\ IndexOf(M, 0) = 0
         /\ \A b \in 0 .. Len(M) : IndexOf(M, b) \in Nat
         /\ \A b \in 1 .. Len(M) : IndexOf(M, b) = IndexOf(M, M[b].parent) + 1
<1>1. PICK N \in Nat : N = Len(M)
  BY DEF Minting
<1>0. PICK X : X = 1 .. N
  OBVIOUS
<1>2. /\ ChainToTip(M, 0) = <<>>
      /\ \A b \in 1 .. N : M[b].parent \in 0 .. b - 1
                           /\ LongerBy(ChainToTip(M, b), ChainToTip(M, M[b].parent), b)
      /\ \A b \in 0 .. N : ChainToTip(M, b) \in Seq(X)
  BY <1>0, <1>1, ChainSteps
<1>3. IndexOf(M, 0) = 0
  <2>1. Len(<<>>) = 0
    OBVIOUS
  <2> QED
    BY <1>2, <2>1 DEF IndexOf
<1>4. \A b \in 0 .. N : IndexOf(M, b) \in Nat
  BY <1>2 DEF IndexOf
<1>5. ASSUME NEW b \in 1 .. N PROVE IndexOf(M, b) = IndexOf(M, M[b].parent) + 1
  <2>1. M[b].parent \in 0 .. N /\ b \in X
    BY <1>0, <1>2
  <2>2. PICK s \in Seq(X) : s = ChainToTip(M, M[b].parent)
    BY <1>2, <2>1
  <2>3. ChainToTip(M, b) = Append(s, b)
    BY <1>2, <2>2 DEF LongerBy
  <2>4. Len(Append(s, b)) = Len(s) + 1
    BY <2>1, AppendProperties
  <2> QED
    BY <2>2, <2>3, <2>4 DEF IndexOf
<1> QED
  BY <1>1, <1>3, <1>4, <1>5

-----------------------------------------------------------------------------
(* What the ledger knows of the blocks M: the blocks K, the balances S     *)
(* after each, the best of them t.                                         *)
Best(M, K, t) == t \in K /\ \A b \in K \ {t} : IsBetterTip(M, t, b)

Stated(M, K, S) ==
  /\ S \in [K -> Balances]
  /\ \A b \in K \ {0} :
       M[b].parent \in K /\ S[b] = ComputeNextState(S[M[b].parent], M[b])

Funded(M, K, S) ==
  \A b \in K : Covered(S[b]) /\ SumOver(S[b], Wallet) = Reward * IndexOf(M, b)

Blocks(M, K) == Minting(M) /\ Len(M) <= MaxMinted /\ K \subseteq 0 .. Len(M) /\ 0 \in K

ExFacts(M, K, S, t) == Blocks(M, K) /\ Best(M, K, t) /\ Stated(M, K, S) /\ Funded(M, K, S)

ExInv ==
  /\ ExFacts(minted, known, balanceAt, canonicalTip)
  /\ pending \subseteq Payment /\ IsFiniteSet(pending)

LEMMA ExFactsKept ==
  ASSUME NEW M, NEW K, NEW S, NEW t, ExFacts(M, K, S, t),
         NEW W, Minting(W), Len(W) <= MaxMinted, Len(W) >= Len(M),
         \A b \in 1 .. Len(M) : W[b] = M[b]
  PROVE  ExFacts(W, K, S, t)
<1>1. PICK N \in Nat, L \in Nat : N = Len(M) /\ L = Len(W) /\ L >= N
  BY DEF ExFacts, Blocks, Minting
<1>2. Minting(M) /\ K \subseteq 0 .. N /\ 0 \in K
  BY <1>1 DEF ExFacts, Blocks
<1>3. \A b \in 0 .. N : IndexOf(W, b) = IndexOf(M, b)
  BY <1>1, <1>2, ChainsKept DEF IndexOf
<1>4. Blocks(W, K)
  BY <1>1, <1>2 DEF Blocks
<1>5. Best(W, K, t)
  <2>1. t \in K /\ \A b \in K \ {t} : IsBetterTip(M, t, b)
    BY DEF ExFacts, Best
  <2>2. \A b \in K : IndexOf(W, b) = IndexOf(M, b)
    BY <1>2, <1>3
  <2>3. \A b \in K \ {t} : IsBetterTip(W, t, b)
    BY <2>1, <2>2 DEF IsBetterTip
  <2> QED
    BY <2>1, <2>3 DEF Best
<1>6. Stated(W, K, S)
  <2>1. \A b \in K \ {0} : b \in 1 .. N
    BY <1>2
  <2>2. \A b \in K \ {0} : W[b] = M[b]
    BY <1>1, <2>1
  <2> QED
    BY <2>2 DEF ExFacts, Stated
<1>7. Funded(W, K, S)
  BY <1>2, <1>3 DEF ExFacts, Funded
<1> QED
  BY <1>4, <1>5, <1>6, <1>7 DEF ExFacts

(* Of two known blocks one is better, and better than all it was before.   *)
LEMMA BestAfter ==
  ASSUME NEW M, NEW K, Blocks(M, K), NEW t, Best(M, K, t), NEW b \in 0 .. Len(M), b \notin K,
         NEW u, u = IF IsBetterTip(M, b, t) THEN b ELSE t
  PROVE  Best(M, K \cup {b}, u)
<1>1. PICK N \in Nat : N = Len(M) /\ N <= MaxMinted /\ K \subseteq 0 .. N
  BY DEF Blocks, Minting
<1>2. PICK I : I = [c \in 0 .. N |-> IndexOf(M, c)]
  OBVIOUS
<1>3. \A c \in 0 .. N : I[c] \in Nat /\ I[c] = IndexOf(M, c)
  BY <1>1, <1>2, IndexFacts DEF Blocks
<1>4. \A c \in 0 .. N : HashOrder[c] \in Nat
  BY <1>1, ExampleAssumption
<1>5. \A c, d \in 0 .. N : HashOrder[c] = HashOrder[d] => c = d
  BY <1>1, ExampleAssumption
<1>6. PICK H : H = [c \in 0 .. N |-> HashOrder[c]]
  OBVIOUS
<1>7. H \in [0 .. N -> Nat] /\ \A c, d \in 0 .. N : H[c] = H[d] => c = d
  BY <1>4, <1>5, <1>6
<1>8. \A c, d \in 0 .. N : IsBetterTip(M, c, d) <=> I[c] > I[d] \/ (I[c] = I[d] /\ H[c] < H[d])
  BY <1>3, <1>6 DEF IsBetterTip
<1>9. t \in K /\ \A c \in K \ {t} : IsBetterTip(M, t, c)
  BY DEF Best
<1>10. t \in 0 .. N /\ b \in 0 .. N /\ b # t
  BY <1>1, <1>9
<1>11. CASE IsBetterTip(M, b, t)
  <2>1. u = b
    BY <1>11
  <2>2. ASSUME NEW c \in K, c # t PROVE IsBetterTip(M, b, c)
    <3>1. c \in 0 .. N /\ IsBetterTip(M, t, c)
      BY <1>1, <1>9, <2>2
    <3> QED
      <4>1. /\ I[b] \in Nat /\ I[t] \in Nat /\ I[c] \in Nat
            /\ H[b] \in Nat /\ H[t] \in Nat /\ H[c] \in Nat
        BY <1>3, <1>7, <1>10, <3>1
      <4>2. I[b] > I[t] \/ (I[b] = I[t] /\ H[b] < H[t])
        BY <1>8, <1>10, <1>11
      <4>3. I[t] > I[c] \/ (I[t] = I[c] /\ H[t] < H[c])
        BY <1>8, <1>10, <3>1
      <4>4. I[b] > I[c] \/ (I[b] = I[c] /\ H[b] < H[c])
        BY <4>1, <4>2, <4>3
      <4> QED
        BY <1>8, <1>10, <3>1, <4>4
  <2> QED
    BY <1>11, <2>1, <2>2 DEF Best
<1>12. CASE ~IsBetterTip(M, b, t)
  <2>1. u = t
    BY <1>12
  <2>2. I[t] > I[b] \/ (I[t] = I[b] /\ H[t] < H[b])
    <3>1. I[t] \in Nat /\ I[b] \in Nat /\ H[t] \in Nat /\ H[b] \in Nat /\ H[t] # H[b]
      BY <1>3, <1>7, <1>10
    <3>2. ~(I[b] > I[t]) /\ ~(I[b] = I[t] /\ H[b] < H[t])
      BY <1>8, <1>10, <1>12
    <3> QED
      BY <3>1, <3>2
  <2>3. IsBetterTip(M, t, b)
    BY <1>8, <1>10, <2>2
  <2> QED
    BY <1>9, <2>1, <2>3 DEF Best
<1> QED
  BY <1>11, <1>12

LEMMA ExFactsAccept ==
  ASSUME NEW M, NEW K, NEW S, NEW t, ExFacts(M, K, S, t),
         NEW b \in 1 .. Len(M), b \notin K, M[b].parent \in K,
         Affordable(S[M[b].parent], M[b]),
         NEW u, u = IF IsBetterTip(M, b, t) THEN b ELSE t,
         NEW Z, Z = [c \in K \cup {b} |->
                       IF c \in K THEN S[c] ELSE ComputeNextState(S[M[b].parent], M[b])]
  PROVE  ExFacts(M, K \cup {b}, Z, u)
<1>1. PICK N \in Nat : N = Len(M) /\ N <= MaxMinted /\ K \subseteq 0 .. N /\ M \in Seq(MintedBlock)
  BY DEF ExFacts, Blocks, Minting
<1>2. PICK p : p = M[b].parent
  OBVIOUS
<1>3. p \in K /\ p \in 0 .. N /\ M[b] \in MintedBlock /\ b # 0
  <2>1. p \in K
    BY <1>2
  <2>2. p \in 0 .. N
    BY <1>1, <2>1
  <2>3. M[b] \in MintedBlock
    BY <1>1
  <2>4. b # 0
    OBVIOUS
  <2> QED
    BY <2>1, <2>2, <2>3, <2>4
<1>4. PICK old \in Balances : old = S[p]
  BY <1>3 DEF ExFacts, Stated
<1>5. PICK new : new = ComputeNextState(old, M[b])
  OBVIOUS
<1>6. /\ new \in Balances /\ SumOver(new, Wallet) = SumOver(old, Wallet) + Reward
      /\ Covered(old) => Covered(new)
  BY <1>2, <1>3, <1>4, <1>5, NextStateSound
<1>7. Covered(old) /\ SumOver(old, Wallet) = Reward * IndexOf(M, p)
  BY <1>3, <1>4 DEF ExFacts, Funded
<1>8. SumOver(new, Wallet) = Reward * IndexOf(M, b)
  <2>1. PICK k \in Nat : k = IndexOf(M, p)
    BY <1>1, <1>3, IndexFacts DEF ExFacts, Blocks
  <2>2. IndexOf(M, b) = k + 1
    BY <1>1, <1>2, <2>1, IndexFacts DEF ExFacts, Blocks
  <2>3. PICK r \in Nat : r = Reward
    BY ExampleAssumption
  <2>4. r * (k + 1) = r * k + r
    BY SMT
  <2> QED
    BY <1>6, <1>7, <2>1, <2>2, <2>3, <2>4
<1>9. Blocks(M, K \cup {b})
  <2>1. Minting(M) /\ Len(M) <= MaxMinted /\ 0 \in K
    BY DEF ExFacts, Blocks
  <2>2. b \in 0 .. N
    BY <1>1
  <2>3. K \cup {b} \subseteq 0 .. Len(M)
    BY <1>1, <2>2
  <2> QED
    BY <2>1, <2>3 DEF Blocks
<1>10. Best(M, K \cup {b}, u)
  <2>1. b \in 0 .. Len(M)
    BY <1>1
  <2>2. Blocks(M, K) /\ Best(M, K, t)
    BY DEF ExFacts
  <2> QED
    BY <2>1, <2>2, BestAfter
<1>11. Z[b] = new /\ \A c \in K : Z[c] = S[c]
  BY <1>2, <1>4, <1>5
<1>12. Stated(M, K \cup {b}, Z)
  <2>1. S \in [K -> Balances]
    BY DEF ExFacts, Stated
  <2>2. Z \in [K \cup {b} -> Balances]
    BY <1>2, <1>4, <1>5, <1>6, <2>1
  <2>3. \A c \in K \ {0} : M[c].parent \in K /\ S[c] = ComputeNextState(S[M[c].parent], M[c])
    BY DEF ExFacts, Stated
  <2>4. \A c \in K \ {0} : M[c].parent \in K /\ Z[c] = ComputeNextState(Z[M[c].parent], M[c])
    BY <1>11, <2>3
  <2>5. Z[b] = ComputeNextState(Z[M[b].parent], M[b])
    BY <1>2, <1>3, <1>4, <1>5, <1>11
  <2> QED
    BY <1>2, <1>3, <2>2, <2>4, <2>5 DEF Stated
<1>13. Funded(M, K \cup {b}, Z)
  <2>1. \A c \in K : Covered(S[c]) /\ SumOver(S[c], Wallet) = Reward * IndexOf(M, c)
    BY DEF ExFacts, Funded
  <2>2. Covered(Z[b]) /\ SumOver(Z[b], Wallet) = Reward * IndexOf(M, b)
    BY <1>6, <1>7, <1>8, <1>11
  <2>3. \A c \in K : Covered(Z[c]) /\ SumOver(Z[c], Wallet) = Reward * IndexOf(M, c)
    BY <1>11, <2>1
  <2> QED
    BY <2>2, <2>3 DEF Funded
<1> QED
  BY <1>9, <1>10, <1>12, <1>13 DEF ExFacts

-----------------------------------------------------------------------------
(* The balances of a tip, from its chain. *)
Replayed(M, base, s) == FoldLeft(LAMBDA v, b : ComputeNextState(v, M[b]), base, s)
Replaying(M) == [a \in Balances \X (1 .. Len(M)) |-> ComputeNextState(a[1], M[a[2]])]

LEMMA ReplayedRun ==
  ASSUME NEW M \in Seq(MintedBlock), NEW base \in Balances, NEW s \in Seq(1 .. Len(M))
  PROVE  FoldsTo(Replayed(M, base, s), s, Balances, base, Replaying(M))
<1>1. PICK N \in Nat : N = Len(s)
  OBVIOUS
<1>2. PICK V, X, G : V = Balances /\ X = 1 .. Len(M) /\ G = Replaying(M)
  OBVIOUS
<1>3. \A v \in V, x \in X : G[<<v, x>>] = ComputeNextState(v, M[x]) /\ G[<<v, x>>] \in V
  <2> SUFFICES ASSUME NEW v \in V, NEW x \in X
               PROVE  G[<<v, x>>] = ComputeNextState(v, M[x]) /\ G[<<v, x>>] \in V
    OBVIOUS
  <2>1. v \in Balances /\ M[x] \in MintedBlock /\ x \in 1 .. Len(M)
    BY <1>2
  <2>2. ComputeNextState(v, M[x]) \in Balances
    BY <2>1, NextStateSound
  <2> QED
    BY <1>2, <2>1, <2>2 DEF Replaying
<1>4. base \in V /\ FoldStays(G, V, X)
  BY <1>2, <1>3 DEF FoldStays
<1>5. s \in Seq(X)
  BY <1>2
<1>6. PICK it : FoldSets(it, s, V, base, G)
  BY <1>4, <1>5, FoldExists
<1>7. \A i \in 1 .. N : s[i] \in X
  BY <1>1, <1>5
<1>8. it = [t \in SUBSET (1 .. N) |->
              IF t = {} THEN base ELSE ComputeNextState(it[t \ {Max(t)}], M[s[Max(t)]])]
  <2>1. ASSUME NEW t \in SUBSET (1 .. N), t # {}
        PROVE  it[t] = ComputeNextState(it[t \ {Max(t)}], M[s[Max(t)]])
    <3>1. Max(t) \in 1 .. N /\ it[t] = G[<<it[t \ {Max(t)}], s[Max(t)]>>]
      BY <1>1, <1>6, <2>1 DEF FoldSets
    <3>2. it[t \ {Max(t)}] \in V
      BY <1>1, <1>6 DEF FoldSets
    <3> QED
      BY <1>3, <1>7, <3>1, <3>2
  <2>2. it \in [SUBSET (1 .. N) -> V] /\ it[{}] = base
    BY <1>1, <1>6 DEF FoldSets
  <2> QED
    BY <2>1, <2>2
<1>9. PICK fold : fold = CHOOSE f : f = [t \in SUBSET (1 .. N) |->
              IF t = {} THEN base ELSE ComputeNextState(f[t \ {Max(t)}], M[s[Max(t)]])]
  OBVIOUS
<1>10. fold = [t \in SUBSET (1 .. N) |->
              IF t = {} THEN base ELSE ComputeNextState(fold[t \ {Max(t)}], M[s[Max(t)]])]
  BY <1>8, <1>9
<1>11. DOMAIN s = 1 .. N
  BY <1>1
<1>12. Replayed(M, base, s) = fold[1 .. N]
  BY <1>9, <1>11 DEF Replayed, FoldLeft, MapThenFoldSet
<1>13. fold[{}] = base
  BY <1>10
<1>14. ASSUME NEW t \in SUBSET (1 .. N), t # {}, fold[t \ {Max(t)}] \in V
       PROVE  fold[t] = G[<<fold[t \ {Max(t)}], s[Max(t)]>>]
  <2>1. Max(t) \in 1 .. N
    BY <1>14, GreatestPosition
  <2>2. fold[t] = ComputeNextState(fold[t \ {Max(t)}], M[s[Max(t)]])
    BY <1>10, <1>14
  <2> QED
    BY <1>3, <1>7, <1>14, <2>1, <2>2
<1>15. FoldsTo(fold[1 .. Len(s)], s, V, base, G)
  <2>1. FoldSolves(fold, s, V, base, G)
    BY <1>1, <1>13, <1>14 DEF FoldSolves
  <2> QED
    BY <1>4, <1>5, <2>1, FoldFound
<1> QED
  BY <1>1, <1>2, <1>12, <1>15

LEMMA StatesReplayed ==
  ASSUME NEW M, NEW K, NEW S, NEW t, ExFacts(M, K, S, t)
  PROVE  \A b \in K : S[b] = Replayed(M, S[0], ChainToTip(M, b))
<1>1. PICK N \in Nat : N = Len(M)
  BY DEF ExFacts, Blocks, Minting
<1>2. M \in Seq(MintedBlock) /\ Minting(M) /\ K \subseteq 0 .. N /\ 0 \in K
  BY <1>1 DEF ExFacts, Blocks, Minting
<1>3. PICK X, V, G : X = 1 .. N /\ V = Balances /\ G = Replaying(M)
  OBVIOUS
<1>4. PICK base \in Balances : base = S[0]
  BY <1>2 DEF ExFacts, Stated
<1>5. \A b \in K \ {0} : M[b].parent \in K /\ S[b] = ComputeNextState(S[M[b].parent], M[b])
  BY DEF ExFacts, Stated
<1>6. \A b \in K : S[b] \in Balances
  BY DEF ExFacts, Stated
<1>7. PICK P : P = {b \in 0 .. N : b \in K => S[b] = Replayed(M, base, ChainToTip(M, b))}
  OBVIOUS
<1>8. PICK C : C = [b \in 0 .. N |-> ChainToTip(M, b)]
  OBVIOUS
<1>9. /\ C[0] = <<>> /\ \A b \in 0 .. N : C[b] \in Seq(X) /\ C[b] = ChainToTip(M, b)
      /\ \A b \in 1 .. N : M[b].parent \in 0 .. b - 1 /\ LongerBy(C[b], C[M[b].parent], b)
  <2>1. /\ ChainToTip(M, 0) = <<>>
        /\ \A b \in 1 .. N : M[b].parent \in 0 .. b - 1
                             /\ LongerBy(ChainToTip(M, b), ChainToTip(M, M[b].parent), b)
        /\ \A b \in 0 .. N : ChainToTip(M, b) \in Seq(X)
    BY <1>1, <1>2, <1>3, ChainSteps
  <2>2. \A b \in 1 .. N : b \in 0 .. N /\ M[b].parent \in 0 .. N
    BY <2>1
  <2>3. 0 \in 0 .. N
    OBVIOUS
  <2> QED
    BY <1>8, <2>1, <2>2, <2>3
<1>10. \A b \in 0 .. N : FoldsTo(Replayed(M, base, C[b]), C[b], V, base, G)
  BY <1>1, <1>2, <1>3, <1>9, ReplayedRun
<1>11. 0 \in P
  <2>1. 0 \in 0 .. N /\ C[0] = <<>>
    BY <1>9
  <2>2. FoldsTo(Replayed(M, base, C[0]), C[0], V, base, G)
    BY <1>10, <2>1
  <2>3. Replayed(M, base, C[0]) = base
    BY <2>1, <2>2, FoldNone
  <2>4. C[0] = ChainToTip(M, 0)
    BY <1>9, <2>1
  <2> QED
    BY <1>4, <1>7, <2>1, <2>3, <2>4
<1>12. PICK par : par = MadeOf(M)
  OBVIOUS
<1>13. ParentsFirst(par, N) /\ \A b \in 1 .. N : par[b] = M[b].parent
  BY <1>1, <1>2, <1>12 DEF Minting, MadeOf
<1>14. ASSUME NEW b \in 1 .. N, par[b] \in P PROVE b \in P
  <2> SUFFICES ASSUME b \in K PROVE S[b] = Replayed(M, base, ChainToTip(M, b))
    BY <1>7
  <2>1. PICK a \in 0 .. N : a = M[b].parent /\ a = par[b]
    BY <1>9, <1>13
  <2>2. a \in K /\ S[b] = ComputeNextState(S[a], M[b]) /\ S[a] \in Balances
    <3>1. b \in K \ {0}
      OBVIOUS
    <3> QED
      BY <1>5, <1>6, <2>1, <3>1
  <2>3. S[a] = Replayed(M, base, C[a])
    BY <1>7, <1>9, <1>14, <2>1, <2>2
  <2>4. b \in X /\ b \in 0 .. N
    BY <1>3
  <2>5. PICK r, q : r = Replayed(M, base, C[a]) /\ q = Replayed(M, base, C[b])
    OBVIOUS
  <2>6. FoldsTo(r, C[a], V, base, G) /\ FoldsTo(q, C[b], V, base, G)
    BY <1>10, <2>1, <2>4, <2>5
  <2>7. LongerBy(C[b], C[a], b) /\ C[a] \in Seq(X)
    BY <1>9, <2>1
  <2>8. q = G[<<r, b>>]
    BY <2>4, <2>6, <2>7, FoldNext
  <2>9. r \in Balances /\ r = S[a]
    BY <2>2, <2>3, <2>5
  <2>10. G[<<r, b>>] = ComputeNextState(r, M[b])
    BY <1>1, <1>3, <2>4, <2>9 DEF Replaying
  <2>11. S[b] = q
    BY <2>2, <2>8, <2>9, <2>10
  <2> QED
    BY <1>9, <2>4, <2>5, <2>11
<1>15. \A b \in 0 .. N : b \in P
  BY <1>11, <1>13, <1>14, EveryChild
<1>16. \A b \in K : b \in 0 .. N
  BY <1>2
<1> QED
  BY <1>4, <1>7, <1>15, <1>16

LEMMA ExHolds == ASSUME ExInv PROVE ExTypeOK /\ ExLedgerSound
<1>1. PICK M, K, S, t : M = minted /\ K = known /\ S = balanceAt /\ t = canonicalTip
  OBVIOUS
<1>2. ExFacts(M, K, S, t)
  BY <1>1 DEF ExInv
<1>3. t \in K /\ K \subseteq 0 .. Len(M) /\ M \in Seq(MintedBlock) /\ S \in [K -> Balances]
  BY <1>2 DEF ExFacts, Blocks, Best, Stated, Minting
<1>4. ExTypeOK
  <2>1. DOMAIN balanceAt = known /\ \A b \in known : balanceAt[b] \in [Wallet -> Int]
    BY <1>1, <1>3 DEF Balances
  <2> QED
    BY <1>1, <1>3, <2>1 DEF ExTypeOK, ExInv
<1>5. \A b \in known \ {canonicalTip} : IsBetterTip(minted, canonicalTip, b)
  BY <1>1, <1>2 DEF ExFacts, Best
<1>6. /\ ExFacts(minted, known, balanceAt, canonicalTip)
      /\ canonicalTip \in known
  BY <1>1, <1>2, <1>3
<1>7. balanceAt[canonicalTip] = FoldLeft(LAMBDA s, b : ComputeNextState(s, minted[b]),
                                       balanceAt[0], ChainToTip(minted, canonicalTip))
  <2>1. balanceAt[canonicalTip]
          = Replayed(minted, balanceAt[0], ChainToTip(minted, canonicalTip))
    BY <1>6, StatesReplayed
  <2> QED
    BY <2>1 DEF Replayed
<1>8. Covered(S[t]) /\ SumOver(S[t], Wallet) = Reward * Len(ChainToTip(M, t))
  BY <1>2, <1>3 DEF ExFacts, Funded, IndexOf
<1>9. MapThenSumSet(LAMBDA w : balanceAt[canonicalTip][w], Wallet)
        = Reward * Len(ChainToTip(minted, canonicalTip))
  BY <1>1, <1>8 DEF SumOver
<1>10. \A w \in Wallet : balanceAt[canonicalTip][w] >= 0
  BY <1>1, <1>8 DEF Covered
<1> QED
  BY <1>4, <1>5, <1>7, <1>9, <1>10 DEF ExLedgerSound

-----------------------------------------------------------------------------
LEMMA CollectTyped ==
  ASSUME NEW M \in Seq(MintedBlock), NEW B \in SUBSET (1 .. Len(M))
  PROVE  IsFiniteSet(CollectTransactions(M, B)) /\ CollectTransactions(M, B) \subseteq Payment
<1>1. PICK T : T = {ToSet(M[b].txs) : b \in B}
  OBVIOUS
<1>2. \A b \in B : M[b].txs \in Seq(Payment)
  <2>1. \A b \in B : M[b] \in MintedBlock
    OBVIOUS
  <2> QED
    BY <2>1 DEF MintedBlock
<1>3. \A b \in B : IsFiniteSet(ToSet(M[b].txs)) /\ ToSet(M[b].txs) \subseteq Payment
  BY <1>2, MembersCounted
<1>4. IsFiniteSet(B)
  <2>1. Len(M) \in Int /\ 1 \in Int
    OBVIOUS
  <2>2. IsFiniteSet(1 .. Len(M))
    BY <2>1, FS_Interval
  <2> QED
    BY <2>2, FS_Subset
<1>5. IsFiniteSet(T)
  <2>1. PICK f : f = [b \in B |-> ToSet(M[b].txs)]
    OBVIOUS
  <2>2. f \in Surjection(B, T)
    BY <1>1, <2>1 DEF Surjection
  <2> QED
    BY <1>4, <2>2, FS_Surjection
<1>6. \A u \in T : IsFiniteSet(u)
  BY <1>1, <1>3
<1>7. IsFiniteSet(UNION T)
  BY <1>5, <1>6, FS_UNION
<1>8. CollectTransactions(M, B) = UNION T
  BY <1>1 DEF CollectTransactions
<1> QED
  BY <1>1, <1>3, <1>7, <1>8

LEMMA MementoTyped ==
  ASSUME NEW M, Minting(M), NEW b \in 0 .. Len(M), canonicalTip \in 0 .. Len(M)
  PROVE  LET m == LedgerAdd(M, b)
         IN /\ IsFiniteSet(m.reverted) /\ m.reverted \subseteq Payment
            /\ m.tip = IF IsBetterTip(M, b, canonicalTip) THEN b ELSE canonicalTip
<1>1. PICK X : X = 1 .. Len(M)
  OBVIOUS
<1>2. ChainToTip(M, canonicalTip) \in Seq(X)
  BY <1>1, ChainSteps
<1>3. ToSet(ChainToTip(M, canonicalTip)) \subseteq X
  BY <1>2, MembersCounted
<1>4. PICK tip : tip = IF IsBetterTip(M, b, canonicalTip) THEN b ELSE canonicalTip
  OBVIOUS
<1>5. PICK B : B = ToSet(ChainToTip(M, canonicalTip)) \ ToSet(ChainToTip(M, tip))
  OBVIOUS
<1>6. B \in SUBSET (1 .. Len(M)) /\ M \in Seq(MintedBlock)
  BY <1>1, <1>3, <1>5 DEF Minting
<1>7. IsFiniteSet(CollectTransactions(M, B)) /\ CollectTransactions(M, B) \subseteq Payment
  BY <1>6, CollectTyped
<1> QED
  BY <1>4, <1>5, <1>7 DEF LedgerAdd

(* The pipeline, for a block that the ledger accepts. *)
LEMMA AcceptStep ==
  ASSUME NEW M, ExFacts(M, known, balanceAt, canonicalTip),
         pending \subseteq Payment, IsFiniteSet(pending),
         NEW b \in 1 .. Len(M), ValidMinted(M[b]), Accept(M, b)
  PROVE  ExInv'
<1>1. minted' = M
  BY DEF Accept
<1>2. Minting(M) /\ known \subseteq 0 .. Len(M) /\ canonicalTip \in known
      /\ M \in Seq(MintedBlock)
  BY DEF ExFacts, Blocks, Best, Minting
<1>3. CASE b \in known
  <2>1. /\ pending' = pending \ ToSet(M[b].txs)
        /\ UNCHANGED <<known, balanceAt, canonicalTip>>
    BY <1>3 DEF Accept
  <2>2. IsFiniteSet(pending')
    BY <2>1, FS_Difference
  <2>3. ExFacts(minted', known', balanceAt', canonicalTip')
    BY <1>1, <2>1
  <2> QED
    BY <2>1, <2>2, <2>3 DEF ExInv
<1>4. CASE b \notin known
  <2>1. PICK m : m = LedgerAdd(M, b)
    OBVIOUS
  <2>2. /\ known' = known \cup {b}
        /\ balanceAt' = [c \in known \cup {b} |->
                           IF c \in known THEN balanceAt[c]
                           ELSE ComputeNextState(balanceAt[M[b].parent], M[b])]
        /\ canonicalTip' = m.tip
        /\ pending' = MempoolAfter(M, b, m)
    BY <1>4, <2>1 DEF Accept
  <2>3. b \in 0 .. Len(M) /\ canonicalTip \in 0 .. Len(M)
    BY <1>2
  <2>4. /\ IsFiniteSet(m.reverted) /\ m.reverted \subseteq Payment
        /\ m.tip = IF IsBetterTip(M, b, canonicalTip) THEN b ELSE canonicalTip
    BY <1>2, <2>1, <2>3, MementoTyped
  <2>5. M[b].parent \in known /\ Affordable(balanceAt[M[b].parent], M[b])
    <3>0. M[b] \in MintedBlock
      BY <1>2
    <3>1. M[b].txs \in Seq(Payment)
      BY <3>0 DEF MintedBlock
    <3>2. DOMAIN M[b].txs = 1 .. Len(M[b].txs)
      BY <3>1
    <3> QED
      BY <3>2 DEF ValidMinted, Affordable, Cut
  <2>6. ExFacts(M, known \cup {b}, balanceAt', canonicalTip')
    BY <1>4, <2>2, <2>4, <2>5, ExFactsAccept
  <2>7. IsFiniteSet(pending \cup m.reverted)
    BY <2>4, FS_Union
  <2>8. IsFiniteSet(pending') /\ pending' \subseteq Payment
    <3>1. PICK U : U = IF m.applied # {} THEN m.applied ELSE ToSet(M[b].txs)
      OBVIOUS
    <3>2. pending' = (pending \cup m.reverted) \ U
      BY <2>2, <3>1 DEF MempoolAfter
    <3>3. IsFiniteSet((pending \cup m.reverted) \ U)
      BY <2>7, FS_Difference
    <3> QED
      BY <2>4, <3>2, <3>3
  <2>9. ExFacts(minted', known', balanceAt', canonicalTip')
    BY <1>1, <2>2, <2>6
  <2> QED
    BY <2>8, <2>9 DEF ExInv
<1> QED
  BY <1>3, <1>4

(* A block on one that was made before. *)
LEMMA MintingGrows ==
  ASSUME NEW M, Minting(M), NEW block \in MintedBlock, block.parent \in 0 .. Len(M)
  PROVE  /\ Minting(Append(M, block)) /\ Len(Append(M, block)) = Len(M) + 1
         /\ Append(M, block)[Len(M) + 1] = block
         /\ \A b \in 1 .. Len(M) : Append(M, block)[b] = M[b]
<1>1. PICK N \in Nat : N = Len(M) /\ M \in Seq(MintedBlock)
  BY DEF Minting
<1>2. PICK W : W = Append(M, block)
  OBVIOUS
<1>3. /\ W \in Seq(MintedBlock) /\ Len(W) = N + 1 /\ W[N + 1] = block
      /\ \A b \in 1 .. N : W[b] = M[b]
  BY <1>1, <1>2, AppendProperties
<1>4. ParentsFirst(MadeOf(W), N + 1)
  <2>1. \A b \in 1 .. N + 1 : MadeOf(W)[b] = W[b].parent
    BY <1>3 DEF MadeOf
  <2>2. \A b \in 1 .. N : M[b].parent \in 0 .. b - 1
    BY <1>1 DEF Minting, ParentsFirst, MadeOf
  <2>3. \A b \in 1 .. N + 1 : W[b].parent \in 0 .. b - 1
    <3>1. \A b \in 1 .. N + 1 : b = N + 1 \/ b \in 1 .. N
      OBVIOUS
    <3>2. W[N + 1].parent \in 0 .. (N + 1) - 1
      BY <1>1, <1>3
    <3> QED
      BY <1>3, <2>2, <3>1, <3>2
  <2> QED
    BY <2>1, <2>3 DEF ParentsFirst
<1> QED
  BY <1>1, <1>2, <1>3, <1>4 DEF Minting

LEMMA ExStarts == ExInit => ExInv
<1> SUFFICES ASSUME ExInit PROVE ExInv
  OBVIOUS
<1>1. /\ minted = <<>> /\ known = {0} /\ canonicalTip = 0 /\ pending = {}
      /\ balanceAt = [b \in {0} |-> [w \in Wallet |-> 0]]
  BY DEF ExInit
<1>2. minted \in Seq(MintedBlock) /\ Len(minted) = 0
  BY <1>1
<1>3. Minting(minted)
  BY <1>2 DEF Minting, ParentsFirst
<1>4. Blocks(minted, known) /\ Best(minted, known, canonicalTip)
  BY <1>1, <1>2, <1>3, ExampleAssumption DEF Blocks, Best
<1>5. Stated(minted, known, balanceAt)
  BY <1>1 DEF Stated, Balances
<1>6. PICK zero \in Balances : zero = [w \in Wallet |-> 0]
  <2>1. [w \in Wallet |-> 0] \in Balances
    BY DEF Balances
  <2> QED
    BY <2>1
<1>7. SumOver(zero, Wallet) = 0
  <2>1. IsFiniteSet(Wallet) /\ \A w \in Wallet : zero[w] = 0
    BY <1>6, ExampleAssumption
  <2> QED
    BY <2>1, SumZero
<1>8. IndexOf(minted, 0) = 0
  BY <1>3, IndexFacts
<1>9. Funded(minted, known, balanceAt)
  <2>1. Covered(zero)
    BY <1>6 DEF Covered
  <2>2. balanceAt[0] = zero
    BY <1>1, <1>6
  <2>3. Reward * IndexOf(minted, 0) = 0
    BY <1>8, ExampleAssumption
  <2> QED
    BY <1>1, <1>7, <2>1, <2>2, <2>3 DEF Funded
<1>10. IsFiniteSet(pending)
  BY <1>1, FS_EmptySet
<1> QED
  BY <1>1, <1>4, <1>5, <1>9, <1>10 DEF ExInv, ExFacts

LEMMA ExSteps == ExInv /\ [ExNext]_exVars => ExInv'
<1> SUFFICES ASSUME ExInv, [ExNext]_exVars PROVE ExInv'
  OBVIOUS
<1>1. /\ ExFacts(minted, known, balanceAt, canonicalTip)
      /\ pending \subseteq Payment /\ IsFiniteSet(pending)
  BY DEF ExInv
<1>2. /\ Minting(minted) /\ Len(minted) \in Nat /\ Len(minted) <= MaxMinted
      /\ minted \in Seq(MintedBlock) /\ known \subseteq 0 .. Len(minted)
      /\ canonicalTip \in known
  BY <1>1 DEF ExFacts, Blocks, Best, Minting
<1>3. ASSUME NEW tx \in Payment, CreateTransaction(tx) PROVE ExInv'
  <2>1. IsFiniteSet(pending \cup {tx})
    BY <1>1, FS_AddElement
  <2> QED
    BY <1>1, <1>3, <2>1 DEF CreateTransaction, ExInv
<1>4. CASE MineBlock
  <2>1. PICK txs \in TransactionsByFee :
          LET block == [parent |-> canonicalTip, miner |-> Own, txs |-> txs]
          IN ValidMinted(block) /\ Accept(Append(minted, block), Len(minted) + 1)
    BY <1>4 DEF MineBlock
  <2>2. Len(minted) < MaxMinted
    BY <1>4 DEF MineBlock
  <2>3. txs \in Seq(Payment)
    <3>1. PICK best \in SUBSET pending : txs \in SetToSeqs(best)
      BY DEF TransactionsByFee
    <3>2. PICK n \in Nat : n = Cardinality(best)
      BY <1>1, <3>1, FS_Subset, FS_CardinalityType
    <3>3. txs \in [1 .. n -> best]
      BY <3>1, <3>2 DEF SetToSeqs
    <3> QED
      BY <1>1, <3>3
  <2>4. PICK block \in MintedBlock :
          block = [parent |-> canonicalTip, miner |-> Own, txs |-> txs]
    <3>1. canonicalTip \in 0 .. MaxMinted /\ Own \in Wallet
      BY <1>2, ExampleAssumption
    <3>2. [parent |-> canonicalTip, miner |-> Own, txs |-> txs] \in MintedBlock
      BY <2>3, <3>1 DEF MintedBlock
    <3> QED
      BY <3>2
  <2>5. block.parent \in 0 .. Len(minted)
    BY <1>2, <2>4
  <2>6. PICK W : W = Append(minted, block)
    OBVIOUS
  <2>7. /\ Minting(W) /\ Len(W) = Len(minted) + 1 /\ W[Len(minted) + 1] = block
        /\ \A b \in 1 .. Len(minted) : W[b] = minted[b]
    BY <1>2, <2>5, <2>6, MintingGrows
  <2>8. Len(W) <= MaxMinted /\ Len(W) >= Len(minted) /\ Len(minted) + 1 \in 1 .. Len(W)
    BY <1>2, <2>2, <2>7, ExampleAssumption
  <2>9. ExFacts(W, known, balanceAt, canonicalTip)
    BY <1>1, <2>7, <2>8, ExFactsKept
  <2>10. ValidMinted(W[Len(minted) + 1]) /\ Accept(W, Len(minted) + 1)
    BY <2>1, <2>4, <2>6, <2>7
  <2> QED
    BY <1>1, <2>8, <2>9, <2>10, AcceptStep
<1>5. ASSUME NEW parent \in 0 .. MaxMinted, NEW miner \in Wallet,
             NEW txs \in {<<>>} \cup {<<tx>> : tx \in Payment},
             MintElsewhere(parent, miner, txs)
      PROVE  ExInv'
  <2>1. txs \in Seq(Payment)
    <3>1. <<>> \in Seq(Payment)
      OBVIOUS
    <3>2. \A tx \in Payment : <<tx>> \in Seq(Payment)
      OBVIOUS
    <3> QED
      BY <3>1, <3>2
  <2>2. PICK block \in MintedBlock : block = [parent |-> parent, miner |-> miner, txs |-> txs]
    <3>1. [parent |-> parent, miner |-> miner, txs |-> txs] \in MintedBlock
      BY <2>1 DEF MintedBlock
    <3> QED
      BY <3>1
  <2>3. /\ Len(minted) < MaxMinted /\ parent <= Len(minted)
        /\ minted' = Append(minted, block)
        /\ UNCHANGED <<known, balanceAt, canonicalTip, pending>>
    BY <1>5, <2>2 DEF MintElsewhere
  <2>4. block.parent \in 0 .. Len(minted)
    BY <1>2, <2>2, <2>3
  <2>5. PICK W : W = Append(minted, block)
    OBVIOUS
  <2>6. /\ Minting(W) /\ Len(W) = Len(minted) + 1
        /\ \A b \in 1 .. Len(minted) : W[b] = minted[b]
    BY <1>2, <2>4, <2>5, MintingGrows
  <2>7. Len(W) <= MaxMinted /\ Len(W) >= Len(minted)
    BY <1>2, <2>3, <2>6, ExampleAssumption
  <2>8. ExFacts(W, known, balanceAt, canonicalTip)
    BY <1>1, <2>6, <2>7, ExFactsKept
  <2> QED
    BY <1>1, <2>3, <2>5, <2>8 DEF ExInv
<1>6. ASSUME NEW b \in 1 .. MaxMinted, ReceiveBlock(b) PROVE ExInv'
  <2>1. b \in 1 .. Len(minted) /\ ValidMinted(minted[b]) /\ Accept(minted, b)
    BY <1>2, <1>6 DEF ReceiveBlock
  <2> QED
    BY <1>1, <2>1, AcceptStep
<1>7. CASE UNCHANGED exVars
  BY <1>1, <1>7 DEF exVars, ExInv
<1> QED
  BY <1>3, <1>4, <1>5, <1>6, <1>7 DEF ExNext

(* The invariant: of every known block the parent is known, its balances   *)
(* are what it makes of its parent's, nobody owes anything in them and     *)
(* they hold the rewards of its chain; the chain's tip is the best block.  *)
THEOREM ExInvariant == ExSpec => []ExInv
<1>1. ExInit => ExInv
  BY ExStarts
<1>2. ExInv /\ [ExNext]_exVars => ExInv'
  BY ExSteps
<1> QED
  BY <1>1, <1>2, PTL DEF ExSpec

(* Whatever forks the node has seen, its chain is the best one known and   *)
(* its balances are what replaying that chain from the genesis block       *)
(* gives; all rewards are in them and nobody owes anything (_update_state  *)
(* and is_valid of examples/blockchain.py).                                *)
THEOREM ExLedgerSoundHolds == ExSpec => [](ExTypeOK /\ ExLedgerSound)
BY ExInvariant, ExHolds, PTL

-----------------------------------------------------------------------------
(* The composition of SharedObjects lets every part run by its own rules   *)
(* or stand still, so that what holds of a part's specification holds of   *)
(* it in the composition.                                                  *)
THEOREM ObjectParts ==
  ObjectSpec => /\ CoreSpec /\ SyncSpec /\ PeerSpec /\ ExSpec /\ ChatSpec
                /\ StoreSpec /\ UtxoSpec
<1>1. ObjectInit => /\ CoreInit /\ SyncInit /\ PeerInit /\ ExInit /\ ChatInit
                    /\ StoreInit /\ UtxoInit
  BY DEF ObjectInit
<1>2. ASSUME [ObjectNext]_objectVars
      PROVE  /\ [CoreNext]_coreVars /\ [SyncNext]_syncVars /\ [PeerNext]_peerVars
             /\ [ExNext]_exVars /\ [ChatNext]_chatVars
             /\ [StoreNext]_storeVars /\ [UtxoNext]_utxoVars
  BY <1>2 DEF ObjectNext, objectVars
<1> QED
  BY <1>1, <1>2, PTL DEF ObjectSpec, CoreSpec, SyncSpec, PeerSpec, ExSpec, ChatSpec,
                         StoreSpec, UtxoSpec

(* What is proved of the parts, of the composition that the run checks.    *)
THEOREM ObjectsSound ==
  ObjectSpec => [](/\ StoreReadsBack /\ SyncBringsUpToDate /\ DiscoveryMeshes
                    /\ ExLedgerSound /\ ChatPostsByMembers /\ KvConverges
                    /\ UtxoConservedAtTip)
BY ObjectParts, StoreReadsBackHolds, SyncBringsUpToDateHolds, DiscoveryMeshesHolds,
   ExLedgerSoundHolds, ChatPostsByMembersHolds, KvConvergesHolds, UtxoConservedAtTipHolds, PTL

(* Every part keeps to its types, whichever is at work. *)
THEOREM ObjectsTyped == ObjectSpec => []ObjectTypeOK
<1>1. ObjectInit => use \in Use
  BY DEF ObjectInit
<1>2. use \in Use /\ [ObjectNext]_objectVars => (use \in Use)'
  BY DEF ObjectNext, objectVars
<1>3. ObjectSpec => [](use \in Use)
  BY <1>1, <1>2, PTL DEF ObjectSpec
<1>4. CoreInv => CoreTypeOK
  BY DEF CoreInv, CoreGood, CoreTypeOK, CacheEntry
<1>5. ChatInv => ChatTypeOK
  BY DEF ChatInv
<1>6. StoreInv => StoreTypeOK
  BY DEF StoreInv
<1>7. UtxoInv => UtxoTypeOK
  BY UtxoHolds
<1>8. use \in Use /\ CoreTypeOK /\ (SyncTypeOK /\ SyncBringsUpToDate)
        /\ (PeerTypeOK /\ DiscoveryMeshes) /\ (ExTypeOK /\ ExLedgerSound) /\ ChatTypeOK
        /\ StoreTypeOK /\ UtxoTypeOK => ObjectTypeOK
  BY DEF ObjectTypeOK
<1> QED
  BY <1>3, <1>4, <1>5, <1>6, <1>7, <1>8, ObjectParts, CoreInvariant, ChatInvariant,
     StoreInvariant, UtxoInvariant, SyncBringsUpToDateHolds, DiscoveryMeshesHolds,
     ExLedgerSoundHolds, PTL
=============================================================================
