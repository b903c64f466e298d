-------------------------- MODULE GossipNodeProofs --------------------------
(* Proofs about GossipNode for every set of nodes and payloads, every      *)
(* topology and prerequisite relation, and any number of restarts.         *)
EXTENDS GossipNode, TLAPS

(* A thread that is inside a call holds a payload. *)
LEMMA HandType ==
  ASSUME TypeOK, NEW n \in Node
  PROVE  /\ app[n].pc # "idle" => app[n].msg \in Message
         /\ listener[n].pc \notin {"idle", "dead"} =>
              listener[n].msg \in Message /\ listener[n].src \in Node
<1>1. app[n] \in AppState /\ listener[n] \in ListenerState
  BY DEF TypeOK
<1> QED
  BY <1>1 DEF AppState, ListenerState, Idle, Dead

(* The thread states the actions build. *)
LEMMA StateType ==
  /\ Idle \in AppState /\ Idle \in ListenerState /\ Dead \in ListenerState
  /\ \A pc \in {"process", "broadcast", "store"}, m \in Message :
       AppAt(pc, m) \in AppState
  /\ \A pc \in {"validate", "process", "store", "broadcast", "sent", "invalid",
                "caught"},
        m \in Message, s \in Node : ListenerAt(pc, m, s) \in ListenerState
BY DEF AppState, ListenerState, AppAt, ListenerAt

(* Applying a message adds one to a counter of a well typed table. *)
LEMMA CountType ==
  ASSUME TypeOK, NEW n \in Node, NEW m \in Message, ProcessSharedObjects(n, m)
  PROVE  applied' \in [Node -> [Message -> Nat]]
<1>1. applied \in [Node -> [Message -> Nat]]
  BY DEF TypeOK
<1>2. [applied[n] EXCEPT ![m] = applied[n][m] + 1] \in [Message -> Nat]
  BY <1>1
<1>3. applied' = [applied EXCEPT ![n] = [applied[n] EXCEPT ![m] = applied[n][m] + 1]]
  BY DEF ProcessSharedObjects
<1> QED
  BY <1>1, <1>2, <1>3

(* Scheduling db_sync keeps the table of what the threads have left of it. *)
LEMMA SyncType ==
  ASSUME TypeOK, NEW n \in Node, NEW t \in Thread, DbSync(n, t)
  PROVE  sync' \in [Node -> [Thread -> {"none", "close", "open"}]]
BY DEF TypeOK, DbSync

(* Changing one entry of a table of tables leaves it one. *)
LEMMA EntryType ==
  ASSUME NEW S, NEW T, NEW U, NEW f \in [S -> [T -> U]],
         NEW s \in S, NEW t \in T, NEW u \in U
  PROVE  /\ [f EXCEPT ![s][t] = u] \in [S -> [T -> U]]
         /\ \A k \in S, x \in T : [f EXCEPT ![s][t] = u][k][x] =
                                  IF k = s /\ x = t THEN u ELSE f[k][x]
<1>1. f[s] \in [T -> U]
  OBVIOUS
<1>2. [f[s] EXCEPT ![t] = u] \in [T -> U]
  BY <1>1
<1>3. [f EXCEPT ![s][t] = u] = [f EXCEPT ![s] = [f[s] EXCEPT ![t] = u]]
  OBVIOUS
<1> QED
  BY <1>1, <1>2, <1>3

(* The steps of the threads, one disjunct per action. *)
LEMMA Cases ==
  ASSUME [Next]_vars
  PROVE  \/ \E n \in Node, m \in Message : AppValidate(n, m)
         \/ \E n \in Node : AppProcess(n)
         \/ \E n \in Node : \E F \in SUBSET peers[n] : AppBroadcast(n, F)
         \/ \E n \in Node : AppStore(n)
         \/ \E n \in Node : ListenerValidate(n)
         \/ \E n \in Node : ListenerProcess(n)
         \/ \E n \in Node : ListenerStore(n)
         \/ \E n \in Node : \E F \in SUBSET peers[n] : ListenerBroadcast(n, F)
         \/ \E n \in Node : ListenerReturn(n)
         \/ \E n \in Node : HandleInvalidMessage(n)
         \/ \E n \in Node : \E m \in Message, F \in SUBSET peers[n] : Gossip(n, m, F)
         \/ \E n \in Node, t \in Thread : \E p \in failed[n][t] :
               RemoveFailedPeer(n, t, p)
         \/ \E n \in Node, t \in Thread : SyncClose(n, t)
         \/ \E n \in Node, t \in Thread : SyncOpen(n, t)
         \/ \E n \in Node : Restart(n)
         \/ \E pk \in net : Receive(pk.dst, pk)
         \/ \E pk \in net : Lose(pk)
         \/ UNCHANGED vars
<1>1. \A n \in Node : Failures(n) \subseteq SUBSET peers[n]
  BY DEF Failures
<1>2. \A n \in Node, t \in Thread : SaveStep(n, t) =>
        \/ \E p \in failed[n][t] : RemoveFailedPeer(n, t, p)
        \/ SyncClose(n, t)
        \/ SyncOpen(n, t)
  BY DEF SaveStep
<1>3. "app" \in Thread /\ "listener" \in Thread /\ "gossip" \in Thread
  BY DEF Thread
<1> QED
  BY <1>1, <1>2, <1>3 DEF Next, AppStep, ListenerStep

(* Every state is well typed, and a thread cleans up only after its own    *)
(* broadcast.                                                              *)
LEMMA TypeStep ==
  ASSUME TypeOK, CallerInv, [Next]_vars
  PROVE  TypeOK'
<1> USE GossipAssumption
<1>1. ASSUME NEW n \in Node, NEW m \in Message, AppValidate(n, m)
      PROVE  TypeOK'
  BY <1>1, HandType, StateType
  DEF AppValidate, TypeOK, Packet, dbm, NoCount, NoSync, NoneFailed, MaxInvalid
<1>2. ASSUME NEW n \in Node, AppProcess(n)
      PROVE  TypeOK'
  <2>1. /\ app[n].msg \in Message
        /\ AppAt("broadcast", app[n].msg) \in AppState
    BY <1>2, HandType, StateType DEF AppProcess
  <2>2. applied' \in [Node -> [Message -> Nat]]
    BY <1>2, <2>1, CountType DEF AppProcess
  <2>3. app' \in [Node -> AppState]
    BY <1>2, <2>1 DEF AppProcess, TypeOK
  <2> QED
    BY <1>2, <2>2, <2>3 DEF AppProcess, dbm, TypeOK
<1>3. ASSUME NEW n \in Node, NEW F \in SUBSET peers[n], AppBroadcast(n, F)
      PROVE  TypeOK'
  <2>1. app[n].msg \in Message
    BY <1>3, HandType DEF AppBroadcast
  <2>2. /\ net \in SUBSET Packet /\ peers \in [Node -> SUBSET Node]
        /\ failed \in [Node -> [Thread -> SUBSET Node]]
        /\ app \in [Node -> AppState]
    BY DEF TypeOK
  <2>3. Broadcast(n, "app", app[n].msg, F)
    BY <1>3 DEF AppBroadcast
  <2>4. net' \in SUBSET Packet
    BY <2>1, <2>2, <2>3 DEF Broadcast, Packet
  <2>5. failed' \in [Node -> [Thread -> SUBSET Node]]
    BY <2>2, <2>3 DEF Broadcast, Thread
  <2>6. app' \in [Node -> AppState]
    BY <1>3, <2>1, <2>2, StateType DEF AppBroadcast
  <2> QED
    BY <1>3, <2>4, <2>5, <2>6 DEF AppBroadcast, dbm, TypeOK
<1>4. ASSUME NEW n \in Node, AppStore(n)
      PROVE  TypeOK'
  <2>1. app[n].msg \in Message
    BY <1>4, HandType DEF AppStore
  <2>2. sync' \in [Node -> [Thread -> {"none", "close", "open"}]]
    BY <1>4, SyncType DEF AppStore, Thread, TypeOK
  <2>3. db \in [Node -> SUBSET Message] /\ app \in [Node -> AppState]
    BY DEF TypeOK
  <2>4. db' = db \/ db' = [db EXCEPT ![n] = @ \cup {app[n].msg}]
    BY <1>4 DEF AppStore
  <2>5. db' \in [Node -> SUBSET Message]
    BY <2>1, <2>3, <2>4
  <2>6. app' \in [Node -> AppState]
    BY <1>4, <2>3, StateType DEF AppStore
  <2> QED
    BY <1>4, <2>2, <2>5, <2>6 DEF AppStore, TypeOK
<1>5. ASSUME NEW n \in Node, ListenerValidate(n)
      PROVE  TypeOK'
  <2> DEFINE m == listener[n].msg
             s == listener[n].src
  <2>1. m \in Message /\ s \in Node /\ listener \in [Node -> ListenerState]
    BY <1>5, HandType DEF ListenerValidate, TypeOK
  <2>2. \/ listener' = [listener EXCEPT ![n] = Idle]
        \/ listener' = [listener EXCEPT ![n] = ListenerAt("caught", m, s)]
        \/ listener' = [listener EXCEPT ![n] = ListenerAt("process", m, s)]
        \/ listener' = [listener EXCEPT ![n] = ListenerAt("invalid", m, s)]
    BY <1>5 DEF ListenerValidate
  <2> HIDE DEF m, s
  <2>3. listener' \in [Node -> ListenerState]
    BY <2>1, <2>2, StateType
  <2> QED
    BY <1>5, <2>3 DEF ListenerValidate, dbm, TypeOK
<1>6. ASSUME NEW n \in Node, ListenerProcess(n)
      PROVE  TypeOK'
  <2>1. /\ listener[n].msg \in Message
        /\ ListenerAt("store", listener[n].msg, listener[n].src) \in ListenerState
    BY <1>6, HandType, StateType DEF ListenerProcess
  <2>2. applied' \in [Node -> [Message -> Nat]]
    BY <1>6, <2>1, CountType DEF ListenerProcess
  <2>3. listener' \in [Node -> ListenerState]
    BY <1>6, <2>1 DEF ListenerProcess, TypeOK
  <2> QED
    BY <1>6, <2>2, <2>3 DEF ListenerProcess, dbm, TypeOK
<1>7. ASSUME NEW n \in Node, ListenerStore(n)
      PROVE  TypeOK'
  <2> DEFINE m == listener[n].msg
             s == listener[n].src
  <2>1. /\ m \in Message /\ s \in Node
        /\ db \in [Node -> SUBSET Message]
        /\ listener \in [Node -> ListenerState]
        /\ unstored \in [Node -> [Message -> Nat]]
    BY <1>7, HandType DEF ListenerStore, TypeOK
  <2>2. \/ /\ db' = [db EXCEPT ![n] = @ \cup {m}]
           /\ listener' = [listener EXCEPT ![n] = ListenerAt("broadcast", m, s)]
           /\ UNCHANGED unstored
        \/ /\ unstored' = [unstored EXCEPT ![n][m] = @ + 1]
           /\ listener' = [listener EXCEPT ![n] = ListenerAt("caught", m, s)]
           /\ UNCHANGED db
    BY <1>7 DEF ListenerStore
  <2> HIDE DEF m, s
  <2>3. db' \in [Node -> SUBSET Message]
    BY <2>1, <2>2
  <2>4. listener' \in [Node -> ListenerState]
    BY <2>1, <2>2, StateType
  <2>5. [unstored[n] EXCEPT ![m] = unstored[n][m] + 1] \in [Message -> Nat]
    BY <2>1
  <2>6. unstored' \in [Node -> [Message -> Nat]]
    BY <2>1, <2>2, <2>5
  <2> QED
    BY <1>7, <2>3, <2>4, <2>6 DEF ListenerStore, dbm, TypeOK
<1>8. ASSUME NEW n \in Node, NEW F \in SUBSET peers[n], ListenerBroadcast(n, F)
      PROVE  TypeOK'
  <2> DEFINE m == listener[n].msg
             s == listener[n].src
  <2>1. /\ m \in Message /\ s \in Node
        /\ net \in SUBSET Packet /\ peers \in [Node -> SUBSET Node]
        /\ failed \in [Node -> [Thread -> SUBSET Node]]
        /\ listener \in [Node -> ListenerState]
    BY <1>8, HandType DEF ListenerBroadcast, TypeOK
  <2>2. \/ listener' = [listener EXCEPT ![n] = Idle]
        \/ listener' = [listener EXCEPT ![n] = ListenerAt("sent", m, s)]
    BY <1>8 DEF ListenerBroadcast
  <2>3. Broadcast(n, "listener", m, F)
    BY <1>8 DEF ListenerBroadcast
  <2> HIDE DEF m, s
  <2>4. listener' \in [Node -> ListenerState]
    BY <2>1, <2>2, StateType
  <2>5. net' \in SUBSET Packet
    BY <2>1, <2>3 DEF Broadcast, Packet
  <2>6. failed' \in [Node -> [Thread -> SUBSET Node]]
    BY <2>1, <2>3 DEF Broadcast, Thread
  <2> QED
    BY <1>8, <2>4, <2>5, <2>6 DEF ListenerBroadcast, dbm, TypeOK
<1>9. ASSUME NEW n \in Node, ListenerReturn(n)
      PROVE  TypeOK'
  BY <1>9, HandType, StateType
  DEF ListenerReturn, TypeOK, Packet, dbm, NoCount, NoSync, NoneFailed, MaxInvalid
<1>10. ASSUME NEW n \in Node, HandleInvalidMessage(n)
      PROVE  TypeOK'
  <2> DEFINE p == listener[n].src
  <2>1. /\ p \in Node
        /\ strikes \in [Node -> [Node -> 0 .. 3]]
        /\ \A k, r \in Node : strikes[k][r] = 3 => r \in banned[k]
        /\ banned \in [Node -> SUBSET Node] /\ peers \in [Node -> SUBSET Node]
        /\ sync \in [Node -> [Thread -> {"none", "close", "open"}]]
        /\ listener \in [Node -> ListenerState]
    BY <1>10, HandType DEF HandleInvalidMessage, TypeOK, MaxInvalid
  <2>2. listener' \in [Node -> ListenerState]
    BY <1>10, <2>1, StateType DEF HandleInvalidMessage
  <2>3. \/ UNCHANGED <<strikes, banned, peers, sync>>
        \/ Strike(n, p)
        \/ Ban(n, p)
    BY <1>10 DEF HandleInvalidMessage
  <2>4. sync' \in [Node -> [Thread -> {"none", "close", "open"}]]
    <3>1. sync' = sync \/ DbSync(n, "listener")
      BY <2>3 DEF Strike, Ban
    <3> QED
      BY <2>1, <3>1, SyncType DEF Thread
  <2> HIDE DEF p
  <2>5. /\ \/ banned' = banned
           \/ banned' = [banned EXCEPT ![n] = banned[n] \cup {p}]
        /\ \/ peers' = peers
           \/ peers' = [peers EXCEPT ![n] = peers[n] \ {p}]
    BY <2>1, <2>3 DEF Strike, Ban
  <2>6. /\ banned' \in [Node -> SUBSET Node] /\ peers' \in [Node -> SUBSET Node]
        /\ \A k \in Node : banned[k] \subseteq banned'[k]
    <3>1. banned[n] \cup {p} \in SUBSET Node /\ peers[n] \ {p} \in SUBSET Node
      BY <2>1
    <3>2. banned' \in [Node -> SUBSET Node]
      <4>1. [banned EXCEPT ![n] = banned[n] \cup {p}] \in [Node -> SUBSET Node]
        BY <2>1, <3>1
      <4> QED
        BY <2>1, <2>5, <4>1
    <3>3. peers' \in [Node -> SUBSET Node]
      <4>1. [peers EXCEPT ![n] = peers[n] \ {p}] \in [Node -> SUBSET Node]
        BY <2>1, <3>1
      <4> QED
        BY <2>1, <2>5, <4>1
    <3>4. \A k \in Node : banned[k] \subseteq banned'[k]
      <4>1. CASE banned' = banned
        BY <4>1
      <4>2. CASE banned' = [banned EXCEPT ![n] = banned[n] \cup {p}]
        BY <2>1, <4>2
      <4> QED
        BY <2>5, <4>1, <4>2
    <3> QED
      BY <3>2, <3>3, <3>4
  <2>7. \/ strikes' = strikes
        \/ strikes[n][p] + 1 < 3
             /\ strikes' = [strikes EXCEPT ![n][p] = strikes[n][p] + 1]
        \/ strikes' = [strikes EXCEPT ![n][p] = 0]
        \/ p \in banned'[n] /\ strikes' = [strikes EXCEPT ![n][p] = 3]
    BY <2>1, <2>3 DEF Strike, Ban, MaxInvalid
  <2>8. PICK q \in 0 .. 3 : /\ q = 3 => p \in banned'[n] \/ strikes' = strikes
                            /\ \/ strikes' = strikes
                               \/ strikes' = [strikes EXCEPT ![n][p] = q]
    <3>1. strikes[n][p] \in 0 .. 3
      BY <2>1
    <3>2. CASE strikes' = strikes
      BY <3>2
    <3>3. CASE strikes[n][p] + 1 < 3
                 /\ strikes' = [strikes EXCEPT ![n][p] = strikes[n][p] + 1]
      <4>1. strikes[n][p] + 1 \in 0 .. 3 /\ strikes[n][p] + 1 # 3
        BY <3>1, <3>3
      <4> QED
        BY <3>3, <4>1
    <3>4. CASE strikes' = [strikes EXCEPT ![n][p] = 0]
      BY <3>4
    <3>5. CASE p \in banned'[n] /\ strikes' = [strikes EXCEPT ![n][p] = 3]
      BY <3>5
    <3> QED
      BY <2>7, <3>2, <3>3, <3>4, <3>5
  <2>9. \/ strikes' = strikes
        \/ /\ strikes' \in [Node -> [Node -> 0 .. 3]]
           /\ \A k, r \in Node :
                strikes'[k][r] = IF k = n /\ r = p THEN q ELSE strikes[k][r]
    <3> DEFINE new == [strikes EXCEPT ![n][p] = q]
    <3>1. /\ new \in [Node -> [Node -> 0 .. 3]]
          /\ \A k \in Node, r \in Node :
               new[k][r] = IF k = n /\ r = p THEN q ELSE strikes[k][r]
      BY <2>1, EntryType
    <3> HIDE DEF new
    <3>2. strikes' = strikes \/ strikes' = new
      BY <2>8 DEF new
    <3> QED
      BY <3>1, <3>2
  <2>10. /\ strikes' \in [Node -> [Node -> 0 .. 3]]
         /\ \A k, r \in Node : strikes'[k][r] = 3 => r \in banned'[k]
    <3>1. CASE strikes' = strikes
      BY <2>1, <2>6, <3>1
    <3>2. CASE strikes' # strikes
      <4>1. q = 3 => p \in banned'[n]
        BY <2>8, <3>2
      <4>2. ASSUME NEW k \in Node, NEW r \in Node, strikes'[k][r] = 3
            PROVE  r \in banned'[k]
        <5>1. 3 = IF k = n /\ r = p THEN q ELSE strikes[k][r]
          BY <2>9, <3>2, <4>2
        <5>2. CASE k = n /\ r = p
          BY <4>1, <5>1, <5>2
        <5>3. CASE ~(k = n /\ r = p)
          <6>1. r \in banned[k]
            BY <2>1, <5>1, <5>3
          <6> QED
            BY <2>6, <6>1
        <5> QED
          BY <5>2, <5>3
      <4> QED
        BY <2>9, <3>2, <4>2
    <3> QED
      BY <3>1, <3>2
  <2> QED
    BY <1>10, <2>2, <2>4, <2>6, <2>10 DEF HandleInvalidMessage, TypeOK, MaxInvalid
<1>11. ASSUME NEW n \in Node, NEW m \in Message, NEW F \in SUBSET peers[n], Gossip(n, m, F)
      PROVE  TypeOK'
  <2>1. /\ net \in SUBSET Packet /\ peers \in [Node -> SUBSET Node]
        /\ failed \in [Node -> [Thread -> SUBSET Node]]
    BY DEF TypeOK
  <2>2. Broadcast(n, "gossip", m, F)
    BY <1>11 DEF Gossip
  <2>3. net' \in SUBSET Packet
    BY <2>1, <2>2 DEF Broadcast, Packet
  <2>4. failed' \in [Node -> [Thread -> SUBSET Node]]
    BY <2>1, <2>2 DEF Broadcast, Thread
  <2> QED
    BY <1>11, <2>3, <2>4 DEF Gossip, dbm, TypeOK
<1>12. ASSUME NEW n \in Node, NEW t \in Thread, NEW p \in failed[n][t], RemoveFailedPeer(n, t, p)
      PROVE  TypeOK'
  <2>1. /\ peers \in [Node -> SUBSET Node]
        /\ failed \in [Node -> [Thread -> SUBSET Node]]
        /\ app \in [Node -> AppState] /\ listener \in [Node -> ListenerState]
        /\ sync \in [Node -> [Thread -> {"none", "close", "open"}]]
    BY DEF TypeOK
  <2>2. t = "listener" => listener[n].msg \in Message /\ listener[n].src \in Node
    BY <1>12, HandType DEF CallerInv
  <2>3. peers' \in [Node -> SUBSET Node]
    BY <1>12, <2>1 DEF RemoveFailedPeer
  <2>4. /\ \/ failed' = [failed EXCEPT ![n][t] = failed[n][t] \ {p}]
           \/ failed' = [failed EXCEPT ![n][t] = {}]
        /\ sync' = sync \/ DbSync(n, t)
        /\ app' = app \/ app' = [app EXCEPT ![n] = Idle]
        /\ \/ listener' = listener
           \/ /\ t = "listener"
              /\ listener' = [listener EXCEPT
                     ![n] = ListenerAt("caught", listener[n].msg, listener[n].src)]
    BY <1>12, <2>1 DEF RemoveFailedPeer
  <2>5. failed' \in [Node -> [Thread -> SUBSET Node]]
    <3>1. failed[n][t] \ {p} \in SUBSET Node /\ {} \in SUBSET Node
      BY <2>1
    <3> QED
      <4>1. [failed EXCEPT ![n][t] = failed[n][t] \ {p}]
              \in [Node -> [Thread -> SUBSET Node]]
        BY <2>1, <3>1, EntryType
      <4>2. [failed EXCEPT ![n][t] = {}] \in [Node -> [Thread -> SUBSET Node]]
        BY <2>1, <3>1, EntryType
      <4> QED
        BY <2>4, <4>1, <4>2
  <2>6. sync' \in [Node -> [Thread -> {"none", "close", "open"}]]
    BY <2>1, <2>4, SyncType
  <2>7. app' \in [Node -> AppState]
    BY <2>1, <2>4, StateType
  <2>8. listener' \in [Node -> ListenerState]
    <3>1. CASE listener' = listener
      BY <2>1, <3>1
    <3>2. CASE /\ t = "listener"
               /\ listener' = [listener EXCEPT
                     ![n] = ListenerAt("caught", listener[n].msg, listener[n].src)]
      <4>1. ListenerAt("caught", listener[n].msg, listener[n].src) \in ListenerState
        BY <2>2, <3>2, StateType
      <4> QED
        BY <2>1, <3>2, <4>1
    <3> QED
      BY <2>4, <3>1, <3>2
  <2> QED
    BY <1>12, <2>3, <2>5, <2>6, <2>7, <2>8 DEF RemoveFailedPeer, TypeOK
<1>13. ASSUME NEW n \in Node, NEW t \in Thread, SyncClose(n, t)
      PROVE  TypeOK'
  BY <1>13, HandType, StateType
  DEF SyncClose, TypeOK, Packet, dbm, NoCount, NoSync, NoneFailed, MaxInvalid
<1>14. ASSUME NEW n \in Node, NEW t \in Thread, SyncOpen(n, t)
      PROVE  TypeOK'
  BY <1>14, HandType, StateType
  DEF SyncOpen, TypeOK, Packet, dbm, NoCount, NoSync, NoneFailed, MaxInvalid
<1>15. ASSUME NEW n \in Node, Restart(n)
      PROVE  TypeOK'
  BY <1>15, HandType, StateType
  DEF Restart, TypeOK, Packet, dbm, NoCount, NoSync, NoneFailed, MaxInvalid
<1>16. ASSUME NEW pk \in net, Receive(pk.dst, pk)
      PROVE  TypeOK'
  BY <1>16, HandType, StateType
  DEF Receive, TypeOK, Packet, dbm, NoCount, NoSync, NoneFailed, MaxInvalid
<1>17. ASSUME NEW pk \in net, Lose(pk)
      PROVE  TypeOK'
  BY <1>17, HandType, StateType
  DEF Lose, TypeOK, Packet, dbm, NoCount, NoSync, NoneFailed, MaxInvalid
<1>18. CASE UNCHANGED vars
  BY <1>18 DEF vars, TypeOK, Packet, dbm, NoCount, NoSync, NoneFailed, MaxInvalid
<1> QED
  BY <1>1, <1>2, <1>3, <1>4, <1>5, <1>6, <1>7, <1>8, <1>9, <1>10,
     <1>11, <1>12, <1>13, <1>14, <1>15, <1>16, <1>17, <1>18,
     Cases

LEMMA CallerInvStep ==
  ASSUME TypeOK, CallerInv, [Next]_vars
  PROVE  CallerInv'
<1> USE GossipAssumption DEF CallerInv, Idle
<1>1. ASSUME NEW n \in Node, NEW m \in Message, AppValidate(n, m)
      PROVE  CallerInv'
  BY <1>1
  DEF AppValidate, TypeOK, dbm, Thread, Ready, AppAt, ListenerAt, NoneFailed
<1>2. ASSUME NEW n \in Node, AppProcess(n)
      PROVE  CallerInv'
  BY <1>2
  DEF AppProcess, TypeOK, dbm, Thread, Ready, AppAt, ListenerAt, NoneFailed
<1>3. ASSUME NEW n \in Node, NEW F \in SUBSET peers[n], AppBroadcast(n, F)
      PROVE  CallerInv'
  BY <1>3
  DEF AppBroadcast, Broadcast, TypeOK, dbm, Thread, Ready, AppAt, ListenerAt, NoneFailed
<1>4. ASSUME NEW n \in Node, AppStore(n)
      PROVE  CallerInv'
  BY <1>4
  DEF AppStore, DbSync, TypeOK, dbm, Thread, Ready, AppAt, ListenerAt, NoneFailed
<1>5. ASSUME NEW n \in Node, ListenerValidate(n)
      PROVE  CallerInv'
  BY <1>5
  DEF ListenerValidate, TypeOK, dbm, Thread, Ready, AppAt, ListenerAt, NoneFailed
<1>6. ASSUME NEW n \in Node, ListenerProcess(n)
      PROVE  CallerInv'
  BY <1>6
  DEF ListenerProcess, TypeOK, dbm, Thread, Ready, AppAt, ListenerAt, NoneFailed
<1>7. ASSUME NEW n \in Node, ListenerStore(n)
      PROVE  CallerInv'
  BY <1>7
  DEF ListenerStore, TypeOK, dbm, Thread, Ready, AppAt, ListenerAt, NoneFailed
<1>8. ASSUME NEW n \in Node, NEW F \in SUBSET peers[n], ListenerBroadcast(n, F)
      PROVE  CallerInv'
  BY <1>8
  DEF ListenerBroadcast, Broadcast, TypeOK, dbm, Thread, Ready, AppAt, ListenerAt, NoneFailed
<1>9. ASSUME NEW n \in Node, ListenerReturn(n)
      PROVE  CallerInv'
  BY <1>9
  DEF ListenerReturn, TypeOK, dbm, Thread, Ready, AppAt, ListenerAt, NoneFailed
<1>10. ASSUME NEW n \in Node, HandleInvalidMessage(n)
      PROVE  CallerInv'
  BY <1>10
  DEF HandleInvalidMessage, TypeOK, dbm, Thread, Ready, AppAt, ListenerAt, NoneFailed
<1>11. ASSUME NEW n \in Node, NEW m \in Message, NEW F \in SUBSET peers[n], Gossip(n, m, F)
      PROVE  CallerInv'
  BY <1>11
  DEF Gossip, Broadcast, TypeOK, dbm, Thread, Ready, AppAt, ListenerAt, NoneFailed
<1>12. ASSUME NEW n \in Node, NEW t \in Thread, NEW p \in failed[n][t], RemoveFailedPeer(n, t, p)
      PROVE  CallerInv'
  <2>1. failed \in [Node -> [Thread -> SUBSET Node]]
    BY DEF TypeOK
  <2>2. CASE /\ failed' = [failed EXCEPT ![n][t] = failed[n][t] \ {p}]
             /\ UNCHANGED <<app, listener>>
    BY <1>12, <2>1, <2>2 DEF Thread
  <2>3. CASE /\ failed' = [failed EXCEPT ![n][t] = {}]
             /\ app' = IF t = "app" THEN [app EXCEPT ![n] = Idle] ELSE app
             /\ t # "listener" => UNCHANGED listener
             /\ \A k \in Node \ {n} : listener'[k] = listener[k]
    <3>1. \A k \in Node \ {n} : app'[k] = app[k]
      BY <2>3 DEF TypeOK
    <3>2. t # "app" => UNCHANGED app
      BY <2>3
    <3>3. \A k \in Node : \A x \in Thread :
            failed'[k][x] = IF k = n /\ x = t THEN {} ELSE failed[k][x]
      BY <2>1, <2>3, EntryType
    <3> QED
      BY <2>3, <3>1, <3>2, <3>3 DEF Thread
  <2>4. \A k \in Node \ {n} : listener'[k] = listener[k]
    BY <1>12 DEF RemoveFailedPeer, TypeOK
  <2> QED
    BY <1>12, <2>1, <2>2, <2>3, <2>4 DEF RemoveFailedPeer
<1>13. ASSUME NEW n \in Node, NEW t \in Thread, SyncClose(n, t)
      PROVE  CallerInv'
  BY <1>13
  DEF SyncClose, TypeOK, dbm, Thread, Ready, AppAt, ListenerAt, NoneFailed
<1>14. ASSUME NEW n \in Node, NEW t \in Thread, SyncOpen(n, t)
      PROVE  CallerInv'
  BY <1>14
  DEF SyncOpen, TypeOK, dbm, Thread, Ready, AppAt, ListenerAt, NoneFailed
<1>15. ASSUME NEW n \in Node, Restart(n)
      PROVE  CallerInv'
  BY <1>15
  DEF Restart, TypeOK, dbm, Thread, Ready, AppAt, ListenerAt, NoneFailed
<1>16. ASSUME NEW pk \in net, Receive(pk.dst, pk)
      PROVE  CallerInv'
  BY <1>16
  DEF Receive, TypeOK, dbm, Thread, Ready, AppAt, ListenerAt, NoneFailed
<1>17. ASSUME NEW pk \in net, Lose(pk)
      PROVE  CallerInv'
  BY <1>17
  DEF Lose, TypeOK, dbm, Thread, Ready, AppAt, ListenerAt, NoneFailed
<1>18. CASE UNCHANGED vars
  BY <1>18 DEF vars, TypeOK, dbm, Thread, Ready, AppAt, ListenerAt, NoneFailed
<1> HIDE DEF CallerInv
<1> QED
  BY <1>1, <1>2, <1>3, <1>4, <1>5, <1>6, <1>7, <1>8, <1>9, <1>10,
     <1>11, <1>12, <1>13, <1>14, <1>15, <1>16, <1>17, <1>18,
     Cases

(* Every state is well typed: threads, counters, handles and datagrams.    *)
THEOREM TypeCorrect == Spec => []TypeOK
<1>1. Init => TypeOK /\ CallerInv
  BY GossipAssumption, StateType
  DEF Init, MaxInvalid, TypeOK, CallerInv, Packet, NoCount, NoSync, NoneFailed, Thread
<1>2. TypeOK /\ CallerInv /\ [Next]_vars => TypeOK' /\ CallerInv'
  BY TypeStep, CallerInvStep
<1> QED
  BY <1>1, <1>2, PTL DEF Spec

-----------------------------------------------------------------------------
(* Applying a payload leaves every applied payload applied. *)
LEMMA ProcessMonotone ==
  ASSUME TypeOK, NEW n \in Node, NEW m \in Message, ProcessSharedObjects(n, m)
  PROVE  \A k \in Node, x \in Message :
           /\ IsApplied(k, x) => IsApplied(k, x)'
           /\ IsApplied(k, x)' => IsApplied(k, x) \/ (k = n /\ x = m)
           /\ IsApplied(n, m)'
           /\ k # n \/ x # m => applied'[k][x] = applied[k][x]
           /\ applied'[n][m] = applied[n][m] + 1
BY DEF TypeOK, ProcessSharedObjects, IsApplied

(* The app thread applies only valid payloads, and sends only applied ones. *)
LEMMA AppInvStep ==
  ASSUME TypeOK, AppInv, [Next]_vars
  PROVE  AppInv'
<1> USE GossipAssumption DEF AppInv, Idle
<1>1. ASSUME NEW n \in Node, NEW m \in Message, AppValidate(n, m)
      PROVE  AppInv'
  BY <1>1, HandType
  DEF AppValidate, AppAt, IsValid, IsApplied, TypeOK
<1>2. ASSUME NEW n \in Node, AppProcess(n)
      PROVE  AppInv'
  BY <1>2, HandType, ProcessMonotone
  DEF AppProcess, AppAt, IsValid, IsApplied, TypeOK
<1>3. ASSUME NEW n \in Node, NEW F \in SUBSET peers[n], AppBroadcast(n, F)
      PROVE  AppInv'
  BY <1>3, HandType
  DEF AppBroadcast, Broadcast, AppAt, IsValid, IsApplied, TypeOK
<1>4. ASSUME NEW n \in Node, AppStore(n)
      PROVE  AppInv'
  BY <1>4, HandType
  DEF AppStore, DbSync, AppAt, IsValid, IsApplied, TypeOK
<1>5. ASSUME NEW n \in Node, ListenerValidate(n)
      PROVE  AppInv'
  BY <1>5, HandType
  DEF ListenerValidate, AppAt, IsValid, IsApplied, TypeOK
<1>6. ASSUME NEW n \in Node, ListenerProcess(n)
      PROVE  AppInv'
  <2>1. /\ UNCHANGED <<app, created>>
        /\ ProcessSharedObjects(n, listener[n].msg) /\ listener[n].msg \in Message
    BY <1>6, HandType DEF ListenerProcess
  <2>2. \A k \in Node, x \in Message : IsApplied(k, x) => IsApplied(k, x)'
    BY <2>1, ProcessMonotone
  <2> QED
    BY <2>1, <2>2, HandType DEF IsValid
<1>7. ASSUME NEW n \in Node, ListenerStore(n)
      PROVE  AppInv'
  BY <1>7, HandType
  DEF ListenerStore, AppAt, IsValid, IsApplied, TypeOK
<1>8. ASSUME NEW n \in Node, NEW F \in SUBSET peers[n], ListenerBroadcast(n, F)
      PROVE  AppInv'
  BY <1>8, HandType
  DEF ListenerBroadcast, Broadcast, AppAt, IsValid, IsApplied, TypeOK
<1>9. ASSUME NEW n \in Node, ListenerReturn(n)
      PROVE  AppInv'
  BY <1>9, HandType
  DEF ListenerReturn, AppAt, IsValid, IsApplied, TypeOK
<1>10. ASSUME NEW n \in Node, HandleInvalidMessage(n)
      PROVE  AppInv'
  BY <1>10, HandType
  DEF HandleInvalidMessage, AppAt, IsValid, IsApplied, TypeOK
<1>11. ASSUME NEW n \in Node, NEW m \in Message, NEW F \in SUBSET peers[n], Gossip(n, m, F)
      PROVE  AppInv'
  BY <1>11, HandType
  DEF Gossip, Broadcast, AppAt, IsValid, IsApplied, TypeOK
<1>12. ASSUME NEW n \in Node, NEW t \in Thread, NEW p \in failed[n][t], RemoveFailedPeer(n, t, p)
      PROVE  AppInv'
  <2>1. UNCHANGED <<applied, created>> /\ app \in [Node -> AppState]
    BY <1>12 DEF RemoveFailedPeer, TypeOK
  <2>2. app' = app \/ app' = [app EXCEPT ![n] = Idle]
    BY <1>12 DEF RemoveFailedPeer
  <2> QED
    BY <2>1, <2>2 DEF IsValid, IsApplied
<1>13. ASSUME NEW n \in Node, NEW t \in Thread, SyncClose(n, t)
      PROVE  AppInv'
  BY <1>13, HandType
  DEF SyncClose, AppAt, IsValid, IsApplied, TypeOK
<1>14. ASSUME NEW n \in Node, NEW t \in Thread, SyncOpen(n, t)
      PROVE  AppInv'
  BY <1>14, HandType
  DEF SyncOpen, AppAt, IsValid, IsApplied, TypeOK
<1>15. ASSUME NEW n \in Node, Restart(n)
      PROVE  AppInv'
  BY <1>15, HandType
  DEF Restart, AppAt, IsValid, IsApplied, TypeOK
<1>16. ASSUME NEW pk \in net, Receive(pk.dst, pk)
      PROVE  AppInv'
  BY <1>16, HandType
  DEF Receive, AppAt, IsValid, IsApplied, TypeOK
<1>17. ASSUME NEW pk \in net, Lose(pk)
      PROVE  AppInv'
  BY <1>17, HandType
  DEF Lose, AppAt, IsValid, IsApplied, TypeOK
<1>18. CASE UNCHANGED vars
  BY <1>18 DEF vars, AppAt, IsValid, IsApplied, TypeOK
<1> HIDE DEF AppInv
<1> QED
  BY <1>1, <1>2, <1>3, <1>4, <1>5, <1>6, <1>7, <1>8, <1>9, <1>10,
     <1>11, <1>12, <1>13, <1>14, <1>15, <1>16, <1>17, <1>18,
     Cases

(* What travels or is stored was published. *)
LEMMA PublishedInvStep ==
  ASSUME TypeOK, AppInv, ListenerInv, PublishedInv, [Next]_vars
  PROVE  PublishedInv'
<1> USE GossipAssumption DEF PublishedInv, Published
<1>1. ASSUME NEW n \in Node, NEW m \in Message, AppValidate(n, m)
      PROVE  PublishedInv'
  BY <1>1, HandType
  DEF AppValidate, AppInv, ListenerInv, TypeOK
<1>2. ASSUME NEW n \in Node, AppProcess(n)
      PROVE  PublishedInv'
  BY <1>2, HandType, ProcessMonotone
  DEF AppProcess, AppInv, ListenerInv, TypeOK
<1>3. ASSUME NEW n \in Node, NEW F \in SUBSET peers[n], AppBroadcast(n, F)
      PROVE  PublishedInv'
  BY <1>3, HandType
  DEF AppBroadcast, Broadcast, AppInv, ListenerInv, TypeOK
<1>4. ASSUME NEW n \in Node, AppStore(n)
      PROVE  PublishedInv'
  <2>1. /\ db' = db \/ db' = [db EXCEPT ![n] = db[n] \cup {app[n].msg}]
        /\ UNCHANGED <<net, created>>
        /\ db \in [Node -> SUBSET Message]
    BY <1>4 DEF AppStore, TypeOK
  <2>2. app[n].msg \in Published
    BY <1>4 DEF AppStore, AppInv
  <2>3. \A k \in Node : db'[k] \subseteq db[k] \cup {app[n].msg}
    BY <2>1
  <2> QED
    BY <2>1, <2>2, <2>3
<1>5. ASSUME NEW n \in Node, ListenerValidate(n)
      PROVE  PublishedInv'
  BY <1>5, HandType
  DEF ListenerValidate, AppInv, ListenerInv, TypeOK
<1>6. ASSUME NEW n \in Node, ListenerProcess(n)
      PROVE  PublishedInv'
  BY <1>6, HandType, ProcessMonotone
  DEF ListenerProcess, AppInv, ListenerInv, TypeOK
<1>7. ASSUME NEW n \in Node, ListenerStore(n)
      PROVE  PublishedInv'
  <2>1. /\ db' = db \/ db' = [db EXCEPT ![n] = db[n] \cup {listener[n].msg}]
        /\ UNCHANGED <<net, created>>
        /\ db \in [Node -> SUBSET Message]
    BY <1>7 DEF ListenerStore, TypeOK
  <2>2. listener[n].msg \in Published
    BY <1>7 DEF ListenerStore, ListenerInv
  <2>3. \A k \in Node : db'[k] \subseteq db[k] \cup {listener[n].msg}
    BY <2>1
  <2> QED
    BY <2>1, <2>2, <2>3
<1>8. ASSUME NEW n \in Node, NEW F \in SUBSET peers[n], ListenerBroadcast(n, F)
      PROVE  PublishedInv'
  <2>1. /\ Broadcast(n, "listener", listener[n].msg, F)
        /\ UNCHANGED <<db, created>>
    BY <1>8 DEF ListenerBroadcast
  <2>2. listener[n].msg \in Published
    BY <1>8 DEF ListenerBroadcast, ListenerInv
  <2> QED
    BY <2>1, <2>2 DEF Broadcast
<1>9. ASSUME NEW n \in Node, ListenerReturn(n)
      PROVE  PublishedInv'
  BY <1>9, HandType
  DEF ListenerReturn, AppInv, ListenerInv, TypeOK
<1>10. ASSUME NEW n \in Node, HandleInvalidMessage(n)
      PROVE  PublishedInv'
  BY <1>10, HandType
  DEF HandleInvalidMessage, AppInv, ListenerInv, TypeOK
<1>11. ASSUME NEW n \in Node, NEW m \in Message, NEW F \in SUBSET peers[n], Gossip(n, m, F)
      PROVE  PublishedInv'
  BY <1>11, HandType
  DEF Gossip, Broadcast, AppInv, ListenerInv, TypeOK
<1>12. ASSUME NEW n \in Node, NEW t \in Thread, NEW p \in failed[n][t], RemoveFailedPeer(n, t, p)
      PROVE  PublishedInv'
  BY <1>12, HandType
  DEF RemoveFailedPeer, AppInv, ListenerInv, TypeOK
<1>13. ASSUME NEW n \in Node, NEW t \in Thread, SyncClose(n, t)
      PROVE  PublishedInv'
  BY <1>13, HandType
  DEF SyncClose, AppInv, ListenerInv, TypeOK
<1>14. ASSUME NEW n \in Node, NEW t \in Thread, SyncOpen(n, t)
      PROVE  PublishedInv'
  BY <1>14, HandType
  DEF SyncOpen, AppInv, ListenerInv, TypeOK
<1>15. ASSUME NEW n \in Node, Restart(n)
      PROVE  PublishedInv'
  BY <1>15, HandType
  DEF Restart, AppInv, ListenerInv, TypeOK
<1>16. ASSUME NEW pk \in net, Receive(pk.dst, pk)
      PROVE  PublishedInv'
  BY <1>16, HandType
  DEF Receive, AppInv, ListenerInv, TypeOK
<1>17. ASSUME NEW pk \in net, Lose(pk)
      PROVE  PublishedInv'
  BY <1>17, HandType
  DEF Lose, AppInv, ListenerInv, TypeOK
<1>18. CASE UNCHANGED vars
  BY <1>18 DEF vars, AppInv, ListenerInv, TypeOK
<1> HIDE DEF PublishedInv
<1> QED
  BY <1>1, <1>2, <1>3, <1>4, <1>5, <1>6, <1>7, <1>8, <1>9, <1>10,
     <1>11, <1>12, <1>13, <1>14, <1>15, <1>16, <1>17, <1>18,
     Cases

(* The listener holds a published payload, processes only a valid one, and *)
(* stores and forwards only an applied one.                                *)
LEMMA ListenerInvStep ==
  ASSUME TypeOK, CallerInv, PublishedInv, ListenerInv, [Next]_vars
  PROVE  ListenerInv'
<1> USE GossipAssumption DEF ListenerInv, Idle, Dead, Published
<1>1. ASSUME NEW n \in Node, NEW m \in Message, AppValidate(n, m)
      PROVE  ListenerInv'
  BY <1>1, HandType
  DEF AppValidate, ListenerAt, IsValid, IsApplied, PublishedInv, TypeOK
<1>2. ASSUME NEW n \in Node, AppProcess(n)
      PROVE  ListenerInv'
  <2>1. /\ UNCHANGED <<listener, created>>
        /\ ProcessSharedObjects(n, app[n].msg) /\ app[n].msg \in Message
    BY <1>2, HandType DEF AppProcess
  <2>2. \A k \in Node, x \in Message : IsApplied(k, x) => IsApplied(k, x)'
    BY <2>1, ProcessMonotone
  <2> QED
    BY <2>1, <2>2, HandType DEF IsValid
<1>3. ASSUME NEW n \in Node, NEW F \in SUBSET peers[n], AppBroadcast(n, F)
      PROVE  ListenerInv'
  BY <1>3, HandType
  DEF AppBroadcast, Broadcast, ListenerAt, IsValid, IsApplied, PublishedInv, TypeOK
<1>4. ASSUME NEW n \in Node, AppStore(n)
      PROVE  ListenerInv'
  BY <1>4, HandType
  DEF AppStore, DbSync, ListenerAt, IsValid, IsApplied, PublishedInv, TypeOK
<1>5. ASSUME NEW n \in Node, ListenerValidate(n)
      PROVE  ListenerInv'
  <2> DEFINE m == listener[n].msg
             s == listener[n].src
  <2>1. listener[n].pc = "validate" /\ UNCHANGED <<applied, created>>
    BY <1>5 DEF ListenerValidate
  <2>2. m \in Message /\ m \in Published
    BY <2>1, HandType
  <2>3. \/ listener' = [listener EXCEPT ![n] = Idle]
        \/ \E pc \in {"caught", "invalid"} :
              listener' = [listener EXCEPT ![n] = ListenerAt(pc, m, s)]
        \/ /\ IsValid(n, m)
           /\ listener' = [listener EXCEPT ![n] = ListenerAt("process", m, s)]
    BY <1>5 DEF ListenerValidate
  <2> HIDE DEF m, s
  <2>4. CASE listener' = [listener EXCEPT ![n] = Idle]
    BY <2>1, <2>4 DEF IsValid, IsApplied, TypeOK
  <2>5. CASE \E pc \in {"caught", "invalid"} :
               listener' = [listener EXCEPT ![n] = ListenerAt(pc, m, s)]
    BY <2>1, <2>2, <2>5 DEF ListenerAt, IsValid, IsApplied, TypeOK
  <2>6. CASE /\ IsValid(n, m)
             /\ listener' = [listener EXCEPT ![n] = ListenerAt("process", m, s)]
    BY <2>1, <2>2, <2>6 DEF ListenerAt, IsValid, IsApplied, TypeOK
  <2> QED
    BY <2>3, <2>4, <2>5, <2>6
<1>6. ASSUME NEW n \in Node, ListenerProcess(n)
      PROVE  ListenerInv'
  <2> DEFINE m == listener[n].msg
             s == listener[n].src
  <2>1. /\ listener[n].pc = "process" /\ UNCHANGED created
        /\ ProcessSharedObjects(n, m) /\ m \in Message
        /\ listener \in [Node -> ListenerState]
        /\ listener' = [listener EXCEPT ![n] = ListenerAt("store", m, s)]
    BY <1>6, HandType DEF ListenerProcess, TypeOK
  <2>2. PICK x \in Message : x = m
    BY <2>1
  <2>3. x \in Published
    BY <2>1, <2>2
  <2>4. /\ \A k \in Node, y \in Message : applied[k][y] > 0 => applied'[k][y] > 0
        /\ applied'[n][x] > 0
    <3>1. ProcessSharedObjects(n, x)
      BY <2>1, <2>2
    <3> QED
      BY <3>1, ProcessMonotone DEF IsApplied
  <2>5. /\ listener'[n].pc = "store" /\ listener'[n].msg = x
        /\ \A k \in Node \ {n} : listener'[k] = listener[k]
    BY <2>1, <2>2 DEF ListenerAt
  <2>6. \A k \in Node, y \in Message : IsValid(k, y) => IsValid(k, y)'
    BY <2>4 DEF IsValid, IsApplied
  <2>7. ASSUME NEW k \in Node, k # n, listener[k].pc \notin {"idle", "dead"}
        PROVE  /\ listener[k].msg \in Message
               /\ listener[k].pc = "process" => IsValid(k, listener[k].msg)
    BY <2>7, HandType
  <2> QED
    BY <2>1, <2>3, <2>4, <2>5, <2>6, <2>7 DEF IsApplied
<1>7. ASSUME NEW n \in Node, ListenerStore(n)
      PROVE  ListenerInv'
  <2> DEFINE m == listener[n].msg
             s == listener[n].src
  <2>1. /\ listener[n].pc = "store" /\ UNCHANGED <<applied, created>>
        /\ listener \in [Node -> ListenerState]
        /\ \/ listener' = [listener EXCEPT ![n] = ListenerAt("broadcast", m, s)]
           \/ listener' = [listener EXCEPT ![n] = ListenerAt("caught", m, s)]
    BY <1>7 DEF ListenerStore, TypeOK
  <2>2. m \in Published /\ IsApplied(n, m)
    BY <2>1
  <2> HIDE DEF m, s
  <2> QED
    BY <2>1, <2>2 DEF IsValid, IsApplied, ListenerAt
<1>8. ASSUME NEW n \in Node, NEW F \in SUBSET peers[n], ListenerBroadcast(n, F)
      PROVE  ListenerInv'
  BY <1>8, HandType
  DEF ListenerBroadcast, Broadcast, ListenerAt, IsValid, IsApplied, PublishedInv, TypeOK
<1>9. ASSUME NEW n \in Node, ListenerReturn(n)
      PROVE  ListenerInv'
  BY <1>9, HandType
  DEF ListenerReturn, ListenerAt, IsValid, IsApplied, PublishedInv, TypeOK
<1>10. ASSUME NEW n \in Node, HandleInvalidMessage(n)
      PROVE  ListenerInv'
  BY <1>10, HandType
  DEF HandleInvalidMessage, ListenerAt, IsValid, IsApplied, PublishedInv, TypeOK
<1>11. ASSUME NEW n \in Node, NEW m \in Message, NEW F \in SUBSET peers[n], Gossip(n, m, F)
      PROVE  ListenerInv'
  BY <1>11, HandType
  DEF Gossip, Broadcast, ListenerAt, IsValid, IsApplied, PublishedInv, TypeOK
<1>12. ASSUME NEW n \in Node, NEW t \in Thread, NEW p \in failed[n][t], RemoveFailedPeer(n, t, p)
      PROVE  ListenerInv'
  <2>1. UNCHANGED <<applied, created>>
    BY <1>12 DEF RemoveFailedPeer
  <2>2. CASE UNCHANGED listener
    BY <2>1, <2>2 DEF IsValid, IsApplied
  <2>3. CASE /\ t = "listener"
             /\ listener' = [listener EXCEPT
                              ![n] = ListenerAt("caught", @.msg, @.src)]
    <3>1. listener[n].pc = "sent"
      BY <1>12, <2>3 DEF CallerInv
    <3> QED
      BY <2>1, <2>3, <3>1 DEF ListenerAt, IsValid, IsApplied, TypeOK
  <2> QED
    BY <1>12, <2>2, <2>3 DEF RemoveFailedPeer
<1>13. ASSUME NEW n \in Node, NEW t \in Thread, SyncClose(n, t)
      PROVE  ListenerInv'
  BY <1>13, HandType
  DEF SyncClose, ListenerAt, IsValid, IsApplied, PublishedInv, TypeOK
<1>14. ASSUME NEW n \in Node, NEW t \in Thread, SyncOpen(n, t)
      PROVE  ListenerInv'
  BY <1>14, HandType
  DEF SyncOpen, ListenerAt, IsValid, IsApplied, PublishedInv, TypeOK
<1>15. ASSUME NEW n \in Node, Restart(n)
      PROVE  ListenerInv'
  BY <1>15, HandType
  DEF Restart, ListenerAt, IsValid, IsApplied, PublishedInv, TypeOK
<1>16. ASSUME NEW pk \in net, Receive(pk.dst, pk)
      PROVE  ListenerInv'
  BY <1>16, HandType
  DEF Receive, ListenerAt, IsValid, IsApplied, PublishedInv, TypeOK
<1>17. ASSUME NEW pk \in net, Lose(pk)
      PROVE  ListenerInv'
  BY <1>17, HandType
  DEF Lose, ListenerAt, IsValid, IsApplied, PublishedInv, TypeOK
<1>18. CASE UNCHANGED vars
  BY <1>18 DEF vars, ListenerAt, IsValid, IsApplied, PublishedInv, TypeOK
<1> HIDE DEF ListenerInv
<1> QED
  BY <1>1, <1>2, <1>3, <1>4, <1>5, <1>6, <1>7, <1>8, <1>9, <1>10,
     <1>11, <1>12, <1>13, <1>14, <1>15, <1>16, <1>17, <1>18,
     Cases

(* A handle is closed between the two halves of some thread's db_sync, and *)
(* only with dbm.                                                          *)
LEMMA HandleInvStep ==
  ASSUME TypeOK, HandleInv, [Next]_vars
  PROVE  HandleInv'
<1> USE GossipAssumption DEF HandleInv, NoSync, NoCount
<1>1. ASSUME NEW n \in Node, NEW m \in Message, AppValidate(n, m)
      PROVE  HandleInv'
  BY <1>1, HandType
  DEF AppValidate, DbSync, TypeOK, dbm, Thread
<1>2. ASSUME NEW n \in Node, AppProcess(n)
      PROVE  HandleInv'
  BY <1>2, HandType
  DEF AppProcess, DbSync, TypeOK, dbm, Thread
<1>3. ASSUME NEW n \in Node, NEW F \in SUBSET peers[n], AppBroadcast(n, F)
      PROVE  HandleInv'
  BY <1>3, HandType
  DEF AppBroadcast, Broadcast, DbSync, TypeOK, dbm, Thread
<1>4. ASSUME NEW n \in Node, AppStore(n)
      PROVE  HandleInv'
  <2>1. /\ sync \in [Node -> [Thread -> {"none", "close", "open"}]]
        /\ sync' = sync \/ (DbSync(n, "app") /\ open[n])
        /\ UNCHANGED <<open, unstored>>
    BY <1>4 DEF AppStore, TypeOK
  <2>2. CASE sync' = sync
    BY <2>1, <2>2
  <2>3. CASE DbSync(n, "app") /\ open[n]
    BY <2>1, <2>3 DEF DbSync, Thread
  <2> QED
    BY <2>1, <2>2, <2>3
<1>5. ASSUME NEW n \in Node, ListenerValidate(n)
      PROVE  HandleInv'
  BY <1>5, HandType
  DEF ListenerValidate, DbSync, TypeOK, dbm, Thread
<1>6. ASSUME NEW n \in Node, ListenerProcess(n)
      PROVE  HandleInv'
  BY <1>6, HandType
  DEF ListenerProcess, DbSync, TypeOK, dbm, Thread
<1>7. ASSUME NEW n \in Node, ListenerStore(n)
      PROVE  HandleInv'
  <2>1. /\ UNCHANGED <<open, sync>>
        /\ unstored' = unstored \/ (~open[n] /\ \A k \in Node \ {n} : unstored'[k] = unstored[k])
    BY <1>7 DEF ListenerStore, dbm, TypeOK
  <2>2. ~open[n] => n \in Persistent
    BY DEF Thread
  <2> QED
    BY <2>1, <2>2
<1>8. ASSUME NEW n \in Node, NEW F \in SUBSET peers[n], ListenerBroadcast(n, F)
      PROVE  HandleInv'
  BY <1>8, HandType
  DEF ListenerBroadcast, Broadcast, DbSync, TypeOK, dbm, Thread
<1>9. ASSUME NEW n \in Node, ListenerReturn(n)
      PROVE  HandleInv'
  BY <1>9, HandType
  DEF ListenerReturn, DbSync, TypeOK, dbm, Thread
<1>10. ASSUME NEW n \in Node, HandleInvalidMessage(n)
      PROVE  HandleInv'
  <2>1. /\ sync \in [Node -> [Thread -> {"none", "close", "open"}]]
        /\ sync' = sync \/ (DbSync(n, "listener") /\ open[n])
        /\ UNCHANGED <<open, unstored>>
    BY <1>10 DEF HandleInvalidMessage, Strike, Ban, TypeOK
  <2>2. CASE sync' = sync
    BY <2>1, <2>2
  <2>3. CASE DbSync(n, "listener") /\ open[n]
    BY <2>1, <2>3 DEF DbSync, Thread
  <2> QED
    BY <2>1, <2>2, <2>3
<1>11. ASSUME NEW n \in Node, NEW m \in Message, NEW F \in SUBSET peers[n], Gossip(n, m, F)
      PROVE  HandleInv'
  BY <1>11, HandType
  DEF Gossip, Broadcast, DbSync, TypeOK, dbm, Thread
<1>12. ASSUME NEW n \in Node, NEW t \in Thread, NEW p \in failed[n][t], RemoveFailedPeer(n, t, p)
      PROVE  HandleInv'
  <2>1. /\ sync \in [Node -> [Thread -> {"none", "close", "open"}]]
        /\ sync' = sync \/ (DbSync(n, t) /\ open[n])
        /\ UNCHANGED <<open, unstored>>
    BY <1>12 DEF RemoveFailedPeer, TypeOK
  <2>2. CASE sync' = sync
    BY <2>1, <2>2
  <2>3. CASE DbSync(n, t) /\ open[n]
    BY <2>1, <2>3 DEF DbSync, Thread
  <2> QED
    BY <2>1, <2>2, <2>3
<1>13. ASSUME NEW n \in Node, NEW t \in Thread, SyncClose(n, t)
      PROVE  HandleInv'
  BY <1>13, HandType
  DEF SyncClose, DbSync, TypeOK, dbm, Thread
<1>14. ASSUME NEW n \in Node, NEW t \in Thread, SyncOpen(n, t)
      PROVE  HandleInv'
  BY <1>14, HandType
  DEF SyncOpen, DbSync, TypeOK, dbm, Thread
<1>15. ASSUME NEW n \in Node, Restart(n)
      PROVE  HandleInv'
  BY <1>15, HandType
  DEF Restart, DbSync, TypeOK, dbm, Thread
<1>16. ASSUME NEW pk \in net, Receive(pk.dst, pk)
      PROVE  HandleInv'
  BY <1>16, HandType
  DEF Receive, DbSync, TypeOK, dbm, Thread
<1>17. ASSUME NEW pk \in net, Lose(pk)
      PROVE  HandleInv'
  BY <1>17, HandType
  DEF Lose, DbSync, TypeOK, dbm, Thread
<1>18. CASE UNCHANGED vars
  BY <1>18 DEF vars, DbSync, TypeOK, dbm, Thread
<1> HIDE DEF HandleInv
<1> QED
  BY <1>1, <1>2, <1>3, <1>4, <1>5, <1>6, <1>7, <1>8, <1>9, <1>10,
     <1>11, <1>12, <1>13, <1>14, <1>15, <1>16, <1>17, <1>18,
     Cases

(* A payload of another node is applied only when it is not stored and     *)
(* every earlier store of it has raised.                                   *)
LEMMA OnceInvStep ==
  ASSUME TypeOK, CallerInv, AppInv, OnceInv, [Next]_vars
  PROVE  OnceInv'
<1> USE GossipAssumption DEF OnceInv, Idle, Dead
<1>1. ASSUME NEW n \in Node, NEW m \in Message, AppValidate(n, m)
      PROVE  OnceInv'
  BY <1>1, HandType
  DEF AppValidate, OnceFor, ListenerAt, AppInv, IsApplied, TypeOK, NoCount
<1>2. ASSUME NEW n \in Node, AppProcess(n)
      PROVE  OnceInv'
  <2>1. PICK x \in Message : x = app[n].msg /\ x \in created[n]
    BY <1>2, HandType DEF AppProcess, AppInv
  <2>2. /\ UNCHANGED <<db, listener, created, unstored>>
        /\ ProcessSharedObjects(n, x)
    BY <1>2, <2>1 DEF AppProcess
  <2>3. \A k \in Node : \A y \in Message \ created[k] :
          applied'[k][y] = applied[k][y]
    BY <2>1, <2>2, ProcessMonotone
  <2> QED
    BY <2>2, <2>3 DEF OnceFor
<1>3. ASSUME NEW n \in Node, NEW F \in SUBSET peers[n], AppBroadcast(n, F)
      PROVE  OnceInv'
  BY <1>3, HandType
  DEF AppBroadcast, Broadcast, OnceFor, ListenerAt, AppInv, IsApplied, TypeOK, NoCount
<1>4. ASSUME NEW n \in Node, AppStore(n)
      PROVE  OnceInv'
  <2>1. /\ app[n].msg \in created[n] /\ db \in [Node -> SUBSET Message]
        /\ db' = db \/ db' = [db EXCEPT ![n] = db[n] \cup {app[n].msg}]
        /\ UNCHANGED <<applied, listener, created, unstored>>
    BY <1>4 DEF AppStore, AppInv, TypeOK
  <2>2. ASSUME NEW k \in Node, NEW y \in Message \ created[k]
        PROVE  y \in db'[k] <=> y \in db[k]
    BY <2>1, <2>2
  <2> QED
    BY <2>1, <2>2 DEF OnceFor
<1>5. ASSUME NEW n \in Node, ListenerValidate(n)
      PROVE  OnceInv'
  <2> DEFINE m == listener[n].msg
             s == listener[n].src
  <2>1. /\ listener[n].pc = "validate" /\ UNCHANGED <<db, applied, created, unstored>>
        /\ listener \in [Node -> ListenerState]
    BY <1>5 DEF ListenerValidate, TypeOK
  <2>2. \/ listener' = [listener EXCEPT ![n] = Idle]
        \/ listener' = [listener EXCEPT ![n] = ListenerAt("caught", m, s)]
        \/ listener' = [listener EXCEPT ![n] = ListenerAt("process", m, s)]
        \/ listener' = [listener EXCEPT ![n] = ListenerAt("invalid", m, s)]
    BY <1>5 DEF ListenerValidate
  <2>3. /\ \A k \in Node \ {n} : listener'[k] = listener[k]
        /\ listener'[n].pc \in {"validate", "process"} => listener'[n].msg = m
        /\ listener'[n].pc # "store"
    BY <2>1, <2>2 DEF ListenerAt
  <2> QED
    BY <2>1, <2>3 DEF OnceFor
<1>6. ASSUME NEW n \in Node, ListenerProcess(n)
      PROVE  OnceInv'
  <2> DEFINE m == listener[n].msg
             s == listener[n].src
  <2>1. /\ listener[n].pc = "process" /\ UNCHANGED <<db, created, unstored>>
        /\ listener \in [Node -> ListenerState]
        /\ listener' = [listener EXCEPT ![n] = ListenerAt("store", m, s)]
        /\ ProcessSharedObjects(n, m) /\ m \in Message
    BY <1>6, HandType DEF ListenerProcess, TypeOK
  <2>2. PICK x \in Message : x = m
    BY <2>1
  <2>3. x \notin created[n] => applied[n][x] = unstored[n][x]
    BY <2>1, <2>2 DEF OnceFor
  <2>4. /\ \A k \in Node, y \in Message :
             k # n \/ y # x => applied'[k][y] = applied[k][y]
        /\ applied'[n][x] = applied[n][x] + 1
    <3>1. ProcessSharedObjects(n, x)
      BY <2>1, <2>2
    <3> QED
      BY <3>1, ProcessMonotone
  <2>5. /\ listener'[n].pc = "store" /\ listener'[n].msg = x
        /\ \A k \in Node \ {n} : listener'[k] = listener[k]
    BY <2>1, <2>2 DEF ListenerAt
  <2>6. ASSUME NEW k \in Node, NEW y \in Message \ created[k], k # n
        PROVE  OnceFor(k, y)'
    BY <2>1, <2>4, <2>5, <2>6 DEF OnceFor
  <2>7. ASSUME NEW y \in Message \ created[n], y # x
        PROVE  OnceFor(n, y)'
    BY <2>1, <2>2, <2>4, <2>5, <2>7 DEF OnceFor
  <2>8. x \notin created[n] => OnceFor(n, x)'
    BY <2>1, <2>3, <2>4, <2>5 DEF OnceFor
  <2> QED
    BY <2>1, <2>6, <2>7, <2>8
<1>7. ASSUME NEW n \in Node, ListenerStore(n)
      PROVE  OnceInv'
  <2> DEFINE m == listener[n].msg
             s == listener[n].src
  <2>1. /\ listener[n].pc = "store" /\ UNCHANGED <<applied, created>>
        /\ listener \in [Node -> ListenerState] /\ m \in Message
        /\ db \in [Node -> SUBSET Message]
        /\ unstored \in [Node -> [Message -> Nat]]
        /\ applied \in [Node -> [Message -> Nat]]
    BY <1>7, HandType DEF ListenerStore, TypeOK
  <2>2. PICK x \in Message : x = m
    BY <2>1
  <2>3. x \notin created[n] => applied[n][x] = unstored[n][x] + 1
    BY <2>1, <2>2 DEF OnceFor
  <2>4. CASE /\ db' = [db EXCEPT ![n] = db[n] \cup {x}]
             /\ listener' = [listener EXCEPT ![n] = ListenerAt("broadcast", x, s)]
             /\ UNCHANGED unstored
    <3>1. /\ listener'[n].pc = "broadcast"
          /\ \A k \in Node \ {n} : listener'[k] = listener[k]
          /\ \A k \in Node : db[k] \subseteq db'[k]
          /\ x \in db'[n] /\ \A k \in Node \ {n} : db'[k] = db[k]
      BY <2>1, <2>4 DEF ListenerAt
    <3> QED
      BY <2>1, <2>2, <2>4, <3>1 DEF OnceFor
  <2>5. CASE /\ unstored' = [unstored EXCEPT ![n][x] = unstored[n][x] + 1]
             /\ listener' = [listener EXCEPT ![n] = ListenerAt("caught", x, s)]
             /\ UNCHANGED db
    <3>1. /\ listener'[n].pc = "caught"
          /\ \A k \in Node \ {n} : listener'[k] = listener[k]
      BY <2>1, <2>5 DEF ListenerAt
    <3>2. \A k \in Node, y \in Message :
            unstored'[k][y] = IF k = n /\ y = x THEN unstored[n][x] + 1 ELSE unstored[k][y]
      BY <2>1, <2>5
    <3>3. ASSUME NEW k \in Node, NEW y \in Message \ created[k], k # n \/ y # x
          PROVE  OnceFor(k, y)'
      BY <2>1, <2>2, <2>5, <3>1, <3>2, <3>3 DEF OnceFor
    <3>4. x \notin created[n] => OnceFor(n, x)'
      BY <2>1, <2>3, <2>5, <3>1, <3>2 DEF OnceFor
    <3> QED
      BY <2>1, <3>3, <3>4
  <2> QED
    BY <1>7, <2>2, <2>4, <2>5 DEF ListenerStore
<1>8. ASSUME NEW n \in Node, NEW F \in SUBSET peers[n], ListenerBroadcast(n, F)
      PROVE  OnceInv'
  <2>1. /\ UNCHANGED <<db, applied, created, unstored>>
        /\ listener \in [Node -> ListenerState]
    BY <1>8 DEF ListenerBroadcast, TypeOK
  <2>2. /\ \A k \in Node \ {n} : listener'[k] = listener[k]
        /\ \/ listener'[n] = listener[n]
           \/ /\ listener'[n].pc \notin {"validate", "process", "store"}
              /\ listener[n].pc # "store"
    BY <1>8, <2>1 DEF ListenerBroadcast, CallerInv, ListenerAt
  <2> QED
    BY <2>1, <2>2 DEF OnceFor
<1>9. ASSUME NEW n \in Node, ListenerReturn(n)
      PROVE  OnceInv'
  <2>1. /\ UNCHANGED <<db, applied, created, unstored>>
        /\ listener \in [Node -> ListenerState]
    BY <1>9 DEF ListenerReturn, TypeOK
  <2>2. /\ \A k \in Node \ {n} : listener'[k] = listener[k]
        /\ \/ listener'[n] = listener[n]
           \/ /\ listener'[n].pc \notin {"validate", "process", "store"}
              /\ listener[n].pc # "store"
    BY <1>9, <2>1 DEF ListenerReturn, CallerInv, ListenerAt
  <2> QED
    BY <2>1, <2>2 DEF OnceFor
<1>10. ASSUME NEW n \in Node, HandleInvalidMessage(n)
      PROVE  OnceInv'
  <2>1. /\ UNCHANGED <<db, applied, created, unstored>>
        /\ listener \in [Node -> ListenerState]
    BY <1>10 DEF HandleInvalidMessage, TypeOK
  <2>2. /\ \A k \in Node \ {n} : listener'[k] = listener[k]
        /\ \/ listener'[n] = listener[n]
           \/ /\ listener'[n].pc \notin {"validate", "process", "store"}
              /\ listener[n].pc # "store"
    BY <1>10, <2>1 DEF HandleInvalidMessage, CallerInv, ListenerAt
  <2> QED
    BY <2>1, <2>2 DEF OnceFor
<1>11. ASSUME NEW n \in Node, NEW m \in Message, NEW F \in SUBSET peers[n], Gossip(n, m, F)
      PROVE  OnceInv'
  BY <1>11, HandType
  DEF Gossip, Broadcast, OnceFor, ListenerAt, AppInv, IsApplied, TypeOK, NoCount
<1>12. ASSUME NEW n \in Node, NEW t \in Thread, NEW p \in failed[n][t], RemoveFailedPeer(n, t, p)
      PROVE  OnceInv'
  <2>1. /\ UNCHANGED <<db, applied, created, unstored>>
        /\ listener \in [Node -> ListenerState]
    BY <1>12 DEF RemoveFailedPeer, TypeOK
  <2>2. /\ \A k \in Node \ {n} : listener'[k] = listener[k]
        /\ \/ listener'[n] = listener[n]
           \/ /\ listener'[n].pc \notin {"validate", "process", "store"}
              /\ listener[n].pc # "store"
    BY <1>12, <2>1 DEF RemoveFailedPeer, CallerInv, ListenerAt
  <2> QED
    BY <2>1, <2>2 DEF OnceFor
<1>13. ASSUME NEW n \in Node, NEW t \in Thread, SyncClose(n, t)
      PROVE  OnceInv'
  BY <1>13, HandType
  DEF SyncClose, OnceFor, ListenerAt, AppInv, IsApplied, TypeOK, NoCount
<1>14. ASSUME NEW n \in Node, NEW t \in Thread, SyncOpen(n, t)
      PROVE  OnceInv'
  BY <1>14, HandType
  DEF SyncOpen, OnceFor, ListenerAt, AppInv, IsApplied, TypeOK, NoCount
<1>15. ASSUME NEW n \in Node, Restart(n)
      PROVE  OnceInv'
  BY <1>15, HandType
  DEF Restart, OnceFor, ListenerAt, AppInv, IsApplied, TypeOK, NoCount
<1>16. ASSUME NEW pk \in net, Receive(pk.dst, pk)
      PROVE  OnceInv'
  BY <1>16, HandType
  DEF Receive, OnceFor, ListenerAt, AppInv, IsApplied, TypeOK, NoCount
<1>17. ASSUME NEW pk \in net, Lose(pk)
      PROVE  OnceInv'
  BY <1>17, HandType
  DEF Lose, OnceFor, ListenerAt, AppInv, IsApplied, TypeOK, NoCount
<1>18. CASE UNCHANGED vars
  BY <1>18 DEF vars, OnceFor, ListenerAt, AppInv, IsApplied, TypeOK, NoCount
<1> HIDE DEF OnceInv
<1> QED
  BY <1>1, <1>2, <1>3, <1>4, <1>5, <1>6, <1>7, <1>8, <1>9, <1>10,
     <1>11, <1>12, <1>13, <1>14, <1>15, <1>16, <1>17, <1>18,
     Cases

-----------------------------------------------------------------------------
(* The invariant holds in every reachable state: threads of one node, and  *)
(* the nodes of the network, may interleave, close each other's database   *)
(* handle, lose and resend at will.                                        *)
THEOREM Invariant == Spec => []Inv
<1>1. Init => Inv
  <2> SUFFICES ASSUME Init PROVE Inv
    OBVIOUS
  <2>1. TypeOK
    BY GossipAssumption, StateType
    DEF Init, TypeOK, Packet, MaxInvalid, NoCount, NoSync, NoneFailed, Thread
  <2>2. CallerInv /\ HandleInv
    BY DEF Init, CallerInv, HandleInv, NoneFailed, Thread
  <2>3. AppInv /\ ListenerInv /\ PublishedInv
    BY DEF Init, AppInv, ListenerInv, PublishedInv, Idle, Published
  <2>4. OnceInv
    BY DEF Init, OnceInv, OnceFor, Idle, NoCount
  <2> QED
    BY <2>1, <2>2, <2>3, <2>4 DEF Inv
<1>2. Inv /\ [Next]_vars => Inv'
  BY TypeStep, CallerInvStep, AppInvStep, ListenerInvStep, PublishedInvStep,
     HandleInvStep, OnceInvStep DEF Inv
<1> QED
  BY <1>1, <1>2, PTL DEF Spec

(* However often gossip repeats a payload of another node, and however the *)
(* threads race, a node with a dict applies it at most once; with dbm each *)
(* further application is owed to a store that met a closed handle.        *)
THEOREM RemoteOnce == Spec => []RemoteAppliedOnce
<1>1. Inv => RemoteAppliedOnce
  <2> SUFFICES ASSUME Inv, NEW n \in Node, NEW m \in Message, m \notin created[n]
               PROVE  applied[n][m] <= IF n \in Persistent THEN 1 + unstored[n][m]
                                                           ELSE 1
    BY DEF RemoteAppliedOnce
  <2>1. applied[n][m] \in Nat /\ unstored[n][m] \in Nat
    BY DEF Inv, TypeOK
  <2>2. \/ applied[n][m] = unstored[n][m]
        \/ applied[n][m] = unstored[n][m] + 1
    BY DEF Inv, OnceInv, OnceFor
  <2>3. n \notin Persistent => unstored[n][m] = 0
    BY DEF Inv, HandleInv, NoCount
  <2> QED
    BY <2>1, <2>2, <2>3
<1> QED
  BY <1>1, Invariant, PTL

-----------------------------------------------------------------------------
(* Under the refinement mapping, applying m is the abstract Integrate and  *)
(* leaves every other node's set alone.                                    *)
LEMMA ProcessIntegrates ==
  ASSUME TypeOK, NEW n \in Node, NEW m \in Message,
         m \in Published, IsValid(n, m), ProcessSharedObjects(n, m),
         UNCHANGED <<created, db>>
  PROVE  D!Integrate(n, m)
<1> DEFINE integrated == [k \in Node |-> {x \in Message : applied[k][x] > 0}]
<1>1. \A k \in Node : {x \in Message : applied'[k][x] > 0} =
        IF k = n THEN {x \in Message : applied[k][x] > 0} \cup {m}
        ELSE {x \in Message : applied[k][x] > 0}
  BY DEF TypeOK, ProcessSharedObjects
<1>2. integrated' = [integrated EXCEPT ![n] = @ \cup {m}]
  BY <1>1
<1>3. Requires[m] \subseteq integrated[n]
  BY GossipAssumption DEF IsValid, IsApplied
<1> QED
  BY <1>2, <1>3 DEF D!Integrate, Published

(* The network of nodes implements the abstract specification. *)
THEOREM Refinement == Spec => ImplementsDissemination
<1> DEFINE integrated == [k \in Node |-> {x \in Message : applied[k][x] > 0}]
<1>1. Init => D!Init
  BY DEF Init, D!Init, Published, NoCount
<1>2. Inv /\ [Next]_vars => [D!Next]_(D!absVars)
  <2> SUFFICES ASSUME Inv, [Next]_vars PROVE [D!Next]_(D!absVars)
    OBVIOUS
  <2>0. TypeOK
    BY DEF Inv
  <2> DEFINE Stutter == UNCHANGED <<created, applied, db>>
  <2>1. Stutter => UNCHANGED D!absVars
    BY DEF D!absVars, Published
  <2>2. ASSUME NEW n \in Node, NEW m \in Message, AppValidate(n, m)
        PROVE  D!Publish(n, m)
    <3>1. Published' = Published \cup {m}
      BY <2>0, <2>2 DEF AppValidate, Published, TypeOK
    <3>2. Requires[m] \subseteq integrated[n]
      BY <2>2, GossipAssumption DEF AppValidate, IsValid, IsApplied
    <3>3. UNCHANGED <<applied, db>>
      BY <2>2 DEF AppValidate
    <3> QED
      BY <3>1, <3>2, <3>3 DEF D!Publish
  <2>3. ASSUME NEW n \in Node, AppProcess(n)
        PROVE  \E m \in Message : D!Integrate(n, m)
    <3>1. PICK m \in Message : m = app[n].msg
      BY <2>0, <2>3, HandType DEF AppProcess
    <3>2. m \in Published /\ IsValid(n, m)
      BY <2>3, <3>1 DEF AppProcess, Inv, AppInv, Published
    <3>3. ProcessSharedObjects(n, m) /\ UNCHANGED <<created, db>>
      BY <2>3, <3>1 DEF AppProcess
    <3> QED
      BY <2>0, <3>2, <3>3, ProcessIntegrates
  <2>4. ASSUME NEW n \in Node, ListenerProcess(n)
        PROVE  \E m \in Message : D!Integrate(n, m)
    <3>1. PICK m \in Message : m = listener[n].msg
      BY <2>0, <2>4, HandType DEF ListenerProcess
    <3>2. m \in Published /\ IsValid(n, m)
      BY <2>4, <3>1 DEF ListenerProcess, Inv, ListenerInv
    <3>3. ProcessSharedObjects(n, m) /\ UNCHANGED <<created, db>>
      BY <2>4, <3>1 DEF ListenerProcess
    <3> QED
      BY <2>0, <3>2, <3>3, ProcessIntegrates
  <2>5. ASSUME NEW n \in Node, AppStore(n)
        PROVE  Stutter \/ \E m \in Message : D!Store(n, m)
    <3>1. PICK m \in Message : m = app[n].msg
      BY <2>0, <2>5, HandType DEF AppStore
    <3>2. IsApplied(n, m)
      BY <2>5, <3>1 DEF AppStore, Inv, AppInv
    <3>3. /\ db' = db \/ db' = [db EXCEPT ![n] = @ \cup {m}]
          /\ UNCHANGED <<applied, created>>
      BY <2>5, <3>1 DEF AppStore
    <3> QED
      BY <3>2, <3>3 DEF D!Store, IsApplied, Published
  <2>6. ASSUME NEW n \in Node, ListenerStore(n)
        PROVE  Stutter \/ \E m \in Message : D!Store(n, m)
    <3>1. PICK m \in Message : m = listener[n].msg
      BY <2>0, <2>6, HandType DEF ListenerStore
    <3>2. IsApplied(n, m)
      BY <2>6, <3>1 DEF ListenerStore, Inv, ListenerInv
    <3>3. /\ db' = db \/ db' = [db EXCEPT ![n] = @ \cup {m}]
          /\ UNCHANGED <<applied, created>>
      BY <2>6, <3>1 DEF ListenerStore
    <3> QED
      BY <3>2, <3>3 DEF D!Store, IsApplied, Published
  <2>7. ASSUME NEW n \in Node, Restart(n)
        PROVE  D!Restart(n)
    <3>1. \A k \in Node : {x \in Message : applied'[k][x] > 0} =
            IF k = n THEN {} ELSE {x \in Message : applied[k][x] > 0}
      BY <2>0, <2>7 DEF Restart, TypeOK, NoCount
    <3>2. integrated' = [integrated EXCEPT ![n] = {}]
      BY <3>1
    <3> QED
      BY <2>7, <3>2 DEF Restart, D!Restart, Published
  <2>8. ASSUME NEW n \in Node, NEW F \in SUBSET peers[n]
        PROVE  /\ AppBroadcast(n, F) => Stutter
               /\ ListenerBroadcast(n, F) => Stutter
               /\ \A m \in Message : Gossip(n, m, F) => Stutter
    BY DEF AppBroadcast, ListenerBroadcast, Gossip
  <2>9. ASSUME NEW n \in Node
        PROVE  /\ ListenerValidate(n) => Stutter
               /\ ListenerReturn(n) => Stutter
               /\ HandleInvalidMessage(n) => Stutter
    BY DEF ListenerValidate, ListenerReturn, HandleInvalidMessage
  <2>10. ASSUME NEW n \in Node, NEW t \in Thread
         PROVE  /\ \A p \in failed[n][t] : RemoveFailedPeer(n, t, p) => Stutter
                /\ SyncClose(n, t) => Stutter
                /\ SyncOpen(n, t) => Stutter
    BY DEF RemoveFailedPeer, SyncClose, SyncOpen
  <2>11. /\ \A pk \in net : Receive(pk.dst, pk) => Stutter
         /\ \A pk \in net : Lose(pk) => Stutter
         /\ UNCHANGED vars => Stutter
    BY DEF Receive, Lose, vars
  <2> DEFINE Goal == D!Next \/ UNCHANGED D!absVars
  <2>12. Stutter => Goal
    BY <2>1
  <2>13. /\ \A n \in Node, m \in Message : AppValidate(n, m) => Goal
         /\ \A n \in Node :
              /\ AppProcess(n) => Goal
              /\ ListenerProcess(n) => Goal
              /\ AppStore(n) => Goal
              /\ ListenerStore(n) => Goal
              /\ Restart(n) => Goal
    BY <2>2, <2>3, <2>4, <2>5, <2>6, <2>7, <2>12 DEF D!Next
  <2> HIDE DEF Goal, Stutter
  <2>14. Goal
    BY <2>8, <2>9, <2>10, <2>11, <2>12, <2>13, Cases
  <2> QED
    BY <2>14 DEF Goal
<1> QED
  BY <1>1, <1>2, Invariant, PTL DEF Spec, ImplementsDissemination, D!Spec

=============================================================================
