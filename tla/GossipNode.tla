----------------------------- MODULE GossipNode -----------------------------
(***************************************************************************)
(* Application payloads in a network of ChaincraftNodes (node.py).  Each   *)
(* node runs three threads over one unlocked database and peer list:       *)
(*   app       the caller of create_shared_message: validate, process,     *)
(*             broadcast, store, and synchronise the database;             *)
(*   listener  listen_for_messages: look the hash up, then handle_message: *)
(*             validate, process, store, broadcast;                        *)
(*   gossip    re-broadcasts every stored payload, for ever.               *)
(* A dbm database is synchronised by closing its handle and opening it     *)
(* again (db_sync), in whichever thread saves something: meanwhile every   *)
(* access of another thread raises.                                        *)
(* A payload is identified with its hash.  Datagrams are a set: gossip     *)
(* re-sends, so the set also stands for duplicates; Lose drops one.        *)
(***************************************************************************)
EXTENDS Naturals, FiniteSets

CONSTANTS Node,
          Message,        \* application payloads
          Payloads,       \* Payloads[n]: what n's application publishes
          Requires,       \* Requires[m]: payloads is_valid(m) needs applied
          Link,           \* Link[n]: the peers n's operator connects it to
          Persistent,     \* nodes with a dbm database; the others have a dict
          FailingSenders, \* nodes whose _send_bytes may raise
          MaxRestarts     \* bound on the restarts of a node

ASSUME GossipAssumption ==
  /\ Payloads \in [Node -> SUBSET Message]
  /\ Requires \in [Message -> SUBSET Message]
  /\ Link \in [Node -> SUBSET Node]
  /\ Persistent \subseteq Node
  /\ FailingSenders \subseteq Node
  /\ MaxRestarts \in Nat

MaxInvalid == 3           \* invalid messages that get a peer banned

VARIABLES db,             \* db[n]: payloads in the message database
          applied,        \* applied[n][m]: how often add_message saw m
          peers,          \* peers[n]
          strikes,        \* strikes[n][p]: invalid_message_counts
          banned,         \* banned[n]: keys of banned_peers
          app,            \* app[n]: the thread inside create_shared_message
          listener,       \* listener[n]: the thread inside handle_message
          net,            \* datagrams in flight
          created,        \* created[n]: payloads n's application published
          restarts,       \* restarts[n]: restarts so far
          open,           \* open[n]: self.db can be used; a dict always can
          sync,           \* sync[n][t]: what thread t has left of db_sync
          failed,         \* failed[n][t]: failed_peers of t's broadcast
          unstored        \* history: unstored[n][m] stores of m have raised

dbm == <<open, sync>>
vars == <<db, applied, peers, strikes, banned, app, listener, net, created,
          restarts, dbm, failed, unstored>>

Thread == {"app", "listener", "gossip"}
Idle == [pc |-> "idle"]
Dead == [pc |-> "dead"]      \* left by an exception, until the next start
AppAt(pc, m) == [pc |-> pc, msg |-> m]
ListenerAt(pc, m, s) == [pc |-> pc, msg |-> m, src |-> s]
AppState == {Idle} \cup [pc : {"process", "broadcast", "store"}, msg : Message]
ListenerState ==
  {Idle, Dead} \cup [pc : {"validate", "process", "store", "broadcast", "sent",
                          "invalid", "caught"},
                    msg : Message, src : Node]
Packet == [src : Node, dst : Node, msg : Message]

TypeOK ==
  /\ db \in [Node -> SUBSET Message]
  /\ applied \in [Node -> [Message -> Nat]]
  /\ peers \in [Node -> SUBSET Node]
  /\ strikes \in [Node -> [Node -> 0 .. MaxInvalid]]
  /\ banned \in [Node -> SUBSET Node]
  /\ \A n, p \in Node : strikes[n][p] = MaxInvalid => p \in banned[n]
  /\ app \in [Node -> AppState]
  /\ listener \in [Node -> ListenerState]
  /\ net \in SUBSET Packet
  /\ created \in [Node -> SUBSET Message]
  /\ restarts \in [Node -> 0 .. MaxRestarts]
  /\ open \in [Node -> BOOLEAN]
  /\ sync \in [Node -> [Thread -> {"none", "close", "open"}]]
  /\ failed \in [Node -> [Thread -> SUBSET Node]]
  /\ unstored \in [Node -> [Message -> Nat]]

NoSync == [t \in Thread |-> "none"]
NoneFailed == [t \in Thread |-> {}]
NoCount == [m \in Message |-> 0]

Init == /\ db = [n \in Node |-> {}]
        /\ applied = [n \in Node |-> NoCount]
        /\ peers = Link
        /\ strikes = [n \in Node |-> [p \in Node |-> 0]]
        /\ banned = [n \in Node |-> {}]
        /\ app = [n \in Node |-> Idle]
        /\ listener = [n \in Node |-> Idle]
        /\ net = {}
        /\ created = [n \in Node |-> {}]
        /\ restarts = [n \in Node |-> 0]
        /\ open = [n \in Node |-> TRUE]
        /\ sync = [n \in Node |-> NoSync]
        /\ failed = [n \in Node |-> NoneFailed]
        /\ unstored = [n \in Node |-> NoCount]

-----------------------------------------------------------------------------
(* The shared objects accept m: a parent block, a funded account, an open  *)
(* room... is already there.                                               *)
IsApplied(n, m) == applied[n][m] > 0
IsValid(n, m) == \A r \in Requires[m] : IsApplied(n, r)

(* Every add_message of _process_shared_objects sees m. *)
ProcessSharedObjects(n, m) == applied' = [applied EXCEPT ![n][m] = @ + 1]

(* Peers whose send may raise in one broadcast. *)
Failures(n) == IF n \in FailingSenders THEN SUBSET peers[n] ELSE {{}}

(* One datagram to every peer; thread t has those in F to take out yet. *)
Broadcast(n, t, m, F) ==
  /\ net' = net \cup {[src |-> n, dst |-> p, msg |-> m] : p \in peers[n] \ F}
  /\ failed' = [failed EXCEPT ![n][t] = F]

(* Thread t is neither cleaning up after a broadcast nor inside db_sync. *)
Ready(n, t) == failed[n][t] = {} /\ sync[n][t] = "none"

(* db_sync is next for thread t; with a dict it does nothing. *)
DbSync(n, t) ==
  sync' = IF n \in Persistent THEN [sync EXCEPT ![n][t] = "close"] ELSE sync

-----------------------------------------------------------------------------
(* Faulty variant: publishes without asking the shared objects. *)
AppValidateNothing(n, m) ==
  /\ app[n] = Idle
  /\ Ready(n, "app")
  /\ m \in Payloads[n] \ created[n]
  /\ app' = [app EXCEPT ![n] = AppAt("process", m)]
  /\ created' = [created EXCEPT ![n] = @ \cup {m}]
  /\ UNCHANGED <<db, applied, peers, strikes, banned, listener, net, restarts,
                 dbm, failed, unstored>>

(* create_shared_message, one action per step another thread can see.     *)
(* An invalid payload raises SharedObjectException and changes nothing.    *)
AppValidate(n, m) ==
  /\ app[n] = Idle
  /\ Ready(n, "app")
  /\ m \in Payloads[n] \ created[n]
  /\ IsValid(n, m)
  /\ app' = [app EXCEPT ![n] = AppAt("process", m)]
  /\ created' = [created EXCEPT ![n] = @ \cup {m}]
  /\ UNCHANGED <<db, applied, peers, strikes, banned, listener, net, restarts,
                 dbm, failed, unstored>>

AppProcess(n) ==
  /\ app[n].pc = "process"
  /\ ProcessSharedObjects(n, app[n].msg)
  /\ app' = [app EXCEPT ![n] = AppAt("broadcast", app[n].msg)]
  /\ UNCHANGED <<db, peers, strikes, banned, listener, net, created, restarts,
                 dbm, failed, unstored>>

AppBroadcast(n, F) ==
  /\ app[n].pc = "broadcast"
  /\ Broadcast(n, "app", app[n].msg, F)
  /\ app' = [app EXCEPT ![n] = AppAt("store", app[n].msg)]
  /\ UNCHANGED <<db, applied, peers, strikes, banned, listener, created,
                 restarts, dbm, unstored>>

(* The store, then db_sync; on a closed handle the caller gets an exception. *)
AppStore(n) ==
  /\ app[n].pc = "store"
  /\ Ready(n, "app")
  /\ app' = [app EXCEPT ![n] = Idle]
  /\ \/ /\ open[n]
        /\ db' = [db EXCEPT ![n] = @ \cup {app[n].msg}]
        /\ DbSync(n, "app")
     \/ ~open[n] /\ UNCHANGED <<db, sync>>
  /\ UNCHANGED <<applied, peers, strikes, banned, listener, net, created,
                 restarts, open, failed, unstored>>

-----------------------------------------------------------------------------
(* Faulty variant: leaves the look-up to handle_message. *)
ReceiveUnchecked(n, pk) ==
  /\ listener[n] = Idle
  /\ Ready(n, "listener")
  /\ pk \in net
  /\ pk.dst = n
  /\ net' = net \ {pk}
  /\ listener' = [listener EXCEPT ![n] = ListenerAt("validate", pk.msg, pk.src)]
  /\ UNCHANGED <<db, applied, peers, strikes, banned, app, created, restarts,
                 dbm, failed, unstored>>

(* listen_for_messages: one datagram, dropped when its hash is in the db.  *)
(* dbm.error is an OSError, so a closed handle ends the thread.            *)
Receive(n, pk) ==
  /\ listener[n] = Idle
  /\ Ready(n, "listener")
  /\ pk \in net
  /\ pk.dst = n
  /\ net' = net \ {pk}
  /\ listener' = [listener EXCEPT
                    ![n] = IF ~open[n] THEN Dead
                           ELSE IF pk.msg \in db[n] THEN Idle
                           ELSE ListenerAt("validate", pk.msg, pk.src)]
  /\ UNCHANGED <<db, applied, peers, strikes, banned, app, created, restarts,
                 dbm, failed, unstored>>

(* Faulty variant: trusts the sender's validation. *)
ListenerValidateNothing(n) ==
  /\ listener[n].pc = "validate"
  /\ listener' = [listener EXCEPT ![n] = ListenerAt("process", @.msg, @.src)]
  /\ UNCHANGED <<db, applied, peers, strikes, banned, app, net, created, restarts,
                 dbm, failed, unstored>>

(* handle_message up to the verdict.  Its own look-up encodes the hash, so *)
(* it finds nothing in a dict; a dbm database sees both spellings.         *)
ListenerValidate(n) ==
  /\ listener[n].pc = "validate"
  /\ LET m == listener[n].msg
         s == listener[n].src
     IN listener' = [listener EXCEPT
          ![n] = IF ~open[n] THEN ListenerAt("caught", m, s)
                 ELSE IF n \in Persistent /\ m \in db[n] THEN Idle
                 ELSE ListenerAt(IF IsValid(n, m) THEN "process" ELSE "invalid",
                                 m, s)]
  /\ UNCHANGED <<db, applied, peers, strikes, banned, app, net, created, restarts,
                 dbm, failed, unstored>>

ListenerProcess(n) ==
  /\ listener[n].pc = "process"
  /\ ProcessSharedObjects(n, listener[n].msg)
  /\ listener' = [listener EXCEPT
                    ![n] = ListenerAt("store", @.msg, @.src)]
  /\ UNCHANGED <<db, peers, strikes, banned, app, net, created, restarts,
                 dbm, failed, unstored>>

(* On a closed handle the payload stays applied, unstored and unsent. *)
ListenerStore(n) ==
  /\ listener[n].pc = "store"
  /\ LET m == listener[n].msg
         s == listener[n].src
     IN \/ /\ open[n]
           /\ db' = [db EXCEPT ![n] = @ \cup {m}]
           /\ listener' = [listener EXCEPT ![n] = ListenerAt("broadcast", m, s)]
           /\ UNCHANGED unstored
        \/ /\ ~open[n]
           /\ unstored' = [unstored EXCEPT ![n][m] = @ + 1]
           /\ listener' = [listener EXCEPT ![n] = ListenerAt("caught", m, s)]
           /\ UNCHANGED db
  /\ UNCHANGED <<applied, peers, strikes, banned, app, net, created, restarts,
                 dbm, failed>>

ListenerBroadcast(n, F) ==
  /\ listener[n].pc = "broadcast"
  /\ Broadcast(n, "listener", listener[n].msg, F)
  /\ listener' = [listener EXCEPT
                    ![n] = IF F = {} THEN Idle ELSE ListenerAt("sent", @.msg, @.src)]
  /\ UNCHANGED <<db, applied, peers, strikes, banned, app, created, restarts,
                 dbm, unstored>>

ListenerReturn(n) ==
  /\ listener[n].pc = "sent"
  /\ Ready(n, "listener")
  /\ listener' = [listener EXCEPT ![n] = Idle]
  /\ UNCHANGED <<db, applied, peers, strikes, banned, app, net, created, restarts,
                 dbm, failed, unstored>>

(* Faulty variant: the count goes on to a fourth strike. *)
StrikeLate(n, p) ==
  /\ strikes[n][p] < MaxInvalid
  /\ strikes' = [strikes EXCEPT ![n][p] = @ + 1]
  /\ UNCHANGED <<peers, banned, sync>>

Strike(n, p) ==
  /\ strikes[n][p] + 1 < MaxInvalid
  /\ strikes' = [strikes EXCEPT ![n][p] = @ + 1]
  /\ UNCHANGED <<peers, banned, sync>>

(* The last strike: ban_peer saves the bans and db_sync follows; when the  *)
(* save raises, the count is not forgotten.                                *)
Ban(n, p) ==
  /\ strikes[n][p] + 1 >= MaxInvalid
  /\ banned' = [banned EXCEPT ![n] = @ \cup {p}]
  /\ peers' = [peers EXCEPT ![n] = @ \ {p}]
  /\ strikes' = [strikes EXCEPT ![n][p] = IF open[n] THEN 0 ELSE MaxInvalid]
  /\ IF open[n] THEN DbSync(n, "listener") ELSE UNCHANGED sync

(* handle_invalid_message, for a verdict or in the handler that caught an  *)
(* exception: there a save that raises ends the thread.                    *)
HandleInvalidMessage(n) ==
  LET p == listener[n].src
      banning == p \notin banned[n] /\ strikes[n][p] + 1 >= MaxInvalid
  IN /\ listener[n].pc \in {"invalid", "caught"}
     /\ \/ p \in banned[n] /\ UNCHANGED <<strikes, banned, peers, sync>>
        \/ p \notin banned[n] /\ Strike(n, p)
        \/ p \notin banned[n] /\ Ban(n, p)
     /\ listener' = [listener EXCEPT
          ![n] = IF banning /\ ~open[n] /\ listener[n].pc = "caught"
                 THEN Dead ELSE Idle]
     /\ UNCHANGED <<db, applied, app, net, created, restarts, open, failed,
                    unstored>>

-----------------------------------------------------------------------------
(* Faulty variant: repeats only what this node published. *)
GossipOwn(n, m, F) ==
  /\ Ready(n, "gossip")
  /\ open[n]
  /\ m \in db[n] \cap created[n]
  /\ Broadcast(n, "gossip", m, F)
  /\ UNCHANGED <<db, applied, peers, strikes, banned, app, listener, created,
                 restarts, dbm, unstored>>

(* One broadcast of the gossip thread's endless round; an exception starts *)
(* the round again.                                                        *)
Gossip(n, m, F) ==
  /\ Ready(n, "gossip")
  /\ open[n]
  /\ m \in db[n]
  /\ Broadcast(n, "gossip", m, F)
  /\ UNCHANGED <<db, applied, peers, strikes, banned, app, listener, created,
                 restarts, dbm, unstored>>

(* The end of broadcast, one failed peer: peers.remove, then save_peers.   *)
(* Another thread may have removed the peer, or closed the handle: either  *)
(* raises, and whoever called broadcast does not go on.                    *)
RemoveFailedPeer(n, t, p) ==
  /\ p \in failed[n][t]
  /\ sync[n][t] = "none"
  /\ peers' = [peers EXCEPT ![n] = @ \ {p}]
  /\ \/ /\ p \in peers[n] /\ open[n]
        /\ failed' = [failed EXCEPT ![n][t] = @ \ {p}]
        /\ DbSync(n, t)
        /\ UNCHANGED <<app, listener>>
     \/ /\ ~(p \in peers[n] /\ open[n])
        /\ failed' = [failed EXCEPT ![n][t] = {}]
        /\ app' = IF t = "app" THEN [app EXCEPT ![n] = Idle] ELSE app
        /\ listener' = IF t = "listener"
                       THEN [listener EXCEPT ![n] = ListenerAt("caught", @.msg, @.src)]
                       ELSE listener
        /\ UNCHANGED sync
  /\ UNCHANGED <<db, applied, strikes, banned, net, created, restarts, open,
                 unstored>>

(* db_sync, its two statements. *)
SyncClose(n, t) ==
  /\ sync[n][t] = "close"
  /\ open' = [open EXCEPT ![n] = FALSE]
  /\ sync' = [sync EXCEPT ![n][t] = "open"]
  /\ UNCHANGED <<db, applied, peers, strikes, banned, app, listener, net, created,
                 restarts, failed, unstored>>

SyncOpen(n, t) ==
  /\ sync[n][t] = "open"
  /\ open' = [open EXCEPT ![n] = TRUE]
  /\ sync' = [sync EXCEPT ![n][t] = "none"]
  /\ UNCHANGED <<db, applied, peers, strikes, banned, app, listener, net, created,
                 restarts, failed, unstored>>

(* The network drops a datagram. *)
Lose(pk) ==
  /\ net' = net \ {pk}
  /\ UNCHANGED <<db, applied, peers, strikes, banned, app, listener, created,
                 restarts, dbm, failed, unstored>>

(* close() by the thread that publishes, whatever the others were doing,   *)
(* then a new process: new shared objects, empty counters, and a ban list  *)
(* whose keys (host, "port") match no peer.  The operator connects again.  *)
Restart(n) ==
  /\ restarts[n] < MaxRestarts
  /\ app[n] = Idle
  /\ Ready(n, "app")
  /\ restarts' = [restarts EXCEPT ![n] = @ + 1]
  /\ db' = [db EXCEPT ![n] = IF n \in Persistent THEN @ ELSE {}]
  /\ applied' = [applied EXCEPT ![n] = NoCount]
  /\ peers' = [peers EXCEPT ![n] = Link[n]]
  /\ strikes' = [strikes EXCEPT ![n] = [p \in Node |-> 0]]
  /\ banned' = [banned EXCEPT ![n] = {}]
  /\ listener' = [listener EXCEPT ![n] = Idle]
  /\ open' = [open EXCEPT ![n] = TRUE]
  /\ sync' = [sync EXCEPT ![n] = NoSync]
  /\ failed' = [failed EXCEPT ![n] = NoneFailed]
  /\ unstored' = [unstored EXCEPT ![n] = NoCount]
  /\ UNCHANGED <<app, net, created>>

SaveStep(n, t) == \/ \E p \in failed[n][t] : RemoveFailedPeer(n, t, p)
                  \/ SyncClose(n, t)
                  \/ SyncOpen(n, t)

AppStep(n) == \/ AppProcess(n)
              \/ \E F \in Failures(n) : AppBroadcast(n, F)
              \/ AppStore(n)
              \/ SaveStep(n, "app")

ListenerStep(n) == \/ ListenerValidate(n)
                   \/ ListenerProcess(n)
                   \/ ListenerStore(n)
                   \/ \E F \in Failures(n) : ListenerBroadcast(n, F)
                   \/ ListenerReturn(n)
                   \/ HandleInvalidMessage(n)
                   \/ SaveStep(n, "listener")

Next ==
  \/ \E n \in Node :
       \/ \E m \in Message : AppValidate(n, m)
       \/ AppStep(n)
       \/ ListenerStep(n)
       \/ \E m \in Message, F \in Failures(n) : Gossip(n, m, F)
       \/ SaveStep(n, "gossip")
       \/ Restart(n)
  \/ \E pk \in net : Receive(pk.dst, pk)
  \/ \E pk \in net : Lose(pk)

Spec == Init /\ [][Next]_vars

(* Threads that are not blocked run on; the gossip thread repeats every    *)
(* round; a datagram that is sent again and again arrives in the end, as   *)
(* long as a thread listens.                                               *)
Fairness ==
  /\ \A n \in Node :
       /\ WF_vars(AppStep(n))
       /\ WF_vars(ListenerStep(n))
       /\ WF_vars(SaveStep(n, "gossip"))
       /\ \A m \in Message :
            WF_vars(\E F \in Failures(n) : Gossip(n, m, F))
  /\ \A pk \in {x \in Packet : x.dst \in Link[x.src]} :
       []<>(pk \in net /\ listener[pk.dst] # Dead)
         => []<><<Receive(pk.dst, pk)>>_vars

FairSpec == Spec /\ Fairness

-----------------------------------------------------------------------------
(* The inductive invariant behind the safety properties, in named parts.   *)
Published == UNION {created[n] : n \in Node}

(* What the app thread holds was published here, was valid when checked,   *)
(* and is applied before it is sent.                                       *)
AppInv == \A n \in Node : app[n].pc # "idle" =>
  /\ app[n].msg \in created[n]
  /\ app[n].pc = "process" => IsValid(n, app[n].msg)
  /\ app[n].pc \in {"broadcast", "store"} => IsApplied(n, app[n].msg)

(* The same for the listener, whose payload was published somewhere.       *)
ListenerInv == \A n \in Node : listener[n].pc \notin {"idle", "dead"} =>
  /\ listener[n].msg \in Published
  /\ listener[n].pc = "process" => IsValid(n, listener[n].msg)
  /\ listener[n].pc \in {"store", "broadcast"} => IsApplied(n, listener[n].msg)

(* Only published payloads travel and are stored. *)
PublishedInv == /\ \A pk \in net : pk.msg \in Published
                /\ \A n \in Node : db[n] \subseteq Published

(* A thread with failed peers left is still inside broadcast. *)
CallerInv ==
  \A n \in Node : /\ failed[n]["app"] # {} => app[n].pc = "store"
                  /\ failed[n]["listener"] # {} => listener[n].pc = "sent"

(* A closed handle will be opened: some thread is between the two halves   *)
(* of db_sync.  Only a dbm database closes, or loses a store.              *)
HandleInv ==
  \A n \in Node :
    /\ ~open[n] => \E t \in Thread : sync[n][t] = "open"
    /\ n \notin Persistent => /\ sync[n] = NoSync /\ unstored[n] = NoCount

(* Of another node's payloads: the one in the listener's hands before      *)
(* processing is not stored, and each time it was applied the store        *)
(* raised; an applied one was applied once more than stores raised when    *)
(* it is stored or just about to be.                                       *)
OnceFor(n, m) ==
  /\ listener[n].pc \in {"validate", "process"} /\ listener[n].msg = m
       => m \notin db[n] /\ applied[n][m] = unstored[n][m]
  /\ listener[n].pc = "store" /\ listener[n].msg = m
       => applied[n][m] = unstored[n][m] + 1
  /\ \/ applied[n][m] = unstored[n][m]
     \/ /\ applied[n][m] = unstored[n][m] + 1
        /\ \/ m \in db[n]
           \/ listener[n].pc = "store" /\ listener[n].msg = m

OnceInv == \A n \in Node : \A m \in Message \ created[n] : OnceFor(n, m)

Inv == /\ TypeOK /\ CallerInv /\ AppInv /\ ListenerInv /\ PublishedInv
       /\ HandleInv /\ OnceInv

(* A payload another node published enters this node's shared objects at   *)
(* most once per run of the process where the database is a dict, however  *)
(* often gossip repeats it and however the threads interleave.  With dbm   *)
(* it enters once more for every time another thread's db_sync makes the   *)
(* listener's store of it fail, and for no other reason.                   *)
RemoteAppliedOnce ==
  \A n \in Node, m \in Message : m \notin created[n] =>
    applied[n][m] <= IF n \in Persistent THEN 1 + unstored[n][m] ELSE 1

(* node.py says of the look-up in listen_for_messages "Only handle if      *)
(* we've never seen this message": no payload is applied twice, the        *)
(* payloads this node publishes itself included.                           *)
AppliedOnce == \A n \in Node, m \in Message : applied[n][m] <= 1

(* Every step of the threads is a step of the abstract specification.      *)
D == INSTANCE Dissemination WITH
       published  <- Published,
       integrated <- [n \in Node |-> {m \in Message : applied[n][m] > 0}],
       stored     <- db

(* The nodes implement the abstract network: nothing unpublished is        *)
(* applied, prerequisites are applied first, and only applied payloads are *)
(* stored, across restarts, losses and failed sends.                       *)
ImplementsDissemination == D!Spec

(* Gossip delivers: a payload in one node's database ends up in every      *)
(* node's database.                                                        *)
EventualDelivery ==
  \A m \in Message :
    (\E n \in Node : m \in db[n]) ~> (\A n \in Node : m \in db[n])

(* docs/hello-world.md says of persistent storage that nodes use it "to    *)
(* maintain their state across restarts": what the database holds is, in   *)
(* the end, in the shared objects.                                         *)
StateMaintained ==
  \A n \in Node, m \in Message : (m \in db[n]) ~> (applied[n][m] > 0)

=============================================================================
