----------------------------- MODULE PeerTable -----------------------------
(***************************************************************************)
(* node.py: who a node sends to.  The application and the listener thread  *)
(* add peers (connect_to_peer), advertisements spread by gossip and add    *)
(* more, a list of local peers can be asked for, a relay introduces nodes  *)
(* to one another (nat_traversal.py), peers whose sends fail or that are   *)
(* banned leave, and a restart takes the list from the database.  Nodes    *)
(* are persistent; their external addresses are their addresses.           *)
(* Datagrams may be late or never arrive.                                  *)
(***************************************************************************)
EXTENDS Collections

CONSTANTS PeerNode,
          MaxPeers,         \* max_peers
          MaxCalls          \* bound: calls of the application, bans and restarts

VARIABLES peers,            \* peers[n]: entries, a node and its form
          joining,          \* the peer connect_to_peer is about to append
          adverts,          \* adverts[n]: nodes whose advertisement n stored
          waiting,          \* waiting[n]: waiting_local_peer
          peerNet,          \* datagrams under way
          bans,             \* banned_peers: a node and the form of its port
          calls,            \* how many of these there were
          disturbed         \* a peer was replaced, removed or added one-sidedly

ASSUME PeerAssumption == IsFiniteSet(PeerNode) /\ MaxPeers \in Nat /\ MaxCalls \in Nat

peerVars == <<peers, joining, adverts, waiting, peerNet, bans, calls, disturbed>>

(* Addresses are pairs when the program makes them and lists when json     *)
(* does; a list equals no pair, and no socket sends to one.  The port of a *)
(* ban is a number, or text after a restart, which matches no address.     *)
Form == {"tuple", "list"}
Entry == [node : PeerNode, form : Form]
Nobody == {}
Datagram == [type : {"advert", "ask", "introduction"}, to : PeerNode, about : PeerNode]
            \cup [type : {"introduce"}, to : PeerNode, about : PeerNode, target : PeerNode]
            \cup [type : {"answer"}, to : PeerNode, about : PeerNode, list : SUBSET PeerNode]

PeerTypeOK ==
  /\ peers \in [PeerNode -> Seq(Entry)]
  /\ joining \in [PeerNode -> SUBSET PeerNode]
  /\ adverts \in [PeerNode -> SUBSET PeerNode]
  /\ waiting \in [PeerNode -> SUBSET PeerNode]
  /\ peerNet \subseteq Datagram
  /\ bans \in [PeerNode -> SUBSET Entry]
  /\ calls \in 0 .. MaxCalls /\ disturbed \in BOOLEAN
  /\ \A n \in PeerNode : Len(peers[n]) <= MaxPeers + 1

PeerInit ==
  /\ peers = [n \in PeerNode |-> <<>>]
  /\ joining = [n \in PeerNode |-> Nobody]
  /\ adverts = [n \in PeerNode |-> {}]
  /\ waiting = [n \in PeerNode |-> {}]
  /\ peerNet = {} /\ calls = 0 /\ disturbed = FALSE
  /\ bans = [n \in PeerNode |-> {}]
-----------------------------------------------------------------------------
Pair(x) == [node |-> x, form |-> "tuple"]
Nodes(s) == {s[i].node : i \in DOMAIN s}
Advert(x, N) == [type : {"advert"}, to : N, about : {x}]

(* The early returns of connect_to_peer. *)
Connected(n, x) == x = n \/ Pair(x) \in ToSet(peers[n])

(* _replace_peer_if_max_reached: the peer added last makes room. *)
MakeRoom(s) == IF Len(s) >= MaxPeers THEN SubSeq(s, 1, Len(s) - 1) ELSE s
Joined(s, x) == Append(MakeRoom(s), Pair(x))
Crowded(s) == Len(s) >= MaxPeers

(* broadcast: every entry is tried, and those that cannot be sent to leave *)
(* the list afterwards.                                                    *)
Sendable(s) == Only(s, [node : PeerNode, form : {"tuple"}])

(* connect_to_peer, called by the application, up to the check ...         *)
Connect(n, x) ==
  /\ calls < MaxCalls /\ joining[n] = Nobody
  /\ ~Connected(n, x)
  /\ joining' = [joining EXCEPT ![n] = {x}]
  /\ calls' = calls + 1
  /\ UNCHANGED <<peers, adverts, waiting, peerNet, bans, disturbed>>

(* ... and the rest of it, with discovery on: the listener may have added  *)
(* the same peer meanwhile.                                                *)
ConnectAppend(n) ==
  \E x \in joining[n] :
    /\ peers' = [peers EXCEPT ![n] = Joined(@, x)]
    /\ disturbed' = (disturbed \/ Crowded(peers[n]))
    /\ peerNet' = peerNet \cup Advert(n, {x})
    /\ joining' = [joining EXCEPT ![n] = Nobody]
    /\ UNCHANGED <<adverts, waiting, bans, calls>>

(* Faulty variant: an advertisement is handled and goes no further. *)
HandleAdvertQuietly(n, x) ==
  /\ [type |-> "advert", to |-> n, about |-> x] \in peerNet
  /\ IF Connected(n, x)
     THEN peerNet' = peerNet \ Advert(x, {n}) /\ UNCHANGED <<peers, disturbed>>
     ELSE /\ peers' = [peers EXCEPT ![n] = Joined(@, x)]
          /\ disturbed' = (disturbed \/ Crowded(peers[n]))
          /\ peerNet' = (peerNet \ Advert(x, {n})) \cup Advert(n, {x})
  /\ adverts' = [adverts EXCEPT ![n] = @ \cup {x}]
  /\ UNCHANGED <<joining, waiting, bans, calls>>

(* _handle_peer_discovery of an advertisement that is not in the database, *)
(* then _store_and_broadcast of it.  Nothing asks whether x is banned.     *)
HandleAdvert(n, x) ==
  LET arrived == Advert(x, {n})
      table == IF Connected(n, x) THEN peers[n] ELSE Joined(peers[n], x)
  IN /\ arrived \subseteq peerNet
     /\ IF x \in adverts[n]
        THEN peerNet' = peerNet \ arrived /\ UNCHANGED <<peers, adverts, disturbed>>
        ELSE /\ peers' = [peers EXCEPT ![n] = Sendable(table)]
             /\ adverts' = [adverts EXCEPT ![n] = @ \cup {x}]
             /\ peerNet' = (peerNet \ arrived)
                           \cup (IF Connected(n, x) THEN {} ELSE Advert(n, {x}))
                           \cup Advert(x, Nodes(Sendable(table)))
             /\ disturbed' = (disturbed \/ (~Connected(n, x) /\ Crowded(peers[n]))
                                        \/ Sendable(table) # table)
     /\ UNCHANGED <<joining, waiting, bans, calls>>

(* gossip: the stored advertisements are broadcast again and again (to who *)
(* has stored one, without effect).                                        *)
GossipAdvert(n, x) ==
  /\ x \in adverts[n]
  /\ peers' = [peers EXCEPT ![n] = Sendable(@)]
  /\ peerNet' = peerNet \cup Advert(x, {y \in Nodes(Sendable(peers[n])) : x \notin adverts[y]})
  /\ UNCHANGED <<joining, adverts, waiting, bans, calls, disturbed>>

(* connect_to_peer_locally and send_local_peer_request: x is asked for its *)
(* peers and does not become one.                                          *)
AskLocally(n, x) ==
  /\ calls < MaxCalls /\ x # n
  /\ waiting' = [waiting EXCEPT ![n] = @ \cup {x}]
  /\ peerNet' = peerNet \cup {[type |-> "ask", to |-> x, about |-> n]}
  /\ calls' = calls + 1
  /\ UNCHANGED <<peers, joining, adverts, bans, disturbed>>

(* _handle_local_peer_request, where local_discovery is on. *)
AnswerLocally(n, x) ==
  /\ [type |-> "ask", to |-> n, about |-> x] \in peerNet
  /\ peerNet' = (peerNet \ {[type |-> "ask", to |-> n, about |-> x]})
                \cup {[type |-> "answer", to |-> x, about |-> n,
                       list |-> Nodes(peers[n])]}
  /\ UNCHANGED <<peers, joining, adverts, waiting, bans, calls, disturbed>>

(* _handle_local_peer_response: the peers are added without a word to      *)
(* them; an answer nobody waits for does nothing.                          *)
HandleLocalPeers(n, d) ==
  /\ d \in peerNet /\ d.type = "answer" /\ d.to = n
  /\ LET new == {x \in d.list : ~Connected(n, x)}
     IN IF d.about \in waiting[n]
        THEN /\ \E order \in SetToSeqs(new) :
                  peers' = [peers EXCEPT ![n] = FoldLeft(Joined, @, order)]
             /\ disturbed' = (disturbed \/ new # {})
        ELSE UNCHANGED <<peers, disturbed>>
  /\ waiting' = [waiting EXCEPT ![n] = @ \ {d.about}]
  /\ peerNet' = peerNet \ {d}
  /\ UNCHANGED <<joining, adverts, bans, calls>>

(* send_request of nat_traversal.py: a relay is asked to introduce n to x. *)
AskIntroduction(n, relay, x) ==
  /\ calls < MaxCalls /\ n \notin {relay, x}
  /\ peerNet' = peerNet \cup {[type |-> "introduce", to |-> relay, about |-> n,
                                target |-> x]}
  /\ calls' = calls + 1
  /\ UNCHANGED <<peers, joining, adverts, waiting, bans, disturbed>>

(* handle_request, at the relay: it need not know either of them. *)
Introduce(n, d) ==
  /\ d \in peerNet /\ d.type = "introduce" /\ d.to = n
  /\ peerNet' = (peerNet \ {d}) \cup
                {[type |-> "introduction", to |-> d.target, about |-> d.about]}
  /\ UNCHANGED <<peers, joining, adverts, waiting, bans, calls, disturbed>>

(* handle_response: the node introduced becomes a peer and is told so.     *)
(* Nothing asks whether it is banned.                                      *)
HandleIntroduction(n, x) ==
  LET arrived == {[type |-> "introduction", to |-> n, about |-> x]}
  IN /\ arrived \subseteq peerNet
     /\ IF Connected(n, x)
        THEN peerNet' = peerNet \ arrived /\ UNCHANGED <<peers, disturbed>>
        ELSE /\ peers' = [peers EXCEPT ![n] = Joined(@, x)]
             /\ disturbed' = (disturbed \/ Crowded(peers[n]))
             /\ peerNet' = (peerNet \ arrived) \cup Advert(n, {x})
     /\ UNCHANGED <<joining, adverts, waiting, bans, calls>>

(* ban_peer: the first entry of the peer leaves. *)
Ban(n, x) ==
  /\ x # n /\ Pair(x) \notin bans[n] /\ calls < MaxCalls
  /\ bans' = [bans EXCEPT ![n] = @ \cup {Pair(x)}]
  /\ peers' = [peers EXCEPT ![n] = RemoveFirst(@, Pair(x))]
  /\ disturbed' = TRUE /\ calls' = calls + 1
  /\ UNCHANGED <<joining, adverts, waiting, peerNet>>

(* A restart: load_peers and load_banned_peers read back what save_peers   *)
(* and save_banned_peers wrote; advertisements stay stored.                *)
PeerRestart(n) ==
  /\ peers[n] # <<>> /\ calls < MaxCalls
  /\ peers' = [peers EXCEPT ![n] = [i \in DOMAIN @ |-> [@[i] EXCEPT !.form = "list"]]]
  /\ bans' = [bans EXCEPT ![n] = {[e EXCEPT !.form = "list"] : e \in @}]
  /\ joining' = [joining EXCEPT ![n] = Nobody]
  /\ waiting' = [waiting EXCEPT ![n] = {}]
  /\ calls' = calls + 1 /\ disturbed' = TRUE
  /\ UNCHANGED <<adverts, peerNet>>

PeerNext ==
  \E n \in PeerNode :
    \/ ConnectAppend(n) \/ PeerRestart(n)
    \/ \E x \in PeerNode :
         \/ Connect(n, x) \/ HandleAdvert(n, x) \/ GossipAdvert(n, x)
         \/ AskLocally(n, x) \/ AnswerLocally(n, x) \/ Ban(n, x)
         \/ HandleIntroduction(n, x)
         \/ \E relay \in PeerNode : AskIntroduction(n, relay, x)
    \/ \E d \in peerNet : HandleLocalPeers(n, d) \/ Introduce(n, d)

PeerSpec == PeerInit /\ [][PeerNext]_peerVars
-----------------------------------------------------------------------------
(* Discovery meshes the nodes: when no datagram is under way, nobody was   *)
(* replaced or removed and nobody was added one-sidedly, two nodes that    *)
(* reach each other through peers are each other's peers, in whatever      *)
(* order the advertisements met the connects (node.py                      *)
(* _handle_peer_discovery, "Preserve gossip of discovery advertisements"). *)
DiscoveryMeshes ==
  (peerNet = {} /\ ~disturbed /\ \A n \in PeerNode : joining[n] = Nobody) =>
    \A n \in PeerNode :
      \A x \in Nodes(peers[n]) :
        \A y \in ({x} \cup Nodes(peers[x])) \ {n} : n \in Nodes(peers[y]) /\ y \in Nodes(peers[n])
=============================================================================
