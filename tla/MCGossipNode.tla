---------------------------- MODULE MCGossipNode ----------------------------
(* Instances of GossipNode for TLC: lines and triangles of nodes, payloads *)
(* with and without prerequisites.                                         *)
EXTENDS GossipNode, TLC

CONSTANTS a, b, c, m1, m2

Pair == {a, b}
Trio == {a, b, c}

(* Who is connected to whom: a pair that knows each other, and a relay,     *)
(* since connect_to_peer tells the other side nothing.                     *)
PairLink  == (a :> {b}) @@ (b :> {a})
RelayLink == (a :> {b}) @@ (b :> {c}) @@ (c :> {})

(* Who publishes what. *)
EachOne     == (a :> {m1}) @@ (b :> {m2})
OneSide     == (a :> {m1}) @@ (b :> {})
FirstOfTrio == (a :> {m1, m2}) @@ (b :> {}) @@ (c :> {})

(* Payload m2 is valid only where m1 is applied, or both always are. *)
Free  == [m \in Message |-> {}]
Chain == (m1 :> {}) @@ (m2 :> {m1})
=============================================================================
