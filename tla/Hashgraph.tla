------------------------------ MODULE Hashgraph ------------------------------
(***************************************************************************)
(* The engine consensus/gossip/hashgraph.py at every member.  An event is  *)
(* its position in the history of all events; HashRank orders the events   *)
(* as their hashes do, which order those a member examines.                *)
(***************************************************************************)
EXTENDS Integers, Sequences, FiniteSets

CONSTANTS Member, Payload,
          HashRank,       \* HashRank[i]: rank of the i-th event's hash
          MaxEvents       \* bound: events that are created

VARIABLES hgEvents,       \* the events created so far
          hg              \* hg[m]: the engine of member m

hgVars == <<hgEvents, hg>>

NoEvent == 0
EventId == 1 .. MaxEvents

ASSUME HgAssumption == /\ IsFiniteSet(Member)
                       /\ MaxEvents \in Nat
                       /\ HashRank \in [EventId -> Nat]

HgEvent == [creator : Member, payload : Payload,
            selfParent : EventId \cup {NoEvent}, otherParent : EventId \cup {NoEvent}]

HgTypeOK ==
  /\ hgEvents \in Seq(HgEvent)
  /\ hg \in [Member -> [events : SUBSET EventId,
                        last : [Member -> EventId \cup {NoEvent}],
                        firsts : Seq(Member),     \* members by their first event
                        decided : EventId \cup {NoEvent}]]

HgInit ==
  /\ hgEvents = <<>>
  /\ hg = [m \in Member |->
             [events |-> {}, last |-> [w \in Member |-> NoEvent],
              firsts |-> <<>>, decided |-> NoEvent]]

-----------------------------------------------------------------------------
HgQuorum == (2 * Cardinality(Member)) \div 3 + 1

(* _pick_other_parent: the last event of the first other member. *)
OtherParent(e, m) ==
  LET others == {i \in DOMAIN e.firsts : e.firsts[i] # m}
      first == CHOOSE i \in others : \A j \in others : i <= j
  IN IF others = {} THEN NoEvent ELSE e.last[e.firsts[first]]

Parents(H, i) == {H[i].selfParent, H[i].otherParent} \ {NoEvent}

(* _ancestors: an event and what it reaches through events in known, the  *)
(* least set that holds the event and the known parents of its members.    *)
HgAncestors(H, known, i) ==
  LET closed == {A \in SUBSET known : /\ i \in known => i \in A
                                      /\ \A k \in A : Parents(H, k) \cap known \subseteq A}
  IN {j \in known : \A A \in closed : j \in A}

(* _can_see looks at the event of w that arrived last. *)
CanSee(H, e, w, i) == e.last[w] # NoEvent /\ i \in HgAncestors(H, e.events, e.last[w])

(* Faulty variant: counts the events that see the witness, not the members. *)
SeenByEvents(H, e, i) ==
  Cardinality({j \in e.events : i \in HgAncestors(H, e.events, j)}) >= HgQuorum

StronglySeen(H, e, i) ==
  Cardinality({w \in Member : CanSee(H, e, w, i)}) >= HgQuorum

(* _try_decide: the first by hash of the events that are strongly seen. *)
TryDecide(H, e) ==
  LET seen == {i \in e.events : StronglySeen(H, e, i)}
  IN IF e.decided # NoEvent \/ seen = {} THEN e
     ELSE [e EXCEPT !.decided =
             CHOOSE i \in seen : \A j \in seen : HashRank[i] <= HashRank[j]]

AddEvent(H, e, i) ==
  LET c == H[i].creator
  IN TryDecide(H, [e EXCEPT !.events = @ \cup {i}, !.last[c] = i,
                            !.firsts = IF e.last[c] = NoEvent
                                       THEN Append(@, c) ELSE @])

-----------------------------------------------------------------------------
HgPropose(m, value) ==
  LET e == hg[m]
      event == [creator |-> m, payload |-> value,
                selfParent |-> e.last[m], otherParent |-> OtherParent(e, m)]
      H == Append(hgEvents, event)
  IN /\ Len(hgEvents) < MaxEvents
     /\ hgEvents' = H
     /\ hg' = [hg EXCEPT ![m] = AddEvent(H, e, Len(H))]

HgObserve(m, i) ==
  /\ i \notin hg[m].events
  /\ hg' = [hg EXCEPT ![m] = AddEvent(hgEvents, @, i)]
  /\ UNCHANGED hgEvents

HgNext ==
  \E m \in Member :
    \/ \E value \in Payload : HgPropose(m, value)
    \/ \E i \in DOMAIN hgEvents : HgObserve(m, i)

HgSpec == HgInit /\ [][HgNext]_hgVars

-----------------------------------------------------------------------------
(* What a member decided was built upon by a supermajority: that many      *)
(* members created events, known here, that descend from it.  Arrival out  *)
(* of order may take sight of it away again, but not this.                 *)
HgDecidedSupported ==
  \A m \in Member :
    LET e == hg[m]
        above == {i \in e.events : e.decided \in HgAncestors(hgEvents, e.events, i)}
    IN e.decided # NoEvent =>
         Cardinality({hgEvents[i].creator : i \in above}) >= HgQuorum
=============================================================================
