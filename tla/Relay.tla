-------------------------------- MODULE Relay --------------------------------
(***************************************************************************)
(* The engine consensus/gossip/relay.py at every node: the first value     *)
(* proposed or heard is decided and passed on.  relayInbox holds what the  *)
(* node below has not delivered yet.                                       *)
(***************************************************************************)
CONSTANTS RelayNode, RelayValue, Undecided

VARIABLES relay,          \* relay[n]: the decision of node n
          relayInbox,     \* <<receiver, value>>: messages under way
          relayProposed

relayVars == <<relay, relayInbox, relayProposed>>

ASSUME RelayAssumption == Undecided \notin RelayValue

RelayTypeOK == /\ relay \in [RelayNode -> RelayValue \cup {Undecided}]
               /\ relayInbox \subseteq RelayNode \X RelayValue
               /\ relayProposed \subseteq RelayValue

RelayInit == /\ relay = [n \in RelayNode |-> Undecided]
             /\ relayInbox = {}
             /\ relayProposed = {}

RelayBroadcast(n, v) == (RelayNode \ {n}) \X {v}

(* Faulty variant: the proposer decides without broadcasting. *)
RelayProposeSilent(n, v) ==
  /\ relay[n] = Undecided
  /\ relay' = [relay EXCEPT ![n] = v]
  /\ relayProposed' = relayProposed \cup {v}
  /\ UNCHANGED relayInbox

RelayPropose(n, v) ==
  /\ relay[n] = Undecided
  /\ relay' = [relay EXCEPT ![n] = v]
  /\ relayInbox' = relayInbox \cup RelayBroadcast(n, v)
  /\ relayProposed' = relayProposed \cup {v}

RelayObserve(n, v) ==
  /\ <<n, v>> \in relayInbox
  /\ IF relay[n] = Undecided
     THEN /\ relay' = [relay EXCEPT ![n] = v]
          /\ relayInbox' = (relayInbox \ {<<n, v>>}) \cup RelayBroadcast(n, v)
     ELSE relayInbox' = relayInbox \ {<<n, v>>} /\ UNCHANGED relay
  /\ UNCHANGED relayProposed

RelayNext == \E n \in RelayNode, v \in RelayValue :
               RelayPropose(n, v) \/ RelayObserve(n, v)

RelaySpec == RelayInit /\ [][RelayNext]_relayVars

-----------------------------------------------------------------------------
(* When nothing is under way every node has decided a proposed value or    *)
(* nobody has; nodes that proposed at the same time may differ.            *)
RelaySpread ==
  relayInbox = {} => \/ \A n \in RelayNode : relay[n] \in relayProposed
                     \/ relayProposed = {} /\ \A n \in RelayNode : relay[n] = Undecided
=============================================================================
