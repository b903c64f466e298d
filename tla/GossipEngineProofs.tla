------------------------- MODULE GossipEngineProofs -------------------------
(* Proofs about the engines that gossip and sample, the relay, the Snow    *)
(* family, Avalanche and Hashgraph, and those whose blocks form a graph,   *)
(* the block lattice and the tangle: for every set of nodes, values,       *)
(* accounts and transactions.                                              *)
EXTENDS Relay, SnowFamily, Avalanche, Hashgraph, Lattice, DAGcoin, FoldTheorems

-----------------------------------------------------------------------------
(* The relay.  Once a value was proposed, a node that has not decided has  *)
(* a message under way to it.                                              *)
RelayInv ==
  /\ RelayTypeOK
  /\ \A n \in RelayNode : relay[n] # Undecided => relay[n] \in relayProposed
  /\ \A n \in RelayNode, v \in RelayValue : <<n, v>> \in relayInbox => v \in relayProposed
  /\ \A n \in RelayNode : relayProposed # {} /\ relay[n] = Undecided =>
       \E v \in RelayValue : <<n, v>> \in relayInbox

(* The broadcast of n reaches every other node and nobody else. *)
LEMMA RelayReach ==
  ASSUME NEW n \in RelayNode, NEW v \in RelayValue
  PROVE  /\ RelayBroadcast(n, v) \subseteq RelayNode \X RelayValue
         /\ \A m \in RelayNode, w \in RelayValue :
              <<m, w>> \in RelayBroadcast(n, v) <=> m # n /\ w = v
BY DEF RelayBroadcast

LEMMA RelayProposeStep ==
  ASSUME RelayInv, NEW n \in RelayNode, NEW v \in RelayValue, RelayPropose(n, v)
  PROVE  RelayInv'
<1>1. relay \in [RelayNode -> RelayValue \cup {Undecided}]
  BY DEF RelayInv, RelayTypeOK
<1>2. /\ relay' = [relay EXCEPT ![n] = v]
      /\ relayInbox' = relayInbox \cup RelayBroadcast(n, v)
      /\ relayProposed' = relayProposed \cup {v}
  BY DEF RelayPropose
<1>3. \A m \in RelayNode : relay'[m] = IF m = n THEN v ELSE relay[m]
  BY <1>1, <1>2
<1>4. v # Undecided
  BY RelayAssumption
<1>5. RelayTypeOK'
  BY <1>1, <1>2, RelayReach DEF RelayInv, RelayTypeOK
<1>6. \A m \in RelayNode : m # n => <<m, v>> \in relayInbox'
  BY <1>2, RelayReach
<1>7. \A m \in RelayNode, w \in RelayValue : <<m, w>> \in relayInbox' => w \in relayProposed'
  BY <1>2, RelayReach DEF RelayInv
<1> QED
  BY <1>2, <1>3, <1>4, <1>5, <1>6, <1>7 DEF RelayInv

LEMMA RelayObserveStep ==
  ASSUME RelayInv, NEW n \in RelayNode, NEW v \in RelayValue, RelayObserve(n, v)
  PROVE  RelayInv'
<1>1. relay \in [RelayNode -> RelayValue \cup {Undecided}]
  BY DEF RelayInv, RelayTypeOK
<1>2. /\ v \in relayProposed /\ <<n, v>> \in relayInbox /\ relayProposed' = relayProposed
      /\ v # Undecided
  BY RelayAssumption DEF RelayObserve, RelayInv
<1>3. CASE relay[n] = Undecided
  <2>1. /\ relay' = [relay EXCEPT ![n] = v]
        /\ relayInbox' = (relayInbox \ {<<n, v>>}) \cup RelayBroadcast(n, v)
    BY <1>3 DEF RelayObserve
  <2>2. \A m \in RelayNode : relay'[m] = IF m = n THEN v ELSE relay[m]
    BY <1>1, <2>1
  <2>3. RelayTypeOK'
    BY <1>1, <1>2, <2>1, RelayReach DEF RelayInv, RelayTypeOK
  <2>4. \A m \in RelayNode : m # n => <<m, v>> \in relayInbox'
    BY <2>1, RelayReach
  <2>5. \A m \in RelayNode, w \in RelayValue : <<m, w>> \in relayInbox' => w \in relayProposed'
    BY <1>2, <2>1, RelayReach DEF RelayInv
  <2> QED
    BY <1>2, <2>2, <2>3, <2>4, <2>5 DEF RelayInv
<1>4. CASE relay[n] # Undecided
  <2>1. relay' = relay /\ relayInbox' = relayInbox \ {<<n, v>>}
    BY <1>4 DEF RelayObserve
  <2>2. RelayTypeOK'
    BY <1>1, <1>2, <2>1 DEF RelayInv, RelayTypeOK
  <2>3. \A m \in RelayNode, w \in RelayValue :
          m # n => (<<m, w>> \in relayInbox' <=> <<m, w>> \in relayInbox)
    BY <2>1
  <2> QED
    BY <1>2, <1>4, <2>1, <2>2, <2>3 DEF RelayInv
<1> QED
  BY <1>3, <1>4

LEMMA RelayInvariant == RelaySpec => []RelayInv
<1>1. RelayInit => RelayInv
  BY DEF RelayInit, RelayInv, RelayTypeOK
<1>2. RelayInv /\ [RelayNext]_relayVars => RelayInv'
  <2> SUFFICES ASSUME RelayInv, [RelayNext]_relayVars PROVE RelayInv'
    OBVIOUS
  <2>1. CASE UNCHANGED relayVars
    BY <2>1 DEF RelayInv, RelayTypeOK, relayVars
  <2> QED
    BY <2>1, RelayProposeStep, RelayObserveStep DEF RelayNext
<1> QED
  BY <1>1, <1>2, PTL DEF RelaySpec

(* The relay's promise: when nothing is under way every node has decided a *)
(* proposed value, or nothing was proposed (consensus/gossip/relay.py).    *)
THEOREM RelaySpreads == RelaySpec => []RelaySpread
<1>1. RelayInv => RelaySpread
  BY DEF RelayInv, RelaySpread, RelayTypeOK
<1> QED
  BY <1>1, RelayInvariant, PTL

-----------------------------------------------------------------------------
(* Slush, Snowflake and Snowball.  The node that awaits the answer to m,   *)
(* or the answer m itself.                                                 *)
Asker(m) == IF m.type = "query" THEN m.from ELSE m.to

(* The colors e holds are in P, if no sample reaches alpha without a vote. *)
Truthful(e, P) ==
  SnowThreshold > 0 =>
    /\ e.color \in P \cup {Uncolored} /\ e.accepted \in P \cup {Uncolored}
    /\ \A q \in Query, p \in SnowNode : e.pending[q][p] \in P \cup {Uncolored}

Known(c, P) == SnowThreshold > 0 => c \in P

(* The counters do not exceed the queries that were settled. *)
Tallied(e) ==
  /\ e.cnt <= Cardinality(e.processed)
  /\ e.confidence["red"] + e.confidence["blue"] <= Cardinality(e.processed)
  /\ rule = "slush" /\ e.accepted # Uncolored => 1 .. SlushRounds \subseteq e.processed

(* Who has asked has a color, and in Slush has settled the rounds before.  *)
Asked(e, m) ==
  /\ e.color # Uncolored
  /\ rule = "slush" => 1 .. m.query - 1 \subseteq e.processed

SnowInv ==
  /\ SnowTypeOK
  /\ \A n \in SnowNode : Truthful(snow[n], snowProposed) /\ Tallied(snow[n])
  /\ \A m \in snowSent : Known(m.color, snowProposed) /\ Asked(snow[Asker(m)], m)

(* A sample that reaches c holds an answer c. *)
LEMMA SnowReached ==
  ASSUME NEW P, NEW e \in SnowObject, Truthful(e, P),
         NEW q \in Query, NEW c \in Color,
         Reaches(e, q, c) \/ CountOf(e, q, c) > 0
  PROVE  Known(c, P)
<1> SUFFICES ASSUME SnowThreshold > 0 PROVE c \in P
  BY DEF Known
<1>1. CountOf(e, q, c) # 0
  BY SnowAssumption DEF Reaches, SnowThreshold
<1>2. PICK p \in SnowNode : e.pending[q][p] = c
  BY <1>1, FS_EmptySet DEF CountOf
<1> QED
  BY <1>2 DEF Truthful, Known, Color, Uncolored

(* What a settled query may do to the object e: it moves each counter by   *)
(* one at most and takes colors from the answers.                          *)
Advances(e, new, q, P) ==
  /\ new \in SnowObject /\ Truthful(new, P) /\ new.color # Uncolored
  /\ new.query = e.query /\ new.pending = e.pending /\ new.processed = e.processed
  /\ new.cnt <= e.cnt + 1
  /\ new.confidence["red"] + new.confidence["blue"]
       <= e.confidence["red"] + e.confidence["blue"] + 1
  /\ rule = "slush" /\ new.accepted # Uncolored => e.accepted # Uncolored \/ q >= SlushRounds

LEMMA SlushAdvances ==
  ASSUME NEW P, NEW e \in SnowObject, Truthful(e, P),
         e.color # Uncolored, NEW q \in Query
  PROVE  Advances(e, SlushStep(e, q), q, P)
<1>1. e.color \in Color /\ Other(e.color) \in Color
  BY DEF SnowObject, Color, Uncolored, Other
<1>2. PICK flipped : flipped = IF Reaches(e, q, Other(e.color))
                              THEN [e EXCEPT !.color = Other(e.color)] ELSE e
  OBVIOUS
<1>3. PICK c : c = IF Reaches(e, q, Other(e.color)) THEN Other(e.color) ELSE e.color
  OBVIOUS
<1>4. c \in Color /\ Known(c, P) /\ c # Uncolored
  BY <1>1, <1>3, SnowReached DEF Truthful, Known, Color, Uncolored
<1>5. flipped = [e EXCEPT !.color = c]
  BY <1>2, <1>3 DEF SnowObject
<1>6. PICK new : new = SlushStep(e, q)
  OBVIOUS
<1>7. new = IF q < SlushRounds THEN flipped ELSE [flipped EXCEPT !.accepted = c]
  BY <1>2, <1>5, <1>6 DEF SlushStep, SnowObject
<1>8. /\ new \in SnowObject /\ new.color = c /\ new.cnt = e.cnt
      /\ new.accepted = IF q < SlushRounds THEN e.accepted ELSE c
      /\ new.query = e.query /\ new.pending = e.pending /\ new.processed = e.processed
      /\ new.confidence = e.confidence
  BY <1>4, <1>5, <1>7 DEF SnowObject
<1>9. q \in Int /\ SlushRounds \in Int /\ e.cnt \in Nat /\ e.confidence["red"] \in Nat
      /\ e.confidence["blue"] \in Nat
  BY SnowAssumption DEF SnowObject, Query, Color
<1> QED
  BY <1>4, <1>6, <1>8, <1>9 DEF Advances, Truthful, Known

LEMMA SnowflakeAdvances ==
  ASSUME NEW P, NEW e \in SnowObject, Truthful(e, P), rule # "slush",
         e.color # Uncolored, NEW q \in Query
  PROVE  Advances(e, SnowflakeStep(e, q), q, P)
<1>1. /\ e.color \in Color /\ Other(e.color) \in Color /\ Known(e.color, P)
      /\ Other(e.color) # Uncolored
  BY DEF SnowObject, Color, Uncolored, Other, Truthful, Known
<1>2. /\ e.cnt \in Nat /\ e.confidence["red"] \in Nat /\ e.confidence["blue"] \in Nat
  BY DEF SnowObject, Color
<1>3. PICK new : new = SnowflakeStep(e, q)
  OBVIOUS
<1>4. CASE Reaches(e, q, Other(e.color))
  <2>1. PICK c : c = Other(e.color)
    OBVIOUS
  <2>2. Known(c, P)
    BY <1>1, <1>4, <2>1, SnowReached
  <2>3. /\ new \in SnowObject /\ new.color = c /\ new.cnt = 0
        /\ new.accepted = e.accepted
        /\ new.query = e.query /\ new.pending = e.pending /\ new.processed = e.processed
        /\ new.confidence = e.confidence
    BY <1>1, <1>3, <1>4, <2>1 DEF SnowflakeStep, SnowObject
  <2> QED
    BY <1>1, <1>2, <1>3, <2>1, <2>2, <2>3 DEF Advances, Truthful, Known
<1>5. CASE ~Reaches(e, q, Other(e.color)) /\ Reaches(e, q, e.color)
  <2>1. PICK a : a = IF e.cnt + 1 > SnowBeta THEN e.color ELSE e.accepted
    OBVIOUS
  <2>2. a \in Color \cup {Uncolored} /\ Known(a, P \cup {Uncolored})
    BY <1>1, <2>1 DEF Truthful, Known, SnowObject
  <2> PICK cnt \in Nat : cnt = e.cnt + 1
    BY <1>2
  <2>3. new = [e EXCEPT !.cnt = cnt, !.accepted = a]
    BY <1>3, <1>5, <2>1 DEF SnowflakeStep, SnowObject
  <2>4. /\ new \in SnowObject /\ new.color = e.color /\ new.cnt = cnt
        /\ new.accepted = a
        /\ new.query = e.query /\ new.pending = e.pending /\ new.processed = e.processed
        /\ new.confidence = e.confidence
    BY <1>2, <2>2, <2>3 DEF SnowObject
  <2> QED
    BY <1>1, <1>2, <1>3, <2>2, <2>4 DEF Advances, Truthful, Known
<1>6. CASE ~Reaches(e, q, Other(e.color)) /\ ~Reaches(e, q, e.color)
  BY <1>1, <1>2, <1>6 DEF SnowflakeStep, Advances, Truthful, Known
<1> QED
  BY <1>4, <1>5, <1>6

LEMMA SnowballAdvances ==
  ASSUME NEW P, NEW e \in SnowObject, Truthful(e, P), rule # "slush",
         e.color # Uncolored, NEW q \in Query
  PROVE  Advances(e, SnowballStep(e, q), q, P)
<1>1. e.color \in Color /\ Known(e.color, P)
  BY DEF SnowObject, Color, Uncolored, Truthful, Known
<1>2. /\ e.cnt \in Nat /\ e.confidence \in [Color -> Nat]
      /\ e.confidence["red"] \in Nat /\ e.confidence["blue"] \in Nat
  BY DEF SnowObject, Color
<1>3. CASE \A c \in Color : ~Majority(e, q, c)
  BY <1>1, <1>2, <1>3 DEF SnowballStep, Advances, Truthful, Known
<1>4. CASE \E c \in Color : Majority(e, q, c)
  <2>1. PICK c : c = CHOOSE x \in Color : Majority(e, q, x)
    OBVIOUS
  <2>2. c \in Color /\ Majority(e, q, c)
    BY <1>4, <2>1
  <2>3. Known(c, P)
    BY <2>2, SnowReached DEF Majority
  <2>4. PICK d : d = e.confidence[c] + 1
    OBVIOUS
  <2>5. PICK pref : pref = IF c # e.color /\ d > e.confidence[e.color] THEN c ELSE e.color
    OBVIOUS
  <2>6. PICK cnt : cnt = IF c = e.last THEN e.cnt + 1 ELSE 0
    OBVIOUS
  <2>7. PICK a : a = IF cnt > SnowBeta THEN pref ELSE e.accepted
    OBVIOUS
  <2>8. PICK conf : conf = [e.confidence EXCEPT ![c] = d]
    OBVIOUS
  <2>9. /\ pref \in Color /\ Known(pref, P) /\ pref # Uncolored
        /\ cnt \in Nat /\ cnt <= e.cnt + 1
        /\ a \in Color \cup {Uncolored} /\ Known(a, P \cup {Uncolored})
    BY <1>1, <1>2, <2>2, <2>3, <2>5, <2>6, <2>7 DEF Truthful, Known, SnowObject, Color, Uncolored
  <2>10. /\ conf \in [Color -> Nat]
         /\ conf["red"] + conf["blue"] <= e.confidence["red"] + e.confidence["blue"] + 1
    BY <1>2, <2>2, <2>4, <2>8 DEF Color
  <2>11. PICK new : new = SnowballStep(e, q)
    OBVIOUS
  <2>12. new = [e EXCEPT !.confidence[c] = d, !.color = pref, !.last = c, !.cnt = cnt,
                         !.accepted = a]
    BY <1>4, <2>1, <2>4, <2>5, <2>6, <2>7, <2>11 DEF SnowballStep, SnowObject
  <2>13. new = [e EXCEPT !.confidence = conf, !.color = pref, !.last = c, !.cnt = cnt,
                         !.accepted = a]
    BY <2>8, <2>12 DEF SnowObject
  <2>14. /\ new \in SnowObject /\ new.color = pref /\ new.cnt = cnt /\ new.accepted = a
         /\ new.query = e.query /\ new.pending = e.pending /\ new.processed = e.processed
         /\ new.confidence = conf
    BY <2>2, <2>9, <2>10, <2>13 DEF SnowObject
  <2> QED
    BY <2>9, <2>10, <2>11, <2>14 DEF Advances, Truthful, Known
<1> QED
  BY <1>3, <1>4

(* The step of n in which its object becomes e, that of a node which       *)
(* forgets neither its color nor the queries it has settled.               *)
LEMMA SnowMove ==
  ASSUME SnowInv, NEW n \in SnowNode, NEW e \in SnowObject,
         Truthful(e, snowProposed'), Tallied(e),
         snow[n].color # Uncolored => e.color # Uncolored,
         snow[n].processed \subseteq e.processed,
         snow' = [snow EXCEPT ![n] = e], rule' = rule,
         snowProposed \subseteq snowProposed', snowProposed' \subseteq Color,
         \A m \in snowSent' \ snowSent :
           m \in Datagram /\ Known(m.color, snowProposed') /\ Asked(snow'[Asker(m)], m)
  PROVE  SnowInv'
<1>1. snow \in [SnowNode -> SnowObject] /\ snowSent \subseteq Datagram
  BY DEF SnowInv, SnowTypeOK
<1>2. \A w \in SnowNode : snow'[w] = IF w = n THEN e ELSE snow[w]
  BY <1>1
<1>3. SnowTypeOK'
  BY <1>1 DEF SnowInv, SnowTypeOK
<1>4. ASSUME NEW w \in SnowNode PROVE Truthful(snow[w], snowProposed)' /\ Tallied(snow[w])'
  BY <1>2 DEF SnowInv, Truthful, Known, Tallied
<1>5. ASSUME NEW m \in snowSent' PROVE (Known(m.color, snowProposed) /\ Asked(snow[Asker(m)], m))'
  <2>1. CASE m \in snowSent
    <3>1. Asker(m) \in SnowNode
      BY <1>1, <2>1 DEF Asker, Datagram
    <3>2. Known(m.color, snowProposed) /\ Asked(snow[Asker(m)], m)
      BY <2>1 DEF SnowInv
    <3> QED
      BY <1>2, <3>1, <3>2 DEF Asked, Known
  <2>2. CASE m \notin snowSent
    <3>1. Known(m.color, snowProposed') /\ Asked(snow'[Asker(m)], m)
      BY <2>2
    <3> QED
      BY <3>1 DEF Asked
  <2> QED
    BY <2>1, <2>2
<1> QED
  BY <1>3, <1>4, <1>5 DEF SnowInv

(* A query of n to a sample, beside the answers it gives. *)
LEMMA SnowSends ==
  ASSUME SnowInv, NEW n \in SnowNode, NEW e \in SnowObject,
         Truthful(e, snowProposed'), Tallied(e), e.color # Uncolored,
         snow[n].processed \subseteq e.processed,
         NEW q \in Nat \ {0}, rule = "slush" => 1 .. q - 1 \subseteq e.processed,
         NEW sample \in SUBSET SnowNode, NEW asked, NEW replies,
         SendQuery(n, e, q, sample, asked, replies), rule' = rule,
         snowProposed \subseteq snowProposed', snowProposed' \subseteq Color,
         \A m \in replies : m \in Datagram /\ Known(m.color, snowProposed') /\
           \E k \in snowSent : Asker(m) = Asker(k) /\ m.query = k.query
  PROVE  SnowInv'
<1>1. PICK new : new = [e EXCEPT !.query = q, !.pending[q] = NoAnswers]
  OBVIOUS
<1>2. PICK table : table = [e.pending EXCEPT ![q] = NoAnswers]
  OBVIOUS
<1>3. q \in Query /\ snow' = [snow EXCEPT ![n] = new]
  BY <1>1, SnowAssumption DEF SendQuery, Query
<1>4. /\ table \in [Query -> [SnowNode -> Color \cup {Uncolored}]]
      /\ \A i \in Query, p \in SnowNode :
           table[i][p] = IF i = q THEN Uncolored ELSE e.pending[i][p]
  BY <1>2, <1>3 DEF SnowObject, NoAnswers
<1>5. new = [e EXCEPT !.query = q, !.pending = table]
  BY <1>1, <1>2 DEF SnowObject
<1>6. q \in 0 .. MaxQuery
  BY <1>3, SnowAssumption DEF Query
<1>7. /\ new \in SnowObject /\ new.color = e.color /\ new.accepted = e.accepted
      /\ new.pending = table /\ new.processed = e.processed /\ new.cnt = e.cnt
      /\ new.confidence = e.confidence
  BY <1>4, <1>5, <1>6 DEF SnowObject
<1>8. Truthful(new, snowProposed') /\ Tallied(new)
  BY <1>4, <1>7 DEF Truthful, Known, Tallied
<1>9. Known(e.color, snowProposed') /\ e.color \in Color
  BY DEF Truthful, Known, SnowObject
<1>10. snow \in [SnowNode -> SnowObject] /\ snowSent \subseteq Datagram
  BY DEF SnowInv, SnowTypeOK
<1>11. ASSUME NEW m \in snowSent' \ snowSent
       PROVE  m \in Datagram /\ Known(m.color, snowProposed') /\ Asked(snow'[Asker(m)], m)
  <2>1. CASE m \in replies
    <3>1. PICK k \in snowSent : Asker(m) = Asker(k) /\ m.query = k.query
      BY <2>1
    <3>2. Asker(k) \in SnowNode /\ Asked(snow[Asker(k)], k)
      BY <1>10 DEF SnowInv, Asker, Datagram
    <3>3. Asked(snow'[Asker(m)], m)
      BY <1>3, <1>7, <1>10, <3>1, <3>2 DEF Asked
    <3> QED
      BY <2>1, <3>3
  <2>2. CASE m \notin replies
    <3>1. PICK p \in sample : m = [type |-> "query", query |-> q, color |-> e.color,
                                   from |-> n, to |-> p]
      BY <2>2 DEF SendQuery
    <3>2. m \in Datagram /\ m.color = e.color /\ Asker(m) = n /\ m.query = q
      BY <1>3, <1>9, <3>1 DEF Datagram, Asker
    <3>3. snow'[n] = new
      BY <1>3, <1>10
    <3> QED
      BY <1>7, <1>9, <3>2, <3>3 DEF Asked
  <2> QED
    BY <2>1, <2>2
<1> QED
  BY <1>3, <1>7, <1>8, <1>11, SnowMove

(* A node that takes a color: nothing else of its object but the run of    *)
(* successes changes.                                                      *)
LEMMA SnowColored ==
  ASSUME SnowInv, NEW n \in SnowNode, NEW c \in Color, NEW P, snowProposed \subseteq P,
         Known(c, P)
  PROVE  LET e == Colored(snow[n], c)
         IN /\ e \in SnowObject /\ Truthful(e, P) /\ Tallied(e) /\ e.color = c
            /\ e.processed = snow[n].processed /\ e.query = snow[n].query
<1>1. PICK old \in SnowObject : old = snow[n]
  BY DEF SnowInv, SnowTypeOK
<1>2. PICK e : e = Colored(old, c)
  OBVIOUS
<1>3. /\ e \in SnowObject /\ e.color = c /\ e.accepted = old.accepted /\ e.query = old.query
      /\ e.pending = old.pending /\ e.processed = old.processed /\ e.cnt = 0
      /\ e.confidence = old.confidence
  BY <1>2 DEF Colored, SnowObject
<1>4. Truthful(old, snowProposed) /\ Tallied(old)
  BY <1>1 DEF SnowInv
<1>5. Cardinality(old.processed) \in Nat
  <2>1. IsFiniteSet(Query)
    BY SnowAssumption, FS_Interval DEF Query
  <2> QED
    BY <2>1, FS_Subset, FS_CardinalityType DEF SnowObject
<1>6. Truthful(e, P) /\ Tallied(e)
  BY <1>3, <1>4, <1>5 DEF Truthful, Known, Tallied
<1> QED
  BY <1>1, <1>2, <1>3, <1>6

LEMMA SnowProposeStep ==
  ASSUME SnowInv, NEW n \in SnowNode, NEW c \in Color, NEW sample \in Samples(n),
         SnowPropose(n, c, sample), rule' = rule
  PROVE  SnowInv'
<1>1. PICK e : e = Colored(snow[n], c)
  OBVIOUS
<1>2. PICK q : q = FirstQuery(snow[n])
  OBVIOUS
<1>3. /\ snowProposed' = snowProposed \cup {c} /\ snow[n].query = 0
      /\ SendQuery(n, e, q, sample, {}, {})
  BY <1>1, <1>2 DEF SnowPropose, Starts
<1> snowProposed \subseteq snowProposed' /\ Known(c, snowProposed')
  BY <1>3 DEF Known
<1>4. /\ e \in SnowObject /\ Truthful(e, snowProposed') /\ Tallied(e) /\ e.color = c
      /\ e.processed = snow[n].processed
  BY <1>1, SnowColored
<1>5. q = 1
  BY <1>2, <1>3 DEF FirstQuery
<1>6. c # Uncolored /\ snowProposed' \subseteq Color /\ sample \in SUBSET SnowNode
  BY <1>3 DEF SnowInv, SnowTypeOK, Color, Uncolored, Samples, kSubset
<1>7. q \in Nat \ {0} /\ 1 .. q - 1 \subseteq e.processed
  BY <1>5
<1>8. /\ snowProposed \subseteq snowProposed' /\ snow[n].processed \subseteq e.processed
      /\ e.color # Uncolored /\ SendQuery(n, e, q, sample, {}, {})
  BY <1>3, <1>4, <1>6
<1> QED
  BY <1>4, <1>6, <1>7, <1>8, SnowSends

LEMMA SnowResponse ==
  ASSUME SnowInv, NEW n \in SnowNode, NEW m \in snowSent, m.type = "query",
         NEW c \in Color
  PROVE  LET k == Response(n, m, c)
         IN /\ k \in Datagram /\ k.color = c /\ Asker(k) = Asker(m) /\ k.query = m.query
BY DEF SnowInv, SnowTypeOK, Datagram, Response, Asker

LEMMA SnowAdoptStep ==
  ASSUME SnowInv, NEW n \in SnowNode, NEW m \in snowSent, NEW sample \in Samples(n),
         Adopt(n, m, sample), rule' = rule
  PROVE  SnowInv'
<1>1. PICK e : e = Colored(snow[n], m.color)
  OBVIOUS
<1>2. PICK q : q = FirstQuery(e)
  OBVIOUS
<1>3. /\ snowProposed' = snowProposed /\ m.type = "query"
      /\ SendQuery(n, e, q, sample, {m}, {Response(n, m, e.color)})
  BY <1>1, <1>2 DEF Adopt
<1>4. m.color \in Color /\ Known(m.color, snowProposed) /\ snowProposed \subseteq Color
  BY DEF SnowInv, SnowTypeOK, Datagram
<1>5. /\ e \in SnowObject /\ Truthful(e, snowProposed') /\ Tallied(e) /\ e.color = m.color
      /\ e.processed = snow[n].processed
  BY <1>1, <1>3, <1>4, SnowColored
<1>6. q \in Nat \ {0} /\ (rule = "slush" => q = 1)
  BY <1>2, <1>5, SnowAssumption DEF FirstQuery, SnowObject
<1>7. m.color # Uncolored /\ sample \in SUBSET SnowNode
  BY <1>4 DEF Color, Uncolored, Samples, kSubset
<1>8. rule = "slush" => 1 .. q - 1 \subseteq e.processed
  BY <1>6
<1>9. \A k \in {Response(n, m, e.color)} :
        k \in Datagram /\ Known(k.color, snowProposed') /\
        \E j \in snowSent : Asker(k) = Asker(j) /\ k.query = j.query
  BY <1>3, <1>4, <1>5, SnowResponse
<1> QED
  BY <1>3, <1>4, <1>5, <1>6, <1>7, <1>8, <1>9, SnowSends

LEMMA SnowAnswerStep ==
  ASSUME SnowInv, NEW n \in SnowNode, NEW m \in snowSent, Answer(n, m), rule' = rule
  PROVE  SnowInv'
<1>1. PICK e \in SnowObject : e = snow[n]
  BY DEF SnowInv, SnowTypeOK
<1>2. /\ snow' = snow /\ snowProposed' = snowProposed /\ m.type = "query"
      /\ snowSent' = (snowSent \ {m}) \cup {Response(n, m, e.color)}
      /\ e.color # Uncolored
  BY <1>1 DEF Answer
<1>3. /\ Truthful(e, snowProposed) /\ Tallied(e) /\ Asked(snow[Asker(m)], m)
      /\ snowProposed \subseteq Color /\ snow \in [SnowNode -> SnowObject]
  BY <1>1 DEF SnowInv, SnowTypeOK
<1>4. e.color \in Color /\ Known(e.color, snowProposed)
  BY <1>2, <1>3 DEF Truthful, Known, SnowObject
<1>5. ASSUME NEW k \in snowSent' \ snowSent
      PROVE  k \in Datagram /\ Known(k.color, snowProposed') /\ Asked(snow'[Asker(k)], k)
  <2>1. k = Response(n, m, e.color)
    BY <1>2
  <2> QED
    BY <2>1, <1>2, <1>3, <1>4, SnowResponse DEF Asked
<1>6. snow' = [snow EXCEPT ![n] = e]
  BY <1>1, <1>2, <1>3
<1> QED
  BY <1>1, <1>2, <1>3, <1>5, <1>6, SnowMove

(* An answer that is noted. *)
LEMMA SnowNoted ==
  ASSUME SnowInv, NEW n \in SnowNode, NEW m \in snowSent
  PROVE  LET e == Noted(n, m)
             old == snow[n]
         IN /\ e \in SnowObject /\ Truthful(e, snowProposed)
            /\ e.color = old.color /\ e.processed = old.processed /\ e.query = old.query
            /\ e.cnt = old.cnt /\ e.confidence = old.confidence
            /\ e.accepted = old.accepted /\ Tallied(e)
            /\ m.query \in Query
<1>1. PICK old \in SnowObject : old = snow[n]
  BY DEF SnowInv, SnowTypeOK
<1>2. PICK e : e = Noted(n, m)
  OBVIOUS
<1>3. Truthful(old, snowProposed) /\ Tallied(old) /\ Known(m.color, snowProposed)
  BY <1>1 DEF SnowInv
<1>4. m.query \in Query /\ m.from \in SnowNode /\ m.color \in Color
  BY DEF SnowInv, SnowTypeOK, Datagram
<1>5. PICK row : row = [old.pending[m.query] EXCEPT ![m.from] = m.color]
  OBVIOUS
<1>6. PICK table : table = [old.pending EXCEPT ![m.query] = row]
  OBVIOUS
<1>7. old.pending[m.query] \in [SnowNode -> Color \cup {Uncolored}]
  BY <1>4 DEF SnowObject
<1>8. /\ row \in [SnowNode -> Color \cup {Uncolored}]
      /\ \A p \in SnowNode : row[p] = IF p = m.from THEN m.color
                                      ELSE old.pending[m.query][p]
  BY <1>4, <1>5, <1>7
<1>9. /\ table \in [Query -> [SnowNode -> Color \cup {Uncolored}]]
      /\ \A q \in Query : table[q] = IF q = m.query THEN row ELSE old.pending[q]
  BY <1>4, <1>6, <1>8 DEF SnowObject
<1>10. e = [old EXCEPT !.pending = table]
  BY <1>1, <1>2, <1>5, <1>6 DEF Noted, SnowObject
<1>11. /\ e \in SnowObject /\ e.pending = table
       /\ e.color = old.color /\ e.processed = old.processed /\ e.query = old.query
       /\ e.cnt = old.cnt /\ e.confidence = old.confidence /\ e.accepted = old.accepted
  BY <1>9, <1>10 DEF SnowObject
<1>12. Truthful(e, snowProposed) /\ Tallied(e)
  BY <1>3, <1>8, <1>9, <1>11 DEF Truthful, Known, Tallied
<1> QED
  BY <1>1, <1>2, <1>4, <1>11, <1>12

LEMMA SnowCollectStep ==
  ASSUME SnowInv, NEW n \in SnowNode, NEW m \in snowSent, Collect(n, m), rule' = rule
  PROVE  SnowInv'
<1>1. PICK e : e = Noted(n, m)
  OBVIOUS
<1>2. /\ snow' = [snow EXCEPT ![n] = e] /\ snowSent' = snowSent
      /\ snowProposed' = snowProposed
  BY <1>1 DEF Collect
<1>3. /\ e \in SnowObject /\ Truthful(e, snowProposed) /\ Tallied(e)
      /\ e.color = snow[n].color /\ e.processed = snow[n].processed
  BY <1>1, SnowNoted
<1>4. snowProposed \subseteq Color
  BY DEF SnowInv, SnowTypeOK
<1> QED
  BY <1>2, <1>3, <1>4, SnowMove

LEMMA SnowSettleStep ==
  ASSUME SnowInv, NEW n \in SnowNode, NEW m \in snowSent,
         NEW sample \in Samples(n), Settle(n, m, sample), rule' = rule
  PROVE  SnowInv'
<1>1. PICK noted : noted = Noted(n, m)
  OBVIOUS
<1>2. /\ noted \in SnowObject /\ Truthful(noted, snowProposed) /\ Tallied(noted)
      /\ noted.color = snow[n].color /\ noted.processed = snow[n].processed
      /\ noted.accepted = snow[n].accepted /\ m.query \in Query
  BY <1>1, SnowNoted
<1>3. PICK q \in Query : q = m.query
  BY <1>2
<1>4. PICK e : e = [noted EXCEPT !.processed = @ \cup {q}]
  OBVIOUS
<1>5. PICK new : new = SnowStep(e, q)
  OBVIOUS
<1>6. PICK next : next = IF rule = "slush" THEN q + 1 ELSE e.query + 1
  OBVIOUS
<1>7. /\ snow[n].accepted = Uncolored /\ q \notin snow[n].processed
      /\ snowProposed' = snowProposed /\ m.type = "response" /\ m.to = n
      /\ IF new.accepted # Uncolored \/ Stalls(e, q)
         THEN snow' = [snow EXCEPT ![n] = new] /\ snowSent' = snowSent
         ELSE SendQuery(n, new, next, sample, {}, {})
  BY <1>1, <1>3, <1>4, <1>5, <1>6 DEF Settle, Arrives, Settled
<1>8. snow[n].color # Uncolored /\ (rule = "slush" => 1 .. q - 1 \subseteq snow[n].processed)
  BY <1>3, <1>7 DEF SnowInv, Asker, Asked
<1>9. /\ e \in SnowObject /\ e.processed = noted.processed \cup {q}
      /\ e.color = noted.color /\ e.accepted = Uncolored /\ e.pending = noted.pending
      /\ e.cnt = noted.cnt /\ e.confidence = noted.confidence /\ e.query = noted.query
  BY <1>2, <1>4, <1>7 DEF SnowObject
<1>10. Truthful(e, snowProposed) /\ e.color # Uncolored
  BY <1>2, <1>8, <1>9 DEF Truthful, Known
<1>11. rule \in {"slush", "snowflake", "snowball"}
  BY DEF SnowInv, SnowTypeOK
<1>12. Advances(e, new, q, snowProposed)
  <2>1. CASE rule = "slush"
    BY <2>1, <1>5, <1>9, <1>10, SlushAdvances DEF SnowStep
  <2>2. CASE rule = "snowflake"
    BY <2>2, <1>5, <1>9, <1>10, SnowflakeAdvances DEF SnowStep
  <2>3. CASE rule = "snowball"
    BY <2>3, <1>5, <1>9, <1>10, SnowballAdvances DEF SnowStep
  <2> QED
    BY <1>11, <2>1, <2>2, <2>3
<1>13. /\ Cardinality(e.processed) = Cardinality(noted.processed) + 1
       /\ Cardinality(noted.processed) \in Nat
  <2>1. IsFiniteSet(Query)
    BY SnowAssumption, FS_Interval DEF Query
  <2>2. IsFiniteSet(noted.processed) /\ q \notin noted.processed
    BY <1>2, <1>7, <2>1, FS_Subset DEF SnowObject
  <2> QED
    BY <1>9, <2>2, FS_AddElement, FS_CardinalityType
<1>14. rule = "slush" => 1 .. q \subseteq e.processed
  BY <1>2, <1>8, <1>9, SnowAssumption DEF Query
<1>15. /\ new \in SnowObject /\ Truthful(new, snowProposed) /\ new.color # Uncolored
       /\ new.processed = e.processed
  BY <1>12 DEF Advances
<1>16. Tallied(new)
  <2>1. /\ new.cnt \in Nat /\ new.confidence["red"] \in Nat /\ new.confidence["blue"] \in Nat
        /\ e.cnt \in Nat /\ e.confidence["red"] \in Nat /\ e.confidence["blue"] \in Nat
    BY <1>9, <1>15 DEF SnowObject, Color
  <2>2. /\ new.cnt <= Cardinality(new.processed)
        /\ new.confidence["red"] + new.confidence["blue"] <= Cardinality(new.processed)
    BY <2>1, <1>2, <1>9, <1>12, <1>13, <1>15 DEF Advances, Tallied
  <2>3. ASSUME rule = "slush", new.accepted # Uncolored
        PROVE  1 .. SlushRounds \subseteq new.processed
    <3>1. q >= SlushRounds
      BY <2>3, <1>9, <1>12 DEF Advances
    <3> QED
      BY <2>3, <3>1, <1>14, <1>15, SnowAssumption DEF Query
  <2> QED
    BY <2>2, <2>3 DEF Tallied
<1>17. snow[n].processed \subseteq new.processed /\ snowProposed \subseteq Color
  BY <1>2, <1>9, <1>15 DEF SnowInv, SnowTypeOK
<1>18. CASE new.accepted # Uncolored \/ Stalls(e, q)
  BY <1>7, <1>15, <1>16, <1>17, <1>18, SnowMove
<1>19. CASE ~(new.accepted # Uncolored \/ Stalls(e, q))
  <2>1. next \in Nat \ {0} /\ (rule = "slush" => next - 1 = q)
    <3>1. q \in Nat /\ e.query \in Nat
      BY <1>9, SnowAssumption DEF SnowObject, Query
    <3>2. next = q + 1 \/ (rule # "slush" /\ next = e.query + 1)
      BY <1>6
    <3> QED
      BY <3>1, <3>2
  <2>2. rule = "slush" => 1 .. next - 1 \subseteq new.processed
    BY <2>1, <1>14, <1>15
  <2>3. SendQuery(n, new, next, sample, {}, {}) /\ sample \in SUBSET SnowNode
    BY <1>7, <1>19 DEF Samples, kSubset
  <2>4. Truthful(new, snowProposed')
    BY <1>7, <1>15
  <2>5. snowProposed \subseteq snowProposed' /\ snowProposed' \subseteq Color
    BY <1>7, <1>17
  <2> QED
    BY <1>15, <1>16, <1>17, <2>1, <2>2, <2>3, <2>4, <2>5, SnowSends
<1> QED
  BY <1>18, <1>19

-----------------------------------------------------------------------------
(* Where a sample that reaches alpha holds an answer at all, the Snow      *)
(* protocols keep to colors that were proposed and settle a query once.    *)
THEOREM SnowInvariant == SnowSpec => []SnowInv
<1>1. SnowInit => SnowInv
  <2> SUFFICES ASSUME SnowInit PROVE SnowInv
    OBVIOUS
  <2>1. 0 \in 0 .. MaxQuery
    BY SnowAssumption
  <2>2. SnowTypeOK
    BY <2>1 DEF SnowInit, SnowTypeOK, SnowObject, NoAnswers
  <2>3. \A n \in SnowNode : Truthful(snow[n], snowProposed)
    BY DEF SnowInit, Truthful, Known, NoAnswers
  <2>4. ASSUME NEW n \in SnowNode PROVE Tallied(snow[n])
    <3>1. /\ snow[n].cnt = 0 /\ snow[n].processed = {} /\ snow[n].accepted = Uncolored
          /\ snow[n].confidence["red"] = 0 /\ snow[n].confidence["blue"] = 0
      BY DEF SnowInit, Color
    <3>2. Cardinality({}) = 0
      BY FS_EmptySet
    <3> QED
      BY <3>1, <3>2 DEF Tallied
  <2> QED
    BY <2>2, <2>3, <2>4 DEF SnowInit, SnowInv
<1>2. SnowInv /\ [SnowNext]_snowVars => SnowInv'
  <2> SUFFICES ASSUME SnowInv, [SnowNext]_snowVars PROVE SnowInv'
    OBVIOUS
  <2>1. CASE UNCHANGED snowVars
    BY <2>1 DEF SnowInv, SnowTypeOK, Truthful, Known, Tallied, Asked, snowVars
  <2>2. CASE SnowNext
    BY <2>2, SnowProposeStep, SnowAdoptStep, SnowSettleStep, SnowAnswerStep,
       SnowCollectStep DEF SnowNext
  <2> QED
    BY <2>1, <2>2
<1> QED
  BY <1>1, <1>2, PTL DEF SnowSpec

(* No color comes from nowhere (examples/slush_protocol.py,                *)
(* snowflake_protocol.py and snowball_protocol.py).                        *)
THEOREM SnowValidityHolds ==
  ASSUME SnowThreshold > 0 PROVE SnowSpec => []SnowValidity
<1>1. SnowInv => SnowValidity
  BY DEF SnowInv, SnowValidity, Truthful, Known
<1> QED
  BY <1>1, SnowInvariant, PTL

(* A query moves the counters once at most, and Slush accepts after all of *)
(* its rounds (the processed sets of the three protocols).                 *)
THEOREM SnowCountedOnceHolds == SnowSpec => []SnowCountedOnce
<1>1. SnowInv => SnowCountedOnce
  BY DEF SnowInv, SnowCountedOnce, Tallied
<1> QED
  BY <1>1, SnowInvariant, PTL

-----------------------------------------------------------------------------
(* Avalanche, the engine of one node.  A conflict set holds the known      *)
(* transactions in conflict, its preference leads them in confidence, and  *)
(* a run of successes ends with a member that has won a query.             *)
AvaLeads(e) ==
  /\ \A c \in Conflict :
       /\ e.set[c].members = {t \in e.known : ConflictOf[t] = c}
       /\ e.set[c].members = {} => e.set[c].pref = NoTx
       /\ e.set[c].members # {} =>
            /\ e.set[c].pref \in e.set[c].members
            /\ \A t \in e.set[c].members : e.d[e.set[c].pref] >= e.d[t]
       /\ e.set[c].cnt > 0 => e.set[c].last \in e.set[c].members /\ e.d[e.set[c].last] > 0
  /\ \A t \in Tx \ e.known : e.d[t] = 0
  /\ \A t \in e.accepted : t \in e.known /\ e.d[t] > 0

AvaGood(e) == e \in AvaEngine /\ AvaLeads(e)

AvaInv == AvaTypeOK /\ \A n \in AvaNode : AvaLeads(ava[n])

AvaSets == [members : SUBSET Tx, pref : Tx \cup {NoTx}, last : Tx \cup {NoTx}, cnt : Nat]

(* A new transaction joins its conflict set with no confidence. *)
LEMMA AvaAddTxGood ==
  ASSUME NEW e, AvaGood(e), NEW t \in Tx, t \notin e.known
  PROVE  AvaGood(AddTx(e, t))
<1>1. PICK k : k = ConflictOf[t]
  OBVIOUS
<1>2. k \in Conflict
  BY <1>1 DEF Conflict
<1>3. PICK c : c = e.set[k]
  OBVIOUS
<1>4. /\ e.set \in [Conflict -> AvaSets] /\ c \in AvaSets /\ e.known \in SUBSET Tx
      /\ e.d \in [Tx -> 0 .. MaxSuccess]
  BY <1>2, <1>3 DEF AvaGood, AvaEngine, AvaSets
<1>5. PICK pref : pref = IF c.pref = NoTx THEN t ELSE c.pref
  OBVIOUS
<1>6. PICK joined : joined = [c EXCEPT !.members = c.members \cup {t}, !.pref = pref]
  OBVIOUS
<1>7. /\ joined \in AvaSets /\ joined.members = c.members \cup {t} /\ joined.pref = pref
      /\ joined.last = c.last /\ joined.cnt = c.cnt
  BY <1>4, <1>5, <1>6 DEF AvaSets
<1>8. PICK known : known = e.known \cup {t}
  OBVIOUS
<1>9. PICK set : set = [e.set EXCEPT ![k] = joined]
  OBVIOUS
<1>10. /\ set \in [Conflict -> AvaSets]
       /\ \A j \in Conflict : set[j] = IF j = k THEN joined ELSE e.set[j]
  BY <1>2, <1>4, <1>7, <1>9
<1>11. PICK new : new = AddTx(e, t)
  OBVIOUS
<1>12. joined = [c EXCEPT !.members = @ \cup {t}, !.pref = IF @ = NoTx THEN t ELSE @]
  BY <1>4, <1>5, <1>6 DEF AvaSets
<1>13. new = [e EXCEPT !.known = known, !.set = set]
  BY <1>1, <1>3, <1>8, <1>9, <1>11, <1>12 DEF AddTx, AvaGood, AvaEngine
<1>14. /\ new \in AvaEngine /\ new.known = known /\ new.set = set /\ new.d = e.d
       /\ new.accepted = e.accepted
  BY <1>4, <1>8, <1>10, <1>13 DEF AvaGood, AvaEngine, AvaSets
<1>15. AvaLeads(e) /\ e.d[t] = 0 /\ \A u \in Tx : e.d[u] \in Nat
  BY <1>4, AvaAssumption DEF AvaGood, AvaLeads
<1>16. ASSUME NEW j \in Conflict
       PROVE  /\ set[j].members = {u \in known : ConflictOf[u] = j}
              /\ set[j].members = {} => set[j].pref = NoTx
              /\ set[j].members # {} =>
                   /\ set[j].pref \in set[j].members
                   /\ \A u \in set[j].members : e.d[set[j].pref] >= e.d[u]
              /\ set[j].cnt > 0 => set[j].last \in set[j].members /\ e.d[set[j].last] > 0
  <2>1. CASE j # k
    BY <2>1, <1>1, <1>8, <1>10, <1>15 DEF AvaLeads
  <2>2. CASE j = k
    <3>1. /\ c.members = {u \in e.known : ConflictOf[u] = k}
          /\ c.cnt > 0 => c.last \in c.members /\ e.d[c.last] > 0
      BY <1>2, <1>3, <1>15 DEF AvaLeads
    <3>2. joined.members = {u \in known : ConflictOf[u] = k}
      BY <3>1, <1>1, <1>7, <1>8
    <3>3. CASE c.members # {}
      <4>1. c.pref \in c.members /\ \A u \in c.members : e.d[c.pref] >= e.d[u]
        BY <3>3, <1>2, <1>3, <1>15 DEF AvaLeads
      <4>2. c.pref \in Tx /\ pref = c.pref
        BY <4>1, <1>4, <1>5, AvaAssumption DEF AvaSets
      <4> QED
        BY <2>2, <3>1, <3>2, <4>1, <4>2, <1>7, <1>10, <1>15
    <3>4. CASE c.members = {}
      <4>1. joined.members = {t} /\ pref \in Tx \cup {NoTx}
        BY <3>4, <1>4, <1>5, <1>7 DEF AvaSets
      <4>2. pref = t
        BY <3>4, <1>2, <1>3, <1>5, <1>15 DEF AvaLeads
      <4> QED
        BY <2>2, <3>1, <3>2, <3>4, <4>1, <4>2, <1>7, <1>10, <1>15
    <3> QED
      BY <3>3, <3>4
  <2> QED
    BY <2>1, <2>2
<1>17. AvaLeads(new)
  BY <1>8, <1>14, <1>15, <1>16 DEF AvaLeads
<1> QED
  BY <1>11, <1>14, <1>17 DEF AvaGood

(* What a query does to the conflict set of t, and to t's confidence: the  *)
(* rest of the engine stays.                                               *)
LEMMA AvaConflictGood ==
  ASSUME NEW e, AvaGood(e), NEW t \in e.known, NEW s \in AvaSets,
         NEW d \in [Tx -> 0 .. MaxSuccess],
         s.members = e.set[ConflictOf[t]].members,
         \A u \in Tx : u # t => d[u] = e.d[u],
         d[t] >= e.d[t],
         s.pref \in s.members, \A u \in s.members : d[s.pref] >= d[u],
         s.cnt > 0 => s.last \in s.members /\ d[s.last] > 0
  PROVE  AvaGood([e EXCEPT !.d = d, !.set = [e.set EXCEPT ![ConflictOf[t]] = s]])
<1>1. PICK k : k = ConflictOf[t]
  OBVIOUS
<1>2. /\ k \in Conflict /\ t \in Tx /\ e.set \in [Conflict -> AvaSets]
      /\ e.d \in [Tx -> 0 .. MaxSuccess] /\ AvaLeads(e) /\ e.known \subseteq Tx
  BY <1>1 DEF AvaGood, AvaEngine, AvaSets, Conflict
<1>3. PICK set : set = [e.set EXCEPT ![k] = s]
  OBVIOUS
<1>4. /\ set \in [Conflict -> AvaSets]
      /\ \A j \in Conflict : set[j] = IF j = k THEN s ELSE e.set[j]
  BY <1>2, <1>3
<1>5. PICK new : new = [e EXCEPT !.d = d, !.set = set]
  OBVIOUS
<1>6. /\ new \in AvaEngine /\ new.known = e.known /\ new.set = set /\ new.d = d
      /\ new.accepted = e.accepted
  BY <1>4, <1>5 DEF AvaGood, AvaEngine, AvaSets
<1>7. \A u \in Tx : d[u] \in Nat /\ e.d[u] \in Nat
  BY <1>2, AvaAssumption
<1>8. ASSUME NEW j \in Conflict
      PROVE  /\ set[j].members = {u \in e.known : ConflictOf[u] = j}
             /\ set[j].members = {} => set[j].pref = NoTx
             /\ set[j].members # {} =>
                  /\ set[j].pref \in set[j].members
                  /\ \A u \in set[j].members : d[set[j].pref] >= d[u]
             /\ set[j].cnt > 0 => set[j].last \in set[j].members /\ d[set[j].last] > 0
  <2>1. CASE j = k
    BY <2>1, <1>1, <1>2, <1>4 DEF AvaLeads
  <2>2. CASE j # k
    <3>1. set[j] = e.set[j]
      BY <1>4, <2>2
    <3>2. \A u \in set[j].members : u \in Tx /\ d[u] = e.d[u]
      BY <1>1, <1>2, <2>2, <3>1 DEF AvaLeads
    <3> QED
      BY <1>2, <3>1, <3>2 DEF AvaLeads
  <2> QED
    BY <2>1, <2>2
<1>9. AvaLeads(new)
  <2>1. \A u \in Tx \ e.known : d[u] = 0
    BY <1>2 DEF AvaLeads
  <2>2. \A u \in e.accepted : u \in e.known /\ d[u] > 0
    BY <1>2, <1>7 DEF AvaLeads
  <2> QED
    BY <2>1, <2>2, <1>6, <1>8 DEF AvaLeads
<1> QED
  BY <1>1, <1>3, <1>5, <1>6, <1>9 DEF AvaGood

LEMMA AvaSucceededGood ==
  ASSUME NEW e, AvaGood(e), NEW t \in e.known, e.d[t] < MaxSuccess
  PROVE  AvaGood(Succeeded(e, t))
<1>1. PICK k : k = ConflictOf[t]
  OBVIOUS
<1>2. PICK c : c = e.set[k]
  OBVIOUS
<1>3. /\ k \in Conflict /\ t \in Tx /\ e.set \in [Conflict -> AvaSets]
      /\ e.d \in [Tx -> 0 .. MaxSuccess] /\ AvaLeads(e) /\ e.known \subseteq Tx
      /\ c \in AvaSets
  BY <1>1, <1>2 DEF AvaGood, AvaEngine, AvaSets, Conflict
<1>4. /\ t \in c.members /\ c.pref \in c.members /\ c.pref \in Tx
      /\ \A u \in c.members : u \in Tx /\ e.d[c.pref] >= e.d[u]
  BY <1>1, <1>2, <1>3 DEF AvaLeads
<1>5. PICK more \in 0 .. MaxSuccess : more = e.d[t] + 1
  BY <1>3, AvaAssumption
<1>6. PICK d : d = [e.d EXCEPT ![t] = more]
  OBVIOUS
<1>7. /\ d \in [Tx -> 0 .. MaxSuccess] /\ d[t] = more /\ \A u \in Tx : u # t => d[u] = e.d[u]
  BY <1>3, <1>6
<1>8. PICK pref : pref = IF e.d[c.pref] <= e.d[t] THEN t ELSE c.pref
  OBVIOUS
<1>9. PICK cnt \in Nat : cnt = IF c.last = t THEN c.cnt + 1 ELSE 1
  BY <1>3 DEF AvaSets
<1>10. PICK s : s = [c EXCEPT !.pref = pref, !.last = t, !.cnt = cnt]
  OBVIOUS
<1>11. /\ s \in AvaSets /\ s.members = c.members /\ s.pref = pref /\ s.last = t
       /\ s.cnt = cnt
  BY <1>3, <1>4, <1>8, <1>10 DEF AvaSets
<1>12. \A u \in Tx : e.d[u] \in Nat
  BY <1>3, AvaAssumption
<1>13. pref \in c.members /\ \A u \in c.members : d[pref] >= d[u]
  BY <1>4, <1>5, <1>7, <1>8, <1>12
<1>14. more > 0 /\ more >= e.d[t]
  BY <1>5, <1>12, <1>3
<1>15. s = [c EXCEPT !.pref = IF e.d[@] <= e.d[t] THEN t ELSE @, !.last = t,
                     !.cnt = IF c.last = t THEN @ + 1 ELSE 1]
  BY <1>3, <1>8, <1>9, <1>10 DEF AvaSets
<1>16. Succeeded(e, t) = [e EXCEPT !.d = d, !.set = [e.set EXCEPT ![k] = s]]
  BY <1>1, <1>2, <1>5, <1>6, <1>15 DEF Succeeded, AvaGood, AvaEngine
<1>17. AvaGood([e EXCEPT !.d = d, !.set = [e.set EXCEPT ![k] = s]])
  BY <1>1, <1>2, <1>4, <1>7, <1>11, <1>13, <1>14, AvaConflictGood
<1> QED
  BY <1>16, <1>17

LEMMA AvaFailedGood ==
  ASSUME NEW e, AvaGood(e), NEW t \in e.known
  PROVE  AvaGood(Failed(e, t))
<1>1. PICK k : k = ConflictOf[t]
  OBVIOUS
<1>2. PICK c : c = e.set[k]
  OBVIOUS
<1>3. /\ k \in Conflict /\ t \in Tx /\ e.set \in [Conflict -> AvaSets]
      /\ e.d \in [Tx -> 0 .. MaxSuccess] /\ AvaLeads(e) /\ e.known \subseteq Tx
      /\ c \in AvaSets
  BY <1>1, <1>2 DEF AvaGood, AvaEngine, AvaSets, Conflict
<1>4. /\ t \in c.members /\ c.pref \in c.members
      /\ \A u \in c.members : e.d[c.pref] >= e.d[u]
  BY <1>1, <1>2, <1>3 DEF AvaLeads
<1>5. PICK s : s = [c EXCEPT !.cnt = 0]
  OBVIOUS
<1>6. s \in AvaSets /\ s.members = c.members /\ s.pref = c.pref /\ s.cnt = 0
  BY <1>3, <1>5 DEF AvaSets
<1>7. PICK d : d = e.d
  OBVIOUS
<1>8. /\ d \in [Tx -> 0 .. MaxSuccess] /\ d[t] >= e.d[t] /\ \A u \in Tx : d[u] = e.d[u]
      /\ s.pref \in s.members /\ \A u \in s.members : d[s.pref] >= d[u]
      /\ s.members = e.set[ConflictOf[t]].members
      /\ ~(s.cnt > 0)
  BY <1>1, <1>2, <1>3, <1>4, <1>6, <1>7, AvaAssumption
<1>9. AvaGood([e EXCEPT !.d = d, !.set = [e.set EXCEPT ![k] = s]])
  BY <1>1, <1>6, <1>8, AvaConflictGood
<1>10. Failed(e, t) = [e EXCEPT !.d = d, !.set = [e.set EXCEPT ![k] = s]]
  BY <1>1, <1>2, <1>5, <1>7 DEF Failed, AvaGood, AvaEngine
<1> QED
  BY <1>9, <1>10

(* What is accepted is the preference of its conflict set after successes. *)
LEMMA AvaTryAcceptGood ==
  ASSUME NEW e, AvaGood(e)
  PROVE  AvaGood(TryAcceptAll(e))
<1>1. PICK closed : closed = {A \in SUBSET e.known :
                   /\ e.accepted \subseteq A
                   /\ \A t \in e.known : CanAccept(e, t, A) => t \in A}
  OBVIOUS
<1>2. PICK acc : acc = {t \in e.known : \A A \in closed : t \in A}
  OBVIOUS
<1>3. PICK B : B = e.accepted \cup {t \in e.known : LET c == e.set[ConflictOf[t]]
                                                   IN c.pref = t /\ c.cnt > 0}
  OBVIOUS
<1>4. /\ e \in AvaEngine /\ AvaLeads(e) /\ e.known \subseteq Tx /\ e.accepted \subseteq e.known
      /\ \A c \in Conflict : e.set[c] \in AvaSets
  BY DEF AvaGood, AvaEngine, AvaLeads, AvaSets
<1>5. B \in closed
  <2>1. ASSUME NEW t \in e.known, CanAccept(e, t, B) PROVE t \in B
    <3>1. PICK c \in AvaSets : c = e.set[ConflictOf[t]]
      BY <1>4 DEF Conflict
    <3>2. c.pref = t /\ c.cnt \in Nat /\ (c.cnt >= Beta1 \/ c.cnt >= Beta2)
      BY <2>1, <3>1 DEF CanAccept, AvaSets
    <3>3. c.cnt > 0
      BY <3>2, AvaAssumption
    <3> QED
      BY <1>3, <3>1, <3>2, <3>3
  <2> QED
    BY <1>1, <1>3, <1>4, <2>1
<1>6. acc \subseteq B /\ acc \subseteq e.known
  BY <1>2, <1>5
<1>7. ASSUME NEW t \in acc PROVE t \in e.known /\ e.d[t] > 0
  <2>1. CASE t \in e.accepted
    BY <2>1, <1>4 DEF AvaLeads
  <2>2. CASE t \notin e.accepted
    <3>1. PICK c \in AvaSets : c = e.set[ConflictOf[t]]
      BY <1>4, <1>6 DEF Conflict
    <3>2. t \in e.known /\ c.pref = t /\ c.cnt > 0
      BY <2>2, <3>1, <1>3, <1>6
    <3>3. /\ c.last \in c.members /\ e.d[c.last] > 0 /\ e.d[c.pref] >= e.d[c.last]
          /\ c.last \in Tx
      BY <3>1, <3>2, <1>4 DEF AvaLeads, Conflict
    <3>4. e.d[c.last] \in Nat /\ e.d[t] \in Nat
      BY <3>2, <3>3, <1>4, AvaAssumption DEF AvaEngine
    <3> QED
      BY <3>2, <3>3, <3>4
  <2> QED
    BY <2>1, <2>2
<1>8. PICK new : new = [e EXCEPT !.accepted = acc]
  OBVIOUS
<1>9. /\ new \in AvaEngine /\ new.known = e.known /\ new.set = e.set /\ new.d = e.d
      /\ new.accepted = acc
  BY <1>4, <1>6, <1>8 DEF AvaEngine
<1>10. AvaLeads(new)
  BY <1>4, <1>7, <1>9 DEF AvaLeads
<1>11. new = TryAcceptAll(e)
  BY <1>1, <1>2, <1>8 DEF TryAcceptAll
<1> QED
  BY <1>9, <1>10, <1>11 DEF AvaGood

(* A step in which the engine of n becomes e. *)
LEMMA AvaStep ==
  ASSUME AvaInv, NEW n \in AvaNode, NEW e, AvaGood(e), ava' = [ava EXCEPT ![n] = e],
         avaSent' \subseteq Tx
  PROVE  AvaInv'
<1>1. \A m \in AvaNode : ava'[m] = IF m = n THEN e ELSE ava[m]
  BY DEF AvaInv, AvaTypeOK
<1>2. AvaTypeOK'
  BY DEF AvaInv, AvaTypeOK, AvaGood
<1>3. \A m \in AvaNode : AvaLeads(ava'[m])
  BY <1>1 DEF AvaInv, AvaGood
<1>4. ASSUME NEW m \in AvaNode PROVE AvaLeads(ava[m])'
  BY <1>3 DEF AvaLeads
<1> QED
  BY <1>2, <1>4 DEF AvaInv

LEMMA AvaEngines ==
  ASSUME AvaInv, NEW n \in AvaNode
  PROVE  AvaGood(ava[n])
BY DEF AvaInv, AvaTypeOK, AvaGood

(* The preference of a conflict set leads its members and an accepted      *)
(* transaction won a query (consensus/gossip/avalanche.py), for every DAG, *)
(* sample and order of arrival.                                            *)
THEOREM AvaPreferenceHolds == AvaSpec => [](AvaTypeOK /\ AvaPreferenceLeads)
<1>1. AvaInit => AvaInv
  <2> SUFFICES ASSUME AvaInit PROVE AvaInv
    OBVIOUS
  <2>1. 0 \in 0 .. MaxSuccess
    BY AvaAssumption
  <2>2. AvaTypeOK
    BY <2>1 DEF AvaInit, AvaTypeOK, AvaEngine
  <2> QED
    BY <2>2 DEF AvaInit, AvaInv, AvaLeads
<1>2. AvaInv /\ [AvaNext]_avaVars => AvaInv'
  <2> SUFFICES ASSUME AvaInv, [AvaNext]_avaVars PROVE AvaInv'
    OBVIOUS
  <2>1. ASSUME NEW n \in AvaNode, NEW t \in Tx, AvaPropose(n, t) PROVE AvaInv'
    <3>1. /\ AvaGood(AddTx(ava[n], t)) /\ ava' = [ava EXCEPT ![n] = AddTx(ava[n], t)]
          /\ avaSent' \subseteq Tx
      BY <2>1, AvaEngines, AvaAddTxGood DEF AvaPropose, AvaInv, AvaTypeOK
    <3> QED
      BY <3>1, AvaStep
  <2>2. ASSUME NEW n \in AvaNode, NEW t \in Tx, AvaObserve(n, t) PROVE AvaInv'
    <3>1. /\ AvaGood(AddTx(ava[n], t)) /\ ava' = [ava EXCEPT ![n] = AddTx(ava[n], t)]
          /\ avaSent' \subseteq Tx
      BY <2>2, AvaEngines, AvaAddTxGood DEF AvaObserve, AvaInv, AvaTypeOK
    <3> QED
      BY <3>1, AvaStep
  <2>3. ASSUME NEW n \in AvaNode, NEW t \in Tx, NEW sample, AvaQuery(n, t, sample)
        PROVE  AvaInv'
    <3>1. PICK e : e = ava[n]
      OBVIOUS
    <3>2. AvaGood(e) /\ t \in e.known /\ e.d[t] < MaxSuccess
      BY <2>3, <3>1, AvaEngines DEF AvaQuery
    <3>3. PICK f : f \in {Succeeded(e, t), Failed(e, t)}
                   /\ ava' = [ava EXCEPT ![n] = TryAcceptAll(f)]
      BY <2>3, <3>1 DEF AvaQuery, RecordQuery
    <3>4. AvaGood(TryAcceptAll(f))
      BY <3>2, <3>3, AvaSucceededGood, AvaFailedGood, AvaTryAcceptGood
    <3>5. avaSent' \subseteq Tx
      BY <2>3 DEF AvaQuery, AvaInv, AvaTypeOK
    <3> QED
      BY <3>3, <3>4, <3>5, AvaStep
  <2>4. CASE UNCHANGED avaVars
    BY <2>4 DEF AvaInv, AvaTypeOK, AvaLeads, avaVars
  <2> QED
    BY <2>1, <2>2, <2>3, <2>4 DEF AvaNext
<1>3. AvaInv => AvaTypeOK /\ AvaPreferenceLeads
  <2> SUFFICES ASSUME AvaInv, NEW n \in AvaNode, NEW t \in Tx, t \in ava[n].known
               PROVE  LET e == ava[n]
                          c == e.set[ConflictOf[t]]
                      IN /\ c.pref \in c.members /\ e.d[c.pref] >= e.d[t]
                         /\ t \in e.accepted => e.d[t] > 0
    BY DEF AvaPreferenceLeads, AvaInv
  <2>1. AvaLeads(ava[n]) /\ ConflictOf[t] \in Conflict
    BY DEF AvaInv, Conflict
  <2> QED
    BY <2>1 DEF AvaLeads
<1> QED
  BY <1>1, <1>2, <1>3, PTL DEF AvaSpec

-----------------------------------------------------------------------------
(* Hashgraph.  Of the event that is decided, or is about to be, a quorum   *)
(* of members created descendants.                                         *)
Above(H, known, i) == {j \in known : i \in HgAncestors(H, known, j)}

HgBacking(H, known, i) ==
  Cardinality({H[j].creator : j \in Above(H, known, i)}) >= HgQuorum

HgSupported(H, e, i) == HgBacking(H, e.events, i)

(* An engine in its reachable form, over the events of the history H. *)
HgGood(H, e) ==
  /\ e \in [events : SUBSET DOMAIN H, last : [Member -> EventId \cup {NoEvent}],
            firsts : Seq(Member), decided : EventId \cup {NoEvent}]
  /\ \A w \in Member :
       e.last[w] # NoEvent => e.last[w] \in e.events /\ H[e.last[w]].creator = w
  /\ e.decided # NoEvent => HgSupported(H, e, e.decided)

HgInv ==
  /\ hgEvents \in Seq(HgEvent) /\ Len(hgEvents) <= MaxEvents
  /\ DOMAIN hg = Member /\ hg = [m \in Member |-> hg[m]]
  /\ \A m \in Member : HgGood(hgEvents, hg[m])

(* Knowing more events takes no ancestor away. *)
LEMMA HgAncestorsGrow ==
  ASSUME NEW H, NEW G, NEW known, NEW more, known \subseteq more, NEW i \in known,
         \A k \in known : H[k] = G[k]
  PROVE  HgAncestors(H, known, i) \subseteq HgAncestors(G, more, i)
<1> SUFFICES ASSUME NEW j \in HgAncestors(H, known, i),
                    NEW A \in SUBSET more, i \in more => i \in A,
                    \A k \in A : Parents(G, k) \cap more \subseteq A
             PROVE  j \in A
  BY DEF HgAncestors
<1>1. A \cap known \in SUBSET known /\ i \in A \cap known
  OBVIOUS
<1>2. \A k \in A \cap known : Parents(H, k) \cap known \subseteq A \cap known
  BY DEF Parents
<1> QED
  BY <1>1, <1>2 DEF HgAncestors

LEMMA HgSupportGrows ==
  ASSUME NEW H, NEW G, NEW known, NEW more, known \subseteq more, NEW i,
         \A k \in known : H[k] = G[k], \A k \in more : G[k].creator \in Member,
         HgBacking(H, known, i)
  PROVE  HgBacking(G, more, i)
<1>1. PICK old : old = {H[j].creator : j \in Above(H, known, i)}
  OBVIOUS
<1>2. PICK new : new = {G[j].creator : j \in Above(G, more, i)}
  OBVIOUS
<1>3. ASSUME NEW j \in Above(H, known, i) PROVE j \in Above(G, more, i) /\ H[j] = G[j]
  <2>1. j \in known /\ i \in HgAncestors(H, known, j)
    BY <1>3 DEF Above
  <2>2. HgAncestors(H, known, j) \subseteq HgAncestors(G, more, j)
    BY <2>1, HgAncestorsGrow
  <2> QED
    BY <2>1, <2>2 DEF Above
<1>4. old \subseteq new
  BY <1>1, <1>2, <1>3
<1>5. new \subseteq Member
  BY <1>2 DEF Above
<1>6. IsFiniteSet(new)
  BY <1>5, FS_Subset, HgAssumption
<1>7. IsFiniteSet(old) /\ Cardinality(old) <= Cardinality(new)
  BY <1>4, <1>6, FS_Subset
<1>8. Cardinality(old) \in Nat /\ Cardinality(new) \in Nat
  BY <1>6, <1>7, FS_CardinalityType
<1>9. HgQuorum \in Int
  BY HgAssumption, FS_CardinalityType DEF HgQuorum
<1> QED
  BY <1>1, <1>2, <1>7, <1>8, <1>9 DEF HgBacking

LEMMA HgTryDecideGood ==
  ASSUME NEW H, H \in Seq(HgEvent), Len(H) <= MaxEvents, NEW e, HgGood(H, e)
  PROVE  HgGood(H, TryDecide(H, e))
<1>1. PICK seen : seen = {i \in e.events : StronglySeen(H, e, i)}
  OBVIOUS
<1>2. CASE e.decided # NoEvent \/ seen = {}
  BY <1>1, <1>2 DEF TryDecide
<1>3. CASE e.decided = NoEvent /\ seen # {}
  <2>1. PICK i : i = CHOOSE h \in seen : \A j \in seen : HashRank[h] <= HashRank[j]
    OBVIOUS
  <2>2. seen \subseteq EventId
    BY <1>1, HgAssumption DEF HgGood, EventId
  <2>3. \A j \in seen : HashRank[j] \in Nat
    BY <2>2, HgAssumption
  <2>4. \E j \in seen : \A k \in seen : HashRank[j] <= HashRank[k]
    BY <1>3, <2>3, Least
  <2>5. i \in seen
    BY <2>1, <2>4
  <2>6. PICK d : d = [e EXCEPT !.decided = i]
    OBVIOUS
  <2>7. /\ d.events = e.events /\ d.last = e.last /\ d.firsts = e.firsts /\ d.decided = i
        /\ d \in [events : SUBSET DOMAIN H, last : [Member -> EventId \cup {NoEvent}],
                  firsts : Seq(Member), decided : EventId \cup {NoEvent}]
    BY <2>2, <2>5, <2>6 DEF HgGood
  <2>8. HgSupported(H, e, i)
    <3>1. PICK by : by = {w \in Member : CanSee(H, e, w, i)}
      OBVIOUS
    <3>2. PICK made : made = {H[j].creator : j \in Above(H, e.events, i)}
      OBVIOUS
    <3>3. Cardinality(by) >= HgQuorum
      BY <1>1, <2>5, <3>1 DEF StronglySeen
    <3>4. ASSUME NEW w \in by PROVE w \in made
      <4>1. /\ w \in Member /\ e.last[w] # NoEvent
            /\ i \in HgAncestors(H, e.events, e.last[w])
        BY <3>1, <3>4 DEF CanSee
      <4>2. e.last[w] \in e.events /\ H[e.last[w]].creator = w
        BY <4>1 DEF HgGood
      <4> QED
        BY <3>2, <4>1, <4>2 DEF Above
    <3>5. made \subseteq Member
      <4>1. \A j \in e.events : H[j] \in HgEvent
        BY DEF HgGood
      <4> QED
        BY <3>2, <4>1 DEF Above, HgEvent
    <3>6. IsFiniteSet(made)
      BY <3>5, FS_Subset, HgAssumption
    <3>7. by \subseteq made
      BY <3>4
    <3>8. IsFiniteSet(by) /\ Cardinality(by) <= Cardinality(made)
      BY <3>6, <3>7, FS_Subset
    <3>9. Cardinality(by) \in Nat /\ Cardinality(made) \in Nat /\ Cardinality(Member) \in Nat
      BY <3>6, <3>8, FS_CardinalityType, HgAssumption
    <3> QED
      BY <3>2, <3>3, <3>8, <3>9 DEF HgSupported, HgBacking, HgQuorum
  <2>9. HgSupported(H, d, i)
    BY <2>7, <2>8 DEF HgSupported
  <2>10. HgGood(H, d)
    BY <2>7, <2>9 DEF HgGood
  <2>11. d = TryDecide(H, e)
    BY <1>1, <1>3, <2>1, <2>6 DEF TryDecide
  <2> QED
    BY <2>10, <2>11
<1> QED
  BY <1>2, <1>3

(* An event that an engine does not know becomes its creator's last one. *)
LEMMA HgAddEventGood ==
  ASSUME NEW H, H \in Seq(HgEvent), Len(H) <= MaxEvents, NEW G, G \in Seq(HgEvent),
         NEW e, HgGood(G, e), \A k \in DOMAIN G : k \in DOMAIN H /\ H[k] = G[k],
         NEW i \in DOMAIN H
  PROVE  HgGood(H, AddEvent(H, e, i))
<1>1. PICK c : c = H[i].creator
  OBVIOUS
<1>2. c \in Member
  <2>1. H[i] \in HgEvent
    OBVIOUS
  <2> QED
    BY <1>1, <2>1 DEF HgEvent
<1>3. PICK fs : fs = IF e.last[c] = NoEvent THEN Append(e.firsts, c) ELSE e.firsts
  OBVIOUS
<1>4. fs \in Seq(Member)
  BY <1>2, <1>3 DEF HgGood
<1>5. PICK d : d = [e EXCEPT !.events = e.events \cup {i}, !.last[c] = i, !.firsts = fs]
  OBVIOUS
<1>6. i \in EventId
  <2>1. i \in 1 .. Len(H) /\ Len(H) \in Nat
    OBVIOUS
  <2> QED
    BY <2>1, HgAssumption DEF EventId
<1>7. /\ d.events = e.events \cup {i} /\ d.firsts = fs /\ d.decided = e.decided
      /\ d.last = [e.last EXCEPT ![c] = i]
      /\ d \in [events : SUBSET DOMAIN H, last : [Member -> EventId \cup {NoEvent}],
                firsts : Seq(Member), decided : EventId \cup {NoEvent}]
  BY <1>2, <1>4, <1>5, <1>6 DEF HgGood
<1>8. ASSUME NEW w \in Member, d.last[w] # NoEvent
      PROVE  d.last[w] \in d.events /\ H[d.last[w]].creator = w
  <2>1. CASE w = c
    BY <1>1, <1>7, <2>1 DEF HgGood
  <2>2. CASE w # c
    <3>1. d.last[w] = e.last[w]
      BY <1>2, <1>7, <2>2 DEF HgGood
    <3>2. e.last[w] \in e.events /\ G[e.last[w]].creator = w
      BY <1>8, <3>1 DEF HgGood
    <3>3. e.last[w] \in DOMAIN G
      BY <3>2 DEF HgGood
    <3> QED
      BY <1>7, <3>1, <3>2, <3>3
  <2> QED
    BY <2>1, <2>2
<1>9. ASSUME d.decided # NoEvent PROVE HgSupported(H, d, d.decided)
  <2>1. PICK x : x = e.decided
    OBVIOUS
  <2>2. PICK known : known = e.events
    OBVIOUS
  <2>3. PICK more : more = d.events
    OBVIOUS
  <2>4. HgBacking(G, known, x)
    BY <1>7, <1>9, <2>1, <2>2 DEF HgGood, HgSupported
  <2>5. known \subseteq more /\ more \subseteq DOMAIN H /\ known \subseteq DOMAIN G
    BY <1>7, <2>2, <2>3 DEF HgGood
  <2>6. \A k \in known : G[k] = H[k]
    BY <2>5
  <2>7. \A k \in more : H[k].creator \in Member
    <3>1. \A k \in more : H[k] \in HgEvent
      BY <2>5
    <3> QED
      BY <3>1 DEF HgEvent
  <2>8. HgBacking(H, more, x)
    <3>1. known \subseteq more
      BY <2>5
    <3> QED
      BY <3>1, <2>4, <2>6, <2>7, HgSupportGrows
  <2> QED
    BY <1>7, <2>1, <2>3, <2>8 DEF HgSupported
<1>10. HgGood(H, d)
  BY <1>7, <1>8, <1>9 DEF HgGood
<1>11. HgGood(H, TryDecide(H, d))
  BY <1>10, HgTryDecideGood
<1>12. AddEvent(H, e, i) = TryDecide(H, d)
  BY <1>1, <1>3, <1>5 DEF AddEvent
<1> QED
  BY <1>11, <1>12

(* A longer history leaves an engine in its form. *)
LEMMA HgHistoryGrows ==
  ASSUME NEW H, H \in Seq(HgEvent), NEW G, G \in Seq(HgEvent),
         \A k \in DOMAIN G : k \in DOMAIN H /\ H[k] = G[k], NEW e, HgGood(G, e)
  PROVE  HgGood(H, e)
<1>1. /\ e \in [events : SUBSET DOMAIN H, last : [Member -> EventId \cup {NoEvent}],
                firsts : Seq(Member), decided : EventId \cup {NoEvent}]
      /\ e.events \subseteq DOMAIN G
  BY DEF HgGood
<1>2. \A w \in Member :
        e.last[w] # NoEvent => e.last[w] \in e.events /\ H[e.last[w]].creator = w
  BY <1>1 DEF HgGood
<1>3. ASSUME e.decided # NoEvent PROVE HgSupported(H, e, e.decided)
  <2>1. PICK x : x = e.decided
    OBVIOUS
  <2>2. PICK known : known = e.events
    OBVIOUS
  <2>3. HgBacking(G, known, x)
    BY <1>3, <2>1, <2>2 DEF HgGood, HgSupported
  <2>4. known \subseteq DOMAIN G /\ \A k \in known : G[k] = H[k]
    BY <1>1, <2>2
  <2>5. \A k \in known : H[k].creator \in Member
    <3>1. \A k \in known : G[k] \in HgEvent
      BY <2>4
    <3> QED
      BY <2>4, <3>1 DEF HgEvent
  <2>6. known \subseteq known
    OBVIOUS
  <2>7. HgBacking(H, known, x)
    BY <2>3, <2>4, <2>5, <2>6, HgSupportGrows
  <2> QED
    BY <2>1, <2>2, <2>7 DEF HgSupported
<1> QED
  BY <1>1, <1>2, <1>3 DEF HgGood

(* Whatever a member decides, or decided earlier, was built upon by a      *)
(* quorum of members among the events it knows                             *)
(* (consensus/gossip/hashgraph.py:_try_decide), for every history and      *)
(* order of arrival.                                                       *)
THEOREM HgSupportHolds == HgSpec => [](HgTypeOK /\ HgDecidedSupported)
<1>1. HgInit => HgInv
  <2> SUFFICES ASSUME HgInit PROVE HgInv
    OBVIOUS
  <2>1. hgEvents \in Seq(HgEvent) /\ Len(hgEvents) = 0 /\ DOMAIN hgEvents = {}
    BY DEF HgInit
  <2>2. ASSUME NEW m \in Member PROVE HgGood(hgEvents, hg[m])
    <3>1. PICK e : e = hg[m]
      OBVIOUS
    <3>2. PICK none : none = [w \in Member |-> NoEvent]
      OBVIOUS
    <3>3. /\ none \in [Member -> EventId \cup {NoEvent}]
          /\ \A w \in Member : none[w] = NoEvent
      BY <3>2
    <3>4. e = [events |-> {}, last |-> none, firsts |-> <<>>, decided |-> NoEvent]
      BY <3>1, <3>2 DEF HgInit
    <3>5. <<>> \in Seq(Member) /\ {} \in SUBSET DOMAIN hgEvents
      OBVIOUS
    <3>6. e \in [events : SUBSET DOMAIN hgEvents, last : [Member -> EventId \cup {NoEvent}],
                 firsts : Seq(Member), decided : EventId \cup {NoEvent}]
      BY <3>3, <3>4, <3>5
    <3> QED
      BY <3>1, <3>3, <3>4, <3>6 DEF HgGood
  <2> QED
    BY <2>1, <2>2, HgAssumption DEF HgInit, HgInv
<1>2. HgInv /\ [HgNext]_hgVars => HgInv'
  <2> SUFFICES ASSUME HgInv, [HgNext]_hgVars PROVE HgInv'
    OBVIOUS
  <2>1. ASSUME NEW m \in Member, NEW value \in Payload, HgPropose(m, value) PROVE HgInv'
    <3>1. PICK e : e = hg[m]
      OBVIOUS
    <3>2. PICK other : other = OtherParent(e, m)
      OBVIOUS
    <3>3. PICK event : event = [creator |-> m, payload |-> value,
                                selfParent |-> e.last[m], otherParent |-> other]
      OBVIOUS
    <3>4. PICK H : H = Append(hgEvents, event)
      OBVIOUS
    <3>5. HgGood(hgEvents, e) /\ hgEvents \in Seq(HgEvent)
      BY <3>1 DEF HgInv
    <3>6. other \in EventId \cup {NoEvent}
      <4>1. PICK others : others = {i \in DOMAIN e.firsts : e.firsts[i] # m}
        OBVIOUS
      <4>2. CASE others = {}
        BY <3>2, <4>1, <4>2 DEF OtherParent
      <4>3. CASE others # {}
        <5>1. PICK first : first = CHOOSE i \in others : \A j \in others : i <= j
          OBVIOUS
        <5>2. e.firsts \in Seq(Member)
          BY <3>5 DEF HgGood
        <5>3. others \subseteq Nat
          BY <4>1, <5>2
        <5>4. PICK f : f = [i \in Nat |-> i]
          OBVIOUS
        <5>5. \A i \in others : f[i] \in Nat
          BY <5>3, <5>4
        <5>6. \E i \in others : \A j \in others : f[i] <= f[j]
          BY <4>3, <5>5, Least
        <5>7. \E i \in others : \A j \in others : i <= j
          BY <5>3, <5>4, <5>6
        <5>8. first \in others
          BY <5>1, <5>7
        <5>9. e.firsts[first] \in Member
          BY <4>1, <5>2, <5>8
        <5>10. other = e.last[e.firsts[first]]
          BY <3>2, <4>1, <4>3, <5>1 DEF OtherParent
        <5> QED
          BY <3>5, <5>9, <5>10 DEF HgGood
      <4> QED
        BY <4>2, <4>3
    <3>7. event \in HgEvent
      BY <3>3, <3>5, <3>6 DEF HgEvent, HgGood
    <3>8. /\ Len(hgEvents) < MaxEvents
          /\ hgEvents' = H
          /\ hg' = [hg EXCEPT ![m] = AddEvent(H, e, Len(H))]
      BY <2>1, <3>1, <3>2, <3>3, <3>4 DEF HgPropose
    <3>9. /\ H \in Seq(HgEvent) /\ Len(H) = Len(hgEvents) + 1
          /\ \A k \in DOMAIN hgEvents : k \in DOMAIN H /\ H[k] = hgEvents[k]
      BY <3>4, <3>5, <3>7
    <3>10. Len(H) <= MaxEvents /\ Len(H) \in DOMAIN H
      BY <3>5, <3>8, <3>9, HgAssumption
    <3>11. HgGood(H, AddEvent(H, e, Len(H)))
      BY <3>5, <3>9, <3>10, HgAddEventGood
    <3>12. ASSUME NEW w \in Member PROVE HgGood(H, hg'[w])
      <4>1. HgGood(hgEvents, hg[w])
        BY DEF HgInv
      <4>2. HgGood(H, hg[w])
        BY <3>5, <3>9, <4>1, HgHistoryGrows
      <4>3. hg'[w] = IF w = m THEN AddEvent(H, e, Len(H)) ELSE hg[w]
        BY <3>8 DEF HgInv
      <4> QED
        BY <3>11, <4>2, <4>3
    <3> QED
      BY <3>8, <3>9, <3>10, <3>12 DEF HgInv
  <2>2. ASSUME NEW m \in Member, NEW i \in DOMAIN hgEvents, HgObserve(m, i) PROVE HgInv'
    <3>1. PICK H : H = hgEvents
      OBVIOUS
    <3>2. HgGood(H, hg[m]) /\ H \in Seq(HgEvent) /\ Len(H) <= MaxEvents
      BY <3>1 DEF HgInv
    <3>3. i \in DOMAIN H /\ \A k \in DOMAIN H : k \in DOMAIN H /\ H[k] = H[k]
      BY <3>1
    <3>4. HgGood(H, AddEvent(H, hg[m], i))
      BY <3>2, <3>3, HgAddEventGood
    <3>5. /\ hgEvents' = H
          /\ hg' = [hg EXCEPT ![m] = AddEvent(H, hg[m], i)]
      BY <2>2, <3>1 DEF HgObserve
    <3>6. ASSUME NEW w \in Member PROVE HgGood(H, hg'[w])
      <4>1. hg'[w] = IF w = m THEN AddEvent(H, hg[m], i) ELSE hg[w]
        BY <3>5 DEF HgInv
      <4> QED
        BY <3>1, <3>4, <4>1 DEF HgInv
    <3> QED
      BY <3>2, <3>5, <3>6 DEF HgInv
  <2>3. CASE UNCHANGED hgVars
    BY <2>3 DEF HgInv, hgVars
  <2> QED
    BY <2>1, <2>2, <2>3 DEF HgNext
<1>3. HgInv => HgTypeOK /\ HgDecidedSupported
  <2> SUFFICES ASSUME HgInv PROVE HgTypeOK /\ HgDecidedSupported
    OBVIOUS
  <2>1. DOMAIN hgEvents \subseteq EventId
    BY HgAssumption DEF HgInv, EventId
  <2>2. \A m \in Member :
          hg[m] \in [events : SUBSET EventId, last : [Member -> EventId \cup {NoEvent}],
                     firsts : Seq(Member), decided : EventId \cup {NoEvent}]
    BY <2>1 DEF HgInv, HgGood
  <2>3. HgTypeOK
    BY <2>2 DEF HgInv, HgTypeOK
  <2>4. HgDecidedSupported
    BY DEF HgInv, HgGood, HgSupported, HgBacking, Above, HgDecidedSupported
  <2> QED
    BY <2>3, <2>4
<1> QED
  BY <1>1, <1>2, <1>3, PTL DEF HgSpec

-----------------------------------------------------------------------------
(* The block lattice.  The blocks created: a receive claims a send.        *)
LatHistory(H) ==
  /\ H \in Seq(LatticeBlock) /\ Len(H) \in Nat /\ Len(H) <= MaxBlocks
  /\ \A b \in 1 .. Len(H) : H[b].type = "receive" =>
       H[b].source \in 1 .. Len(H) /\ H[H[b].source].type = "send"

(* The engine of a node when N blocks exist. *)
LatEngine(N) == [blocks : SUBSET (1 .. N), chains : [Account -> Seq(1 .. N)],
                 claimed : SUBSET (1 .. N), votes : SUBSET (Rep \X (1 .. N))]

LatShape ==
  /\ LatHistory(latBlocks) /\ latShared \subseteq Account
  /\ lat \in [LatNode -> LatEngine(Len(latBlocks))]

(* A representative voted for one of any two rivals, and nodes count only  *)
(* what was cast.                                                          *)
VotedOnce ==
  /\ latVotes \subseteq Rep \X (1 .. Len(latBlocks))
  /\ \A r \in Rep, b, c \in 1 .. Len(latBlocks) :
       <<r, b>> \in latVotes /\ <<r, c>> \in latVotes /\ c \in Rivals(b) => b = c
  /\ \A n \in LatNode : lat[n].votes \subseteq latVotes

LEMMA LatEngineGrows ==
  ASSUME NEW M \in Nat, NEW N \in Nat, N <= M, NEW e \in LatEngine(N)
  PROVE  e \in LatEngine(M)
<1>1. 1 .. N \subseteq 1 .. M
  OBVIOUS
<1>2. Seq(1 .. N) \subseteq Seq(1 .. M)
  BY <1>1, SeqMonotonic
<1> QED
  BY <1>1, <1>2 DEF LatEngine

(* A block applied leaves an engine well formed; what it does to chain and *)
(* claims depends on whether it is next.                                   *)
Appended(H, e, f, b) ==
  /\ f.blocks = e.blocks \cup {b}
  /\ f.chains = [e.chains EXCEPT ![H[b].account] = Append(@, b)]
  /\ f.claimed = CASE H[b].type = "receive" -> e.claimed \cup {H[b].source}
                   [] H[b].type = "send" -> e.claimed \ {b}
                   [] OTHER -> e.claimed

LatApplied(H, e, f, b) ==
  /\ f \in LatEngine(Len(H)) /\ f.votes = e.votes
  /\ b \in e.blocks => f = e
  /\ b \notin e.blocks =>
       /\ H[b].previous = LatHead(e, H[b].account) => Appended(H, e, f, b)
       /\ H[b].previous # LatHead(e, H[b].account) =>
            f.blocks = e.blocks \cup {b} /\ f.chains = e.chains /\ f.claimed = e.claimed

LEMMA ApplyEffect ==
  ASSUME NEW H, LatHistory(H), NEW e \in LatEngine(Len(H)), NEW b \in 1 .. Len(H)
  PROVE  LatApplied(H, e, Apply(H, e, b), b)
<1>1. PICK N \in Nat : N = Len(H)
  BY DEF LatHistory
<1>2. PICK B, C, M, V : /\ e = [blocks |-> B, chains |-> C, claimed |-> M, votes |-> V]
                        /\ B \in SUBSET (1 .. N) /\ C \in [Account -> Seq(1 .. N)]
                        /\ M \in SUBSET (1 .. N) /\ V \in SUBSET (Rep \X (1 .. N))
  BY <1>1 DEF LatEngine
<1>3. H[b] \in LatticeBlock /\ b \in 1 .. N
  BY <1>1 DEF LatHistory
<1>4. PICK a \in Account : a = H[b].account
  BY <1>3 DEF LatticeBlock
<1>5. CASE b \in B
  <2>1. Apply(H, e, b) = e
    BY <1>2, <1>5 DEF Apply
  <2> QED
    BY <1>2, <1>5, <2>1 DEF LatApplied
<1>6. CASE b \notin B /\ H[b].previous # LatHead(e, a)
  <2>1. Apply(H, e, b) = [blocks |-> B \cup {b}, chains |-> C, claimed |-> M, votes |-> V]
    BY <1>2, <1>4, <1>6 DEF Apply
  <2>2. Apply(H, e, b) \in LatEngine(N)
    BY <1>2, <1>3, <2>1 DEF LatEngine
  <2> QED
    BY <1>1, <1>2, <1>4, <1>6, <2>1, <2>2 DEF LatApplied
<1>7. CASE b \notin B /\ H[b].previous = LatHead(e, a)
  <2>1. PICK Y : Y = CASE H[b].type = "receive" -> M \cup {H[b].source}
                       [] H[b].type = "send" -> M \ {b}
                       [] OTHER -> M
    OBVIOUS
  <2>2. PICK D : D = [C EXCEPT ![a] = Append(@, b)]
    OBVIOUS
  <2>3. PICK X : X = B \cup {b}
    OBVIOUS
  <2>4. Apply(H, e, b) = [blocks |-> X, chains |-> D, claimed |-> Y, votes |-> V]
    BY <1>2, <1>4, <1>7, <2>1, <2>2, <2>3 DEF Apply
  <2>5. H[b].type = "receive" => H[b].source \in 1 .. N
    BY <1>1, <1>3 DEF LatHistory
  <2>6. Y \in SUBSET (1 .. N) /\ X \in SUBSET (1 .. N)
    BY <1>2, <1>3, <2>1, <2>3, <2>5
  <2>7. D \in [Account -> Seq(1 .. N)]
    BY <1>2, <1>3, <2>2
  <2>8. Apply(H, e, b) \in LatEngine(N)
    BY <1>2, <2>4, <2>6, <2>7 DEF LatEngine
  <2>9. PICK f : f = Apply(H, e, b)
    OBVIOUS
  <2>10. /\ f.blocks = X /\ f.chains = D /\ f.claimed = Y /\ f.votes = V
         /\ e.blocks = B /\ e.chains = C /\ e.claimed = M /\ e.votes = V
    BY <1>2, <2>4, <2>9
  <2>11. Appended(H, e, f, b)
    BY <1>4, <2>1, <2>2, <2>3, <2>10 DEF Appended
  <2> QED
    BY <1>1, <1>4, <1>7, <2>8, <2>9, <2>10, <2>11 DEF LatApplied
<1> QED
  BY <1>2, <1>4, <1>5, <1>6, <1>7

(* The head of a chain, and the balance there.                             *)
LEMMA HeadTypes ==
  ASSUME LatHistory(latBlocks), NEW e \in LatEngine(Len(latBlocks)), NEW a \in Account
  PROVE  /\ LatHead(e, a) \in 0 .. Len(latBlocks)
         /\ LatHead(e, a) \in LatticeId \cup {NoBlock}
         /\ BalanceOf(e, a) \in Nat
<1>1. PICK N \in Nat : N = Len(latBlocks) /\ N <= MaxBlocks
  BY DEF LatHistory
<1>2. PICK c \in Seq(1 .. N) : c = e.chains[a]
  BY <1>1 DEF LatEngine
<1>3. c # <<>> => c[Len(c)] \in 1 .. N
  BY <1>2
<1>4. LatHead(e, a) = IF c = <<>> THEN NoBlock ELSE c[Len(c)]
  BY <1>2 DEF LatHead
<1>5. LatHead(e, a) \in 0 .. N
  BY <1>1, <1>3, <1>4 DEF NoBlock
<1>6. LatHead(e, a) \in LatticeId \cup {NoBlock}
  BY <1>1, <1>5, LatAssumption DEF LatticeId, NoBlock
<1>7. c # <<>> => LatHead(e, a) \in 1 .. N
  BY <1>3, <1>4
<1>8. ASSUME NEW b \in 1 .. N PROVE latBlocks[b].balance \in Nat
  <2>1. latBlocks[b] \in LatticeBlock
    BY <1>1 DEF LatHistory
  <2> QED
    BY <2>1 DEF LatticeBlock
<1>9. BalanceOf(e, a) \in Nat
  BY <1>2, <1>7, <1>8 DEF BalanceOf
<1> QED
  BY <1>1, <1>5, <1>6, <1>9

(* What an owner proposes: the next block of an account.                   *)
NextOf(e, block) ==
  /\ block \in LatticeBlock /\ block.previous = LatHead(e, block.account)
  /\ \/ /\ block.type = "open" /\ e.chains[block.account] = <<>>
        /\ block.balance = block.amount
     \/ /\ block.type = "send"
        /\ block.balance = BalanceOf(e, block.account) - block.amount
     \/ /\ block.type = "receive"
        /\ block.source \in e.blocks \ e.claimed
        /\ latBlocks[block.source].type = "send"
        /\ latBlocks[block.source].amount = block.amount
        /\ block.balance = BalanceOf(e, block.account) + block.amount

LatProposes(n, block) == NextOf(lat[n], block) /\ LatPropose(n, block)

LEMMA OpenProposes ==
  ASSUME LatShape, NEW n \in LatNode, NEW a \in Account, LatOpen(n, a)
  PROVE  \E block : LatProposes(n, block)
<1>1. PICK e \in LatEngine(Len(latBlocks)) : e = lat[n]
  BY DEF LatShape
<1>2. PICK block : block = [type |-> "open", account |-> a, previous |-> NoBlock,
                            balance |-> Opening, amount |-> Opening, recipient |-> a,
                            source |-> NoBlock]
  OBVIOUS
<1>3. LatPropose(n, block) /\ e.chains[a] = <<>>
  BY <1>1, <1>2 DEF LatOpen
<1>4. LatHead(e, a) = NoBlock
  BY <1>3 DEF LatHead
<1>5. block \in LatticeBlock
  BY <1>2, LatAssumption DEF LatticeBlock
<1>6. NextOf(e, block)
  BY <1>2, <1>3, <1>4, <1>5 DEF NextOf
<1> QED
  BY <1>1, <1>3, <1>6 DEF LatProposes

LEMMA SendProposes ==
  ASSUME LatShape, NEW n \in LatNode, NEW a \in Account, NEW to \in Account,
         NEW amount \in Amount, LatSend(n, a, to, amount)
  PROVE  \E block : LatProposes(n, block)
<1>1. PICK e \in LatEngine(Len(latBlocks)) : e = lat[n]
  BY DEF LatShape
<1>2. PICK h, bal : h = LatHead(e, a) /\ bal = BalanceOf(e, a)
  OBVIOUS
<1>3. h \in LatticeId \cup {NoBlock} /\ bal \in Nat
  BY <1>2, HeadTypes DEF LatShape
<1>4. PICK block : block = [type |-> "send", account |-> a, previous |-> h,
                            balance |-> bal - amount, amount |-> amount,
                            recipient |-> to, source |-> NoBlock]
  OBVIOUS
<1>5. LatPropose(n, block) /\ bal >= amount
  BY <1>1, <1>2, <1>4 DEF LatSend
<1>6. amount \in Nat /\ bal - amount \in Nat
  BY <1>3, <1>5, LatAssumption
<1>7. block \in LatticeBlock
  BY <1>3, <1>4, <1>6 DEF LatticeBlock
<1>8. NextOf(e, block)
  BY <1>2, <1>4, <1>7 DEF NextOf
<1> QED
  BY <1>1, <1>5, <1>8 DEF LatProposes

LEMMA ReceiveProposes ==
  ASSUME LatShape, NEW n \in LatNode, NEW a \in Account, NEW b \in DOMAIN latBlocks,
         LatReceive(n, a, b)
  PROVE  \E block : LatProposes(n, block)
<1>1. PICK e \in LatEngine(Len(latBlocks)) : e = lat[n]
  BY DEF LatShape
<1>2. b \in 1 .. Len(latBlocks) /\ latBlocks[b] \in LatticeBlock /\ b \in LatticeId
  BY LatAssumption DEF LatShape, LatHistory, LatticeId
<1>3. PICK h, bal : h = LatHead(e, a) /\ bal = BalanceOf(e, a)
  OBVIOUS
<1>4. h \in LatticeId \cup {NoBlock} /\ bal \in Nat
  BY <1>3, HeadTypes DEF LatShape
<1>5. PICK amount \in Nat : amount = latBlocks[b].amount
  BY <1>2 DEF LatticeBlock
<1>6. PICK block : block = [type |-> "receive", account |-> a, previous |-> h,
                            balance |-> bal + amount, amount |-> amount,
                            recipient |-> a, source |-> b]
  OBVIOUS
<1>7. LatPropose(n, block) /\ b \in e.blocks \ e.claimed /\ latBlocks[b].type = "send"
  BY <1>1, <1>3, <1>5, <1>6 DEF LatReceive
<1>8. block \in LatticeBlock
  BY <1>2, <1>4, <1>5, <1>6 DEF LatticeBlock
<1>9. NextOf(e, block)
  BY <1>3, <1>5, <1>6, <1>7, <1>8 DEF NextOf
<1> QED
  BY <1>1, <1>7, <1>9 DEF LatProposes

(* Written as b in the history H: a new block, or an equal one of before.  *)
LatWrites(n, block, H, b) ==
  /\ latBlocks' = H /\ LatHistory(H) /\ b \in 1 .. Len(H) /\ H[b] = block
  /\ \/ H = latBlocks
     \/ /\ H = Append(latBlocks, block) /\ b = Len(latBlocks) + 1 /\ Len(H) = b
        /\ \A c \in 1 .. Len(latBlocks) : H[c] = latBlocks[c]
  /\ Len(latBlocks) <= Len(H)
  /\ lat' = [lat EXCEPT ![n] = Apply(H, @, b)]
  /\ latVotes' = latVotes /\ latShared' = latShared
  /\ n = Home[block.account] \/ block.account \in latShared

LEMMA ProposeWrites ==
  ASSUME LatShape, NEW n \in LatNode, NEW block, LatProposes(n, block)
  PROVE  \E H, b : LatWrites(n, block, H, b)
<1>1. PICK N \in Nat : N = Len(latBlocks) /\ latBlocks \in Seq(LatticeBlock)
  BY DEF LatShape, LatHistory
<1>2. PICK old : old = {b \in DOMAIN latBlocks : latBlocks[b] = block}
  OBVIOUS
<1>3. PICK H : H = IF old = {} THEN Append(latBlocks, block) ELSE latBlocks
  OBVIOUS
<1>4. PICK b : b = IF old = {} THEN Len(H) ELSE CHOOSE c \in old : TRUE
  OBVIOUS
<1>5. /\ Len(H) <= MaxBlocks /\ latBlocks' = H
      /\ lat' = [lat EXCEPT ![n] = Apply(H, @, b)]
      /\ latVotes' = latVotes /\ latShared' = latShared
      /\ n = Home[block.account] \/ block.account \in latShared
  BY <1>2, <1>3, <1>4, Zenon DEF LatProposes, LatPropose
<1>6. block \in LatticeBlock
  BY DEF LatProposes, NextOf
<1>7. CASE old # {}
  <2>1. b \in old
    BY <1>4, <1>7
  <2>2. b \in 1 .. N /\ latBlocks[b] = block /\ H = latBlocks
    BY <1>1, <1>2, <1>3, <1>7, <2>1
  <2>3. LatHistory(H) /\ b \in 1 .. Len(H) /\ Len(latBlocks) <= Len(H)
    BY <1>1, <2>2 DEF LatShape
  <2>4. LatWrites(n, block, H, b)
    BY <1>5, <2>2, <2>3 DEF LatWrites
  <2> QED
    BY <2>4
<1>8. CASE old = {}
  <2>1. /\ H = Append(latBlocks, block) /\ H \in Seq(LatticeBlock) /\ Len(H) = N + 1
        /\ b = N + 1
    BY <1>1, <1>3, <1>4, <1>6, <1>8
  <2>2. H[b] = block /\ \A c \in 1 .. N : H[c] = latBlocks[c]
    BY <1>1, <2>1
  <2>3. ASSUME NEW c \in 1 .. Len(H), H[c].type = "receive"
        PROVE  H[c].source \in 1 .. Len(H) /\ H[H[c].source].type = "send"
    <3>1. CASE c \in 1 .. N
      <4>1. latBlocks[c].source \in 1 .. N /\ latBlocks[latBlocks[c].source].type = "send"
        BY <1>1, <2>2, <2>3, <3>1 DEF LatShape, LatHistory
      <4> QED
        BY <2>1, <2>2, <3>1, <4>1
    <3>2. CASE c = b
      <4>1. block.source \in lat[n].blocks /\ latBlocks[block.source].type = "send"
        BY <2>2, <2>3, <3>2 DEF LatProposes, NextOf
      <4>2. block.source \in 1 .. N
        BY <1>1, <4>1 DEF LatShape, LatEngine
      <4> QED
        BY <2>1, <2>2, <3>2, <4>1, <4>2
    <3> QED
      BY <2>1, <3>1, <3>2
  <2>4. LatHistory(H)
    BY <1>1, <1>5, <2>1, <2>3 DEF LatHistory
  <2>5. b \in 1 .. Len(H) /\ Len(latBlocks) <= Len(H) /\ b = Len(latBlocks) + 1 /\ Len(H) = b
    BY <1>1, <2>1
  <2>6. LatWrites(n, block, H, b)
    BY <1>1, <1>5, <2>1, <2>2, <2>4, <2>5 DEF LatWrites
  <2> QED
    BY <2>6
<1> QED
  BY <1>7, <1>8

(* A step in which node n takes the block b of the history H.              *)
LatTakes(n, H, b) ==
  /\ latBlocks' = H /\ LatHistory(H) /\ Len(latBlocks) <= Len(H) /\ b \in 1 .. Len(H)
  /\ lat' = [lat EXCEPT ![n] = Apply(H, @, b)]
  /\ latShared' = latShared

LatTaken(n, H, b) ==
  /\ LatShape' /\ \A m \in LatNode \ {n} : lat'[m] = lat[m]
  /\ lat[n] \in LatEngine(Len(H)) /\ LatApplied(H, lat[n], lat'[n], b)

LEMMA TakingEffect ==
  ASSUME LatShape, NEW n \in LatNode, NEW H, NEW b, LatTakes(n, H, b)
  PROVE  LatTaken(n, H, b)
<1>1. Len(latBlocks) \in Nat /\ Len(H) \in Nat /\ Len(latBlocks) <= Len(H) /\ LatHistory(H)
  BY DEF LatShape, LatTakes, LatHistory
<1>2. \A m \in LatNode : lat[m] \in LatEngine(Len(latBlocks))
  BY DEF LatShape
<1>3. \A m \in LatNode : lat[m] \in LatEngine(Len(H))
  BY <1>1, <1>2, LatEngineGrows
<1>4. b \in 1 .. Len(H) /\ lat[n] \in LatEngine(Len(H))
  BY <1>3 DEF LatTakes
<1>5. LatApplied(H, lat[n], Apply(H, lat[n], b), b)
  BY <1>1, <1>4, ApplyEffect
<1>6. PICK f : f = Apply(H, lat[n], b)
  OBVIOUS
<1>7. f \in LatEngine(Len(H))
  BY <1>5, <1>6 DEF LatApplied
<1>8. lat' = [lat EXCEPT ![n] = f] /\ DOMAIN lat = LatNode
  BY <1>6 DEF LatTakes, LatShape
<1>9. lat'[n] = f /\ \A m \in LatNode \ {n} : lat'[m] = lat[m]
  BY <1>8
<1>10. lat = [m \in LatNode |-> lat[m]]
  BY DEF LatShape
<1>11. lat' \in [LatNode -> LatEngine(Len(H))]
  BY <1>3, <1>7, <1>8, <1>10
<1>12. LatShape'
  BY <1>1, <1>11 DEF LatShape, LatTakes
<1> QED
  BY <1>4, <1>5, <1>6, <1>9, <1>12 DEF LatTaken

LEMMA WritingTakes ==
  ASSUME NEW n \in LatNode, NEW block, NEW H, NEW b, LatWrites(n, block, H, b)
  PROVE  LatTakes(n, H, b)
BY DEF LatWrites, LatTakes

LEMMA ObservingTakes ==
  ASSUME LatShape, NEW n \in LatNode, NEW b \in DOMAIN latBlocks, LatObserve(n, b)
  PROVE  LatTakes(n, latBlocks, b)
<1>1. LatHistory(latBlocks) /\ Len(latBlocks) \in Nat /\ b \in 1 .. Len(latBlocks)
  BY DEF LatShape, LatHistory
<1> QED
  BY <1>1 DEF LatObserve, LatTakes

(* What a step is, for the invariants below.                               *)
LatMoves ==
  \/ \E n \in LatNode : \E block, H, b :
       LatProposes(n, block) /\ LatWrites(n, block, H, b)
  \/ \E n \in LatNode, b \in DOMAIN latBlocks : LatObserve(n, b)
  \/ \E r \in Rep, b \in DOMAIN latBlocks : LatCast(r, b)
  \/ \E n \in LatNode, v \in latVotes : LatHearVote(n, v)

LEMMA LatNextMoves == LatShape /\ LatNext => LatMoves
<1> SUFFICES ASSUME LatShape, LatNext PROVE LatMoves
  OBVIOUS
<1>1. ASSUME NEW n \in LatNode, NEW block, LatProposes(n, block) PROVE LatMoves
  <2>1. PICK H, b : LatWrites(n, block, H, b)
    BY <1>1, ProposeWrites
  <2> QED
    BY <1>1, <2>1 DEF LatMoves
<1>2. ASSUME NEW n \in LatNode, NEW a \in Account, LatOpen(n, a) PROVE LatMoves
  BY <1>1, <1>2, OpenProposes
<1>3. ASSUME NEW n \in LatNode, NEW a \in Account, NEW to \in Account, NEW x \in Amount,
             LatSend(n, a, to, x)
      PROVE LatMoves
  BY <1>1, <1>3, SendProposes
<1>4. ASSUME NEW n \in LatNode, NEW a \in Account, NEW b \in DOMAIN latBlocks,
             LatReceive(n, a, b)
      PROVE LatMoves
  BY <1>1, <1>4, ReceiveProposes
<1> QED
  BY <1>2, <1>3, <1>4 DEF LatNext, LatMoves

LEMMA HeardShape ==
  ASSUME LatShape, VotedOnce, NEW n \in LatNode, NEW v \in latVotes, LatHearVote(n, v)
  PROVE  /\ LatShape' /\ lat'[n].votes = lat[n].votes \cup {v}
         /\ \A m \in LatNode : /\ lat'[m].blocks = lat[m].blocks
                               /\ lat'[m].chains = lat[m].chains
                               /\ lat'[m].claimed = lat[m].claimed
                               /\ m # n => lat'[m].votes = lat[m].votes
<1>1. PICK N \in Nat : N = Len(latBlocks)
  BY DEF LatShape, LatHistory
<1>2. PICK B, C, M, V :
           /\ lat[n] = [blocks |-> B, chains |-> C, claimed |-> M, votes |-> V]
           /\ B \in SUBSET (1 .. N) /\ C \in [Account -> Seq(1 .. N)]
           /\ M \in SUBSET (1 .. N) /\ V \in SUBSET (Rep \X (1 .. N))
  BY <1>1 DEF LatEngine, LatShape
<1>3. PICK f : f = [blocks |-> B, chains |-> C, claimed |-> M, votes |-> V \cup {v}]
  OBVIOUS
<1>4. v \in Rep \X (1 .. N)
  BY <1>1 DEF VotedOnce
<1>5. f \in LatEngine(N)
  BY <1>2, <1>3, <1>4 DEF LatEngine
<1>6. lat' = [lat EXCEPT ![n] = f] /\ DOMAIN lat = LatNode
  <2>1. PICK W : W = V \cup {v}
    OBVIOUS
  <2>2. lat[n].votes \cup {v} = W
    BY <1>2, <2>1
  <2>3. lat' = [lat EXCEPT ![n].votes = W]
    BY <2>2 DEF LatHearVote
  <2>4. [lat[n] EXCEPT !.votes = W] = f
    <3>1. lat[n] = [blocks |-> B, chains |-> C, claimed |-> M, votes |-> V]
      BY <1>2
    <3>2. f = [blocks |-> B, chains |-> C, claimed |-> M, votes |-> W]
      BY <1>3, <2>1
    <3> QED
      BY <3>1, <3>2
  <2>5. lat' = [lat EXCEPT ![n] = [lat[n] EXCEPT !.votes = W]]
    BY <2>3
  <2>6. DOMAIN lat = LatNode
    BY DEF LatShape
  <2> QED
    BY <2>4, <2>5, <2>6
<1>7. lat'[n] = f /\ \A m \in LatNode \ {n} : lat'[m] = lat[m]
  BY <1>6
<1>8. lat' \in [LatNode -> LatEngine(N)]
  BY <1>1, <1>5, <1>6 DEF LatShape
<1>9. latBlocks' = latBlocks /\ latShared' = latShared
  BY DEF LatHearVote
<1>10. LatShape'
  BY <1>1, <1>8, <1>9 DEF LatShape
<1> QED
  BY <1>2, <1>3, <1>7, <1>10

LEMMA LatShapeKept ==
  ASSUME LatShape, VotedOnce, LatMoves PROVE LatShape'
<1>1. ASSUME NEW n \in LatNode, NEW H, NEW b, LatTakes(n, H, b) PROVE LatShape'
  <2>1. LatTaken(n, H, b)
    BY <1>1, TakingEffect
  <2> QED
    BY <2>1 DEF LatTaken
<1>2. ASSUME NEW r \in Rep, NEW b \in DOMAIN latBlocks, LatCast(r, b) PROVE LatShape'
  BY <1>2 DEF LatCast, LatShape
<1>3. ASSUME NEW n \in LatNode, NEW block, NEW H, NEW b, LatWrites(n, block, H, b)
      PROVE LatShape'
  <2>1. LatTakes(n, H, b)
    BY <1>3, WritingTakes
  <2> QED
    BY <1>1, <2>1
<1>4. ASSUME NEW n \in LatNode, NEW b \in DOMAIN latBlocks, LatObserve(n, b)
      PROVE LatShape'
  <2>1. LatTakes(n, latBlocks, b)
    BY <1>4, ObservingTakes
  <2> QED
    BY <1>1, <2>1
<1>5. ASSUME NEW n \in LatNode, NEW v \in latVotes, LatHearVote(n, v) PROVE LatShape'
  BY <1>5, HeardShape
<1> QED
  BY <1>2, <1>3, <1>4, <1>5 DEF LatMoves

-----------------------------------------------------------------------------
LEMMA CastOnce ==
  ASSUME LatShape, VotedOnce, NEW q \in Rep, NEW x \in DOMAIN latBlocks, LatCast(q, x)
  PROVE  VotedOnce'
<1>1. PICK N \in Nat : N = Len(latBlocks) /\ DOMAIN latBlocks = 1 .. N
  BY DEF LatShape, LatHistory
<1>2. /\ latVotes' = latVotes \cup {<<q, x>>} /\ latBlocks' = latBlocks /\ lat' = lat
      /\ \A c \in Rivals(x) : <<q, c>> \notin latVotes
  BY DEF LatCast
<1>3. latVotes' \subseteq Rep \X (1 .. N)
  BY <1>1, <1>2 DEF VotedOnce
<1>4. ASSUME NEW r \in Rep, NEW b \in 1 .. N, NEW c \in 1 .. N,
             <<r, b>> \in latVotes', <<r, c>> \in latVotes', c \in Rivals(b)
      PROVE  b = c
  <2>1. b \in Rivals(c)
    BY <1>1, <1>4 DEF Rivals
  <2>2. CASE <<r, b>> \in latVotes /\ <<r, c>> \in latVotes
    BY <1>1, <1>4, <2>2 DEF VotedOnce
  <2>3. CASE <<r, b>> = <<q, x>> /\ <<r, c>> \in latVotes
    BY <1>2, <1>4, <2>3
  <2>4. CASE <<r, c>> = <<q, x>> /\ <<r, b>> \in latVotes
    BY <1>2, <2>1, <2>4
  <2>5. CASE <<r, b>> = <<q, x>> /\ <<r, c>> = <<q, x>>
    BY <2>5
  <2> QED
    BY <1>2, <1>4, <2>2, <2>3, <2>4, <2>5
<1>5. \A b : Rivals(b)' = Rivals(b)
  BY <1>2 DEF Rivals
<1>6. \A n \in LatNode : lat[n].votes \subseteq latVotes'
  BY <1>2 DEF VotedOnce
<1> QED
  BY <1>1, <1>2, <1>3, <1>4, <1>5, <1>6 DEF VotedOnce

LEMMA TakingKeepsVotes ==
  ASSUME LatShape, VotedOnce, NEW n \in LatNode, NEW H, NEW k, LatTakes(n, H, k),
         latVotes' = latVotes,
         \A b \in 1 .. Len(latBlocks) : H[b] = latBlocks[b]
  PROVE  VotedOnce'
<1>1. LatTaken(n, H, k)
  BY TakingEffect
<1>2. /\ Len(latBlocks) \in Nat /\ Len(H) \in Nat /\ Len(latBlocks) <= Len(H)
      /\ latBlocks' = H /\ DOMAIN latBlocks = 1 .. Len(latBlocks)
  BY DEF LatShape, LatHistory, LatTakes
<1>3. latVotes \subseteq Rep \X (1 .. Len(H))
  BY <1>2 DEF VotedOnce
<1>4. ASSUME NEW r \in Rep, NEW b \in 1 .. Len(H), NEW c \in 1 .. Len(H),
             <<r, b>> \in latVotes, <<r, c>> \in latVotes, c \in Rivals(b)'
      PROVE  b = c
  <2>1. b \in 1 .. Len(latBlocks) /\ c \in 1 .. Len(latBlocks)
    BY <1>4 DEF VotedOnce
  <2>2. H[b] = latBlocks[b] /\ H[c] = latBlocks[c]
    BY <2>1
  <2>3. c \in Rivals(b)
    BY <1>2, <1>4, <2>1, <2>2 DEF Rivals
  <2> QED
    BY <1>4, <2>1, <2>3 DEF VotedOnce
<1>5. \A m \in LatNode : lat'[m].votes = lat[m].votes
  BY <1>1 DEF LatTaken, LatApplied
<1> QED
  BY <1>2, <1>3, <1>4, <1>5 DEF VotedOnce

LEMMA LatMovesKeep ==
  ASSUME LatShape, VotedOnce, LatMoves
  PROVE  LatShape' /\ VotedOnce'
<1>1. ASSUME NEW n \in LatNode, NEW block, NEW H, NEW b, LatWrites(n, block, H, b)
      PROVE  VotedOnce'
  <2>1. LatTakes(n, H, b)
    BY <1>1, WritingTakes
  <2>2. latVotes' = latVotes /\ \A c \in 1 .. Len(latBlocks) : H[c] = latBlocks[c]
    BY <1>1 DEF LatWrites
  <2> QED
    BY <2>1, <2>2, TakingKeepsVotes
<1>2. ASSUME NEW n \in LatNode, NEW b \in DOMAIN latBlocks, LatObserve(n, b)
      PROVE  VotedOnce'
  <2>1. LatTakes(n, latBlocks, b) /\ latVotes' = latVotes
    BY <1>2, ObservingTakes DEF LatObserve
  <2> QED
    BY <2>1, TakingKeepsVotes
<1>3. ASSUME NEW n \in LatNode, NEW v \in latVotes, LatHearVote(n, v) PROVE VotedOnce'
  <2>1. /\ lat'[n].votes = lat[n].votes \cup {v}
        /\ \A m \in LatNode \ {n} : lat'[m].votes = lat[m].votes
    BY <1>3, HeardShape
  <2>2. latBlocks' = latBlocks /\ latVotes' = latVotes
    BY <1>3 DEF LatHearVote
  <2>3. \A m \in LatNode : lat'[m].votes \subseteq latVotes
    BY <2>1 DEF VotedOnce
  <2>4. \A b : Rivals(b)' = Rivals(b)
    BY <2>2 DEF Rivals
  <2> QED
    BY <2>2, <2>3, <2>4 DEF VotedOnce
<1> QED
  BY <1>1, <1>2, <1>3, CastOnce, LatShapeKept DEF LatMoves

(* Votes on rivals come from different representatives, and two majorities *)
(* of the weight are more than there is.                                   *)
LEMMA OneMajority ==
  ASSUME NEW A \in SUBSET Rep, NEW B \in SUBSET Rep, A \cap B = {},
         SumOver(RepWeight, A) >= LatQuorum
  PROVE  SumOver(RepWeight, B) < LatQuorum
<1>1. IsFiniteSet(Rep) /\ \A r \in Rep : RepWeight[r] \in Nat
  BY LatAssumption
<1>2. PICK total, a, c, b : /\ total = SumOver(RepWeight, Rep) /\ a = SumOver(RepWeight, A)
                            /\ c = SumOver(RepWeight, Rep \ A) /\ b = SumOver(RepWeight, B)
  OBVIOUS
<1>3. total = a + c
  BY <1>1, <1>2, SumParts
<1>4. PICK C : C = Rep \ A
  OBVIOUS
<1>5. IsFiniteSet(C) /\ B \in SUBSET C /\ \A r \in C : RepWeight[r] \in Nat
  BY <1>1, <1>4, FS_Subset
<1>6. SumOver(RepWeight, B) <= SumOver(RepWeight, C) /\ SumOver(RepWeight, B) \in Nat
      /\ SumOver(RepWeight, C) \in Nat
  BY <1>5, SumGrows
<1>7. a \in Nat
  BY <1>1, <1>2, SumGrows
<1>8. total \in Nat /\ b \in Nat /\ c \in Nat /\ b <= c
  BY <1>2, <1>3, <1>4, <1>6, <1>7
<1>9. LatQuorum = total \div 2 + 1
  BY <1>2 DEF LatQuorum, RepTotal
<1>10. a >= LatQuorum
  BY <1>2
<1>11. 2 * (total \div 2) + 1 >= total
  BY <1>8
<1> QED
  BY <1>2, <1>3, <1>7, <1>8, <1>9, <1>10, <1>11

LEMMA OneRivalConfirmed ==
  ASSUME LatShape, VotedOnce PROVE LatOneConfirmed
<1> SUFFICES ASSUME NEW n \in LatNode, NEW m \in LatNode,
                    NEW b \in DOMAIN latBlocks, NEW c \in DOMAIN latBlocks,
                    c \in Rivals(b), LatConfirmed(lat[n], b), LatConfirmed(lat[m], c),
                    b # c
             PROVE  FALSE
  BY DEF LatOneConfirmed
<1>1. PICK A : A = {r \in Rep : <<r, b>> \in lat[n].votes}
  OBVIOUS
<1>2. PICK B : B = {r \in Rep : <<r, c>> \in lat[m].votes}
  OBVIOUS
<1>3. b \in 1 .. Len(latBlocks) /\ c \in 1 .. Len(latBlocks)
  BY DEF LatShape, LatHistory
<1>4. A \cap B = {}
  BY <1>1, <1>2, <1>3 DEF VotedOnce
<1>5. SumOver(RepWeight, A) >= LatQuorum /\ SumOver(RepWeight, B) >= LatQuorum
  BY <1>1, <1>2 DEF LatConfirmed
<1>6. SumOver(RepWeight, B) < LatQuorum
  BY <1>1, <1>2, <1>4, <1>5, OneMajority
<1>7. SumOver(RepWeight, B) \in Nat /\ LatQuorum \in Int
  <2>1. IsFiniteSet(Rep) /\ \A r \in Rep : RepWeight[r] \in Nat
    BY LatAssumption
  <2>2. SumOver(RepWeight, B) \in Nat /\ SumOver(RepWeight, Rep) \in Nat
    BY <1>2, <2>1, SumGrows
  <2> QED
    BY <2>2 DEF LatQuorum, RepTotal
<1> QED
  BY <1>5, <1>6, <1>7

-----------------------------------------------------------------------------
(* The books of a history H with engines L: where every account is used    *)
(* from its home, the home knows each of its blocks, and what one of its   *)
(* accounts received it has seen and marked as claimed.                    *)
HomeKnows(H, L) == \A b \in 1 .. Len(H) : b \in L[Home[H[b].account]].blocks

ClaimsSeen(H, L) ==
  \A c \in 1 .. Len(H) :
    H[c].type = "receive" =>
      H[c].source \in L[Home[H[c].account]].claimed \cap L[Home[H[c].account]].blocks

BalanceIn(H, c) == IF c = <<>> THEN 0 ELSE H[c[Len(c)]].balance
HeldIn(H, L) == [a \in Account |-> BalanceIn(H, L[Home[a]].chains[a])]
AmountOf(H) == [b \in 1 .. Len(H) |-> H[b].amount]
Opens(H) == {b \in 1 .. Len(H) : H[b].type = "open"}
ReceivedIn(H, b) == \E c \in 1 .. Len(H) : H[c].type = "receive" /\ H[c].source = b
Unclaimed(H) == {b \in 1 .. Len(H) : H[b].type = "send" /\ ~ReceivedIn(H, b)}

RacedIn(H) ==
  \E b, c \in 1 .. Len(H) : /\ H[b].type = "receive" /\ H[c].type = "receive"
                            /\ H[b].source = H[c].source
                            /\ Home[H[b].account] # Home[H[c].account]

Balanced(H, L) ==
  SumOver(HeldIn(H, L), Account) + SumOver(AmountOf(H), Unclaimed(H))
    = SumOver(AmountOf(H), Opens(H))

Books(H, L) == /\ HomeKnows(H, L) /\ ClaimsSeen(H, L)
               /\ ~RacedIn(H) => Balanced(H, L)

LEMMA BooksMean ==
  ASSUME LatShape, latShared = {} => Books(latBlocks, lat) PROVE LatConserved
<1> SUFFICES ASSUME latShared = {}, ~LatRaced PROVE Balanced(latBlocks, lat) => LatConserved
  <2>1. ~LatRaced => ~RacedIn(latBlocks)
    BY DEF LatRaced, RacedIn, LatShape, LatHistory
  <2> QED
    BY <2>1 DEF Books, LatConserved
<1>1. DOMAIN latBlocks = 1 .. Len(latBlocks)
  BY DEF LatShape, LatHistory
<1>2. HeldIn(latBlocks, lat) = [a \in Account |-> BalanceOf(lat[Home[a]], a)]
  BY DEF HeldIn, BalanceIn, BalanceOf, LatHead
<1>3. AmountOf(latBlocks) = [b \in DOMAIN latBlocks |-> latBlocks[b].amount]
  BY <1>1 DEF AmountOf
<1>4. Opens(latBlocks) = {b \in DOMAIN latBlocks : latBlocks[b].type = "open"}
  BY <1>1 DEF Opens
<1>5. Unclaimed(latBlocks) =
        {b \in DOMAIN latBlocks :
           /\ latBlocks[b].type = "send"
           /\ \A c \in DOMAIN latBlocks :
                latBlocks[c].type = "receive" => latBlocks[c].source # b}
  BY <1>1 DEF Unclaimed, ReceivedIn
<1> QED
  BY <1>2, <1>3, <1>4, <1>5 DEF Balanced, LatConserved

(* Votes are not in the books.                                             *)
LEMMA BooksSame ==
  ASSUME NEW H, LatHistory(H), NEW J, NEW L, Books(H, L),
         \A m \in LatNode : /\ J[m].blocks = L[m].blocks
                            /\ J[m].chains = L[m].chains
                            /\ J[m].claimed = L[m].claimed
  PROVE  Books(H, J)
<1>1. ASSUME NEW b \in 1 .. Len(H) PROVE Home[H[b].account] \in LatNode
  <2>1. H[b] \in LatticeBlock
    BY DEF LatHistory
  <2> QED
    BY <2>1, LatAssumption DEF LatticeBlock
<1>2. \A a \in Account : Home[a] \in LatNode
  BY LatAssumption
<1>3. HeldIn(H, J) = HeldIn(H, L)
  BY <1>2 DEF HeldIn
<1>4. HomeKnows(H, J) /\ ClaimsSeen(H, J)
  BY <1>1 DEF Books, HomeKnows, ClaimsSeen
<1> QED
  BY <1>3, <1>4 DEF Books, Balanced

(* A block another node created changes the books of no home.              *)
LEMMA BooksObserved ==
  ASSUME LatShape, Books(latBlocks, lat), NEW n \in LatNode, NEW k \in DOMAIN latBlocks,
         LatObserve(n, k)
  PROVE  Books(latBlocks, lat')
<1>1. PICK N \in Nat : N = Len(latBlocks) /\ k \in 1 .. N
  BY DEF LatShape, LatHistory
<1>2. LatTaken(n, latBlocks, k)
  BY ObservingTakes, TakingEffect
<1>3. PICK H : H = latBlocks /\ LatHistory(H)
  BY DEF LatShape
<1>4. k \notin lat[n].blocks
  BY DEF LatObserve
<1>5. ASSUME NEW b \in 1 .. N
      PROVE  H[b] \in LatticeBlock /\ H[b].account \in Account /\ Home[H[b].account] \in LatNode
  <2>1. H[b] \in LatticeBlock
    BY <1>1, <1>3 DEF LatHistory
  <2> QED
    BY <2>1, LatAssumption DEF LatticeBlock
<1>6. Home[H[k].account] # n
  BY <1>1, <1>3, <1>4 DEF Books, HomeKnows
<1>7. \A m \in LatNode \ {n} : lat'[m] = lat[m]
  BY <1>2 DEF LatTaken
<1>8. lat'[n].blocks = lat[n].blocks \cup {k}
  BY <1>3, <1>4, <1>2 DEF LatTaken, LatApplied, Appended
<1>9. \A m \in LatNode : lat[m].blocks \subseteq lat'[m].blocks
  BY <1>7, <1>8
<1>10. ASSUME NEW a \in Account PROVE lat'[Home[a]].chains[a] = lat[Home[a]].chains[a]
  <2>1. CASE Home[a] # n
    BY <1>7, <2>1, LatAssumption
  <2>2. CASE Home[a] = n
    <3>1. a # H[k].account
      BY <1>6, <2>2
    <3>2. PICK c \in [Account -> Seq(1 .. N)] : c = lat[n].chains
      BY <1>1 DEF LatShape, LatEngine
    <3>3. \/ lat'[n].chains = c
          \/ lat'[n].chains = [c EXCEPT ![H[k].account] = Append(@, k)]
      BY <1>2, <1>3, <1>4, <3>2 DEF LatTaken, LatApplied, Appended
    <3> QED
      BY <2>2, <3>1, <3>2, <3>3
  <2> QED
    BY <2>1, <2>2
<1>11. HeldIn(H, lat') = HeldIn(H, lat)
  BY <1>10 DEF HeldIn
<1>12. HomeKnows(H, lat')
  BY <1>1, <1>3, <1>5, <1>9 DEF Books, HomeKnows
<1>13. ClaimsSeen(H, lat')
  <2> SUFFICES ASSUME NEW c \in 1 .. N, H[c].type = "receive",
                      NEW m \in LatNode, m = Home[H[c].account]
               PROVE  H[c].source \in lat'[m].claimed \cap lat'[m].blocks
    BY <1>1, <1>3, <1>5 DEF ClaimsSeen
  <2>1. H[c].source \in lat[m].claimed \cap lat[m].blocks
    BY <1>1, <1>3 DEF Books, ClaimsSeen
  <2>2. CASE m # n
    BY <1>7, <2>1, <2>2
  <2>3. CASE m = n
    <3>1. \/ lat'[n].claimed = lat[n].claimed
          \/ lat'[n].claimed = lat[n].claimed \cup {H[k].source}
          \/ lat'[n].claimed = lat[n].claimed \ {k}
      BY <1>2, <1>3, <1>4 DEF LatTaken, LatApplied, Appended
    <3> QED
      BY <1>4, <1>8, <2>1, <2>3, <3>1
  <2> QED
    BY <2>2, <2>3
<1> QED
  BY <1>3, <1>11, <1>12, <1>13 DEF Books, Balanced

(* A new block b at the home n of its account.                             *)
NewAtHome(n, block, H, b) ==
  /\ LatHistory(H) /\ H = Append(latBlocks, block) /\ b = Len(latBlocks) + 1 /\ Len(H) = b
  /\ \A c \in 1 .. Len(latBlocks) : H[c] = latBlocks[c]
  /\ H[b] = block /\ block \in LatticeBlock /\ n = Home[block.account]

LEMMA NewBlockStored ==
  ASSUME LatShape, NEW n \in LatNode, NEW block, NEW H, NEW b,
         LatProposes(n, block), LatWrites(n, block, H, b), NewAtHome(n, block, H, b)
  PROVE  LatTaken(n, H, b) /\ Appended(H, lat[n], lat'[n], b)
<1>1. LatTaken(n, H, b)
  BY WritingTakes, TakingEffect
<1>2. lat[n].blocks \subseteq 1 .. Len(latBlocks)
  BY DEF LatShape, LatEngine
<1>3. Len(latBlocks) \in Nat
  BY DEF LatShape, LatHistory
<1>4. b \notin lat[n].blocks
  BY <1>2, <1>3 DEF NewAtHome
<1>5. H[b].previous = LatHead(lat[n], H[b].account)
  BY DEF LatProposes, NextOf, NewAtHome
<1> QED
  BY <1>1, <1>4, <1>5 DEF LatTaken, LatApplied

(* What the homes hold changes by the balance the block states.            *)
LEMMA NewBlockHeld ==
  ASSUME LatShape, NEW n \in LatNode, NEW block, NEW H, NEW b,
         LatProposes(n, block), LatWrites(n, block, H, b), NewAtHome(n, block, H, b)
  PROVE  /\ BalanceOf(lat[n], block.account) \in Nat
         /\ SumOver(HeldIn(latBlocks, lat), Account) \in Int
         /\ SumOver(HeldIn(H, lat'), Account) =
              SumOver(HeldIn(latBlocks, lat), Account)
                + block.balance - BalanceOf(lat[n], block.account)
<1>1. LatTaken(n, H, b) /\ Appended(H, lat[n], lat'[n], b)
  BY NewBlockStored
<1>2. PICK N \in Nat : N = Len(latBlocks)
  BY DEF LatShape, LatHistory
<1>3. b = N + 1 /\ H[b] = block /\ \A c \in 1 .. N : H[c] = latBlocks[c]
  BY <1>2 DEF NewAtHome
<1>4. PICK a \in Account : a = block.account
  BY DEF NewAtHome, LatticeBlock
<1>5. ASSUME NEW m \in LatNode, NEW x \in Account
      PROVE  /\ lat[m].chains[x] \in Seq(1 .. N)
             /\ BalanceIn(H, lat[m].chains[x]) = BalanceOf(lat[m], x)
             /\ BalanceOf(lat[m], x) \in Nat
  <2>1. PICK c \in Seq(1 .. N) : c = lat[m].chains[x]
    BY <1>2 DEF LatShape, LatEngine
  <2>2. c # <<>> => c[Len(c)] \in 1 .. N
    BY <2>1
  <2>3. BalanceIn(H, c) = BalanceOf(lat[m], x)
    BY <1>3, <2>1, <2>2 DEF BalanceIn, BalanceOf, LatHead
  <2>4. lat[m] \in LatEngine(Len(latBlocks)) /\ LatHistory(latBlocks)
    BY DEF LatShape
  <2>5. BalanceOf(lat[m], x) \in Nat
    BY <2>4, HeadTypes
  <2> QED
    BY <2>1, <2>3, <2>5
<1>6. \A x \in Account : Home[x] \in LatNode
  BY LatAssumption
<1>7. PICK f : f = [x \in Account |-> BalanceOf(lat[Home[x]], x)]
  OBVIOUS
<1>8. f = HeldIn(latBlocks, lat)
  BY <1>7 DEF HeldIn, BalanceIn, BalanceOf, LatHead
<1>9. PICK g : g = HeldIn(H, lat')
  OBVIOUS
<1>10. n = Home[a]
  BY <1>4 DEF NewAtHome
<1>11. PICK c \in [Account -> Seq(1 .. N)] : c = lat[n].chains
  BY <1>2 DEF LatShape, LatEngine
<1>12. lat'[n].chains = [c EXCEPT ![a] = Append(@, b)]
  BY <1>1, <1>3, <1>4, <1>11 DEF Appended
<1>13. g[a] = block.balance
  <2>1. lat'[n].chains[a] = Append(c[a], b)
    BY <1>11, <1>12
  <2>2. PICK d : d = Append(c[a], b)
    OBVIOUS
  <2>3. d # <<>> /\ d[Len(d)] = b
    <3>1. PICK e \in Seq(1 .. N) : e = c[a]
      BY <1>11
    <3> QED
      BY <2>2, <3>1
  <2>4. BalanceIn(H, d) = block.balance
    BY <1>3, <2>3 DEF BalanceIn
  <2> QED
    BY <1>9, <1>10, <2>1, <2>2, <2>4 DEF HeldIn
<1>14. ASSUME NEW x \in Account \ {a} PROVE g[x] = f[x]
  <2>1. lat'[Home[x]].chains[x] = lat[Home[x]].chains[x]
    <3>1. CASE Home[x] = n
      BY <1>11, <1>12, <3>1
    <3>2. CASE Home[x] # n
      BY <1>1, <1>6, <3>2 DEF LatTaken
    <3> QED
      BY <3>1, <3>2
  <2>2. g[x] = BalanceIn(H, lat[Home[x]].chains[x])
    BY <1>9, <2>1 DEF HeldIn
  <2> QED
    BY <1>5, <1>6, <1>7, <2>2
<1>15. \A x \in Account : f[x] \in Int
  BY <1>5, <1>6, <1>7
<1>16. block.balance \in Int
  BY DEF NewAtHome, LatticeBlock
<1>17. IsFiniteSet(Account)
  BY LatAssumption
<1>18. SumOver(g, Account) = SumOver(f, Account) + g[a] - f[a]
  BY <1>13, <1>14, <1>15, <1>16, <1>17, SumChange
<1>19. f[a] = BalanceOf(lat[n], a)
  BY <1>7, <1>10
<1>20. SumOver(f, Account) \in Int
  BY <1>15, <1>17, SumType
<1>21. BalanceOf(lat[n], a) \in Nat
  BY <1>5
<1> QED
  BY <1>4, <1>8, <1>9, <1>13, <1>18, <1>19, <1>20, <1>21

(* A sum over the blocks of before is what it was, and b may join it.      *)
LEMMA NewBlockSums ==
  ASSUME LatShape, NEW n \in LatNode, NEW block, NEW H, NEW b, NewAtHome(n, block, H, b),
         NEW S \in SUBSET (1 .. Len(latBlocks))
  PROVE  /\ SumOver(AmountOf(latBlocks), S) \in Int /\ block.amount \in Nat
         /\ SumOver(AmountOf(H), S) = SumOver(AmountOf(latBlocks), S)
         /\ SumOver(AmountOf(H), S \cup {b}) = SumOver(AmountOf(latBlocks), S) + block.amount
<1>1. PICK N \in Nat : N = Len(latBlocks)
  BY DEF LatShape, LatHistory
<1>2. b = N + 1 /\ H[b] = block /\ \A c \in 1 .. N : H[c] = latBlocks[c]
  BY <1>1 DEF NewAtHome
<1>3. PICK f : f = AmountOf(latBlocks)
  OBVIOUS
<1>4. PICK g : g = AmountOf(H)
  OBVIOUS
<1>5. ASSUME NEW c \in 1 .. N PROVE f[c] \in Int
  <2>1. latBlocks[c] \in LatticeBlock
    BY <1>1 DEF LatShape, LatHistory
  <2> QED
    BY <1>1, <1>3, <2>1 DEF AmountOf, LatticeBlock
<1>6. 1 .. N \subseteq 1 .. Len(H) /\ b \in 1 .. Len(H)
  BY <1>1, <1>2 DEF NewAtHome
<1>7. g[b] = block.amount /\ \A c \in 1 .. N : g[c] = f[c]
  BY <1>1, <1>2, <1>3, <1>4, <1>6 DEF AmountOf
<1>8. block.amount \in Nat
  BY DEF NewAtHome, LatticeBlock
<1>9. IsFiniteSet(1 .. N)
  BY FS_Interval
<1>10. IsFiniteSet(S) /\ S \subseteq 1 .. N /\ b \notin S
  <2>1. S \subseteq 1 .. N
    BY <1>1
  <2>2. IsFiniteSet(S)
    BY <1>9, <2>1, FS_Subset
  <2>3. b \notin 1 .. N
    BY <1>2
  <2> QED
    BY <2>1, <2>2, <2>3
<1>11. \A c \in S : f[c] \in Int /\ g[c] = f[c] /\ g[c] \in Int
  BY <1>5, <1>7, <1>10
<1>12. SumOver(g, S) = SumOver(f, S)
  <2>1. \A c \in S : f[c] \in Int /\ g[c] = f[c]
    BY <1>11
  <2> QED
    BY <1>10, <2>1, SumAgree
<1>13. SumOver(f, S) \in Int
  BY <1>10, <1>11, SumType
<1>14. g[b] \in Int
  BY <1>7, <1>8
<1>15. SumOver(g, S \cup {b}) = SumOver(g, S) + g[b]
  BY <1>10, <1>11, <1>14, SumInsert
<1> QED
  BY <1>3, <1>4, <1>7, <1>8, <1>12, <1>13, <1>15

(* Which sends are open after the new block.                               *)
NewUnclaimed(H, b, U, block) ==
  CASE block.type = "send" -> U \cup {b}
    [] block.type = "receive" -> U \ {block.source}
    [] OTHER -> U

LEMMA NewBlockClaims ==
  ASSUME LatShape, ClaimsSeen(latBlocks, lat), NEW n \in LatNode, NEW block, NEW H, NEW b,
         LatProposes(n, block), LatWrites(n, block, H, b), NewAtHome(n, block, H, b)
  PROVE  /\ Unclaimed(H) = NewUnclaimed(H, b, Unclaimed(latBlocks), block)
         /\ ClaimsSeen(H, lat')
         /\ ~RacedIn(H) => ~RacedIn(latBlocks)
         /\ ~RacedIn(H) /\ block.type = "receive" => ~ReceivedIn(latBlocks, block.source)
<1>1. LatTaken(n, H, b) /\ Appended(H, lat[n], lat'[n], b)
  BY NewBlockStored
<1>2. PICK N \in Nat : N = Len(latBlocks)
  BY DEF LatShape, LatHistory
<1>3. b = N + 1 /\ H[b] = block /\ \A c \in 1 .. N : H[c] = latBlocks[c]
  BY <1>2 DEF NewAtHome
<1>4. ASSUME NEW c \in 1 .. Len(H) PROVE Home[H[c].account] \in LatNode
  <2>1. H[c] \in LatticeBlock
    BY DEF NewAtHome, LatHistory
  <2> QED
    BY <2>1, LatAssumption DEF LatticeBlock
<1>5. /\ Len(H) = b /\ 1 .. b = (1 .. N) \cup {b} /\ b \notin 1 .. N
      /\ n = Home[block.account]
  BY <1>3 DEF NewAtHome
<1>6. lat[n].blocks \subseteq 1 .. N
  BY <1>2 DEF LatShape, LatEngine
<1>7. \A m \in LatNode \ {n} : lat'[m] = lat[m]
  BY <1>1 DEF LatTaken
<1>8. lat'[n].blocks = lat[n].blocks \cup {b}
  BY <1>1 DEF Appended
<1>9. lat'[n].claimed = CASE block.type = "receive" -> lat[n].claimed \cup {block.source}
                          [] block.type = "send" -> lat[n].claimed \ {b}
                          [] OTHER -> lat[n].claimed
  BY <1>1, <1>3 DEF Appended
<1>10. block.type = "receive" => /\ block.source \in lat[n].blocks \ lat[n].claimed
                                 /\ block.source \in 1 .. N
  BY <1>6 DEF LatProposes, NextOf
<1>11. \A c \in 1 .. N : H[c].type = "receive" => H[c].source \in 1 .. N
  BY <1>2, <1>3 DEF LatShape, LatHistory
<1>12. \A s : ReceivedIn(H, s) <=>
                 ReceivedIn(latBlocks, s) \/ (block.type = "receive" /\ block.source = s)
  BY <1>2, <1>3, <1>5 DEF ReceivedIn
<1>13. ~ReceivedIn(H, b)
  BY <1>3, <1>5, <1>10, <1>11 DEF ReceivedIn
<1>14. Unclaimed(H) = NewUnclaimed(H, b, Unclaimed(latBlocks), block)
  <2>1. PICK U : U = Unclaimed(latBlocks)
    OBVIOUS
  <2>2. ASSUME NEW c \in 1 .. N
        PROVE  c \in Unclaimed(H) <=>
                 c \in U /\ ~ (block.type = "receive" /\ c = block.source)
    BY <1>2, <1>3, <1>5, <1>12, <2>1 DEF Unclaimed
  <2>3. b \in Unclaimed(H) <=> block.type = "send"
    BY <1>3, <1>5, <1>13 DEF Unclaimed
  <2>4. U \subseteq 1 .. N /\ Unclaimed(H) \subseteq (1 .. N) \cup {b}
    <3>1. U \subseteq 1 .. N
      BY <1>2, <2>1 DEF Unclaimed
    <3>2. Unclaimed(H) \subseteq 1 .. Len(H)
      BY DEF Unclaimed
    <3> QED
      BY <1>5, <3>1, <3>2
  <2>5. CASE block.type = "send"
    BY <2>1, <2>2, <2>3, <2>4, <2>5 DEF NewUnclaimed
  <2>6. CASE block.type = "receive"
    BY <1>5, <2>1, <2>2, <2>3, <2>4, <2>6 DEF NewUnclaimed
  <2>7. CASE block.type \notin {"send", "receive"}
    <3>1. NewUnclaimed(H, b, U, block) = U
      BY <2>7 DEF NewUnclaimed
    <3>2. Unclaimed(H) = U
      BY <2>2, <2>3, <2>4, <2>7
    <3> QED
      BY <2>1, <3>1, <3>2
  <2> QED
    BY <2>5, <2>6, <2>7
<1>15. ASSUME NEW c \in 1 .. Len(H), H[c].type = "receive",
              NEW m \in LatNode, m = Home[H[c].account]
       PROVE  H[c].source \in lat'[m].claimed \cap lat'[m].blocks
  <2>1. CASE c = b
    <3>1. m = n /\ block.type = "receive" /\ H[c].source = block.source
      BY <1>3, <1>5, <1>15, <2>1
    <3> QED
      BY <1>8, <1>9, <1>10, <3>1
  <2>2. CASE c \in 1 .. N
    <3>1. H[c].source \in lat[m].claimed \cap lat[m].blocks
      BY <1>2, <1>3, <1>15, <2>2 DEF ClaimsSeen
    <3>2. CASE m = n
      BY <1>5, <1>6, <1>8, <1>9, <3>1, <3>2
    <3>3. CASE m # n
      BY <1>7, <3>1, <3>3
    <3> QED
      BY <3>2, <3>3
  <2> QED
    BY <1>5, <2>1, <2>2
<1>16. ClaimsSeen(H, lat')
  BY <1>4, <1>15 DEF ClaimsSeen
<1>17. ~RacedIn(H) => ~RacedIn(latBlocks)
  BY <1>2, <1>3, <1>5 DEF RacedIn
<1>18. ASSUME ~RacedIn(H), block.type = "receive", ReceivedIn(latBlocks, block.source)
       PROVE  FALSE
  <2>1. PICK c \in 1 .. N : H[c].type = "receive" /\ H[c].source = block.source
    BY <1>2, <1>3, <1>18 DEF ReceivedIn
  <2>2. Home[H[c].account] = n
    BY <1>3, <1>5, <1>18, <2>1 DEF RacedIn
  <2>3. block.source \in lat[n].claimed
    BY <1>2, <1>3, <2>1, <2>2 DEF ClaimsSeen
  <2> QED
    BY <1>10, <1>18, <2>3
<1> QED
  BY <1>14, <1>16, <1>17, <1>18

LEMMA NewBlockBooks ==
  ASSUME LatShape, Books(latBlocks, lat), NEW n \in LatNode, NEW block, NEW H, NEW b,
         LatProposes(n, block), LatWrites(n, block, H, b), NewAtHome(n, block, H, b)
  PROVE  Books(H, lat')
<1>1. LatTaken(n, H, b) /\ Appended(H, lat[n], lat'[n], b)
  BY NewBlockStored
<1>2. PICK N \in Nat : N = Len(latBlocks)
  BY DEF LatShape, LatHistory
<1>3. /\ b = N + 1 /\ H[b] = block /\ \A c \in 1 .. N : H[c] = latBlocks[c]
      /\ Len(H) = b /\ n = Home[block.account] /\ block \in LatticeBlock
  BY <1>2 DEF NewAtHome
<1>4. HomeKnows(H, lat')
  <2> SUFFICES ASSUME NEW c \in 1 .. Len(H) PROVE c \in lat'[Home[H[c].account]].blocks
    BY DEF HomeKnows
  <2>1. PICK m \in LatNode : m = Home[H[c].account]
    <3>1. H[c] \in LatticeBlock
      BY DEF NewAtHome, LatHistory
    <3> QED
      BY <3>1, LatAssumption DEF LatticeBlock
  <2>2. lat[m].blocks \subseteq lat'[m].blocks /\ b \in lat'[n].blocks
    BY <1>1 DEF LatTaken, Appended
  <2>3. CASE c = b
    BY <1>3, <2>1, <2>2, <2>3
  <2>4. CASE c \in 1 .. N
    <3>1. c \in lat[m].blocks
      BY <1>2, <1>3, <2>1, <2>4 DEF Books, HomeKnows
    <3> QED
      BY <2>1, <2>2, <3>1
  <2> QED
    BY <1>3, <2>3, <2>4
<1>5. ClaimsSeen(H, lat')
  BY NewBlockClaims DEF Books
<1> SUFFICES ASSUME ~RacedIn(H) PROVE Balanced(H, lat')
  BY <1>4, <1>5 DEF Books
<1>6. PICK U : U = Unclaimed(latBlocks) /\ U \in SUBSET (1 .. Len(latBlocks))
  BY DEF Unclaimed
<1>7. PICK O : O = Opens(latBlocks) /\ O \in SUBSET (1 .. Len(latBlocks))
  BY DEF Opens
<1>8. PICK held, bal : /\ held = SumOver(HeldIn(latBlocks, lat), Account)
                       /\ bal = BalanceOf(lat[n], block.account)
  OBVIOUS
<1>9. /\ held \in Int /\ bal \in Nat
      /\ SumOver(HeldIn(H, lat'), Account) = held + block.balance - bal
  BY <1>8, NewBlockHeld
<1>10. PICK u, o : u = SumOver(AmountOf(latBlocks), U) /\ o = SumOver(AmountOf(latBlocks), O)
  OBVIOUS
<1>11. /\ u \in Int /\ block.amount \in Nat
       /\ SumOver(AmountOf(H), U) = u /\ SumOver(AmountOf(H), U \cup {b}) = u + block.amount
  <2>1. U \in SUBSET (1 .. Len(latBlocks))
    BY <1>6
  <2>2. /\ SumOver(AmountOf(latBlocks), U) \in Int /\ block.amount \in Nat
        /\ SumOver(AmountOf(H), U) = SumOver(AmountOf(latBlocks), U)
        /\ SumOver(AmountOf(H), U \cup {b}) = SumOver(AmountOf(latBlocks), U) + block.amount
    BY <2>1, NewBlockSums
  <2>3. u = SumOver(AmountOf(latBlocks), U)
    BY <1>10
  <2> QED
    BY <2>2, <2>3
<1>12. /\ o \in Int
       /\ SumOver(AmountOf(H), O) = o /\ SumOver(AmountOf(H), O \cup {b}) = o + block.amount
  <2>1. O \in SUBSET (1 .. Len(latBlocks))
    BY <1>7
  <2>2. /\ SumOver(AmountOf(latBlocks), O) \in Int
        /\ SumOver(AmountOf(H), O) = SumOver(AmountOf(latBlocks), O)
        /\ SumOver(AmountOf(H), O \cup {b}) = SumOver(AmountOf(latBlocks), O) + block.amount
    BY <2>1, NewBlockSums
  <2>3. o = SumOver(AmountOf(latBlocks), O)
    BY <1>10
  <2> QED
    BY <2>2, <2>3
<1>13. held + u = o
  <2>1. SumOver(HeldIn(latBlocks, lat), Account)
          + SumOver(AmountOf(latBlocks), Unclaimed(latBlocks))
            = SumOver(AmountOf(latBlocks), Opens(latBlocks))
    <3>1. ~RacedIn(latBlocks)
      BY NewBlockClaims DEF Books
    <3> QED
      BY <3>1 DEF Books, Balanced
  <2>2. held = SumOver(HeldIn(latBlocks, lat), Account)
    BY <1>8
  <2>3. u = SumOver(AmountOf(latBlocks), Unclaimed(latBlocks))
    BY <1>6, <1>10
  <2>4. o = SumOver(AmountOf(latBlocks), Opens(latBlocks))
    BY <1>7, <1>10
  <2> QED
    BY <2>1, <2>2, <2>3, <2>4
<1>14. Unclaimed(H) = NewUnclaimed(H, b, U, block)
  BY <1>6, NewBlockClaims DEF Books
<1>15. Opens(H) = IF block.type = "open" THEN O \cup {b} ELSE O
  <2>1. 1 .. Len(H) = (1 .. N) \cup {b} /\ b \notin 1 .. N
    BY <1>3
  <2>2. \A c \in 1 .. N : c \in Opens(H) <=> c \in O
    BY <1>2, <1>3, <1>7, <2>1 DEF Opens
  <2>3. b \in Opens(H) <=> block.type = "open"
    BY <1>3, <2>1 DEF Opens
  <2>4. Opens(H) \subseteq (1 .. N) \cup {b} /\ O \subseteq 1 .. N
    BY <1>2, <1>7, <2>1 DEF Opens
  <2>5. CASE block.type = "open"
    <3>1. Opens(H) = O \cup {b}
      BY <2>2, <2>3, <2>4, <2>5
    <3> QED
      BY <2>5, <3>1
  <2>6. CASE block.type # "open"
    <3>1. Opens(H) = O
      BY <2>2, <2>3, <2>4, <2>6
    <3> QED
      BY <2>6, <3>1
  <2> QED
    BY <2>5, <2>6
<1>16. NextOf(lat[n], block)
  BY DEF LatProposes
<1>17. CASE block.type = "open"
  <2>1. bal = 0 /\ block.balance = block.amount
    BY <1>8, <1>16, <1>17 DEF NextOf, BalanceOf
  <2>2. Unclaimed(H) = U /\ Opens(H) = O \cup {b}
    BY <1>14, <1>15, <1>17 DEF NewUnclaimed
  <2>3. SumOver(HeldIn(H, lat'), Account) + SumOver(AmountOf(H), U)
          = SumOver(AmountOf(H), O \cup {b})
    BY <1>9, <1>11, <1>12, <1>13, <2>1
  <2> QED
    BY <2>2, <2>3 DEF Balanced
<1>18. CASE block.type = "send"
  <2>1. block.balance = bal - block.amount
    BY <1>8, <1>16, <1>18 DEF NextOf
  <2>2. Unclaimed(H) = U \cup {b} /\ Opens(H) = O
    BY <1>14, <1>15, <1>18 DEF NewUnclaimed
  <2>3. SumOver(HeldIn(H, lat'), Account) + SumOver(AmountOf(H), U \cup {b})
          = SumOver(AmountOf(H), O)
    BY <1>9, <1>11, <1>12, <1>13, <2>1
  <2> QED
    BY <2>2, <2>3 DEF Balanced
<1>19. CASE block.type = "receive"
  <2>1. /\ block.balance = bal + block.amount
        /\ block.source \in lat[n].blocks \ lat[n].claimed
        /\ latBlocks[block.source].type = "send"
        /\ latBlocks[block.source].amount = block.amount
    BY <1>8, <1>16, <1>19 DEF NextOf
  <2>2. PICK s \in 1 .. N : s = block.source
    BY <1>2, <2>1 DEF LatShape, LatEngine
  <2>3. s \in U
    <3>1. ~ReceivedIn(latBlocks, s)
      BY <1>19, <2>2, NewBlockClaims DEF Books
    <3> QED
      BY <1>2, <1>6, <2>1, <2>2, <3>1 DEF Unclaimed
  <2>4. Unclaimed(H) = U \ {s} /\ Opens(H) = O
    BY <1>14, <1>15, <1>19, <2>2 DEF NewUnclaimed
  <2>5. PICK f : f = AmountOf(H)
    OBVIOUS
  <2>6. \A c \in U : f[c] \in Int
    <3>1. ASSUME NEW c \in 1 .. Len(H) PROVE f[c] \in Int
      <4>1. H[c] \in LatticeBlock
        BY DEF NewAtHome, LatHistory
      <4> QED
        BY <2>5, <4>1 DEF AmountOf, LatticeBlock
    <3>2. U \subseteq 1 .. Len(H)
      BY <1>2, <1>3, <1>6
    <3> QED
      BY <3>1, <3>2
  <2>7. IsFiniteSet(U)
    <3>1. IsFiniteSet(1 .. N)
      BY FS_Interval
    <3> QED
      BY <1>2, <1>6, <3>1, FS_Subset
  <2>8. /\ SumOver(f, U) = f[s] + SumOver(f, U \ {s})
        /\ SumOver(f, U \ {s}) \in Int
    BY <2>3, <2>6, <2>7, SumRemove
  <2>9. f[s] = block.amount
    <3>1. s \in 1 .. Len(H) /\ H[s] = latBlocks[s]
      BY <1>3
    <3> QED
      BY <2>1, <2>2, <2>5, <3>1 DEF AmountOf
  <2>10. PICK rest \in Int : rest = SumOver(f, U \ {s})
    BY <2>8
  <2>11. u = block.amount + rest
    BY <1>11, <2>5, <2>8, <2>9, <2>10
  <2>12. SumOver(HeldIn(H, lat'), Account) + SumOver(AmountOf(H), U \ {s})
          = SumOver(AmountOf(H), O)
    BY <1>9, <1>11, <1>12, <1>13, <2>1, <2>5, <2>10, <2>11
  <2> QED
    BY <2>4, <2>12 DEF Balanced
<1> QED
  BY <1>3, <1>17, <1>18, <1>19 DEF LatticeBlock

(* The inductive invariant.                                                *)
LatInv ==
  /\ LatShape /\ VotedOnce
  /\ latShared = {} => Books(latBlocks, lat)

LEMMA LatStart == LatInit => LatInv
<1> SUFFICES ASSUME LatInit PROVE LatInv
  OBVIOUS
<1>1. /\ latBlocks = <<>> /\ latVotes = {} /\ latShared \subseteq Account
      /\ \A n \in LatNode : /\ lat[n].blocks = {} /\ lat[n].claimed = {} /\ lat[n].votes = {}
                            /\ lat[n].chains = [a \in Account |-> <<>>]
  BY DEF LatInit
<1>2. <<>> \in Seq(LatticeBlock) /\ Len(<<>>) = 0 /\ 1 .. 0 = {}
  OBVIOUS
<1>3. LatHistory(latBlocks)
  BY <1>1, <1>2, LatAssumption DEF LatHistory
<1>4. lat \in [LatNode -> LatEngine(0)]
  <2>1. <<>> \in Seq(1 .. 0)
    OBVIOUS
  <2>2. [a \in Account |-> <<>>] \in [Account -> Seq(1 .. 0)]
    BY <2>1
  <2> QED
    BY <2>2 DEF LatInit, LatEngine
<1>5. LatShape
  BY <1>1, <1>2, <1>3, <1>4 DEF LatShape
<1>6. VotedOnce
  BY <1>1, <1>2 DEF VotedOnce
<1>7. Books(latBlocks, lat)
  <2>1. HomeKnows(latBlocks, lat) /\ ClaimsSeen(latBlocks, lat)
    BY <1>1, <1>2 DEF HomeKnows, ClaimsSeen
  <2>2. Unclaimed(latBlocks) = {} /\ Opens(latBlocks) = {}
    BY <1>1, <1>2 DEF Unclaimed, Opens
  <2>3. SumOver(HeldIn(latBlocks, lat), Account) = 0
    <3>1. PICK f : f = HeldIn(latBlocks, lat)
      OBVIOUS
    <3>2. \A a \in Account : f[a] = 0
      BY <1>1, <3>1, LatAssumption DEF HeldIn, BalanceIn
    <3>3. IsFiniteSet(Account)
      BY LatAssumption
    <3>4. \A s \in SUBSET Account : s \in {t \in SUBSET Account : SumOver(f, t) = 0}
      <4>1. PICK P : P = {t \in SUBSET Account : SumOver(f, t) = 0}
        OBVIOUS
      <4>2. {} \in P
        BY <4>1, SumEmpty
      <4>3. ASSUME NEW s \in SUBSET Account, s # {}, \A x \in s : s \ {x} \in P PROVE s \in P
        <5>1. PICK x \in s : TRUE
          BY <4>3
        <5>2. IsFiniteSet(s) /\ \A y \in s : f[y] \in Int
          BY <3>2, <3>3, FS_Subset
        <5>3. SumOver(f, s) = f[x] + SumOver(f, s \ {x})
          BY <5>2, SumRemove
        <5>4. f[x] = 0 /\ SumOver(f, s \ {x}) = 0
          BY <3>2, <4>1, <4>3
        <5> QED
          BY <4>1, <5>3, <5>4
      <4>4. \A s \in SUBSET Account : s \in P
        BY <3>3, <4>2, <4>3, EverySubset
      <4> QED
        BY <4>1, <4>4
    <3> QED
      BY <3>1, <3>4
  <2>4. SumOver(AmountOf(latBlocks), {}) = 0
    BY SumEmpty
  <2> QED
    BY <2>1, <2>2, <2>3, <2>4 DEF Books, Balanced
<1> QED
  BY <1>5, <1>6, <1>7 DEF LatInv

LEMMA LatStep == LatInv /\ [LatNext]_latVars => LatInv'
<1> SUFFICES ASSUME LatInv, [LatNext]_latVars PROVE LatInv'
  OBVIOUS
<1>1. LatShape /\ VotedOnce
  BY DEF LatInv
<1>2. CASE UNCHANGED latVars
  <2>1. latBlocks' = latBlocks /\ lat' = lat /\ latShared' = latShared /\ latVotes' = latVotes
    BY <1>2 DEF latVars
  <2>2. LatShape'
    BY <1>1, <2>1 DEF LatShape
  <2>3. VotedOnce'
    BY <1>1, <2>1 DEF VotedOnce, Rivals
  <2> QED
    BY <2>1, <2>2, <2>3 DEF LatInv
<1>3. CASE LatNext
  <2>1. LatMoves
    BY <1>1, <1>3, LatNextMoves
  <2>2. LatShape' /\ VotedOnce'
    BY <1>1, <2>1, LatMovesKeep
  <2>3. latShared' = latShared
    BY <2>1 DEF LatMoves, LatWrites, LatObserve, LatCast, LatHearVote
  <2>4. ASSUME latShared = {} PROVE Books(latBlocks', lat')
    <3>1. Books(latBlocks, lat) /\ LatHistory(latBlocks)
      BY <1>1, <2>4 DEF LatInv, LatShape
    <3>2. ASSUME NEW n \in LatNode, NEW block, NEW H, NEW b,
                 LatProposes(n, block), LatWrites(n, block, H, b)
          PROVE  Books(latBlocks', lat')
      <4>1. n = Home[block.account] /\ block \in LatticeBlock /\ latBlocks' = H
        BY <2>4, <3>2 DEF LatWrites, LatProposes, NextOf
      <4>2. CASE H = latBlocks
        <5>1. b \in 1 .. Len(latBlocks) /\ latBlocks[b] = block
          BY <3>2, <4>2 DEF LatWrites
        <5>2. b \in lat[n].blocks
          BY <3>1, <4>1, <5>1 DEF Books, HomeKnows
        <5>3. LatTaken(n, H, b)
          BY <1>1, <3>2, WritingTakes, TakingEffect
        <5>4. lat'[n] = lat[n]
          BY <5>2, <5>3 DEF LatTaken, LatApplied
        <5>5. \A m \in LatNode : lat'[m] = lat[m]
          BY <5>3, <5>4 DEF LatTaken
        <5>6. Books(latBlocks, lat')
          BY <3>1, <5>5, BooksSame
        <5> QED
          BY <4>1, <4>2, <5>6
      <4>3. CASE H # latBlocks
        <5>1. NewAtHome(n, block, H, b)
          BY <3>2, <4>1, <4>3 DEF LatWrites, NewAtHome
        <5>2. Books(H, lat')
          BY <1>1, <3>1, <3>2, <5>1, NewBlockBooks
        <5> QED
          BY <4>1, <5>2
      <4> QED
        BY <4>2, <4>3
    <3>3. ASSUME NEW n \in LatNode, NEW b \in DOMAIN latBlocks, LatObserve(n, b)
          PROVE  Books(latBlocks', lat')
      <4>1. latBlocks' = latBlocks
        BY <3>3 DEF LatObserve
      <4>2. Books(latBlocks, lat')
        BY <1>1, <3>1, <3>3, BooksObserved
      <4> QED
        BY <4>1, <4>2
    <3>4. ASSUME NEW r \in Rep, NEW b \in DOMAIN latBlocks, LatCast(r, b)
          PROVE  Books(latBlocks', lat')
      BY <3>1, <3>4 DEF LatCast
    <3>5. ASSUME NEW n \in LatNode, NEW v \in latVotes, LatHearVote(n, v)
          PROVE  Books(latBlocks', lat')
      <4>1. latBlocks' = latBlocks
        BY <3>5 DEF LatHearVote
      <4>2. \A m \in LatNode : /\ lat'[m].blocks = lat[m].blocks
                               /\ lat'[m].chains = lat[m].chains
                               /\ lat'[m].claimed = lat[m].claimed
        BY <1>1, <3>5, HeardShape
      <4>3. Books(latBlocks, lat')
        BY <3>1, <4>2, BooksSame
      <4> QED
        BY <4>1, <4>3
    <3> QED
      BY <2>1, <3>2, <3>3, <3>4, <3>5 DEF LatMoves
  <2> QED
    BY <2>2, <2>3, <2>4 DEF LatInv
<1> QED
  BY <1>2, <1>3

THEOREM LatInvariant == LatSpec => []LatInv
BY LatStart, LatStep, PTL DEF LatSpec

(* Of the blocks that compete for one place of an account's chain the      *)
(* votes confirm at most one, whichever node counts them                   *)
(* (record_vote, is_confirmed).                                            *)
THEOREM LatOneConfirmedHolds == LatSpec => []LatOneConfirmed
<1>1. LatInv => LatOneConfirmed
  BY OneRivalConfirmed DEF LatInv
<1> QED
  BY <1>1, LatInvariant, PTL

(* Transfers neither make nor lose money while every account is used from  *)
(* one node and no two nodes claim one send; a node never receives a send  *)
(* twice (_apply, send, receive).                                          *)
THEOREM LatConservedHolds == LatSpec => []LatConserved
<1>1. LatInv => LatConserved
  BY BooksMean DEF LatInv
<1> QED
  BY <1>1, LatInvariant, PTL

(* Every node's blocks, chains, claims and votes are of their kinds.       *)
THEOREM LatTypesHold == LatSpec => []LatTypeOK
<1>1. LatInv => LatTypeOK
  <2> SUFFICES ASSUME LatShape, VotedOnce PROVE LatTypeOK
    BY DEF LatInv
  <2>1. Len(latBlocks) \in Nat /\ Len(latBlocks) <= MaxBlocks /\ MaxBlocks \in Nat
    BY LatAssumption DEF LatShape, LatHistory
  <2>2. 1 .. Len(latBlocks) \subseteq LatticeId
    BY <2>1 DEF LatticeId
  <2>3. latVotes \subseteq Rep \X LatticeId
    BY <2>2 DEF VotedOnce
  <2>4. ASSUME NEW n \in LatNode PROVE lat[n] \in LatEngine(MaxBlocks)
    BY <2>1, <2>4, LatEngineGrows DEF LatShape
  <2>5. lat \in [LatNode -> LatEngine(MaxBlocks)]
    BY <2>4 DEF LatShape
  <2> QED
    BY <2>3, <2>5 DEF LatTypeOK, LatShape, LatHistory, LatEngine, LatticeId
<1> QED
  BY <1>1, LatInvariant, PTL

-----------------------------------------------------------------------------
(* The tangle.  What a node knows has known parents; what approves a       *)
(* transaction depends on that alone; and of what it knows, a node has     *)
(* confirmed every transaction without conflict that weighs enough.        *)
DagKnown(P, e) ==
  /\ e.txs \subseteq {Genesis} \cup DOMAIN P /\ Genesis \in e.txs
  /\ \A t \in e.txs \cap DOMAIN P : P[t] \subseteq e.txs

DagWeighed(P, e) ==
  /\ e.confirmed \subseteq e.txs
  /\ \A t \in e.confirmed : CumulativeWeight(P, e, t) >= ConfirmationWeight
  /\ \A t \in e.txs \cap DagTx :
       DagConflict[t] = NoConflict /\ CumulativeWeight(P, e, t) >= ConfirmationWeight
         => t \in e.confirmed

Unapproved(P, e) == {t \in e.txs : \A u \in e.txs \cap DOMAIN P : t \notin P[u]}

DagEngineInv(P, e) ==
  /\ e \in DagEngine /\ DagKnown(P, e) /\ DagWeighed(P, e) /\ e.tips = Unapproved(P, e)

DagHistory(P) == DOMAIN P \subseteq DagTx /\ \A t \in DOMAIN P : P[t] \subseteq 0 .. MaxTx

DagInv ==
  /\ DagHistory(parents) /\ dag \in [DagNode -> DagEngine]
  /\ \A n \in DagNode : DagEngineInv(parents, dag[n])

(* What approves a transaction is decided by what the node knows. *)
LEMMA ApproversFrom ==
  ASSUME NEW P, NEW e, NEW f, e.txs = f.txs, NEW t
  PROVE  Approvers(P, e, t) = Approvers(P, f, t)
BY DEF Approvers, HasChildren

(* ... and not by what others propose. *)
LEMMA ApproversElsewhere ==
  ASSUME NEW P, NEW Q, NEW e, DOMAIN P \cap e.txs = DOMAIN Q \cap e.txs,
         \A u \in DOMAIN P \cap e.txs : Q[u] = P[u], NEW t
  PROVE  Approvers(Q, e, t) = Approvers(P, e, t)
<1>1. ASSUME NEW A PROVE HasChildren(Q, e, A) <=> HasChildren(P, e, A)
  BY DEF HasChildren
<1> QED
  BY <1>1 DEF Approvers

LEMMA ApproversGrow ==
  ASSUME NEW P, NEW e, NEW f, e.txs \subseteq f.txs, NEW t \in e.txs
  PROVE  Approvers(P, e, t) \subseteq Approvers(P, f, t)
<1> SUFFICES ASSUME NEW u \in Approvers(P, e, t), NEW A \in SUBSET f.txs,
                    t \in A, HasChildren(P, f, A)
             PROVE  u \in A /\ u \in f.txs
  BY DEF Approvers
<1>1. PICK B : B = A \cap e.txs
  OBVIOUS
<1>2. HasChildren(P, e, B)
  BY <1>1 DEF HasChildren
<1>3. B \in SUBSET e.txs /\ t \in B
  BY <1>1
<1> QED
  BY <1>1, <1>2, <1>3 DEF Approvers

(* A parent has every approver of its child. *)
LEMMA ParentApproved ==
  ASSUME NEW P, NEW e, NEW t \in e.txs \cap DOMAIN P, NEW u \in P[t]
  PROVE  Approvers(P, e, t) \subseteq Approvers(P, e, u)
<1> SUFFICES ASSUME NEW v \in Approvers(P, e, t), NEW A \in SUBSET e.txs,
                    u \in A, HasChildren(P, e, A)
             PROVE  v \in A
  BY DEF Approvers
<1>1. t \in A
  BY DEF HasChildren
<1> QED
  BY <1>1 DEF Approvers

LEMMA WeightGrows ==
  ASSUME NEW P, NEW e, NEW f, e.txs \subseteq f.txs, f.txs \subseteq 0 .. MaxTx, NEW t \in e.txs
  PROVE  /\ CumulativeWeight(P, e, t) \in Nat /\ CumulativeWeight(P, f, t) \in Nat
         /\ CumulativeWeight(P, e, t) <= CumulativeWeight(P, f, t)
<1>1. PICK S : S = Approvers(P, e, t)
  OBVIOUS
<1>2. PICK T : T = Approvers(P, f, t)
  OBVIOUS
<1>3. S \subseteq T /\ T \subseteq 0 .. MaxTx
  <2>1. S \subseteq T
    BY <1>1, <1>2, ApproversGrow
  <2> QED
    BY <1>2, <2>1 DEF Approvers
<1>4. IsFiniteSet(T)
  <2>1. IsFiniteSet(0 .. MaxTx)
    BY FS_Interval, DagAssumption
  <2> QED
    BY <1>3, <2>1, FS_Subset
<1>5. \A x \in T : Weight[x] \in Nat
  BY <1>3, DagAssumption
<1>6. SumOver(Weight, S) \in Nat /\ SumOver(Weight, T) \in Nat
      /\ SumOver(Weight, S) <= SumOver(Weight, T)
  BY <1>3, <1>4, <1>5, SumGrows
<1> QED
  BY <1>1, <1>2, <1>6 DEF CumulativeWeight

LEMMA ParentHeavier ==
  ASSUME NEW P, NEW e, e.txs \subseteq 0 .. MaxTx, NEW t \in e.txs \cap DOMAIN P, NEW u \in P[t]
  PROVE  /\ CumulativeWeight(P, e, t) \in Nat /\ CumulativeWeight(P, e, u) \in Nat
         /\ CumulativeWeight(P, e, t) <= CumulativeWeight(P, e, u)
<1>1. PICK S : S = Approvers(P, e, t)
  OBVIOUS
<1>2. PICK T : T = Approvers(P, e, u)
  OBVIOUS
<1>3. S \subseteq T /\ T \subseteq 0 .. MaxTx
  <2>1. S \subseteq T
    BY <1>1, <1>2, ParentApproved
  <2> QED
    BY <1>2, <2>1 DEF Approvers
<1>4. IsFiniteSet(T)
  <2>1. IsFiniteSet(0 .. MaxTx)
    BY FS_Interval, DagAssumption
  <2> QED
    BY <1>3, <2>1, FS_Subset
<1>5. \A x \in T : Weight[x] \in Nat
  BY <1>3, DagAssumption
<1>6. SumOver(Weight, S) \in Nat /\ SumOver(Weight, T) \in Nat
      /\ SumOver(Weight, S) <= SumOver(Weight, T)
  BY <1>3, <1>4, <1>5, SumGrows
<1> QED
  BY <1>1, <1>2, <1>6 DEF CumulativeWeight

(* A transaction taken in leaves an engine in order. *)
LEMMA DagAddTxGood ==
  ASSUME NEW P, DagHistory(P), NEW e, DagEngineInv(P, e), NEW t \in DOMAIN P,
         t \notin e.txs, P[t] \subseteq e.txs
  PROVE  DagEngineInv(P, DagAddTx(P, e, t))
<1>1. t \in DagTx /\ DagTx \subseteq 0 .. MaxTx /\ Genesis \in 0 .. MaxTx /\ Genesis \notin DagTx
  BY DagAssumption DEF DagHistory, DagTx, Genesis
<1>2. PICK X, T, C, L : e = [txs |-> X, tips |-> T, confirmed |-> C, lost |-> L]
                        /\ X \subseteq 0 .. MaxTx /\ T \subseteq 0 .. MaxTx
                        /\ C \subseteq DagTx /\ L \subseteq DagTx
  BY DEF DagEngineInv, DagEngine
<1>3. PICK Y : Y = X \cup {t}
  OBVIOUS
<1>4. PICK U : U = (T \ P[t]) \cup {t}
  OBVIOUS
<1>5. PICK e1 : e1 = [e EXCEPT !.txs = @ \cup {t}, !.tips = (@ \ P[t]) \cup {t}]
  OBVIOUS
<1>6. PICK D : D = C \cup {u \in Y \cap DagTx : Confirmable(P, e1, u)}
  OBVIOUS
<1>7. PICK f : f = DagAddTx(P, e, t)
  OBVIOUS
<1>8. e1 \in DagEngine /\ e1.txs = Y /\ e1.tips = U /\ e1.confirmed = C
  <2>1. e \in DagEngine /\ e.txs = X /\ e.tips = T /\ e.confirmed = C
    BY <1>2 DEF DagEngine
  <2>2. Y \in SUBSET (0 .. MaxTx) /\ U \in SUBSET (0 .. MaxTx)
    BY <1>1, <1>2, <1>3, <1>4
  <2> QED
    BY <1>3, <1>4, <1>5, <2>1, <2>2 DEF DagEngine
<1>9. /\ e.txs = X /\ e.tips = T /\ e.confirmed = C
      /\ f \in DagEngine /\ f.txs = Y /\ f.tips = U /\ f.confirmed = D
  <2>1. f = [e1 EXCEPT !.confirmed = @ \cup {u \in e1.txs \cap DagTx : Confirmable(P, e1, u)}]
    BY <1>5, <1>7 DEF DagAddTx, Reevaluate
  <2>2. f = [e1 EXCEPT !.confirmed = D]
    BY <1>6, <1>8, <2>1
  <2>3. D \in SUBSET DagTx
    BY <1>2, <1>6
  <2> QED
    BY <1>2, <1>8, <2>2, <2>3 DEF DagEngine
<1>10. X \subseteq Y /\ Y \subseteq 0 .. MaxTx /\ D \subseteq DagTx /\ t \notin X
  BY <1>1, <1>2, <1>3, <1>6, <1>9
<1>11. f \in DagEngine
  BY <1>9
<1>12. DagKnown(P, f)
  BY <1>3, <1>9 DEF DagEngineInv, DagKnown
<1>13. \A u : CumulativeWeight(P, e1, u) = CumulativeWeight(P, f, u)
  <2>1. ASSUME NEW u PROVE Approvers(P, e1, u) = Approvers(P, f, u)
    BY <1>8, <1>9, ApproversFrom
  <2> QED
    BY <2>1 DEF CumulativeWeight
<1>14. DagWeighed(P, f)
  <2>1. C \subseteq X /\ D \subseteq Y
    BY <1>6, <1>9, <1>10 DEF DagEngineInv, DagWeighed
  <2>2. ASSUME NEW u \in D PROVE CumulativeWeight(P, f, u) >= ConfirmationWeight
    <3>1. CASE u \in C
      <4>1. u \in e.txs /\ CumulativeWeight(P, e, u) >= ConfirmationWeight
        BY <1>9, <2>1, <3>1 DEF DagEngineInv, DagWeighed
      <4>2. e.txs \subseteq f.txs /\ f.txs \subseteq 0 .. MaxTx
        BY <1>9, <1>10
      <4>3. /\ CumulativeWeight(P, e, u) \in Nat /\ CumulativeWeight(P, f, u) \in Nat
            /\ CumulativeWeight(P, e, u) <= CumulativeWeight(P, f, u)
        BY <4>1, <4>2, WeightGrows
      <4> QED
        BY <4>1, <4>3, DagAssumption
    <3>2. CASE u \notin C
      <4>1. Confirmable(P, e1, u)
        BY <1>6, <2>2, <3>2
      <4> QED
        BY <1>13, <4>1 DEF Confirmable
    <3> QED
      BY <3>1, <3>2
  <2>3. ASSUME NEW u \in Y \cap DagTx, DagConflict[u] = NoConflict,
               CumulativeWeight(P, f, u) >= ConfirmationWeight
        PROVE  u \in D
    <3>1. Confirmable(P, e1, u)
      BY <1>13, <2>3 DEF Confirmable
    <3> QED
      BY <1>6, <2>3, <3>1
  <2> QED
    BY <1>9, <2>1, <2>2, <2>3 DEF DagWeighed
<1>15. f.tips = Unapproved(P, f)
  <2>1. T = {u \in X : \A v \in X \cap DOMAIN P : u \notin P[v]}
    BY <1>9 DEF DagEngineInv, Unapproved
  <2>2. \A v \in X \cap DOMAIN P : t \notin P[v]
    BY <1>9, <1>10 DEF DagEngineInv, DagKnown
  <2>3. t \notin P[t]
    BY <1>9, <1>10
  <2>4. U = {u \in Y : \A v \in Y \cap DOMAIN P : u \notin P[v]}
    BY <1>3, <1>4, <2>1, <2>2, <2>3
  <2> QED
    BY <1>9, <2>4 DEF Unapproved
<1> QED
  BY <1>7, <1>11, <1>12, <1>14, <1>15 DEF DagEngineInv

(* What others propose leaves an engine in order. *)
LEMMA DagElsewhere ==
  ASSUME NEW P, NEW Q, NEW e, DagEngineInv(P, e), DOMAIN P \subseteq DOMAIN Q,
         \A u \in DOMAIN P : Q[u] = P[u], DOMAIN Q \cap e.txs = DOMAIN P \cap e.txs
  PROVE  DagEngineInv(Q, e)
<1>1. DagKnown(Q, e)
  BY DEF DagEngineInv, DagKnown
<1>2. ASSUME NEW t PROVE CumulativeWeight(Q, e, t) = CumulativeWeight(P, e, t)
  <2>1. Approvers(Q, e, t) = Approvers(P, e, t)
    BY ApproversElsewhere
  <2> QED
    BY <2>1 DEF CumulativeWeight
<1>3. DagWeighed(Q, e)
  BY <1>2 DEF DagEngineInv, DagWeighed
<1>4. Unapproved(Q, e) = Unapproved(P, e)
  BY DEF Unapproved
<1> QED
  BY <1>1, <1>3, <1>4 DEF DagEngineInv

LEMMA DagStart == DagInit => DagInv
<1> SUFFICES ASSUME DagInit PROVE DagInv
  OBVIOUS
<1>1. /\ Genesis \in 0 .. MaxTx /\ Genesis \notin DagTx
      /\ DOMAIN parents = {} /\ DagTx \subseteq 0 .. MaxTx
  BY DagAssumption DEF DagInit, Genesis, DagTx
<1>2. PICK e : e = [txs |-> {Genesis}, tips |-> {Genesis}, confirmed |-> {}, lost |-> {}]
  OBVIOUS
<1>3. e \in DagEngine /\ e.txs = {Genesis} /\ e.tips = {Genesis} /\ e.confirmed = {}
  BY <1>1, <1>2 DEF DagEngine
<1>4. DagKnown(parents, e) /\ DagWeighed(parents, e) /\ e.tips = Unapproved(parents, e)
  BY <1>1, <1>3 DEF DagKnown, DagWeighed, Unapproved
<1>5. dag = [n \in DagNode |-> e]
  BY <1>2 DEF DagInit
<1>6. DagHistory(parents)
  BY <1>1 DEF DagHistory
<1> QED
  BY <1>3, <1>4, <1>5, <1>6 DEF DagInv, DagEngineInv

LEMMA DagProposeKeeps ==
  ASSUME DagInv, NEW n \in DagNode, NEW t \in DagTx, NEW named,
         named = {} \/ \E u \in dag[n].txs : named = {u}, DagPropose(n, t, named)
  PROVE  DagInv'
<1>1. PICK P : P = parents
  OBVIOUS
<1>2. PICK given : given = IF named = {} THEN SelectTips(dag[n]) ELSE named
  OBVIOUS
<1>3. PICK Q : Q = [u \in DOMAIN P \cup {t} |-> IF u = t THEN given ELSE P[u]]
  OBVIOUS
<1>4. /\ t \notin DOMAIN P /\ parents' = Q
      /\ dag' = [dag EXCEPT ![n] = DagAddTx(parents', dag[n], t)]
  BY <1>1, <1>2, <1>3 DEF DagPropose
<1>5. /\ DagHistory(P) /\ dag \in [DagNode -> DagEngine]
      /\ \A m \in DagNode : DagEngineInv(P, dag[m])
  BY <1>1 DEF DagInv
<1>6. given \subseteq dag[n].txs /\ dag[n].txs \subseteq 0 .. MaxTx
  <2>1. SelectTips(dag[n]) \subseteq dag[n].tips
    BY DEF SelectTips
  <2>2. dag[n].tips \subseteq dag[n].txs /\ dag[n].txs \subseteq 0 .. MaxTx
    BY <1>5 DEF DagEngineInv, Unapproved, DagEngine
  <2> QED
    BY <1>2, <2>1, <2>2
<1>7. DOMAIN Q = DOMAIN P \cup {t} /\ Q[t] = given /\ \A u \in DOMAIN P : Q[u] = P[u]
  BY <1>3, <1>4
<1>8. DagHistory(Q)
  BY <1>5, <1>6, <1>7 DEF DagHistory
<1>9. ASSUME NEW m \in DagNode PROVE t \notin dag[m].txs /\ DagEngineInv(Q, dag[m])
  <2>1. DagKnown(P, dag[m])
    BY <1>5 DEF DagEngineInv
  <2>2. t # Genesis
    BY DEF Genesis, DagTx
  <2>3. t \notin dag[m].txs
    BY <1>4, <2>1, <2>2 DEF DagKnown
  <2>4. DOMAIN Q \cap dag[m].txs = DOMAIN P \cap dag[m].txs /\ DOMAIN P \subseteq DOMAIN Q
    BY <1>7, <2>3
  <2>5. DagEngineInv(Q, dag[m])
    BY <1>5, <1>7, <2>4, DagElsewhere
  <2> QED
    BY <2>3, <2>5
<1>10. DagEngineInv(Q, DagAddTx(Q, dag[n], t))
  <2>1. t \in DOMAIN Q /\ Q[t] \subseteq dag[n].txs
    BY <1>6, <1>7
  <2> QED
    BY <1>8, <1>9, <2>1, DagAddTxGood
<1>11. dag' = [dag EXCEPT ![n] = DagAddTx(Q, dag[n], t)]
  BY <1>4
<1>12. dag' \in [DagNode -> DagEngine]
  BY <1>5, <1>10, <1>11 DEF DagEngineInv
<1>13. ASSUME NEW m \in DagNode PROVE DagEngineInv(Q, dag'[m])
  <2>1. CASE m = n
    BY <1>5, <1>10, <1>11, <2>1
  <2>2. CASE m # n
    BY <1>5, <1>9, <1>11, <2>2
  <2> QED
    BY <2>1, <2>2
<1> QED
  BY <1>4, <1>8, <1>12, <1>13 DEF DagInv

LEMMA DagObserveKeeps ==
  ASSUME DagInv, NEW n \in DagNode, NEW t \in DagTx, DagObserve(n, t)
  PROVE  DagInv'
<1>1. /\ DagHistory(parents) /\ dag \in [DagNode -> DagEngine]
      /\ \A m \in DagNode : DagEngineInv(parents, dag[m])
  BY DEF DagInv
<1>2. t \in DOMAIN parents /\ t \notin dag[n].txs /\ parents' = parents
  BY DEF DagObserve
<1>3. PICK e : e = dag[n]
  OBVIOUS
<1>4. PICK f : f = IF parents[t] \subseteq e.txs THEN DagAddTx(parents, e, t)
                   ELSE DagDrop(e, t)
  OBVIOUS
<1>5. dag' = [dag EXCEPT ![n] = f]
  <2>1. dag' = [dag EXCEPT ![n] = IF parents[t] \subseteq dag[n].txs
                                  THEN DagAddTx(parents, dag[n], t)
                                  ELSE DagDrop(dag[n], t)]
    BY DEF DagObserve
  <2> QED
    BY <1>3, <1>4, <2>1
<1>6. DagEngineInv(parents, f)
  <2>1. CASE parents[t] \subseteq e.txs
    BY <1>1, <1>2, <1>3, <1>4, <2>1, DagAddTxGood
  <2>2. CASE ~ (parents[t] \subseteq e.txs)
    <3>1. f = DagDrop(e, t)
      BY <1>4, <2>2
    <3>2. DagEngineInv(parents, e) /\ e \in DagEngine
      BY <1>1, <1>3
    <3>3. /\ f \in DagEngine /\ f.txs = e.txs /\ f.tips = e.tips
          /\ f.confirmed = e.confirmed
      BY <3>1, <3>2 DEF DagEngine, DagDrop
    <3>4. ASSUME NEW u PROVE CumulativeWeight(parents, f, u) = CumulativeWeight(parents, e, u)
      <4>1. Approvers(parents, f, u) = Approvers(parents, e, u)
        BY <3>3, ApproversFrom
      <4> QED
        BY <4>1 DEF CumulativeWeight
    <3>5. DagKnown(parents, f) /\ Unapproved(parents, f) = Unapproved(parents, e)
      BY <3>2, <3>3 DEF DagEngineInv, DagKnown, Unapproved
    <3>6. DagWeighed(parents, f)
      BY <3>2, <3>3, <3>4 DEF DagEngineInv, DagWeighed
    <3> QED
      BY <3>2, <3>3, <3>5, <3>6 DEF DagEngineInv
  <2> QED
    BY <2>1, <2>2
<1>7. dag' \in [DagNode -> DagEngine] /\ \A m \in DagNode : DagEngineInv(parents, dag'[m])
  BY <1>1, <1>5, <1>6 DEF DagEngineInv
<1> QED
  BY <1>1, <1>2, <1>7 DEF DagInv

THEOREM DagInvariant == DagSpec => []DagInv
<1>1. ASSUME DagInv, [DagNext]_dagVars PROVE DagInv'
  <2>1. CASE UNCHANGED dagVars
    BY <1>1, <2>1 DEF dagVars, DagInv
  <2>2. CASE DagNext
    <3>1. PICK n \in DagNode, t \in DagTx :
            \/ \E named \in {{}} \cup {{u} : u \in dag[n].txs} : DagPropose(n, t, named)
            \/ DagObserve(n, t)
      BY <2>2 DEF DagNext
    <3>2. CASE DagObserve(n, t)
      BY <1>1, <3>2, DagObserveKeeps
    <3>3. CASE \E named \in {{}} \cup {{u} : u \in dag[n].txs} : DagPropose(n, t, named)
      <4>1. PICK named \in {{}} \cup {{u} : u \in dag[n].txs} : DagPropose(n, t, named)
        BY <3>3
      <4>2. named = {} \/ \E u \in dag[n].txs : named = {u}
        OBVIOUS
      <4> QED
        BY <1>1, <4>1, <4>2, DagProposeKeeps
    <3> QED
      BY <3>1, <3>2, <3>3
  <2> QED
    BY <1>1, <2>1, <2>2
<1> QED
  BY <1>1, DagStart, PTL DEF DagSpec

(* Nodes that know the same transactions confirm the same ones of those    *)
(* without conflict, a confirmed one's ancestors are confirmed, and the    *)
(* tips are what nothing known approves (_reevaluate, select_tips).        *)
THEOREM DagOrderFreeHolds == DagSpec => []DagOrderFree
<1>1. DagInv => DagOrderFree
  <2> SUFFICES ASSUME DagInv, NEW n \in DagNode, NEW m \in DagNode
               PROVE  /\ dag[n].txs = dag[m].txs =>
                           \A t : DagConflict[t] = NoConflict /\ t \in dag[n].confirmed
                                    => t \in dag[m].confirmed
                      /\ \A t \in dag[n].confirmed : \A u \in parents[t] \ {Genesis} :
                           DagConflict[u] = NoConflict => u \in dag[n].confirmed
                      /\ dag[n].tips = Unapproved(parents, dag[n])
    BY DEF DagOrderFree, Unapproved
  <2>1. /\ DagHistory(parents) /\ DagEngineInv(parents, dag[n])
        /\ DagEngineInv(parents, dag[m])
    BY DEF DagInv
  <2>2. /\ dag[n].txs \subseteq 0 .. MaxTx /\ dag[n].confirmed \subseteq DagTx
        /\ dag[n].confirmed \subseteq dag[n].txs
    BY <2>1 DEF DagEngineInv, DagEngine, DagWeighed
  <2>3. ASSUME dag[n].txs = dag[m].txs, NEW t, DagConflict[t] = NoConflict,
               t \in dag[n].confirmed
        PROVE  t \in dag[m].confirmed
    <3>1. CumulativeWeight(parents, dag[n], t) >= ConfirmationWeight
      BY <2>1, <2>3 DEF DagEngineInv, DagWeighed
    <3>2. Approvers(parents, dag[n], t) = Approvers(parents, dag[m], t)
      BY <2>3, ApproversFrom
    <3>3. CumulativeWeight(parents, dag[m], t) >= ConfirmationWeight
      BY <3>1, <3>2 DEF CumulativeWeight
    <3> QED
      BY <2>1, <2>2, <2>3, <3>3 DEF DagEngineInv, DagWeighed
  <2>4. ASSUME NEW t \in dag[n].confirmed, NEW u \in parents[t] \ {Genesis},
               DagConflict[u] = NoConflict
        PROVE  u \in dag[n].confirmed
    <3>1. t \in dag[n].txs \cap DOMAIN parents /\ u \in dag[n].txs /\ u \in DagTx
      <4>1. t # Genesis
        BY <2>2 DEF DagTx, Genesis
      <4>2. t \in dag[n].txs \cap DOMAIN parents
        BY <2>1, <2>2, <4>1 DEF DagEngineInv, DagKnown
      <4>3. u \in dag[n].txs
        BY <2>1, <4>2 DEF DagEngineInv, DagKnown
      <4> QED
        BY <2>2, <4>2, <4>3 DEF DagTx, Genesis
    <3>2. CumulativeWeight(parents, dag[n], t) >= ConfirmationWeight
      BY <2>1 DEF DagEngineInv, DagWeighed
    <3>3. /\ CumulativeWeight(parents, dag[n], t) \in Nat
          /\ CumulativeWeight(parents, dag[n], u) \in Nat
          /\ CumulativeWeight(parents, dag[n], t) <= CumulativeWeight(parents, dag[n], u)
      BY <2>2, <3>1, ParentHeavier
    <3>4. CumulativeWeight(parents, dag[n], u) >= ConfirmationWeight
      BY <3>2, <3>3, DagAssumption
    <3> QED
      BY <2>1, <2>4, <3>1, <3>4 DEF DagEngineInv, DagWeighed
  <2>5. dag[n].tips = Unapproved(parents, dag[n])
    BY <2>1 DEF DagEngineInv
  <2> QED
    BY <2>3, <2>4, <2>5
<1> QED
  BY <1>1, DagInvariant, PTL

(* What every node knows of the tangle is of its kind.                     *)
THEOREM DagTypesHold == DagSpec => []DagTypeOK
<1>1. DagInv => DagTypeOK
  BY DEF DagInv, DagHistory, DagTypeOK
<1> QED
  BY <1>1, DagInvariant, PTL
=============================================================================
