----------------------------- MODULE SnowFamily -----------------------------
(***************************************************************************)
(* The sampling protocols of examples/: Slush, Snowflake and Snowball.     *)
(* Queries and answers are datagrams: they get lost and overtake one       *)
(* another, answers also arrive twice; nothing is sent again.  Each node's *)
(* handlers run on one listener thread, propose on the application's.  A   *)
(* Slush round is the number of its query.                                 *)
(***************************************************************************)
EXTENDS Integers, FiniteSets, FiniteSetsExt

CONSTANTS SnowNode, SnowK,
          AlphaPercent,   \* alpha, in percent
          SlushRounds,    \* m of Slush
          SnowBeta,       \* beta of Snowflake and Snowball
          SnowStart,      \* bound: who may propose which color
          MaxQuery        \* bound: queries a node sends

VARIABLES rule,           \* the protocol the nodes run
          snow,           \* snow[n]: the protocol object of node n
          snowSent,       \* datagrams sent
          snowProposed    \* the colors that were proposed

snowVars == <<rule, snow, snowSent, snowProposed>>

Color == {"red", "blue"}
Uncolored == "none"
Other(c) == IF c = "red" THEN "blue" ELSE "red"

SnowThreshold == (AlphaPercent * SnowK) \div 100

ASSUME SnowAssumption ==
  /\ AlphaPercent \in 1 .. 100
  /\ {SnowK, SnowBeta, SlushRounds} \subseteq Nat \ {0} /\ MaxQuery \in Nat
  /\ Cardinality(SnowNode) > SnowK     \* fewer peers than k never complete a sample

Query == 1 .. MaxQuery
Datagram == [type : {"query", "response"}, query : Query,
             color : Color, from : SnowNode, to : SnowNode]

SnowObject ==
  [color : Color \cup {Uncolored}, accepted : Color \cup {Uncolored},
   query : 0 .. MaxQuery,                         \* the last query sent
   pending : [Query -> [SnowNode -> Color \cup {Uncolored}]],
   processed : SUBSET Query,
   cnt : Nat, last : Color \cup {Uncolored}, confidence : [Color -> Nat]]

SnowTypeOK == /\ rule \in {"slush", "snowflake", "snowball"}
              /\ snow \in [SnowNode -> SnowObject]
              /\ snowSent \subseteq Datagram
              /\ snowProposed \subseteq Color

NoAnswers == [p \in SnowNode |-> Uncolored]

SnowInit ==
  /\ rule \in {"slush", "snowflake", "snowball"}
  /\ snow = [n \in SnowNode |->
               [color |-> Uncolored, accepted |-> Uncolored, query |-> 0,
                pending |-> [q \in Query |-> NoAnswers], processed |-> {},
                cnt |-> 0, last |-> Uncolored, confidence |-> [c \in Color |-> 0]]]
  /\ snowSent = {}
  /\ snowProposed = {}

-----------------------------------------------------------------------------
Answers(e, q) == {p \in SnowNode : e.pending[q][p] # Uncolored}
CountOf(e, q, c) == Cardinality({p \in SnowNode : e.pending[q][p] = c})

(* _send_round and _send_query: k sampled peers; an unfinished collection  *)
(* of that number is forgotten.                                            *)
SendQuery(n, e, q, sample, asked, replies) ==
  /\ q <= MaxQuery
  /\ snow' = [snow EXCEPT ![n] = [e EXCEPT !.query = q, !.pending[q] = NoAnswers]]
  /\ snowSent' = (snowSent \ asked) \cup replies \cup
       {[type |-> "query", query |-> q, color |-> e.color, from |-> n, to |-> p] :
          p \in sample}

(* Slush numbers rounds, the others queries. *)
FirstQuery(e) == IF rule = "slush" THEN 1 ELSE e.query + 1

Colored(e, c) == [e EXCEPT !.color = c, !.last = c, !.cnt = 0]

(* The drivers run_*_nodes: all nodes are connected, a proposer calls      *)
(* propose once, before it has been asked anything.                        *)
Starts(n, c) == <<n, c>> \in SnowStart /\ snow[n].query = 0

Samples(n) == kSubset(SnowK, SnowNode \ {n})

SnowPropose(n, c, sample) ==
  /\ Starts(n, c)
  /\ snow[n].accepted = Uncolored
  /\ SendQuery(n, Colored(snow[n], c), FirstQuery(snow[n]), sample, {}, {})
  /\ snowProposed' = snowProposed \cup {c}

Response(n, m, c) ==
  [type |-> "response", query |-> m.query, color |-> c, from |-> n, to |-> m.from]

(* Faulty variant: an uncolored node answers before it adopts, and its     *)
(* color is read as blue.                                                  *)
AdoptLate(n, m, sample) ==
  /\ m \in snowSent /\ m.type = "query" /\ m.to = n
  /\ snow[n].color = Uncolored
  /\ LET e == Colored(snow[n], m.color)
     IN SendQuery(n, e, FirstQuery(e), sample, {m}, {Response(n, m, "blue")})
  /\ UNCHANGED snowProposed

(* _handle_query at an uncolored node: adopts, answers and joins. *)
Adopt(n, m, sample) ==
  /\ m \in snowSent /\ m.type = "query" /\ m.to = n
  /\ snow[n].color = Uncolored
  /\ LET e == Colored(snow[n], m.color)
     IN SendQuery(n, e, FirstQuery(e), sample, {m},
                  {Response(n, m, e.color)})
  /\ UNCHANGED snowProposed

Answer(n, m) ==
  /\ m \in snowSent /\ m.type = "query" /\ m.to = n
  /\ snow[n].color # Uncolored
  /\ snowSent' = (snowSent \ {m}) \cup {Response(n, m, snow[n].color)}
  /\ UNCHANGED <<snow, snowProposed>>

(* _handle_response: kept even when its query was never sent or is done;   *)
(* a query is settled once, when its K-th peer has answered.               *)
Noted(n, m) == [snow[n] EXCEPT !.pending[m.query][m.from] = m.color]

ForgetfulSettled(n, m) == FALSE     \* faulty variant: no look at processed
Settled(n, m) == m.query \in snow[n].processed

Arrives(n, m) == /\ m \in snowSent /\ m.type = "response" /\ m.to = n
                 /\ snow[n].accepted = Uncolored

Collect(n, m) ==
  /\ Arrives(n, m)
  /\ Cardinality(Answers(Noted(n, m), m.query)) < SnowK \/ Settled(n, m)
  /\ snow' = [snow EXCEPT ![n] = Noted(n, m)]
  /\ UNCHANGED <<snowSent, snowProposed>>

(* The object after its K-th answer: what a query does to color and counts *)
Reaches(e, q, c) == CountOf(e, q, c) >= SnowThreshold

SlushStep(e, q) ==
  LET flipped == IF Reaches(e, q, Other(e.color))
                 THEN [e EXCEPT !.color = Other(@)] ELSE e
  IN IF q < SlushRounds THEN flipped ELSE [flipped EXCEPT !.accepted = flipped.color]

SnowflakeStep(e, q) ==
  IF Reaches(e, q, Other(e.color)) THEN [e EXCEPT !.color = Other(@), !.cnt = 0]
  ELSE IF Reaches(e, q, e.color)
       THEN [e EXCEPT !.cnt = @ + 1,
                      !.accepted = IF e.cnt + 1 > SnowBeta THEN e.color ELSE @]
       ELSE e

Majority(e, q, c) ==
  Reaches(e, q, c) /\ CountOf(e, q, c) > CountOf(e, q, Other(c)) /\ CountOf(e, q, c) > 0

(* Snowball accepts its preference when any color's run exceeds beta. *)
SnowballStep(e, q) ==
  IF \A c \in Color : ~Majority(e, q, c) THEN e
  ELSE LET c == CHOOSE x \in Color : Majority(e, q, x)
           d == e.confidence[c] + 1
           pref == IF c # e.color /\ d > e.confidence[e.color] THEN c ELSE e.color
           cnt == IF c = e.last THEN e.cnt + 1 ELSE 0
       IN [e EXCEPT !.confidence[c] = d, !.color = pref, !.last = c, !.cnt = cnt,
                    !.accepted = IF cnt > SnowBeta THEN pref ELSE @]

SnowStep(e, q) ==
  CASE rule = "slush" -> SlushStep(e, q)
    [] rule = "snowflake" -> SnowflakeStep(e, q)
    [] rule = "snowball" -> SnowballStep(e, q)

(* After a Snowflake sample that reaches no color nothing is sent: the     *)
(* node has stopped asking.                                                *)
Stalls(e, q) == rule = "snowflake" /\ \A c \in Color : ~Reaches(e, q, c)

Settle(n, m, sample) ==
  LET q == m.query
      e == [Noted(n, m) EXCEPT !.processed = @ \cup {q}]
      new == SnowStep(e, q)
      next == IF rule = "slush" THEN q + 1 ELSE e.query + 1
  IN /\ Arrives(n, m)
     /\ Cardinality(Answers(Noted(n, m), q)) >= SnowK /\ ~Settled(n, m)
     /\ IF new.accepted # Uncolored \/ Stalls(e, q)
        THEN snow' = [snow EXCEPT ![n] = new] /\ UNCHANGED snowSent
        ELSE SendQuery(n, new, next, sample, {}, {})
     /\ UNCHANGED snowProposed

SnowNext ==
  /\ \E n \in SnowNode :
       \/ \E c \in Color, sample \in Samples(n) : SnowPropose(n, c, sample)
       \/ \E m \in snowSent :
            \/ \E sample \in Samples(n) : Adopt(n, m, sample) \/ Settle(n, m, sample)
            \/ Answer(n, m)
            \/ Collect(n, m)
  /\ UNCHANGED rule

SnowSpec == SnowInit /\ [][SnowNext]_snowVars

-----------------------------------------------------------------------------
(* No color comes from nowhere: what a node prefers, sends or accepts was  *)
(* proposed by some node.                                                  *)
SnowValidity ==
  /\ \A n \in SnowNode :
       {snow[n].color, snow[n].accepted} \subseteq snowProposed \cup {Uncolored}
  /\ \A m \in snowSent : m.color \in snowProposed

(* A query moves the counters at most once, however often and however late *)
(* its answers arrive; Slush accepts only after all of its rounds.         *)
SnowCountedOnce ==
  \A n \in SnowNode :
    LET e == snow[n]
    IN /\ e.cnt <= Cardinality(e.processed)
       /\ e.confidence["red"] + e.confidence["blue"] <= Cardinality(e.processed)
       /\ rule = "slush" /\ e.accepted # Uncolored => 1 .. SlushRounds \subseteq e.processed
=============================================================================
