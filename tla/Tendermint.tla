----------------------------- MODULE Tendermint -----------------------------
(***************************************************************************)
(* The engines of consensus/bft/tendermint.py at the honest validators of  *)
(* one network.  The round never leaves 0, so a vote table is keyed by     *)
(* height alone.  A block hash is identified with the value it is the hash *)
(* of.  A handler runs to its end, and broadcast() is re-entrant: the node *)
(* hands an engine its own message before anyone else gets it.             *)
(* A message that was sent may be handled at any time and any number of    *)
(* times; one of another height is dropped.  Faulty validators send        *)
(* anything under their own names (the votes carry no signature: that no   *)
(* one votes in an honest validator's name is an assumption).              *)
(***************************************************************************)
EXTENDS Integers, FiniteSets

CONSTANTS Validator, Faulty,
          Order,          \* Order[i]: the i-th validator of the sorted list
          Value,          \* values that are proposed
          None,           \* no value, no vote
          Lies,           \* Lies[v]: what the faulty validators may send v
          MaxHeight       \* bound: no proposal above this height

N == Cardinality(Validator)

ASSUME TendermintAssumption ==
  /\ IsFiniteSet(Validator)
  /\ Faulty \subseteq Validator
  /\ 3 * Cardinality(Faulty) < N
  /\ N > 1
  /\ Order \in [0 .. N - 1 -> Validator]
  /\ None \notin Value
  /\ MaxHeight \in Nat \ {0}

Honest == Validator \ Faulty
Height == 1 .. MaxHeight + 1
Vote == Value \cup {None}
TwoThirds == (2 * N) \div 3     \* faulty variant: not more than two thirds
Quorum == (2 * N) \div 3 + 1
ProposerFor(h) == Order[h % N]

VARIABLES engine,         \* engine[v]: the engine of honest validator v
          sent            \* messages the honest validators have broadcast

vars == <<engine, sent>>

Proposal(h, v, x)  == [type |-> "proposal", height |-> h, from |-> v, hash |-> x]
Prevote(h, v, x)   == [type |-> "prevote", height |-> h, from |-> v, hash |-> x]
Precommit(h, v, x) == [type |-> "precommit", height |-> h, from |-> v, hash |-> x]

Message == [type : {"proposal", "prevote", "precommit"}, height : Height,
            from : Validator, hash : Vote]

ASSUME LiesAssumption ==
  Lies \in [Honest -> SUBSET {m \in Message : m.from \in Faulty}]

VoteTable == [Height -> [Validator -> Vote]]

(* A committed height holds the hash that won and the value recorded.      *)
Nothing == [hash |-> None, value |-> None]

Engine == [height : 1 .. MaxHeight + 1,
           step : {"propose", "prevote", "precommit"},
           proposal : Vote,
           values : SUBSET Value,             \* hashes whose value is known
           prevotes : VoteTable,
           precommits : VoteTable,
           committed : [Height -> [hash : Vote, value : Vote]]]

TypeOK == /\ engine \in [Honest -> Engine]
          /\ sent \subseteq Message

NoVotes == [h \in Height |-> [w \in Validator |-> None]]

Init == /\ engine = [v \in Honest |->
                       [height |-> 1, step |-> "propose", proposal |-> None,
                        values |-> {}, prevotes |-> NoVotes,
                        precommits |-> NoVotes,
                        committed |-> [h \in Height |-> Nothing]]]
        /\ sent = {}

-----------------------------------------------------------------------------
Tally(votes, x) == Cardinality({w \in Validator : votes[w] = x})

(* _quorum_hash: the hashes with a quorum, of which there is at most one.  *)
Winners(votes) == {x \in Value : Tally(votes, x) >= Quorum}
QuorumHash(votes) == CHOOSE x \in Winners(votes) : TRUE

Record(table, h, w, x) == [table EXCEPT ![h][w] = x]
WithPrevote(e, h, w, x) == [e EXCEPT !.prevotes = Record(@, h, w, x)]
WithPrecommit(e, h, w, x) == [e EXCEPT !.precommits = Record(@, h, w, x)]

(* Faulty variant: a commit that stays at its height. *)
CommitKeepsHeight(e, x) ==
  [e EXCEPT !.committed[e.height] =
              [hash |-> x, value |-> IF x \in e.values THEN x ELSE e.proposal],
            !.step = "propose",
            !.proposal = None]

(* _commit: the value of the winning hash, or the current proposal when    *)
(* this engine never saw that value; then the next height.                 *)
Commit(e, x) ==
  [e EXCEPT !.committed =
              [@ EXCEPT ![e.height] =
                 [hash |-> x,
                  value |-> IF x \in e.values THEN x ELSE e.proposal]],
            !.height = @ + 1,
            !.step = "propose",
            !.proposal = None]

(* _check_precommits: counts in the prevote step too. *)
Decided(e) == /\ e.step \in {"prevote", "precommit"}
              /\ Winners(e.precommits[e.height]) # {}

CheckPrecommits(e) ==
  IF Decided(e) THEN Commit(e, QuorumHash(e.precommits[e.height])) ELSE e

(* _broadcast_vote("precommit", x): the engine observes its own vote, and  *)
(* records it once more under the height it has reached by then.           *)
OwnPrecommit(e, v, x) ==
  [WithPrecommit(e, e.height, v, x) EXCEPT !.step = "precommit"]

CastPrecommit(e, v, x) ==
  LET observed == CheckPrecommits(OwnPrecommit(e, v, x))
  IN WithPrecommit(observed, observed.height, v, x)

(* _check_prevotes: a quorum in the prevote step makes v precommit. *)
Polka(e) == e.step = "prevote" /\ Winners(e.prevotes[e.height]) # {}

CheckPrevotes(e, v) ==
  IF Polka(e) THEN CastPrecommit(e, v, QuorumHash(e.prevotes[e.height])) ELSE e

(* The precommit that CheckPrevotes broadcasts on the way. *)
PrecommitSent(e, v) ==
  IF Polka(e)
  THEN {Precommit(e.height, v, QuorumHash(e.prevotes[e.height]))} ELSE {}

(* _broadcast_vote("prevote", x), with the same re-entrance. *)
OwnPrevote(e, v, x) ==
  [WithPrevote(e, e.height, v, x) EXCEPT !.step = "prevote"]

CastPrevote(e, v, x) ==
  LET observed == CheckPrevotes(OwnPrevote(e, v, x), v)
  IN WithPrevote(observed, observed.height, v, x)

(* A proposal of the current height's proposer: kept in every step, voted  *)
(* for in the propose step only.                                           *)
Offered(e, x) == [e EXCEPT !.proposal = x, !.values = @ \cup {x}]

AcceptProposal(v, x) ==
  LET e == Offered(engine[v], x)
  IN IF e.step = "propose"
     THEN /\ engine' = [engine EXCEPT ![v] = CastPrevote(e, v, x)]
          /\ sent' = sent \cup {Prevote(e.height, v, x)}
                          \cup PrecommitSent(OwnPrevote(e, v, x), v)
     ELSE /\ engine' = [engine EXCEPT ![v] = e]
          /\ UNCHANGED sent

-----------------------------------------------------------------------------
Available(v, m) == m \in sent \/ m \in Lies[v]

(* Faulty variant: proposes again whenever it is called. *)
ProposeAgain(v, x) ==
  LET e == Offered(engine[v], x)
      h == e.height
  IN /\ h <= MaxHeight
     /\ ProposerFor(h) = v
     /\ engine' = [engine EXCEPT ![v] = CastPrevote(e, v, x)]
     /\ sent' = sent \cup {Proposal(h, v, x), Prevote(h, v, x)}
                     \cup PrecommitSent(OwnPrevote(e, v, x), v)

(* propose(): the cascade of the engine's own proposal runs before the     *)
(* proposal leaves the node.                                               *)
Propose(v, x) ==
  LET e == Offered(engine[v], x)
      h == e.height
  IN /\ h <= MaxHeight
     /\ ProposerFor(h) = v
     /\ e.step = "propose"
     /\ engine' = [engine EXCEPT ![v] = CastPrevote(e, v, x)]
     /\ sent' = sent \cup {Proposal(h, v, x), Prevote(h, v, x)}
                     \cup PrecommitSent(OwnPrevote(e, v, x), v)

HandleProposal(v, x) ==
  LET h == engine[v].height
  IN /\ h <= MaxHeight
     /\ Available(v, Proposal(h, ProposerFor(h), x))
     /\ AcceptProposal(v, x)

(* Faulty variant: counts a prevote of any height for the current one. *)
HandlePrevoteAnyHeight(v, w, x) ==
  LET h == engine[v].height
      e == WithPrevote(engine[v], h, w, x)
  IN /\ h <= MaxHeight
     /\ \E k \in Height : Available(v, Prevote(k, w, x))
     /\ engine' = [engine EXCEPT ![v] = CheckPrevotes(e, v)]
     /\ sent' = sent \cup PrecommitSent(e, v)

HandlePrevote(v, w, x) ==
  LET h == engine[v].height
      e == WithPrevote(engine[v], h, w, x)
  IN /\ h <= MaxHeight
     /\ Available(v, Prevote(h, w, x))
     /\ engine' = [engine EXCEPT ![v] = CheckPrevotes(e, v)]
     /\ sent' = sent \cup PrecommitSent(e, v)

HandlePrecommit(v, w, x) ==
  LET h == engine[v].height
      e == WithPrecommit(engine[v], h, w, x)
  IN /\ h <= MaxHeight
     /\ Available(v, Precommit(h, w, x))
     /\ engine' = [engine EXCEPT ![v] = CheckPrecommits(e)]
     /\ UNCHANGED sent

Next == \E v \in Honest :
          \/ \E x \in Value : Propose(v, x)
          \/ \E x \in Value : HandleProposal(v, x)
          \/ \E w \in Validator, x \in Vote : HandlePrevote(v, w, x)
          \/ \E w \in Validator, x \in Vote : HandlePrecommit(v, w, x)

Spec == Init /\ [][Next]_vars

-----------------------------------------------------------------------------
(* The inductive invariant.  Validators that may have prevoted x at h, as  *)
(* far as the messages S show, and whether they are a quorum.              *)
Backers(S, h, x) == {w \in Validator : w \in Faulty \/ Prevote(h, w, x) \in S}
HasPolka(S, h, x) == Cardinality(Backers(S, h, x)) >= Quorum

(* Messages of one kind, by one validator, for one height. *)
SameSlot(m1, m2) ==
  m1.type = m2.type /\ m1.from = m2.from /\ m1.height = m2.height

(* What the honest validators say: one message of a kind at a height, and  *)
(* a precommit only for a hash that a quorum prevoted.                     *)
SentInv(S) ==
  /\ \A m \in S : m.from \in Honest /\ m.hash # None
  /\ \A m1, m2 \in S : SameSlot(m1, m2) => m1.hash = m2.hash
  /\ \A m \in S : m.type = "precommit" => HasPolka(S, m.height, m.hash)

(* v's votes against v's engine e: nothing for a height, or a step of the  *)
(* height, that e has not reached.                                         *)
VotesReached(v, e, S) ==
  \A m \in S :
    /\ m.from = v /\ m.type # "precommit" =>
         \/ m.height < e.height
         \/ m.height = e.height /\ e.step # "propose"
    /\ m.from = v /\ m.type = "precommit" =>
         \/ m.height < e.height
         \/ m.height = e.height /\ e.step = "precommit"

(* e's tables against the messages.  Its own entry at a height it has not  *)
(* voted at may be the stale one CastPrevote and CastPrecommit leave.      *)
TablesBacked(v, e, S) ==
  /\ \A h \in Height, w \in Validator :
       LET x == e.prevotes[h][w]
       IN x # None => \/ w \in Faulty
                      \/ Prevote(h, w, x) \in S
                      \/ w = v /\ h = e.height /\ e.step = "propose"
  /\ \A h \in Height, w \in Validator \ {v} :
       LET x == e.precommits[h][w]
       IN x # None => w \in Faulty \/ Precommit(h, w, x) \in S

(* e committed only hashes that a quorum prevoted, below its height. *)
CommitsBacked(e, S) ==
  \A h \in Height :
    LET x == e.committed[h].hash
    IN x # None => h < e.height /\ HasPolka(S, h, x)

EngineInv(v, e, S) ==
  VotesReached(v, e, S) /\ TablesBacked(v, e, S) /\ CommitsBacked(e, S)

Inv == TypeOK /\ SentInv(sent) /\ \A v \in Honest : EngineInv(v, engine[v], sent)

-----------------------------------------------------------------------------
(* No two honest validators ever commit different hashes at one height.    *)
Agreement ==
  \A v, w \in Honest, h \in Height :
    LET a == engine[v].committed[h].hash
        b == engine[w].committed[h].hash
    IN a # None /\ b # None => a = b

(* An honest validator never speaks for two values at one height: nothing  *)
(* the network or the re-entrant node does makes it equivocate.            *)
NoEquivocation ==
  \A m1, m2 \in sent : SameSlot(m1, m2) => m1.hash = m2.hash

(* A committed height keeps its entry, heights are committed in order, one *)
(* at a time, and an engine never returns to a height.                     *)
CommitsInOrder ==
  [][\A v \in Honest :
       LET old == engine[v]
           new == engine'[v]
       IN \/ new.height = old.height /\ new.committed = old.committed
          \/ /\ new.height = old.height + 1
             /\ old.committed[old.height].hash = None
             /\ new.committed[old.height].hash # None
             /\ \A h \in Height \ {old.height} :
                  new.committed[h] = old.committed[h]]_vars

(* The hashes an engine has committed, height by height. *)
LogOf(e) == [h \in 1 .. e.height - 1 |-> e.committed[h].hash]
DecisionLog == [v \in Honest |-> LogOf(engine[v])]

L == INSTANCE ReplicatedLog WITH
       Participant <- Honest, Decision <- Value, log <- DecisionLog

(* The honest validators implement one replicated log of hashes, whatever  *)
(* the faulty ones say and however messages are delayed or repeated: no    *)
(* height is skipped, decided twice or decided differently.                *)
ImplementsLog == L!Spec

(* tendermint.py: "no two correct nodes ever commit different values at    *)
(* the same height".                                                       *)
ValueAgreement ==
  \A v, w \in Honest, h \in Height :
    LET a == engine[v].committed[h]
        b == engine[w].committed[h]
    IN a.hash # None /\ b.hash # None => a.value = b.value

=============================================================================
