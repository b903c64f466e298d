-------------------------- MODULE TendermintProofs --------------------------
(* Proofs about Tendermint for every validator set with fewer than a third *)
(* faulty, every value set, every lie and every height.                    *)
EXTENDS Tendermint, Sequences, FiniteSetTheorems, TLAPS

F == Cardinality(Faulty)

(* Two quorums share an honest validator, and a quorum without one of its  *)
(* members still has one.                                                  *)
LEMMA QuorumSize ==
  /\ N \in Nat /\ F \in Nat /\ Quorum \in Nat
  /\ IsFiniteSet(Faulty)
  /\ 2 * Quorum > N + F
  /\ Quorum > F + 1
<1>1. N \in Nat
  BY TendermintAssumption, FS_CardinalityType DEF N
<1>2. IsFiniteSet(Faulty) /\ F \in Nat
  BY TendermintAssumption, FS_Subset, FS_CardinalityType DEF F
<1>3. 3 * F < N /\ N > 1
  BY TendermintAssumption DEF F
<1> QED
  BY <1>1, <1>2, <1>3 DEF Quorum

(* A set of validators larger than the fault bound has an honest member. *)
LEMMA HonestMember ==
  ASSUME NEW W \in SUBSET Validator, Cardinality(W) > F
  PROVE  \E w \in W : w \notin Faulty
<1> SUFFICES ASSUME W \subseteq Faulty PROVE FALSE
  OBVIOUS
<1>1. Cardinality(W) <= F
  BY QuorumSize, FS_Subset DEF F
<1>2. Cardinality(W) \in Nat
  BY TendermintAssumption, FS_Subset, FS_CardinalityType
<1> QED
  BY <1>1, <1>2, QuorumSize

(* No two hashes of one height have a quorum of prevotes. *)
LEMMA OnePolka ==
  ASSUME NEW S, SentInv(S), NEW h, NEW x, NEW y,
         HasPolka(S, h, x), HasPolka(S, h, y)
  PROVE  x = y
<1> DEFINE X == Backers(S, h, x)
           Y == Backers(S, h, y)
<1>1. X \in SUBSET Validator /\ Y \in SUBSET Validator
  BY DEF Backers
<1> HIDE DEF X, Y
<1>2. IsFiniteSet(X) /\ IsFiniteSet(Y) /\ IsFiniteSet(X \cup Y)
  BY <1>1, TendermintAssumption, FS_Subset, FS_Union
<1>3. /\ Cardinality(X) \in Nat /\ Cardinality(Y) \in Nat
      /\ Cardinality(X \cap Y) \in Nat
  BY <1>1, <1>2, FS_CardinalityType, FS_Intersection
<1>4. Cardinality(X \cup Y) <= N
  BY <1>1, TendermintAssumption, FS_Subset DEF N
<1>5. Cardinality(X \cup Y) = Cardinality(X) + Cardinality(Y) - Cardinality(X \cap Y)
  BY <1>2, FS_Union
<1>6. Cardinality(X) >= Quorum /\ Cardinality(Y) >= Quorum
  BY DEF HasPolka, X, Y
<1>7. Cardinality(X \cap Y) > F
  BY <1>3, <1>4, <1>5, <1>6, QuorumSize
<1>8. PICK w \in X \cap Y : w \notin Faulty
  BY <1>1, <1>7, HonestMember
<1>9. Prevote(h, w, x) \in S /\ Prevote(h, w, y) \in S
  BY <1>8 DEF X, Y, Backers
<1> QED
  BY <1>9 DEF SentInv, SameSlot, Prevote

(* A quorum in a prevote table that only holds what was said. *)
LEMMA PrevoteWinner ==
  ASSUME NEW S, NEW h, NEW votes \in [Validator -> Vote],
         NEW x \in Winners(votes),
         \A w \in Validator : votes[w] # None =>
            w \in Faulty \/ Prevote(h, w, votes[w]) \in S
  PROVE  HasPolka(S, h, x)
<1> DEFINE W == {w \in Validator : votes[w] = x}
<1>1. Cardinality(W) >= Quorum /\ x # None
  BY TendermintAssumption DEF Winners, Tally
<1>2. W \subseteq Backers(S, h, x)
  BY <1>1 DEF Backers
<1>3. Backers(S, h, x) \in SUBSET Validator
  BY DEF Backers
<1> HIDE DEF W
<1>4. IsFiniteSet(Backers(S, h, x))
  BY <1>3, TendermintAssumption, FS_Subset
<1>5. Cardinality(W) <= Cardinality(Backers(S, h, x))
  BY <1>2, <1>4, FS_Subset
<1>6. Cardinality(W) \in Nat /\ Cardinality(Backers(S, h, x)) \in Nat
  BY <1>2, <1>4, FS_Subset, FS_CardinalityType
<1> QED
  BY <1>1, <1>5, <1>6, QuorumSize DEF HasPolka

(* A quorum in a precommit table, even when v's own entry means nothing:   *)
(* one of the others is honest, and it had seen the prevotes.              *)
LEMMA PrecommitWinner ==
  ASSUME NEW S, SentInv(S), NEW h, NEW v, NEW votes \in [Validator -> Vote],
         NEW x \in Winners(votes),
         \A w \in Validator \ {v} : votes[w] # None =>
            w \in Faulty \/ Precommit(h, w, votes[w]) \in S
  PROVE  HasPolka(S, h, x)
<1> DEFINE W == {w \in Validator : votes[w] = x}
<1>1. Cardinality(W) >= Quorum /\ x # None
  BY TendermintAssumption DEF Winners, Tally
<1>2. W \in SUBSET Validator
  OBVIOUS
<1>3. \A w \in W : votes[w] = x
  OBVIOUS
<1> HIDE DEF W
<1>4. IsFiniteSet(W) /\ Cardinality(W) \in Nat
  BY <1>2, TendermintAssumption, FS_Subset, FS_CardinalityType
<1>5. Cardinality(W \ {v}) >= Cardinality(W) - 1
  <2>1. Cardinality(W \ {v})
          = IF v \in W THEN Cardinality(W) - 1 ELSE Cardinality(W)
    BY <1>4, FS_RemoveElement
  <2> QED
    BY <2>1, <1>4
<1>6. Cardinality(W \ {v}) > F
  <2>1. IsFiniteSet(W \ {v})
    BY <1>4, FS_RemoveElement
  <2>2. Cardinality(W \ {v}) \in Nat
    BY <2>1, FS_CardinalityType
  <2> QED
    BY <2>2, <1>1, <1>4, <1>5, QuorumSize
<1>7. PICK w \in W \ {v} : w \notin Faulty
  BY <1>2, <1>6, HonestMember
<1>8. Precommit(h, w, x) \in S
  BY <1>1, <1>2, <1>3, <1>7
<1> QED
  BY <1>8 DEF SentInv, Precommit

(* More messages only add backers. *)
LEMMA MorePolka ==
  ASSUME NEW S, NEW T, S \subseteq T, NEW h, NEW x, HasPolka(S, h, x)
  PROVE  HasPolka(T, h, x)
<1>1. Backers(S, h, x) \in SUBSET Backers(T, h, x) /\ Backers(T, h, x) \in SUBSET Validator
  BY DEF Backers
<1>2. IsFiniteSet(Backers(T, h, x))
  BY <1>1, TendermintAssumption, FS_Subset
<1>3. Cardinality(Backers(S, h, x)) <= Cardinality(Backers(T, h, x))
  BY <1>1, <1>2, FS_Subset
<1>4. Cardinality(Backers(S, h, x)) \in Nat /\ Cardinality(Backers(T, h, x)) \in Nat
  BY <1>1, <1>2, FS_Subset, FS_CardinalityType
<1> QED
  BY <1>3, <1>4, QuorumSize DEF HasPolka

(* What others say leaves v's engine in order. *)
LEMMA OthersSpeak ==
  ASSUME NEW v, NEW e, NEW S, NEW T, S \subseteq T, EngineInv(v, e, S),
         \A m \in T \ S : m.from # v
  PROVE  EngineInv(v, e, T)
<1>1. VotesReached(v, e, T)
  BY DEF EngineInv, VotesReached
<1>2. TablesBacked(v, e, T)
  BY DEF EngineInv, TablesBacked
<1>3. CommitsBacked(e, T)
  BY MorePolka DEF EngineInv, CommitsBacked
<1> QED
  BY <1>1, <1>2, <1>3 DEF EngineInv

-----------------------------------------------------------------------------
(* An engine in order, with messages in order.                             *)
Good(v, e, S) ==
  e \in Engine /\ S \subseteq Message /\ SentInv(S) /\ EngineInv(v, e, S)

(* What a handler may do to the height and the committed blocks.           *)
Same(e, t) == t.height = e.height /\ t.committed = e.committed

Advance(e, t) ==
  /\ t.height = e.height + 1
  /\ t.step = "propose"
  /\ e.committed[e.height].hash = None
  /\ t.committed[e.height].hash # None
  /\ \A h \in Height \ {e.height} : t.committed[h] = e.committed[h]

LEMMA Heights == MaxHeight \in Nat \ {0} /\ Height \subseteq Nat
BY TendermintAssumption DEF Height

LEMMA RecordValue ==
  ASSUME NEW table \in VoteTable, NEW h \in Height, NEW w \in Validator,
         NEW x \in Vote
  PROVE  /\ Record(table, h, w, x) \in VoteTable
         /\ \A i \in Height, j \in Validator :
              Record(table, h, w, x)[i][j]
                = IF i = h /\ j = w THEN x ELSE table[i][j]
BY DEF Record, VoteTable

LEMMA WithPrevoteValue ==
  ASSUME NEW e \in Engine, NEW h \in Height, NEW w \in Validator, NEW x \in Vote
  PROVE  LET t == WithPrevote(e, h, w, x)
         IN /\ t \in Engine /\ Same(e, t)
            /\ t.step = e.step /\ t.precommits = e.precommits
            /\ t.prevotes = Record(e.prevotes, h, w, x)
BY RecordValue DEF WithPrevote, Engine, Same

LEMMA WithPrecommitValue ==
  ASSUME NEW e \in Engine, NEW h \in Height, NEW w \in Validator, NEW x \in Vote
  PROVE  LET t == WithPrecommit(e, h, w, x)
         IN /\ t \in Engine /\ Same(e, t)
            /\ t.step = e.step /\ t.prevotes = e.prevotes
            /\ t.precommits = Record(e.precommits, h, w, x)
BY RecordValue DEF WithPrecommit, Engine, Same

(* A precommit is recorded from whoever may have sent it, and the engine's *)
(* own entry may be anything.                                              *)
LEMMA RecordPrecommit ==
  ASSUME NEW v \in Honest, NEW e, NEW S, Good(v, e, S),
         NEW h \in Height, NEW w \in Validator, NEW x \in Vote,
         w = v \/ w \in Faulty \/ Precommit(h, w, x) \in S
  PROVE  LET t == WithPrecommit(e, h, w, x)
         IN Good(v, t, S) /\ Same(e, t) /\ t.step = e.step
<1> DEFINE t == WithPrecommit(e, h, w, x)
<1>1. e \in Engine /\ e.precommits \in VoteTable
  BY DEF Good, Engine
<1>2. /\ t \in Engine /\ Same(e, t)
      /\ t.step = e.step /\ t.prevotes = e.prevotes
      /\ t.precommits = Record(e.precommits, h, w, x)
  BY <1>1, WithPrecommitValue
<1>3. \A i \in Height, j \in Validator :
        t.precommits[i][j] = IF i = h /\ j = w THEN x ELSE e.precommits[i][j]
  BY <1>1, <1>2, RecordValue
<1> HIDE DEF t
<1>4. VotesReached(v, t, S)
  BY <1>2 DEF Good, EngineInv, VotesReached, Same
<1>5. TablesBacked(v, t, S)
  BY <1>2, <1>3 DEF Good, EngineInv, TablesBacked, Same
<1>6. CommitsBacked(t, S)
  BY <1>2 DEF Good, EngineInv, CommitsBacked, Same
<1> QED
  BY <1>2, <1>4, <1>5, <1>6 DEF Good, EngineInv, t

(* A prevote likewise, except that the engine's own entry counts once it   *)
(* has left the propose step.                                              *)
LEMMA RecordPrevote ==
  ASSUME NEW v \in Honest, NEW e, NEW S, Good(v, e, S),
         NEW h \in Height, NEW w \in Validator, NEW x \in Vote,
         \/ w \in Faulty \/ Prevote(h, w, x) \in S
         \/ w = v /\ h = e.height /\ e.step = "propose"
  PROVE  LET t == WithPrevote(e, h, w, x)
         IN Good(v, t, S) /\ Same(e, t) /\ t.step = e.step
<1> DEFINE t == WithPrevote(e, h, w, x)
<1>1. e \in Engine /\ e.prevotes \in VoteTable
  BY DEF Good, Engine
<1>2. /\ t \in Engine /\ Same(e, t)
      /\ t.step = e.step /\ t.precommits = e.precommits
      /\ t.prevotes = Record(e.prevotes, h, w, x)
  BY <1>1, WithPrevoteValue
<1>3. \A i \in Height, j \in Validator :
        t.prevotes[i][j] = IF i = h /\ j = w THEN x ELSE e.prevotes[i][j]
  BY <1>1, <1>2, RecordValue
<1> HIDE DEF t
<1>4. VotesReached(v, t, S)
  BY <1>2 DEF Good, EngineInv, VotesReached, Same
<1>5. TablesBacked(v, t, S)
  BY <1>2, <1>3 DEF Good, EngineInv, TablesBacked, Same
<1>6. CommitsBacked(t, S)
  BY <1>2 DEF Good, EngineInv, CommitsBacked, Same
<1> QED
  BY <1>2, <1>4, <1>5, <1>6 DEF Good, EngineInv, t

-----------------------------------------------------------------------------
(* A commit needs a quorum of prevotes, seen after the propose step.       *)
LEMMA CommitSafe ==
  ASSUME NEW v \in Honest, NEW e, NEW S, Good(v, e, S),
         e.height <= MaxHeight, e.step # "propose",
         NEW x \in Value, HasPolka(S, e.height, x)
  PROVE  Good(v, Commit(e, x), S) /\ Advance(e, Commit(e, x))
<1> DEFINE t == Commit(e, x)
           entry == [hash |-> x,
                     value |-> IF x \in e.values THEN x ELSE e.proposal]
<1>1. /\ e \in Engine /\ e.height \in Height /\ e.height \in Nat
      /\ e.height + 1 \in 1 .. MaxHeight + 1
  BY Heights DEF Good, Engine, Height
<1>2. entry \in [hash : Vote, value : Vote] /\ entry.hash = x
  BY <1>1 DEF Engine, Vote
<1>3. x # None
  BY TendermintAssumption
<1> HIDE DEF entry
<1>4. /\ t.height = e.height + 1 /\ t.step = "propose"
      /\ t.prevotes = e.prevotes /\ t.precommits = e.precommits
      /\ t.committed = [e.committed EXCEPT ![e.height] = entry]
  BY <1>1 DEF Commit, Engine, entry
<1>5. t \in Engine
  BY <1>1, <1>2 DEF Commit, Engine, Vote, entry
<1> HIDE DEF t
<1>6. \A h \in Height :
        t.committed[h] = IF h = e.height THEN entry ELSE e.committed[h]
  BY <1>1, <1>4 DEF Engine
<1>7. VotesReached(v, t, S)
  <2> SUFFICES ASSUME NEW m \in S, m.from = v PROVE m.height < t.height
    BY DEF VotesReached
  <2>1. m.height \in Nat
    BY Heights DEF Good, Message
  <2> QED
    BY <2>1, <1>1, <1>4 DEF Good, EngineInv, VotesReached
<1>8. TablesBacked(v, t, S)
  BY <1>4 DEF Good, EngineInv, TablesBacked
<1>9. CommitsBacked(t, S)
  <2> SUFFICES ASSUME NEW h \in Height, t.committed[h].hash # None
               PROVE  h < t.height /\ HasPolka(S, h, t.committed[h].hash)
    BY DEF CommitsBacked
  <2>1. CASE h = e.height
    BY <2>1, <1>1, <1>2, <1>4, <1>6
  <2>2. CASE h # e.height
    <3>1. h < e.height /\ HasPolka(S, h, t.committed[h].hash)
      BY <2>2, <1>6 DEF Good, EngineInv, CommitsBacked
    <3> QED
      BY <3>1, <1>1, <1>4, Heights
  <2> QED
    BY <2>1, <2>2
<1>10. e.committed[e.height].hash = None
  BY <1>1 DEF Good, EngineInv, CommitsBacked
<1> QED
  BY <1>1, <1>2, <1>3, <1>4, <1>5, <1>6, <1>7, <1>8, <1>9, <1>10
  DEF Good, EngineInv, Advance, t

LEMMA CheckPrecommitsSafe ==
  ASSUME NEW v \in Honest, NEW e, NEW S, Good(v, e, S), e.height <= MaxHeight
  PROVE  LET t == CheckPrecommits(e)
         IN Good(v, t, S) /\ (t = e \/ Advance(e, t))
<1> DEFINE votes == e.precommits[e.height]
           x == QuorumHash(votes)
<1>1. CASE ~ Decided(e)
  BY <1>1 DEF CheckPrecommits
<1>2. CASE Decided(e)
  <2>1. e \in Engine /\ e.height \in Height
    BY Heights DEF Good, Engine, Height
  <2>2. votes \in [Validator -> Vote]
    BY <2>1 DEF Engine, VoteTable
  <2>3. x \in Winners(votes)
    BY <1>2 DEF Decided, QuorumHash
  <2>4. \A w \in Validator \ {v} : votes[w] # None =>
          w \in Faulty \/ Precommit(e.height, w, votes[w]) \in S
    BY <2>1 DEF Good, EngineInv, TablesBacked
  <2>5. SentInv(S)
    BY DEF Good
  <2>6. CheckPrecommits(e) = Commit(e, x) /\ e.step # "propose"
    BY <1>2 DEF CheckPrecommits, Decided
  <2>7. x \in Value
    BY <2>3 DEF Winners
  <2> HIDE DEF votes, x
  <2>8. HasPolka(S, e.height, x)
    BY <2>2, <2>3, <2>4, <2>5, PrecommitWinner
  <2> QED
    BY <2>6, <2>7, <2>8, CommitSafe
<1> QED
  BY <1>1, <1>2

(* Precommitting what a quorum prevoted. *)
LEMMA OwnPrecommitSafe ==
  ASSUME NEW v \in Honest, NEW e, NEW S, Good(v, e, S), e.height <= MaxHeight,
         e.step = "prevote", NEW x \in Value, HasPolka(S, e.height, x)
  PROVE  LET t == OwnPrecommit(e, v, x)
             T == S \cup {Precommit(e.height, v, x)}
         IN Good(v, t, T) /\ Same(e, t)
<1> DEFINE t == OwnPrecommit(e, v, x)
           p == Precommit(e.height, v, x)
           T == S \cup {p}
           f == WithPrecommit(e, e.height, v, x)
<1>1. /\ e \in Engine /\ e.height \in Height /\ e.height \in Nat
      /\ v \in Validator /\ x \in Vote /\ x # None
  BY Heights, TendermintAssumption DEF Good, Engine, Height, Honest, Vote
<1>2. Good(v, f, S) /\ Same(e, f) /\ f.step = e.step
  BY <1>1, RecordPrecommit
<1>3. /\ p \in Message /\ p.type = "precommit" /\ p.from = v
      /\ p.height = e.height /\ p.hash = x
  BY <1>1 DEF Precommit, Message
<1> HIDE DEF f, p
<1>4. /\ t \in Engine /\ t.height = e.height /\ t.committed = e.committed
      /\ t.step = "precommit"
      /\ t.prevotes = f.prevotes /\ t.precommits = f.precommits
  BY <1>2 DEF OwnPrecommit, f, Good, Engine, Same
<1> HIDE DEF t
<1>5. SentInv(T)
  <2>1. \A m \in T : m.from \in Honest /\ m.hash # None
    BY <1>1, <1>3 DEF Good, SentInv
  <2>2. \A m \in S : ~ SameSlot(m, p) /\ ~ SameSlot(p, m)
    <3> SUFFICES ASSUME NEW m \in S, m.type = "precommit", m.from = v,
                        m.height = e.height
                 PROVE  FALSE
      BY <1>3 DEF SameSlot
    <3> QED
      BY <1>1 DEF Good, EngineInv, VotesReached
  <2>3. \A m1, m2 \in T : SameSlot(m1, m2) => m1.hash = m2.hash
    BY <2>2 DEF Good, SentInv
  <2>4. \A m \in T : m.type = "precommit" => HasPolka(S, m.height, m.hash)
    BY <1>3 DEF Good, SentInv
  <2>5. \A m \in T : m.type = "precommit" => HasPolka(T, m.height, m.hash)
    BY <2>4, MorePolka
  <2> QED
    BY <2>1, <2>3, <2>5 DEF SentInv
<1>6. VotesReached(v, t, T)
  <2>1. \A m \in S : m.height \in Nat
    BY Heights DEF Good, Message
  <2> QED
    BY <2>1, <1>1, <1>3, <1>4 DEF Good, EngineInv, VotesReached
<1>7. TablesBacked(v, t, T)
  BY <1>2, <1>4 DEF Good, EngineInv, TablesBacked, Same
<1>8. CommitsBacked(t, T)
  BY <1>4, MorePolka DEF Good, EngineInv, CommitsBacked
<1> QED
  BY <1>3, <1>4, <1>5, <1>6, <1>7, <1>8 DEF Good, EngineInv, Same, t, p

LEMMA CastPrecommitSafe ==
  ASSUME NEW v \in Honest, NEW e, NEW S, Good(v, e, S), e.height <= MaxHeight,
         e.step = "prevote", NEW x \in Value, HasPolka(S, e.height, x)
  PROVE  LET t == CastPrecommit(e, v, x)
             T == S \cup {Precommit(e.height, v, x)}
         IN Good(v, t, T) /\ (Same(e, t) \/ Advance(e, t))
<1> DEFINE own == OwnPrecommit(e, v, x)
           seen == CheckPrecommits(own)
           t == WithPrecommit(seen, seen.height, v, x)
           T == S \cup {Precommit(e.height, v, x)}
<1>1. Good(v, own, T) /\ Same(e, own)
  BY OwnPrecommitSafe
<1> HIDE DEF own, T
<1>2. Good(v, seen, T) /\ (seen = own \/ Advance(own, seen))
  BY <1>1, CheckPrecommitsSafe DEF Same
<1>3. Same(e, seen) \/ Advance(e, seen)
  BY <1>1, <1>2 DEF Same, Advance
<1> HIDE DEF seen
<1>4. seen \in Engine /\ seen.height \in Height /\ v \in Validator /\ x \in Vote
  BY <1>2 DEF Good, Engine, Height, Honest, Vote
<1>5. Good(v, t, T) /\ Same(seen, t) /\ t.step = seen.step
  BY <1>2, <1>4, RecordPrecommit
<1>6. Same(e, t) \/ Advance(e, t)
  BY <1>3, <1>5 DEF Same, Advance
<1> QED
  BY <1>5, <1>6 DEF CastPrecommit, own, seen, T

LEMMA CheckPrevotesSafe ==
  ASSUME NEW v \in Honest, NEW e, NEW S, Good(v, e, S), e.height <= MaxHeight
  PROVE  LET t == CheckPrevotes(e, v)
             T == S \cup PrecommitSent(e, v)
         IN Good(v, t, T) /\ (Same(e, t) \/ Advance(e, t))
<1> DEFINE votes == e.prevotes[e.height]
           x == QuorumHash(votes)
<1>1. CASE ~ Polka(e)
  <2>1. CheckPrevotes(e, v) = e /\ S \cup PrecommitSent(e, v) = S
    BY <1>1 DEF CheckPrevotes, PrecommitSent
  <2> QED
    BY <2>1 DEF Same
<1>2. CASE Polka(e)
  <2>1. e \in Engine /\ e.height \in Height
    BY DEF Good, Engine, Height
  <2>2. votes \in [Validator -> Vote]
    BY <2>1 DEF Engine, VoteTable
  <2>3. x \in Winners(votes) /\ e.step = "prevote"
    BY <1>2 DEF Polka, QuorumHash
  <2>4. \A w \in Validator : votes[w] # None =>
          w \in Faulty \/ Prevote(e.height, w, votes[w]) \in S
    BY <2>1, <2>3 DEF Good, EngineInv, TablesBacked
  <2>5. /\ CheckPrevotes(e, v) = CastPrecommit(e, v, x)
        /\ PrecommitSent(e, v) = {Precommit(e.height, v, x)}
    BY <1>2 DEF CheckPrevotes, PrecommitSent
  <2>6. x \in Value
    BY <2>3 DEF Winners
  <2> HIDE DEF votes, x
  <2>7. HasPolka(S, e.height, x)
    BY <2>2, <2>3, <2>4, PrevoteWinner
  <2> QED
    BY <2>3, <2>5, <2>6, <2>7, CastPrecommitSafe
<1> QED
  BY <1>1, <1>2

(* Prevoting, and proposing with it, in the propose step. *)
LEMMA OwnPrevoteSafe ==
  ASSUME NEW v \in Honest, NEW e, NEW S, Good(v, e, S), e.height <= MaxHeight,
         e.step = "propose", NEW x \in Value,
         NEW M, Prevote(e.height, v, x) \in M,
         M \subseteq {Proposal(e.height, v, x), Prevote(e.height, v, x)}
  PROVE  LET t == OwnPrevote(e, v, x)
         IN Good(v, t, S \cup M) /\ Same(e, t)
<1> DEFINE t == OwnPrevote(e, v, x)
           T == S \cup M
           f == WithPrevote(e, e.height, v, x)
<1>1. /\ e \in Engine /\ e.height \in Height /\ e.height \in Nat
      /\ v \in Validator /\ x \in Vote /\ x # None
  BY Heights, TendermintAssumption DEF Good, Engine, Height, Honest, Vote
<1>2. Good(v, f, S) /\ Same(e, f) /\ f.step = e.step
  BY <1>1, RecordPrevote
<1>3. \A m \in M :
        /\ m \in Message /\ m.type \in {"proposal", "prevote"} /\ m.from = v
        /\ m.height = e.height /\ m.hash = x
  BY <1>1 DEF Proposal, Prevote, Message
<1>4. /\ f.prevotes = Record(e.prevotes, e.height, v, x)
      /\ f.precommits = e.precommits /\ e.prevotes \in VoteTable
  BY <1>1, WithPrevoteValue DEF Engine
<1> HIDE DEF f
<1>5. \A i \in Height, j \in Validator :
        f.prevotes[i][j] = IF i = e.height /\ j = v THEN x ELSE e.prevotes[i][j]
  BY <1>1, <1>4, RecordValue
<1>6. /\ t \in Engine /\ t.height = e.height /\ t.committed = e.committed
      /\ t.step = "prevote"
      /\ t.prevotes = f.prevotes /\ t.precommits = e.precommits
  BY <1>2, <1>4 DEF OwnPrevote, f, Good, Engine, Same
<1> HIDE DEF t
<1>7. SentInv(T)
  <2>1. \A m \in T : m.from \in Honest /\ m.hash # None
    BY <1>1, <1>3 DEF Good, SentInv
  <2>2. \A m \in S, p \in M : ~ SameSlot(m, p) /\ ~ SameSlot(p, m)
    <3> SUFFICES ASSUME NEW m \in S, m.type \in {"proposal", "prevote"},
                        m.from = v, m.height = e.height
                 PROVE  FALSE
      BY <1>3 DEF SameSlot
    <3> QED
      BY <1>1 DEF Good, EngineInv, VotesReached
  <2>3. \A m1, m2 \in T : SameSlot(m1, m2) => m1.hash = m2.hash
    BY <1>3, <2>2 DEF Good, SentInv
  <2>4. \A m \in T : m.type = "precommit" => HasPolka(S, m.height, m.hash)
    BY <1>3 DEF Good, SentInv
  <2>5. \A m \in T : m.type = "precommit" => HasPolka(T, m.height, m.hash)
    BY <2>4, MorePolka
  <2> QED
    BY <2>1, <2>3, <2>5 DEF SentInv
<1>8. VotesReached(v, t, T)
  <2> SUFFICES ASSUME NEW m \in T, m.from = v
               PROVE  /\ m.type # "precommit" =>
                           m.height < e.height \/ m.height = e.height
                      /\ m.type = "precommit" => m.height < e.height
    BY <1>6 DEF VotesReached
  <2>1. CASE m \in S
    BY <2>1 DEF Good, EngineInv, VotesReached
  <2>2. CASE m \in M
    BY <2>2, <1>3
  <2> QED
    BY <2>1, <2>2
<1>9. TablesBacked(v, t, T)
  BY <1>5, <1>6 DEF Good, EngineInv, TablesBacked
<1>10. CommitsBacked(t, T)
  BY <1>6, MorePolka DEF Good, EngineInv, CommitsBacked
<1> QED
  BY <1>3, <1>6, <1>7, <1>8, <1>9, <1>10 DEF Good, EngineInv, Same, t

LEMMA CastPrevoteSafe ==
  ASSUME NEW v \in Honest, NEW e, NEW S, Good(v, e, S), e.height <= MaxHeight,
         e.step = "propose", NEW x \in Value,
         NEW M, Prevote(e.height, v, x) \in M,
         M \subseteq {Proposal(e.height, v, x), Prevote(e.height, v, x)}
  PROVE  LET t == CastPrevote(e, v, x)
             T == S \cup M \cup PrecommitSent(OwnPrevote(e, v, x), v)
         IN Good(v, t, T) /\ (Same(e, t) \/ Advance(e, t))
<1> DEFINE own == OwnPrevote(e, v, x)
           seen == CheckPrevotes(own, v)
           t == WithPrevote(seen, seen.height, v, x)
           T == S \cup M \cup PrecommitSent(own, v)
<1>1. Good(v, own, S \cup M) /\ Same(e, own)
  BY OwnPrevoteSafe
<1> HIDE DEF own
<1>2. Good(v, seen, T) /\ (Same(own, seen) \/ Advance(own, seen))
  BY <1>1, CheckPrevotesSafe DEF Same
<1>3. Same(e, seen) \/ Advance(e, seen)
  BY <1>1, <1>2 DEF Same, Advance
<1> HIDE DEF seen, T
<1>4. seen \in Engine /\ seen.height \in Height /\ v \in Validator /\ x \in Vote
  BY <1>2 DEF Good, Engine, Height, Honest, Vote
<1>5. \/ Prevote(seen.height, v, x) \in T
      \/ seen.step = "propose"
  BY <1>3 DEF Same, Advance, T
<1>6. Good(v, t, T) /\ Same(seen, t) /\ t.step = seen.step
  BY <1>2, <1>4, <1>5, RecordPrevote
<1>7. Same(e, t) \/ Advance(e, t)
  BY <1>3, <1>6 DEF Same, Advance
<1> QED
  BY <1>6, <1>7 DEF CastPrevote, own, seen, T

LEMMA OfferedSafe ==
  ASSUME NEW v \in Honest, NEW e, NEW S, Good(v, e, S), NEW x \in Value
  PROVE  LET t == Offered(e, x)
         IN Good(v, t, S) /\ Same(e, t) /\ t.step = e.step
<1> DEFINE t == Offered(e, x)
<1>1. /\ t \in Engine /\ Same(e, t) /\ t.step = e.step
      /\ t.prevotes = e.prevotes /\ t.precommits = e.precommits
  BY DEF Good, Engine, Offered, Same, Vote
<1> HIDE DEF t
<1>2. EngineInv(v, t, S)
  BY <1>1 DEF Good, EngineInv, Same, VotesReached, TablesBacked, CommitsBacked
<1> QED
  BY <1>1, <1>2 DEF Good, t

-----------------------------------------------------------------------------
(* What every handler does: it moves one engine as Same or Advance allow,  *)
(* to an engine in order with the messages its validator has added.        *)
Moves(v, t) ==
  /\ engine' = [engine EXCEPT ![v] = t]
  /\ sent \subseteq sent'
  /\ \A m \in sent' \ sent : m.from = v
  /\ Good(v, t, sent')
  /\ Same(engine[v], t) \/ Advance(engine[v], t)

LEMMA GoodEngine ==
  ASSUME Inv, NEW v \in Honest
  PROVE  Good(v, engine[v], sent)
BY DEF Inv, TypeOK, Good

LEMMA SentFrom ==
  ASSUME NEW v, NEW e, NEW h, NEW x, NEW m,
         \/ m = Proposal(h, v, x) \/ m = Prevote(h, v, x)
         \/ m \in PrecommitSent(e, v)
  PROVE  m.from = v
BY DEF Proposal, Prevote, Precommit, PrecommitSent

LEMMA Through ==
  ASSUME NEW d, NEW e, NEW t, Same(d, e), Same(e, t) \/ Advance(e, t)
  PROVE  Same(d, t) \/ Advance(d, t)
BY DEF Same, Advance

LEMMA ProposeMoves ==
  ASSUME Inv, NEW v \in Honest, NEW x \in Value, Propose(v, x)
  PROVE  \E t : Moves(v, t)
<1>1. PICK e : e = Offered(engine[v], x)
  OBVIOUS
<1>2. Good(v, e, sent) /\ Same(engine[v], e) /\ e.step = engine[v].step
  BY <1>1, GoodEngine, OfferedSafe
<1>3. PICK M : M = {Proposal(e.height, v, x), Prevote(e.height, v, x)}
  OBVIOUS
<1>4. PICK t : t = CastPrevote(e, v, x)
  OBVIOUS
<1>5. PICK P : P = PrecommitSent(OwnPrevote(e, v, x), v)
  OBVIOUS
<1>6. /\ e.height <= MaxHeight /\ e.step = "propose"
      /\ engine' = [engine EXCEPT ![v] = t]
      /\ sent' = sent \cup M \cup P
  BY <1>1, <1>2, <1>3, <1>4, <1>5 DEF Propose, Same
<1>7. Good(v, t, sent') /\ (Same(e, t) \/ Advance(e, t))
  BY <1>2, <1>3, <1>4, <1>5, <1>6, CastPrevoteSafe
<1>8. \A m \in M \cup P : m.from = v
  BY <1>3, <1>5, SentFrom
<1>9. Same(engine[v], t) \/ Advance(engine[v], t)
  BY <1>2, <1>7, Through
<1> QED
  BY <1>6, <1>7, <1>8, <1>9 DEF Moves

LEMMA HandleProposalMoves ==
  ASSUME Inv, NEW v \in Honest, NEW x \in Value, HandleProposal(v, x)
  PROVE  \E t : Moves(v, t)
<1>1. PICK e : e = Offered(engine[v], x)
  OBVIOUS
<1>2. Good(v, e, sent) /\ Same(engine[v], e) /\ e.step = engine[v].step
  BY <1>1, GoodEngine, OfferedSafe
<1>3. AcceptProposal(v, x) /\ e.height <= MaxHeight
  BY <1>2 DEF HandleProposal, Same
<1>4. CASE e.step # "propose"
  <2>1. engine' = [engine EXCEPT ![v] = e] /\ sent' = sent
    BY <1>1, <1>3, <1>4 DEF AcceptProposal
  <2> QED
    BY <2>1, <1>2 DEF Moves
<1>5. CASE e.step = "propose"
  <2>1. PICK M : M = {Prevote(e.height, v, x)}
    OBVIOUS
  <2>2. PICK t : t = CastPrevote(e, v, x)
    OBVIOUS
  <2>3. PICK P : P = PrecommitSent(OwnPrevote(e, v, x), v)
    OBVIOUS
  <2>4. engine' = [engine EXCEPT ![v] = t] /\ sent' = sent \cup M \cup P
    BY <1>1, <1>3, <1>5, <2>1, <2>2, <2>3 DEF AcceptProposal
  <2>5. Good(v, t, sent') /\ (Same(e, t) \/ Advance(e, t))
    BY <1>2, <1>3, <1>5, <2>1, <2>2, <2>3, <2>4, CastPrevoteSafe
  <2>6. \A m \in M \cup P : m.from = v
    BY <2>1, <2>3, SentFrom
  <2>7. Same(engine[v], t) \/ Advance(engine[v], t)
    BY <1>2, <2>5, Through
  <2> QED
    BY <2>4, <2>5, <2>6, <2>7 DEF Moves
<1> QED
  BY <1>4, <1>5

(* A message that is available was sent, or is the lie of a faulty         *)
(* validator.                                                              *)
LEMMA AvailableFrom ==
  ASSUME NEW v \in Honest, NEW m, Available(v, m)
  PROVE  m \in sent \/ m.from \in Faulty
BY LiesAssumption DEF Available

LEMMA HandlePrevoteMoves ==
  ASSUME Inv, NEW v \in Honest, NEW w \in Validator, NEW x \in Vote,
         HandlePrevote(v, w, x)
  PROVE  \E t : Moves(v, t)
<1>1. PICK h : h = engine[v].height
  OBVIOUS
<1>2. PICK e : e = WithPrevote(engine[v], h, w, x)
  OBVIOUS
<1>3. h \in Height /\ h <= MaxHeight
  BY <1>1 DEF HandlePrevote, Inv, TypeOK, Engine, Height
<1>4. w \in Faulty \/ Prevote(h, w, x) \in sent
  <2>1. Available(v, Prevote(h, w, x))
    BY <1>1 DEF HandlePrevote
  <2> QED
    BY <2>1, AvailableFrom DEF Prevote
<1>5. Good(v, e, sent) /\ Same(engine[v], e)
  BY <1>2, <1>3, <1>4, GoodEngine, RecordPrevote
<1>6. PICK t : t = CheckPrevotes(e, v)
  OBVIOUS
<1>7. PICK P : P = PrecommitSent(e, v)
  OBVIOUS
<1>8. engine' = [engine EXCEPT ![v] = t] /\ sent' = sent \cup P
  BY <1>1, <1>2, <1>6, <1>7 DEF HandlePrevote
<1>9. Good(v, t, sent') /\ (Same(e, t) \/ Advance(e, t))
  BY <1>1, <1>3, <1>5, <1>6, <1>7, <1>8, CheckPrevotesSafe DEF Same
<1>10. \A m \in P : m.from = v
  BY <1>7, SentFrom
<1>11. Same(engine[v], t) \/ Advance(engine[v], t)
  BY <1>5, <1>9, Through
<1> QED
  BY <1>8, <1>9, <1>10, <1>11 DEF Moves

LEMMA HandlePrecommitMoves ==
  ASSUME Inv, NEW v \in Honest, NEW w \in Validator, NEW x \in Vote,
         HandlePrecommit(v, w, x)
  PROVE  \E t : Moves(v, t)
<1>1. PICK h : h = engine[v].height
  OBVIOUS
<1>2. PICK e : e = WithPrecommit(engine[v], h, w, x)
  OBVIOUS
<1>3. h \in Height /\ h <= MaxHeight
  BY <1>1 DEF HandlePrecommit, Inv, TypeOK, Engine, Height
<1>4. w \in Faulty \/ Precommit(h, w, x) \in sent
  <2>1. Available(v, Precommit(h, w, x))
    BY <1>1 DEF HandlePrecommit
  <2> QED
    BY <2>1, AvailableFrom DEF Precommit
<1>5. Good(v, e, sent) /\ Same(engine[v], e)
  BY <1>2, <1>3, <1>4, GoodEngine, RecordPrecommit
<1>6. PICK t : t = CheckPrecommits(e)
  OBVIOUS
<1>7. engine' = [engine EXCEPT ![v] = t] /\ sent' = sent
  BY <1>1, <1>2, <1>6 DEF HandlePrecommit
<1>8. Good(v, t, sent) /\ (t = e \/ Advance(e, t))
  BY <1>1, <1>3, <1>5, <1>6, CheckPrecommitsSafe DEF Same
<1>9. Same(engine[v], t) \/ Advance(engine[v], t)
  BY <1>5, <1>8, Through DEF Same
<1> QED
  BY <1>7, <1>8, <1>9 DEF Moves

LEMMA NextMoves ==
  ASSUME Inv, Next
  PROVE  \E v \in Honest : \E t : Moves(v, t)
<1>1. PICK v \in Honest :
        \/ \E x \in Value : Propose(v, x)
        \/ \E x \in Value : HandleProposal(v, x)
        \/ \E w \in Validator, x \in Vote : HandlePrevote(v, w, x)
        \/ \E w \in Validator, x \in Vote : HandlePrecommit(v, w, x)
  BY DEF Next
<1>2. CASE \E x \in Value : Propose(v, x)
  BY <1>2, ProposeMoves
<1>3. CASE \E x \in Value : HandleProposal(v, x)
  BY <1>3, HandleProposalMoves
<1>4. CASE \E w \in Validator, x \in Vote : HandlePrevote(v, w, x)
  BY <1>4, HandlePrevoteMoves
<1>5. CASE \E w \in Validator, x \in Vote : HandlePrecommit(v, w, x)
  BY <1>5, HandlePrecommitMoves
<1> QED
  BY <1>1, <1>2, <1>3, <1>4, <1>5

LEMMA MovesPreserve ==
  ASSUME Inv, NEW v \in Honest, NEW t, Moves(v, t)
  PROVE  Inv'
<1>1. engine' = [engine EXCEPT ![v] = t] /\ Good(v, t, sent')
  BY DEF Moves
<1>2. TypeOK' /\ SentInv(sent')
  BY <1>1 DEF Inv, TypeOK, Good
<1>3. ASSUME NEW w \in Honest PROVE EngineInv(w, engine'[w], sent')
  <2>1. CASE w = v
    BY <2>1, <1>1 DEF Inv, TypeOK, Good
  <2>2. CASE w # v
    <3>1. engine'[w] = engine[w]
      BY <2>2, <1>1 DEF Inv, TypeOK
    <3>2. sent \subseteq sent' /\ \A m \in sent' \ sent : m.from # w
      BY <2>2 DEF Moves
    <3>3. EngineInv(w, engine[w], sent)
      BY DEF Inv
    <3> QED
      BY <3>1, <3>2, <3>3, OthersSpeak
  <2> QED
    BY <2>1, <2>2
<1> QED
  BY <1>2, <1>3 DEF Inv

-----------------------------------------------------------------------------
(* The inductive invariant holds of the engines of every network with      *)
(* fewer than a third faulty.                                              *)
THEOREM Invariant == Spec => []Inv
<1>1. Init => Inv
  <2> SUFFICES ASSUME Init PROVE Inv
    OBVIOUS
  <2>1. TypeOK
    BY Heights DEF Init, TypeOK, Engine, VoteTable, NoVotes, Nothing, Vote
  <2>2. SentInv(sent)
    BY DEF Init, SentInv
  <2>3. ASSUME NEW v \in Honest PROVE EngineInv(v, engine[v], sent)
    BY DEF Init, EngineInv, VotesReached, TablesBacked, CommitsBacked,
           NoVotes, Nothing
  <2> QED
    BY <2>1, <2>2, <2>3 DEF Inv
<1>2. Inv /\ [Next]_vars => Inv'
  <2>1. ASSUME Inv, Next PROVE Inv'
    BY <2>1, NextMoves, MovesPreserve
  <2>2. ASSUME Inv, UNCHANGED vars PROVE Inv'
    BY <2>2 DEF Inv, TypeOK, vars
  <2> QED
    BY <2>1, <2>2
<1> QED
  BY <1>1, <1>2, PTL DEF Spec

(* Every engine keeps its types: the votes it counts are for heights, of   *)
(* validators, and what it sent is a set of votes and proposals            *)
(* (tendermint.py TendermintEngine).                                       *)
THEOREM TypesHold == Spec => []TypeOK
<1>1. Inv => TypeOK
  BY DEF Inv
<1> QED
  BY <1>1, Invariant, PTL

(* Safety of the height decision: honest validators commit one hash at a   *)
(* height, because each such hash has a quorum of prevotes.                *)
THEOREM AgreementHolds == Spec => []Agreement
<1>1. Inv => Agreement
  <2> SUFFICES ASSUME Inv, NEW v \in Honest, NEW w \in Honest, NEW h \in Height,
                      engine[v].committed[h].hash # None,
                      engine[w].committed[h].hash # None
               PROVE  engine[v].committed[h].hash = engine[w].committed[h].hash
    BY DEF Agreement
  <2>1. /\ HasPolka(sent, h, engine[v].committed[h].hash)
        /\ HasPolka(sent, h, engine[w].committed[h].hash)
    BY DEF Inv, EngineInv, CommitsBacked
  <2> QED
    BY <2>1, OnePolka DEF Inv
<1> QED
  BY <1>1, Invariant, PTL

(* No honest validator speaks for two values at a height.                  *)
THEOREM HonestVotes == Spec => []NoEquivocation
<1>1. Inv => NoEquivocation
  BY DEF Inv, SentInv, NoEquivocation
<1> QED
  BY <1>1, Invariant, PTL

(* Heights are committed one at a time and never revised.                  *)
THEOREM CommitOrder == Spec => CommitsInOrder
<1> DEFINE Step ==
      \A v \in Honest :
        LET old == engine[v]
            new == engine'[v]
        IN \/ new.height = old.height /\ new.committed = old.committed
           \/ /\ new.height = old.height + 1
              /\ old.committed[old.height].hash = None
              /\ new.committed[old.height].hash # None
              /\ \A h \in Height \ {old.height} :
                   new.committed[h] = old.committed[h]
<1>1. Inv /\ [Next]_vars => [Step]_vars
  <2> SUFFICES ASSUME Inv, Next, NEW w \in Honest
               PROVE  Same(engine[w], engine'[w]) \/ Advance(engine[w], engine'[w])
    BY DEF Same, Advance
  <2>1. PICK v \in Honest : \E t : Moves(v, t)
    BY NextMoves
  <2>2. PICK t : Moves(v, t)
    BY <2>1
  <2>3. engine'[w] = IF w = v THEN t ELSE engine[w]
    BY <2>2 DEF Moves, Inv, TypeOK
  <2> QED
    BY <2>2, <2>3 DEF Moves, Same
<1> QED
  BY <1>1, Invariant, PTL DEF Spec, CommitsInOrder

-----------------------------------------------------------------------------
(* The refinement of ReplicatedLog.  The decisions of one engine are a     *)
(* sequence, which a step leaves alone or makes longer by one.             *)
LEMMA LogOfEntries ==
  ASSUME NEW e \in Engine
  PROVE  /\ e.height - 1 \in Nat
         /\ LogOf(e) \in Seq(Vote) /\ Len(LogOf(e)) = e.height - 1
         /\ \A h \in 1 .. e.height - 1 : LogOf(e)[h] = e.committed[h].hash
<1>1. e.height \in 1 .. MaxHeight + 1 /\ MaxHeight \in Nat
  BY Heights DEF Engine
<1>2. PICK n \in Nat : n = e.height - 1
  BY <1>1
<1>3. e.committed \in [Height -> [hash : Vote, value : Vote]]
  BY DEF Engine
<1>4. \A h \in 1 .. n : h \in Height
  BY <1>1, <1>2 DEF Height
<1>5. \A h \in 1 .. n : e.committed[h].hash \in Vote
  BY <1>3, <1>4
<1>6. LogOf(e) = [h \in 1 .. n |-> e.committed[h].hash]
  BY <1>2 DEF LogOf
<1>7. LogOf(e) \in [1 .. n -> Vote]
  BY <1>5, <1>6
<1>8. LogOf(e) \in Seq(Vote) /\ Len(LogOf(e)) = n
  BY <1>7
<1> QED
  BY <1>2, <1>6, <1>8

LEMMA LogOfSame ==
  ASSUME NEW e, NEW t, Same(e, t) PROVE LogOf(t) = LogOf(e)
BY DEF Same, LogOf

LEMMA LogOfAdvance ==
  ASSUME NEW e \in Engine, NEW t \in Engine, Advance(e, t)
  PROVE  LogOf(t) = Append(LogOf(e), t.committed[e.height].hash)
<1> PICK s : s = LogOf(e)
  OBVIOUS
<1> PICK d : d = t.committed[e.height].hash
  OBVIOUS
<1>1. PICK n \in Nat : n = e.height - 1
  BY LogOfEntries
<1>2. s \in Seq(Vote) /\ Len(s) = n /\ \A h \in 1 .. n : s[h] = e.committed[h].hash
  BY <1>1, LogOfEntries
<1>3. e.height = n + 1 /\ t.height = n + 2
  BY <1>1, Heights DEF Advance, Engine
<1>4. n + 1 <= MaxHeight + 1 /\ MaxHeight \in Nat
  BY <1>3, Heights DEF Engine
<1>5. \A h \in 1 .. n : t.committed[h] = e.committed[h]
  <2>1. \A h \in 1 .. n : h \in Height /\ h # e.height
    BY <1>3, <1>4 DEF Height
  <2> QED
    BY <2>1 DEF Advance
<1>6. LogOf(t) = [h \in 1 .. n + 1 |-> t.committed[h].hash]
  BY <1>3 DEF LogOf
<1>7. Append(s, d) = [h \in 1 .. n + 1 |-> IF h = n + 1 THEN d ELSE s[h]]
  BY <1>2
<1>8. ASSUME NEW h \in 1 .. n + 1
      PROVE  t.committed[h].hash = IF h = n + 1 THEN d ELSE s[h]
  <2>1. CASE h = n + 1
    BY <1>3, <2>1
  <2>2. CASE h \in 1 .. n
    BY <1>2, <1>5, <2>2
  <2> QED
    BY <2>1, <2>2
<1> QED
  BY <1>6, <1>7, <1>8

(* No height below an engine's own is left open. *)
Filled(e) == \A h \in 1 .. e.height - 1 : e.committed[h].hash # None
LogInv == Inv /\ \A v \in Honest : Filled(engine[v])

LEMMA FilledKept ==
  ASSUME NEW e \in Engine, NEW t \in Engine, Filled(e), Same(e, t) \/ Advance(e, t)
  PROVE  Filled(t)
<1>1. CASE Same(e, t)
  BY <1>1 DEF Same, Filled
<1>2. CASE Advance(e, t)
  <2>1. PICK n \in Nat : n = e.height - 1
    BY LogOfEntries
  <2>2. e.height = n + 1 /\ t.height = n + 2
    BY <1>2, <2>1, Heights DEF Advance, Engine
  <2>3. n + 1 <= MaxHeight + 1 /\ MaxHeight \in Nat
    BY <2>2, Heights DEF Engine
  <2>4. ASSUME NEW h \in 1 .. n PROVE t.committed[h].hash # None
    <3>1. h \in Height /\ h # e.height
      BY <2>2, <2>3 DEF Height
    <3>2. t.committed[h] = e.committed[h]
      BY <1>2, <3>1 DEF Advance
    <3> QED
      BY <2>1, <3>2 DEF Filled
  <2>5. t.committed[n + 1].hash # None
    BY <1>2, <2>2 DEF Advance
  <2> QED
    BY <2>2, <2>4, <2>5 DEF Filled
<1> QED
  BY <1>1, <1>2

(* Every height below an engine's own holds a hash: with Inv, which puts   *)
(* every hash below that height, the log has no gap and no tail            *)
(* (consensus/bft/tendermint.py:_commit).                                  *)
THEOREM LogInvariant == Spec => []LogInv
<1>1. Init /\ Inv => LogInv
  BY DEF Init, LogInv, Filled
<1>2. LogInv /\ Inv' /\ [Next]_vars => LogInv'
  <2> SUFFICES ASSUME LogInv, Inv', [Next]_vars, NEW w \in Honest
               PROVE  Filled(engine'[w])
    BY DEF LogInv
  <2>1. CASE UNCHANGED vars
    BY <2>1 DEF vars, LogInv
  <2>2. CASE Next
    <3>1. PICK v \in Honest : \E t : Moves(v, t)
      BY <2>2, NextMoves DEF LogInv
    <3>2. PICK t : Moves(v, t)
      BY <3>1
    <3>3. engine[v] \in Engine /\ engine'[v] \in Engine
      BY DEF LogInv, Inv, TypeOK
    <3>4. engine'[w] = IF w = v THEN t ELSE engine[w]
      BY <3>2 DEF Moves, LogInv, Inv, TypeOK
    <3>5. Filled(engine[v]) /\ Filled(engine[w])
      BY DEF LogInv
    <3>6. engine'[v] = t
      BY <3>2 DEF Moves, LogInv, Inv, TypeOK
    <3>7. Filled(t)
      BY <3>2, <3>3, <3>5, <3>6, FilledKept DEF Moves
    <3> QED
      BY <3>4, <3>5, <3>7
  <2> QED
    BY <2>1, <2>2
<1> QED
  BY <1>1, <1>2, Invariant, PTL DEF Spec

(* An entry of the log, and how far it goes. *)
LEMMA LogEntry ==
  ASSUME TypeOK, NEW v \in Honest
  PROVE  /\ engine[v] \in Engine /\ engine[v].height - 1 \in Nat
         /\ Len(DecisionLog[v]) = engine[v].height - 1
         /\ \A h \in 1 .. engine[v].height - 1 :
              h \in Height /\ DecisionLog[v][h] = engine[v].committed[h].hash
<1>1. engine[v] \in Engine /\ DecisionLog[v] = LogOf(engine[v])
  BY DEF TypeOK, DecisionLog
<1>2. /\ engine[v].height - 1 \in Nat /\ engine[v].height \in Nat
      /\ engine[v].height <= MaxHeight + 1
  BY <1>1, Heights DEF Engine
<1>3. \A h \in 1 .. engine[v].height - 1 : h \in Height
  BY <1>2, Heights DEF Height
<1> QED
  BY <1>1, <1>2, <1>3, LogOfEntries

(* Of two honest validators' logs one is always a prefix of the other.     *)
THEOREM LogsConsistent == Spec => []L!Consistent
<1>1. LogInv /\ Agreement => L!Consistent
  <2> SUFFICES ASSUME LogInv, Agreement, NEW v \in Honest, NEW w \in Honest,
                      NEW h \in 1 .. Len(DecisionLog[v]), h <= Len(DecisionLog[w])
               PROVE  DecisionLog[v][h] = DecisionLog[w][h]
    BY DEF L!Consistent
  <2>1. TypeOK
    BY DEF LogInv, Inv
  <2>2. /\ h \in 1 .. engine[v].height - 1 /\ h \in Height
        /\ DecisionLog[v][h] = engine[v].committed[h].hash
    BY <2>1, LogEntry
  <2>3. /\ h \in 1 .. engine[w].height - 1
        /\ DecisionLog[w][h] = engine[w].committed[h].hash
    BY <2>1, <2>2, LogEntry
  <2>4. engine[v].committed[h].hash # None /\ engine[w].committed[h].hash # None
    BY <2>2, <2>3 DEF LogInv, Filled
  <2> QED
    BY <2>2, <2>3, <2>4 DEF Agreement
<1> QED
  BY <1>1, LogInvariant, AgreementHolds, PTL

(* The honest validators of consensus/bft/tendermint.py implement one      *)
(* replicated log of hashes: every step of theirs is one decision that no  *)
(* one contradicts, or none.                                               *)
THEOREM ReplicatedLogRefined == Spec => ImplementsLog
<1>1. Init => L!Init
  <2> SUFFICES ASSUME Init PROVE DecisionLog = [v \in Honest |-> <<>>]
    BY DEF L!Init
  <2>1. \A v \in Honest : engine[v].height = 1
    BY DEF Init
  <2>2. \A v \in Honest : LogOf(engine[v]) = <<>>
    BY <2>1 DEF LogOf
  <2> QED
    BY <2>2 DEF DecisionLog
<1>2. LogInv /\ LogInv' /\ Agreement' /\ [Next]_vars => [L!Next]_DecisionLog
  <2> SUFFICES ASSUME LogInv, LogInv', Agreement', Next, DecisionLog' # DecisionLog
               PROVE  L!Next
    BY DEF vars, DecisionLog
  <2>1. PICK v \in Honest : \E t : Moves(v, t)
    BY NextMoves DEF LogInv
  <2>2. PICK t : Moves(v, t)
    BY <2>1
  <2>3. TypeOK /\ TypeOK'
    BY DEF LogInv, Inv
  <2>4. \A w \in Honest : engine'[w] = IF w = v THEN t ELSE engine[w]
    BY <2>2, <2>3 DEF Moves, TypeOK
  <2>5. engine[v] \in Engine /\ t \in Engine
    BY <2>3, <2>4 DEF TypeOK
  <2>6. DecisionLog' = [DecisionLog EXCEPT ![v] = LogOf(t)]
    BY <2>4 DEF DecisionLog
  <2>7. ~Same(engine[v], t)
    <3> SUFFICES ASSUME Same(engine[v], t) PROVE FALSE
      OBVIOUS
    <3>1. LogOf(t) = DecisionLog[v]
      BY LogOfSame DEF DecisionLog
    <3>2. [DecisionLog EXCEPT ![v] = DecisionLog[v]] = DecisionLog
      BY DEF DecisionLog
    <3> QED
      BY <2>6, <3>1, <3>2
  <2>8. Advance(engine[v], t)
    BY <2>2, <2>7 DEF Moves
  <2>9. PICK n \in Nat : n = engine[v].height - 1 /\ n = Len(DecisionLog[v])
    BY <2>3, LogEntry
  <2>10. engine[v].height = n + 1 /\ engine[v].height \in Height
    BY <2>5, <2>9, Heights DEF Engine, Height
  <2>11. PICK d : d = t.committed[n + 1].hash
    OBVIOUS
  <2>12. d \in Value
    <3>1. d \in Vote
      BY <2>5, <2>10, <2>11 DEF Engine
    <3> QED
      BY <2>8, <2>10, <2>11, <3>1 DEF Advance, Vote
  <2>13. DecisionLog' = [DecisionLog EXCEPT ![v] = Append(DecisionLog[v], d)]
    <3>1. LogOf(t) = Append(LogOf(engine[v]), d)
      BY <2>5, <2>8, <2>10, <2>11, LogOfAdvance
    <3> QED
      BY <2>6, <3>1 DEF DecisionLog
  <2>14. ASSUME NEW w \in Honest, Len(DecisionLog[w]) > n
         PROVE  DecisionLog[w][n + 1] = d
    <3>1. /\ n + 1 \in 1 .. engine[w].height - 1
          /\ DecisionLog[w][n + 1] = engine[w].committed[n + 1].hash
      BY <2>3, <2>14, LogEntry
    <3>2. engine[w].committed[n + 1].hash # None
      BY <3>1 DEF LogInv, Filled
    <3>3. w # v
      BY <2>9, <2>14
    <3>4. engine'[w] = engine[w] /\ engine'[v] = t
      BY <2>4, <3>3
    <3>5. t.committed[n + 1].hash # None
      BY <2>8, <2>10 DEF Advance
    <3>6. engine'[w].committed[n + 1].hash = engine'[v].committed[n + 1].hash
      BY <2>10, <3>2, <3>4, <3>5 DEF Agreement
    <3> QED
      BY <2>11, <3>1, <3>4, <3>6
  <2>15. L!Decide(v, d)
    BY <2>9, <2>13, <2>14 DEF L!Decide
  <2> QED
    BY <2>12, <2>15 DEF L!Next
<1> QED
  BY <1>1, <1>2, LogInvariant, AgreementHolds, PTL DEF Spec, ImplementsLog, L!Spec

=============================================================================
