--------------------------- MODULE ReplicaProofs ---------------------------
(* Proofs about PBFT and HotStuff, for every set of replicas, every lie,   *)
(* every number of sequences and views: under a correct leader what is     *)
(* executed is what the leader proposed.                                   *)
EXTENDS PBFT, HotStuff, FiniteSetTheorems, SequenceTheorems, TLAPS

(* A quorum large enough that neither the Byzantine replicas nor they and  *)
(* one stale vote reach it.                                                *)
OutweighsByzantine(q) ==
  q \in Nat /\ (Byzantine = {} \/ q > Cardinality(Byzantine) + 1)

(* Of a quorum that counts a vote of r, r is correct or some other correct *)
(* replica is among the voters that me did not record for itself.          *)
LEMMA CorrectVoter ==
  ASSUME NEW q, OutweighsByzantine(q),
         NEW W \in SUBSET Replica, Cardinality(W) >= q,
         NEW r \in Replica, NEW me
  PROVE  r \in Correct \/ \E w \in W : w \in Correct \ {me}
<1> SUFFICES ASSUME r \in Byzantine, W \subseteq Byzantine \cup {me}
             PROVE  FALSE
  BY DEF Correct
<1>1. IsFiniteSet(Byzantine) /\ Cardinality(Byzantine) \in Nat
  BY ReplicaAssumption, FS_Subset, FS_CardinalityType
<1>2. /\ IsFiniteSet(Byzantine \cup {me})
      /\ Cardinality(Byzantine \cup {me}) <= Cardinality(Byzantine) + 1
  <2>1. Cardinality(Byzantine \cup {me}) = IF me \in Byzantine THEN Cardinality(Byzantine)
                                           ELSE Cardinality(Byzantine) + 1
    BY <1>1, FS_AddElement
  <2> QED
    BY <2>1, <1>1, FS_AddElement
<1>3. Cardinality(W) <= Cardinality(Byzantine \cup {me})
  BY <1>2, FS_Subset
<1>4. Cardinality(W) \in Nat /\ Cardinality(Byzantine \cup {me}) \in Nat
  BY <1>2, FS_Subset, FS_CardinalityType
<1> QED
  BY <1>1, <1>2, <1>3, <1>4 DEF OutweighsByzantine

(* One vote recorded in a table. *)
LEMMA RecordedVote ==
  ASSUME NEW I, NEW table \in [I -> Ballots], NEW i \in I,
         NEW r \in Replica, NEW d \in Digest
  PROVE  LET new == [table EXCEPT ![i][r] = d]
         IN /\ new \in [I -> Ballots]
            /\ \A j \in I, w \in Replica :
                 new[j][w] = IF j = i /\ w = r THEN d ELSE table[j][w]
<1>1. table[i] \in Ballots
  OBVIOUS
<1>2. [table[i] EXCEPT ![r] = d] \in Ballots
  BY <1>1 DEF Ballots
<1>3. \A w \in Replica : [table[i] EXCEPT ![r] = d][w] = IF w = r THEN d ELSE table[i][w]
  BY <1>1 DEF Ballots
<1> QED
  BY <1>2, <1>3

-----------------------------------------------------------------------------
(* PBFT: fewer than a third of the replicas lie, the primary is none of    *)
(* them, and its caller waits for a decision before it proposes again.     *)
Primary == LeaderOf(PbftRank, 0)

CorrectPrimary ==
  Primary \in Correct /\ ~Pipelined /\ Cardinality(Byzantine) <= F

PbftProposed(S, s, d) ==
  [phase |-> "pre-prepare", sequence |-> s, digest |-> d, from |-> Primary] \in S

(* What the correct replicas have sent: one proposal for a sequence, and   *)
(* votes for what was proposed.                                            *)
PbftSentInv(S) ==
  /\ \A m \in S : PbftProposed(S, m.sequence, m.digest)
  /\ \A s \in Sequence, x, y \in Digest :
       PbftProposed(S, s, x) /\ PbftProposed(S, s, y) => x = y

(* The engine of me: what others said of a sequence in their own names and *)
(* what it executed was proposed.  Of its own entries it may have carried  *)
(* one over from the sequence before.                                      *)
PbftEngineInv(me, e, S) ==
  /\ \A s \in Sequence, w \in Correct \ {me} :
       /\ e.prepares[s][w] # NoDigest => PbftProposed(S, s, e.prepares[s][w])
       /\ e.commits[s][w] # NoDigest => PbftProposed(S, s, e.commits[s][w])
  /\ \A s \in Sequence :
       e.executed[s] # NoDigest => PbftProposed(S, s, e.executed[s])

PbftInv ==
  /\ PbftTypeOK
  /\ PbftSentInv(pbftSent)
  /\ \A r \in Correct : PbftEngineInv(r, pbft[r], pbftSent)

LEMMA PbftSizes ==
  ASSUME CorrectPrimary PROVE OutweighsByzantine(PbftQuorum)
<1>1. Size \in Nat /\ Size > 0
  BY ReplicaAssumption, FS_CardinalityType DEF Size
<1>2. IsFiniteSet(Byzantine) /\ Cardinality(Byzantine) \in Nat
  BY ReplicaAssumption, FS_Subset, FS_CardinalityType
<1>3. F \in Nat
  BY <1>1 DEF F
<1>4. Cardinality(Byzantine) = 0 => Byzantine = {}
  BY <1>2, FS_EmptySet
<1> QED
  BY <1>2, <1>3, <1>4 DEF OutweighsByzantine, PbftQuorum, CorrectPrimary

(* The engine e of me is in order, and has not reached the bound. *)
PbftGood(me, e, S) == e \in PbftEngine /\ PbftEngineInv(me, e, S)

LEMMA PbftSequences ==
  /\ Sequence \subseteq Nat /\ 1 \in Sequence
  /\ \A s \in Sequence : s <= MaxSequence => s + 1 \in Sequence
BY PbftAssumption DEF Sequence

LEMMA PbftCastGood ==
  ASSUME NEW me \in Correct, NEW e, NEW S, PbftGood(me, e, S),
         NEW r \in Replica, NEW d \in Digest,
         NEW table \in {"prepares", "commits"},
         r \in Correct \ {me} => PbftProposed(S, e.sequence, d)
  PROVE  /\ PbftGood(me, PbftCast(e, table, r, d), S)
         /\ PbftCast(e, table, r, d).sequence = e.sequence
<1> DEFINE c == PbftCast(e, table, r, d)
<1>1. /\ e \in PbftEngine /\ e.sequence \in Sequence
      /\ e.prepares \in [Sequence -> Ballots] /\ e.commits \in [Sequence -> Ballots]
  BY DEF PbftGood, PbftEngine
<1>2. CASE table = "prepares"
  <2> DEFINE new == [e.prepares EXCEPT ![e.sequence][r] = d]
  <2>1. c = [e EXCEPT !.prepares = new]
    BY <1>1, <1>2 DEF PbftCast, PbftEngine
  <2>2. /\ new \in [Sequence -> Ballots]
        /\ \A s \in Sequence, w \in Replica :
             new[s][w] = IF s = e.sequence /\ w = r THEN d ELSE e.prepares[s][w]
    BY <1>1, RecordedVote
  <2> HIDE DEF new
  <2>3. /\ c \in PbftEngine /\ c.sequence = e.sequence
        /\ c.prepares = new /\ c.commits = e.commits /\ c.executed = e.executed
    BY <1>1, <2>1, <2>2 DEF PbftEngine
  <2> HIDE DEF c
  <2> QED
    BY <2>2, <2>3 DEF PbftGood, PbftEngineInv, Correct, c
<1>3. CASE table = "commits"
  <2> DEFINE new == [e.commits EXCEPT ![e.sequence][r] = d]
  <2>1. c = [e EXCEPT !.commits = new]
    BY <1>1, <1>3 DEF PbftCast, PbftEngine
  <2>2. /\ new \in [Sequence -> Ballots]
        /\ \A s \in Sequence, w \in Replica :
             new[s][w] = IF s = e.sequence /\ w = r THEN d ELSE e.commits[s][w]
    BY <1>1, RecordedVote
  <2> HIDE DEF new
  <2>3. /\ c \in PbftEngine /\ c.sequence = e.sequence
        /\ c.commits = new /\ c.prepares = e.prepares /\ c.executed = e.executed
    BY <1>1, <2>1, <2>2 DEF PbftEngine
  <2> HIDE DEF c
  <2> QED
    BY <2>2, <2>3 DEF PbftGood, PbftEngineInv, Correct, c
<1> QED
  BY <1>2, <1>3

(* What an engine counts a quorum for was proposed: a correct replica is   *)
(* behind it, the sender of the last vote or another.                      *)
LEMMA PbftQuorumProposed ==
  ASSUME CorrectPrimary, NEW me \in Correct, NEW e, NEW S, PbftGood(me, e, S),
         NEW r \in Replica, NEW d \in Digest,
         r \in Correct => PbftProposed(S, e.sequence, d),
         PbftHas(e, "prepares", d) \/ PbftHas(e, "commits", d)
  PROVE  PbftProposed(S, e.sequence, d)
<1>1. e.sequence \in Sequence /\ d # NoDigest
  BY ReplicaAssumption DEF PbftGood, PbftEngine
<1>2. ASSUME NEW T, T = e.prepares \/ T = e.commits, Votes(T[e.sequence], d) >= PbftQuorum
      PROVE  PbftProposed(S, e.sequence, d)
  <2> DEFINE W == {w \in Replica : T[e.sequence][w] = d}
  <2>1. W \in SUBSET Replica /\ Cardinality(W) >= PbftQuorum
    BY <1>2 DEF Votes
  <2>2. \A w \in W : T[e.sequence][w] = d
    OBVIOUS
  <2> HIDE DEF W
  <2>3. r \in Correct \/ \E w \in W : w \in Correct \ {me}
    BY <2>1, PbftSizes, CorrectVoter
  <2>4. ASSUME NEW w \in W, w \in Correct \ {me}
        PROVE  PbftProposed(S, e.sequence, d)
    BY <2>4, <2>2, <1>1, <1>2 DEF PbftGood, PbftEngineInv
  <2> QED
    BY <2>3, <2>4
<1> QED
  BY <1>2 DEF PbftHas

LEMMA PbftExecuteGood ==
  ASSUME NEW me \in Correct, NEW e, NEW S, PbftGood(me, e, S),
         e.sequence <= MaxSequence, NEW d \in Digest,
         PbftProposed(S, e.sequence, d)
  PROVE  PbftGood(me, PbftExecute(e, d), S)
<1> DEFINE c == PbftExecute(e, d)
           new == [e.executed EXCEPT ![e.sequence] = d]
<1>1. /\ e \in PbftEngine /\ e.sequence \in Sequence /\ e.sequence + 1 \in Sequence
      /\ e.executed \in [Sequence -> Digest \cup {NoDigest}]
  BY PbftSequences DEF PbftGood, PbftEngine
<1>2. c = [[e EXCEPT !.executed = new] EXCEPT !.sequence = e.sequence + 1]
  BY <1>1 DEF PbftExecute, PbftEngine
<1>3. /\ new \in [Sequence -> Digest \cup {NoDigest}]
      /\ \A s \in Sequence : new[s] = IF s = e.sequence THEN d ELSE e.executed[s]
  BY <1>1
<1> HIDE DEF new
<1>4. /\ c \in PbftEngine /\ c.executed = new
      /\ c.prepares = e.prepares /\ c.commits = e.commits
  BY <1>1, <1>2, <1>3 DEF PbftEngine
<1> HIDE DEF c
<1> QED
  BY <1>3, <1>4 DEF PbftGood, PbftEngineInv, c

(* A recorded vote, and what follows from a quorum. *)
LEMMA PbftOnCommitGood ==
  ASSUME CorrectPrimary, NEW me \in Correct, NEW e, NEW S, PbftGood(me, e, S),
         e.sequence <= MaxSequence, NEW r \in Replica, NEW d \in Digest,
         r \in Correct => PbftProposed(S, e.sequence, d)
  PROVE  PbftGood(me, PbftOnCommit(e, r, d), S)
<1>1. PICK voted : voted = PbftCast(e, "commits", r, d)
  OBVIOUS
<1>2. PbftGood(me, voted, S) /\ voted.sequence = e.sequence
  BY <1>1, PbftCastGood
<1>3. CASE PbftHas(voted, "commits", d)
  <2>1. PbftProposed(S, voted.sequence, d)
    BY <1>2, <1>3, PbftQuorumProposed
  <2>2. PbftGood(me, PbftExecute(voted, d), S)
    BY <2>1, <1>2, PbftExecuteGood
  <2> QED
    BY <2>2, <1>1, <1>3 DEF PbftOnCommit
<1>4. CASE ~PbftHas(voted, "commits", d)
  BY <1>1, <1>2, <1>4 DEF PbftOnCommit
<1> QED
  BY <1>3, <1>4

LEMMA PbftOwnCommitGood ==
  ASSUME CorrectPrimary, NEW me \in Correct, NEW e, NEW S, PbftGood(me, e, S),
         e.sequence <= MaxSequence, NEW d \in Digest,
         PbftProposed(S, e.sequence, d)
  PROVE  PbftGood(me, PbftOwnCommit(e, me, d), S)
<1>1. me \in Replica
  BY DEF Correct
<1>2. PbftGood(me, PbftOnCommit(e, me, d), S)
  BY <1>1, PbftOnCommitGood
<1> QED
  BY <1>1, <1>2, PbftCastGood DEF PbftOwnCommit

LEMMA PbftOnPrepareGood ==
  ASSUME CorrectPrimary, NEW me \in Correct, NEW e, NEW S, PbftGood(me, e, S),
         e.sequence <= MaxSequence, NEW r \in Replica, NEW d \in Digest,
         r \in Correct => PbftProposed(S, e.sequence, d)
  PROVE  /\ PbftGood(me, PbftOnPrepare(e, me, r, d), S)
         /\ \A m \in PbftCommitSent(e, me, r, d) :
              /\ m = [phase |-> "commit", sequence |-> e.sequence, digest |-> d,
                      from |-> me]
              /\ PbftProposed(S, e.sequence, d)
<1>1. PICK voted : voted = PbftCast(e, "prepares", r, d)
  OBVIOUS
<1>2. PbftGood(me, voted, S) /\ voted.sequence = e.sequence
  BY <1>1, PbftCastGood
<1>3. CASE PbftHas(voted, "prepares", d)
  <2>1. PbftProposed(S, voted.sequence, d)
    BY <1>2, <1>3, PbftQuorumProposed
  <2>2. PbftGood(me, PbftOwnCommit(voted, me, d), S)
    BY <2>1, <1>2, PbftOwnCommitGood
  <2> QED
    BY <2>1, <2>2, <1>1, <1>2, <1>3 DEF PbftOnPrepare, PbftCommitSent, PbftMsg
<1>4. CASE ~PbftHas(voted, "prepares", d)
  BY <1>1, <1>2, <1>4 DEF PbftOnPrepare, PbftCommitSent
<1> QED
  BY <1>3, <1>4

LEMMA PbftAcceptGood ==
  ASSUME CorrectPrimary, NEW me \in Correct, NEW e, NEW S, PbftGood(me, e, S),
         e.sequence <= MaxSequence, NEW d \in Digest,
         PbftProposed(S, e.sequence, d)
  PROVE  PbftGood(me, PbftAccept(e, me, d), S)
<1>1. me \in Replica
  BY DEF Correct
<1>2. PbftGood(me, PbftOnPrepare(e, me, me, d), S)
  BY <1>1, PbftOnPrepareGood
<1> QED
  BY <1>1, <1>2, PbftCastGood DEF PbftAccept

(* More messages take nothing back. *)
LEMMA PbftMonotone ==
  ASSUME NEW S, NEW T, S \subseteq T, NEW me, NEW e, PbftGood(me, e, S)
  PROVE  PbftGood(me, e, T)
BY DEF PbftGood, PbftEngineInv, PbftProposed

(* A step of r in which it comes to e and broadcasts M, all of what was    *)
(* proposed, keeps the invariant.                                          *)
LEMMA PbftStep ==
  ASSUME PbftInv, NEW r \in Correct, NEW e, NEW M \in SUBSET PbftMessage,
         pbft' = [pbft EXCEPT ![r] = e], pbftSent' = pbftSent \cup M,
         PbftGood(r, e, pbftSent'), PbftSentInv(pbftSent')
  PROVE  PbftInv'
<1>1. PbftTypeOK'
  BY DEF PbftInv, PbftTypeOK, PbftGood
<1>2. ASSUME NEW w \in Correct PROVE PbftEngineInv(w, pbft'[w], pbftSent')
  <2>1. CASE w = r
    BY <2>1 DEF PbftInv, PbftTypeOK, PbftGood
  <2>2. CASE w # r
    <3>1. pbft'[w] = pbft[w] /\ PbftGood(w, pbft[w], pbftSent)
      BY <2>2 DEF PbftInv, PbftTypeOK, PbftGood
    <3> QED
      BY <3>1, PbftMonotone DEF PbftGood
  <2> QED
    BY <2>1, <2>2
<1> QED
  BY <1>1, <1>2 DEF PbftInv

(* The messages a replica adds to S: votes for what was proposed in T, and *)
(* no second proposal.                                                     *)
LEMMA PbftVotesSent ==
  ASSUME NEW S, PbftSentInv(S), NEW M,
         \A m \in M : m.phase # "pre-prepare" /\ PbftProposed(S, m.sequence, m.digest)
  PROVE  PbftSentInv(S \cup M)
<1>1. \A s \in Sequence, x \in Digest : PbftProposed(S \cup M, s, x) => PbftProposed(S, s, x)
  BY DEF PbftProposed
<1> QED
  BY <1>1 DEF PbftSentInv, PbftProposed

LEMMA PbftEngines ==
  ASSUME PbftInv, NEW r \in Correct, PbftUndecided(r)
  PROVE  /\ r \in Replica /\ pbft[r].sequence \in Sequence
         /\ pbft[r].sequence <= MaxSequence
         /\ PbftGood(r, pbft[r], pbftSent)
BY DEF PbftInv, PbftTypeOK, PbftUndecided, PbftGood, PbftEngine, Correct

(* A message of a correct replica that is available was sent. *)
LEMMA PbftHeard ==
  ASSUME PbftInv, NEW r \in Correct, NEW m, PbftAvailable(r, m), m.from \in Correct
  PROVE  PbftProposed(pbftSent, m.sequence, m.digest)
BY PbftAssumption DEF PbftAvailable, PbftInv, PbftSentInv, Correct

LEMMA PbftProposeStep ==
  ASSUME CorrectPrimary, PbftInv, NEW r \in Correct, NEW d \in Digest, PbftPropose(r, d)
  PROVE  PbftInv'
<1>1. PICK e : e = pbft[r]
  OBVIOUS
<1>2. /\ r \in Replica /\ e.sequence \in Sequence /\ e.sequence <= MaxSequence
      /\ PbftGood(r, e, pbftSent)
  BY <1>1, PbftEngines DEF PbftPropose
<1>3. PICK m : m = [phase |-> "pre-prepare", sequence |-> e.sequence, digest |-> d,
                   from |-> r]
  OBVIOUS
<1>4. PICK n : n = [phase |-> "prepare", sequence |-> e.sequence, digest |-> d,
                   from |-> r]
  OBVIOUS
<1>5. PICK C : C = PbftCommitSent(e, r, r, d)
  OBVIOUS
<1>6. PICK S : S = pbftSent \cup {m}
  OBVIOUS
<1>7. /\ r = Primary
      /\ \A x \in Digest : ~PbftProposed(pbftSent, e.sequence, x)
      /\ pbft' = [pbft EXCEPT ![r] = PbftAccept(e, r, d)]
      /\ pbftSent' = S \cup ({n} \cup C)
  BY <1>1, <1>3, <1>4, <1>5, <1>6
  DEF PbftPropose, CorrectPrimary, Primary, PbftProposed, PbftMsg
<1>8. PbftProposed(S, e.sequence, d)
  BY <1>3, <1>6, <1>7 DEF PbftProposed
<1>9. PbftSentInv(S)
  <2>1. ASSUME NEW s, NEW x, PbftProposed(S, s, x), ~PbftProposed(pbftSent, s, x)
        PROVE  s = e.sequence /\ x = d
    BY <2>1, <1>3, <1>6 DEF PbftProposed
  <2>2. \A s, x : PbftProposed(pbftSent, s, x) => PbftProposed(S, s, x)
    BY <1>6 DEF PbftProposed
  <2>3. \A k \in S : PbftProposed(S, k.sequence, k.digest)
    BY <2>2, <1>3, <1>6, <1>8 DEF PbftInv, PbftSentInv
  <2>4. ASSUME NEW s \in Sequence, NEW x \in Digest, NEW y \in Digest,
               PbftProposed(S, s, x), PbftProposed(S, s, y)
        PROVE  x = y
    BY <2>1, <2>4, <1>7 DEF PbftInv, PbftSentInv
  <2> QED
    BY <2>3, <2>4 DEF PbftSentInv
<1>10. PbftGood(r, e, S)
  BY <1>2, <1>6, PbftMonotone
<1>11. /\ PbftGood(r, PbftAccept(e, r, d), S)
       /\ \A c \in C : /\ c = [phase |-> "commit", sequence |-> e.sequence,
                               digest |-> d, from |-> r]
                        /\ PbftProposed(S, e.sequence, d)
  BY <1>2, <1>5, <1>8, <1>10, PbftAcceptGood, PbftOnPrepareGood
<1>12. PbftSentInv(pbftSent')
  <2>1. \A k \in {n} \cup C : /\ k.phase # "pre-prepare"
                             /\ PbftProposed(S, k.sequence, k.digest)
    BY <1>4, <1>8, <1>11
  <2> QED
    BY <2>1, <1>7, <1>9, PbftVotesSent
<1>13. PbftGood(r, PbftAccept(e, r, d), pbftSent')
  BY <1>7, <1>11, PbftMonotone
<1>14. {m, n} \cup C \in SUBSET PbftMessage
  BY <1>2, <1>3, <1>4, <1>11 DEF PbftMessage
<1>15. pbftSent' = pbftSent \cup ({m, n} \cup C)
  BY <1>6, <1>7
<1> QED
  BY <1>7, <1>12, <1>13, <1>14, <1>15, PbftStep

LEMMA PbftHandlePrePrepareStep ==
  ASSUME CorrectPrimary, PbftInv, NEW r \in Correct, NEW d \in Digest,
         PbftHandlePrePrepare(r, d)
  PROVE  PbftInv'
<1>1. PICK e : e = pbft[r]
  OBVIOUS
<1>2. /\ r \in Replica /\ e.sequence \in Sequence /\ e.sequence <= MaxSequence
      /\ PbftGood(r, e, pbftSent)
  BY <1>1, PbftEngines DEF PbftHandlePrePrepare
<1>3. PICK n : n = [phase |-> "prepare", sequence |-> e.sequence, digest |-> d,
                   from |-> r]
  OBVIOUS
<1>4. PICK C : C = PbftCommitSent(e, r, r, d)
  OBVIOUS
<1>5. /\ pbft' = [pbft EXCEPT ![r] = PbftAccept(e, r, d)]
      /\ pbftSent' = pbftSent \cup ({n} \cup C)
  BY <1>1, <1>3, <1>4 DEF PbftHandlePrePrepare, PbftMsg
<1>6. PbftProposed(pbftSent, e.sequence, d)
  <2>1. PbftAvailable(r, PbftMsg(e, Primary, "pre-prepare", d))
    BY <1>1 DEF PbftHandlePrePrepare, Primary
  <2> QED
    BY <2>1, PbftHeard DEF CorrectPrimary, PbftMsg
<1>7. /\ PbftGood(r, PbftAccept(e, r, d), pbftSent)
      /\ \A c \in C : c = [phase |-> "commit", sequence |-> e.sequence,
                            digest |-> d, from |-> r]
  BY <1>2, <1>4, <1>6, PbftAcceptGood, PbftOnPrepareGood
<1>8. PbftSentInv(pbftSent')
  <2>1. \A k \in {n} \cup C : /\ k.phase # "pre-prepare"
                             /\ PbftProposed(pbftSent, k.sequence, k.digest)
    BY <1>3, <1>6, <1>7
  <2> QED
    BY <2>1, <1>5, PbftVotesSent DEF PbftInv
<1>9. PbftGood(r, PbftAccept(e, r, d), pbftSent')
  BY <1>5, <1>7, PbftMonotone
<1>10. {n} \cup C \in SUBSET PbftMessage
  BY <1>2, <1>3, <1>7 DEF PbftMessage
<1> QED
  BY <1>5, <1>8, <1>9, <1>10, PbftStep

LEMMA PbftHandlePrepareStep ==
  ASSUME CorrectPrimary, PbftInv, NEW r \in Correct, NEW d \in Digest,
         NEW w \in Replica, PbftHandlePrepare(r, w, d)
  PROVE  PbftInv'
<1>1. PICK e : e = pbft[r]
  OBVIOUS
<1>2. /\ r \in Replica /\ e.sequence \in Sequence /\ e.sequence <= MaxSequence
      /\ PbftGood(r, e, pbftSent)
  BY <1>1, PbftEngines DEF PbftHandlePrepare
<1>3. PICK C : C = PbftCommitSent(e, r, w, d)
  OBVIOUS
<1>4. /\ pbft' = [pbft EXCEPT ![r] = PbftOnPrepare(e, r, w, d)]
      /\ pbftSent' = pbftSent \cup C
      /\ PbftAvailable(r, PbftMsg(e, w, "prepare", d))
  BY <1>1, <1>3 DEF PbftHandlePrepare
<1>5. w \in Correct => PbftProposed(pbftSent, e.sequence, d)
  BY <1>4, PbftHeard DEF PbftMsg
<1>6. /\ PbftGood(r, PbftOnPrepare(e, r, w, d), pbftSent)
      /\ \A c \in C : /\ c = [phase |-> "commit", sequence |-> e.sequence,
                              digest |-> d, from |-> r]
                       /\ PbftProposed(pbftSent, e.sequence, d)
  BY <1>2, <1>3, <1>5, PbftOnPrepareGood
<1>7. PbftSentInv(pbftSent')
  BY <1>4, <1>6, PbftVotesSent DEF PbftInv
<1>8. PbftGood(r, PbftOnPrepare(e, r, w, d), pbftSent')
  BY <1>4, <1>6, PbftMonotone
<1>9. C \in SUBSET PbftMessage
  BY <1>2, <1>6 DEF PbftMessage
<1> QED
  BY <1>4, <1>7, <1>8, <1>9, PbftStep

LEMMA PbftHandleCommitStep ==
  ASSUME CorrectPrimary, PbftInv, NEW r \in Correct, NEW d \in Digest,
         NEW w \in Replica, PbftHandleCommit(r, w, d)
  PROVE  PbftInv'
<1>1. PICK e : e = pbft[r]
  OBVIOUS
<1>2. /\ e.sequence <= MaxSequence /\ PbftGood(r, e, pbftSent)
  BY <1>1, PbftEngines DEF PbftHandleCommit
<1>3. /\ pbft' = [pbft EXCEPT ![r] = PbftOnCommit(e, w, d)]
      /\ pbftSent' = pbftSent \cup {}
      /\ PbftAvailable(r, PbftMsg(e, w, "commit", d))
  BY <1>1 DEF PbftHandleCommit
<1>4. w \in Correct => PbftProposed(pbftSent, e.sequence, d)
  BY <1>3, PbftHeard DEF PbftMsg
<1>5. PbftGood(r, PbftOnCommit(e, w, d), pbftSent)
  BY <1>2, <1>4, PbftOnCommitGood
<1>6. pbftSent' = pbftSent /\ PbftSentInv(pbftSent')
  BY <1>3 DEF PbftInv
<1>7. PbftGood(r, PbftOnCommit(e, w, d), pbftSent')
  BY <1>5, <1>6
<1>8. {} \in SUBSET PbftMessage
  OBVIOUS
<1> QED
  BY <1>3, <1>6, <1>7, <1>8, PbftStep

-----------------------------------------------------------------------------
(* With a correct primary, fewer than a third Byzantine and one proposal   *)
(* at a time, every replica only ever votes for and executes proposals.    *)
THEOREM PbftInvariant == ASSUME CorrectPrimary PROVE PbftSpec => []PbftInv
<1>1. PbftInit => PbftInv
  <2> SUFFICES ASSUME PbftInit PROVE PbftInv
    OBVIOUS
  <2>1. PbftTypeOK
    BY PbftSequences DEF PbftInit, PbftTypeOK, PbftEngine, Ballots, NoBallots
  <2>2. PbftSentInv(pbftSent)
    BY DEF PbftInit, PbftSentInv, PbftProposed
  <2>3. \A r \in Correct : PbftEngineInv(r, pbft[r], pbftSent)
    BY DEF PbftInit, PbftEngineInv, NoBallots, Correct
  <2> QED
    BY <2>1, <2>2, <2>3 DEF PbftInv
<1>2. PbftInv /\ [PbftNext]_pbftVars => PbftInv'
  <2> SUFFICES ASSUME PbftInv, [PbftNext]_pbftVars PROVE PbftInv'
    OBVIOUS
  <2>1. ASSUME NEW r \in Correct, NEW d \in Digest, PbftPropose(r, d) PROVE PbftInv'
    BY <2>1, PbftProposeStep
  <2>2. ASSUME NEW r \in Correct, NEW d \in Digest, PbftHandlePrePrepare(r, d)
        PROVE  PbftInv'
    BY <2>2, PbftHandlePrePrepareStep
  <2>3. ASSUME NEW r \in Correct, NEW d \in Digest, NEW w \in Replica,
               PbftHandlePrepare(r, w, d)
        PROVE  PbftInv'
    BY <2>3, PbftHandlePrepareStep
  <2>4. ASSUME NEW r \in Correct, NEW d \in Digest, NEW w \in Replica,
               PbftHandleCommit(r, w, d)
        PROVE  PbftInv'
    BY <2>4, PbftHandleCommitStep
  <2>5. CASE UNCHANGED pbftVars
    BY <2>5 DEF PbftInv, PbftTypeOK, pbftVars
  <2> QED
    BY <2>1, <2>2, <2>3, <2>4, <2>5 DEF PbftNext
<1> QED
  BY <1>1, <1>2, PTL DEF PbftSpec

(* PBFT's agreement: under a correct primary no two correct replicas       *)
(* execute different digests at one sequence (consensus/bft/pbft.py).      *)
THEOREM PbftAgreementHolds ==
  ASSUME CorrectPrimary PROVE PbftSpec => []PbftAgreement
<1>1. PbftInv => PbftAgreement
  <2> SUFFICES ASSUME PbftInv, NEW r \in Correct, NEW w \in Correct, NEW s \in Sequence,
                      pbft[r].executed[s] # NoDigest, pbft[w].executed[s] # NoDigest
               PROVE  pbft[r].executed[s] = pbft[w].executed[s]
    BY DEF PbftAgreement
  <2>1. /\ PbftProposed(pbftSent, s, pbft[r].executed[s])
        /\ PbftProposed(pbftSent, s, pbft[w].executed[s])
    BY DEF PbftInv, PbftEngineInv
  <2>2. pbft[r].executed[s] \in Digest /\ pbft[w].executed[s] \in Digest
    BY DEF PbftInv, PbftTypeOK, PbftEngine
  <2> QED
    BY <2>1, <2>2 DEF PbftInv, PbftSentInv
<1> QED
  BY <1>1, PbftInvariant, PTL

-----------------------------------------------------------------------------
(* HotStuff, in the views whose leader is correct: fewer than a third of   *)
(* the replicas lie.                                                       *)
HsMinority == 3 * Cardinality(Byzantine) < Size

HsSteady == {v \in View : LeaderOf(HsRank, v) \in Correct}

HsProposed(S, v, d) ==
  [phase |-> "propose", view |-> v, digest |-> d, from |-> LeaderOf(HsRank, v)] \in S

HsBacked(S, v, d) == v \in HsSteady => HsProposed(S, v, d)

(* The leader of the view was asked for one proposal at most. *)
HsAskedOnce(S, v) ==
  \A x, y \in Digest : HsProposed(S, v, x) /\ HsProposed(S, v, y) => x = y

(* What the correct replicas have sent. *)
HsSentInv(S) ==
  /\ \A m \in S : HsBacked(S, m.view, m.digest)
  /\ ~HsPipelined => \A v \in HsSteady : HsAskedOnce(S, v)

(* The engine of me: what others said in a view and what it committed.     *)
HsEngineInv(me, e, S) ==
  /\ \A p \in HsPhase, v \in View, w \in Correct \ {me} :
       e.votes[p][v][w] # NoDigest => HsBacked(S, v, e.votes[p][v][w])
  /\ \A v \in View : e.committed[v] # NoDigest => HsBacked(S, v, e.committed[v])

HsInv ==
  /\ HsTypeOK
  /\ HsSentInv(hsSent)
  /\ \A r \in Correct : HsEngineInv(r, hs[r], hsSent)

LEMMA HsSizes ==
  ASSUME HsMinority PROVE OutweighsByzantine(HsQuorum)
<1>1. Size \in Nat /\ Size > 0
  BY ReplicaAssumption, FS_CardinalityType DEF Size
<1>2. IsFiniteSet(Byzantine) /\ Cardinality(Byzantine) \in Nat
  BY ReplicaAssumption, FS_Subset, FS_CardinalityType
<1>3. Cardinality(Byzantine) = 0 => Byzantine = {}
  BY <1>2, FS_EmptySet
<1> QED
  BY <1>1, <1>2, <1>3 DEF OutweighsByzantine, HsQuorum, HsMinority

HsGood(me, e, S) == e \in HsEngine /\ HsEngineInv(me, e, S)

LEMMA HsViews ==
  /\ View \subseteq Nat /\ 0 \in View
  /\ \A v \in View : v <= MaxView => v + 1 \in View
BY HsAssumption DEF View

LEMMA HsCastGood ==
  ASSUME NEW me \in Correct, NEW e, NEW S, HsGood(me, e, S),
         NEW p \in HsPhase, NEW r \in Replica, NEW d \in Digest,
         r \in Correct \ {me} => HsBacked(S, e.view, d)
  PROVE  HsGood(me, HsCast(e, p, r, d), S) /\ HsCast(e, p, r, d).view = e.view
<1> DEFINE c == HsCast(e, p, r, d)
           new == [e.votes[p] EXCEPT ![e.view][r] = d]
           votes == [e.votes EXCEPT ![p] = new]
<1>1. /\ e \in HsEngine /\ e.view \in View
      /\ e.votes \in [HsPhase -> [View -> Ballots]] /\ e.votes[p] \in [View -> Ballots]
  BY DEF HsGood, HsEngine
<1>2. c = [e EXCEPT !.votes = votes]
  BY <1>1 DEF HsCast, HsEngine
<1>3. /\ new \in [View -> Ballots]
      /\ \A v \in View, w \in Replica :
           new[v][w] = IF v = e.view /\ w = r THEN d ELSE e.votes[p][v][w]
  BY <1>1, RecordedVote
<1> HIDE DEF new
<1>4. /\ votes \in [HsPhase -> [View -> Ballots]]
      /\ \A q \in HsPhase : votes[q] = IF q = p THEN new ELSE e.votes[q]
  BY <1>1, <1>3
<1> HIDE DEF votes
<1>5. c \in HsEngine /\ c.view = e.view /\ c.votes = votes /\ c.committed = e.committed
  BY <1>1, <1>2, <1>4 DEF HsEngine
<1> HIDE DEF c
<1>6. HsEngineInv(me, c, S)
  <2>1. ASSUME NEW q \in HsPhase, NEW v \in View, NEW w \in Correct \ {me},
               c.votes[q][v][w] # NoDigest
        PROVE  HsBacked(S, v, c.votes[q][v][w])
    <3>1. CASE q = p /\ v = e.view /\ w = r
      BY <3>1, <1>3, <1>4, <1>5 DEF Correct
    <3>2. CASE ~(q = p /\ v = e.view /\ w = r)
      <4>1. c.votes[q][v][w] = e.votes[q][v][w]
        BY <3>2, <1>3, <1>4, <1>5 DEF Correct
      <4> QED
        BY <4>1, <2>1 DEF HsGood, HsEngineInv
    <3> QED
      BY <3>1, <3>2
  <2> QED
    BY <2>1, <1>5 DEF HsGood, HsEngineInv
<1> QED
  BY <1>5, <1>6 DEF HsGood, c

LEMMA HsQuorumBacked ==
  ASSUME HsMinority, NEW me \in Correct, NEW e, NEW S, HsGood(me, e, S),
         NEW p \in HsPhase, NEW r \in Replica, NEW d \in Digest,
         r \in Correct => HsBacked(S, e.view, d),
         HsHas(e, p, d)
  PROVE  HsBacked(S, e.view, d)
<1>1. e.view \in View /\ d # NoDigest
  BY ReplicaAssumption DEF HsGood, HsEngine
<1> DEFINE W == {w \in Replica : e.votes[p][e.view][w] = d}
<1>2. W \in SUBSET Replica /\ Cardinality(W) >= HsQuorum
  BY DEF HsHas, Votes
<1>3. \A w \in W : e.votes[p][e.view][w] = d
  OBVIOUS
<1> HIDE DEF W
<1>4. r \in Correct \/ \E w \in W : w \in Correct \ {me}
  BY <1>2, HsSizes, CorrectVoter
<1>5. ASSUME NEW w \in W, w \in Correct \ {me}
      PROVE  HsBacked(S, e.view, d)
  BY <1>1, <1>3, <1>5 DEF HsGood, HsEngineInv
<1> QED
  BY <1>4, <1>5

LEMMA HsExecuteGood ==
  ASSUME NEW me \in Correct, NEW e, NEW S, HsGood(me, e, S),
         e.view <= MaxView, NEW d \in Digest, HsBacked(S, e.view, d)
  PROVE  HsGood(me, HsExecute(e, d), S)
<1> DEFINE c == HsExecute(e, d)
           new == [e.committed EXCEPT ![e.view] = d]
<1>1. /\ e \in HsEngine /\ e.view \in View /\ e.view + 1 \in View
      /\ e.committed \in [View -> Digest \cup {NoDigest}]
  BY HsViews DEF HsGood, HsEngine
<1>2. c = [[[e EXCEPT !.committed = new] EXCEPT !.view = e.view + 1]
             EXCEPT !.locked = NoDigest]
  BY <1>1 DEF HsExecute, HsEngine
<1>3. /\ new \in [View -> Digest \cup {NoDigest}]
      /\ \A v \in View : new[v] = IF v = e.view THEN d ELSE e.committed[v]
  BY <1>1
<1> HIDE DEF new
<1>4. c \in HsEngine /\ c.committed = new /\ c.votes = e.votes
  BY <1>1, <1>2, <1>3 DEF HsEngine
<1> HIDE DEF c
<1> QED
  BY <1>3, <1>4 DEF HsGood, HsEngineInv, c

LEMMA HsLockGood ==
  ASSUME NEW me, NEW e, NEW S, HsGood(me, e, S), NEW d \in Digest
  PROVE  HsGood(me, [e EXCEPT !.locked = d], S) /\ [e EXCEPT !.locked = d].view = e.view
<1> DEFINE c == [e EXCEPT !.locked = d]
<1>1. /\ c \in HsEngine /\ c.view = e.view
      /\ c.committed = e.committed /\ c.votes = e.votes
  BY DEF HsGood, HsEngine
<1> HIDE DEF c
<1>2. HsGood(me, c, S)
  BY <1>1 DEF HsGood, HsEngineInv
<1> QED
  BY <1>1, <1>2 DEF c

(* The cascade, from its end. *)
LEMMA HsOnCommitGood ==
  ASSUME HsMinority, NEW me \in Correct, NEW e, NEW S, HsGood(me, e, S),
         e.view <= MaxView, NEW r \in Replica, NEW d \in Digest,
         r \in Correct => HsBacked(S, e.view, d)
  PROVE  HsGood(me, HsOnCommit(e, r, d), S)
<1>1. PICK voted : voted = HsCast(e, "commit", r, d)
  OBVIOUS
<1>2. HsGood(me, voted, S) /\ voted.view = e.view
  BY <1>1, HsCastGood DEF HsPhase
<1>3. CASE HsHas(voted, "commit", d)
  <2>1. HsBacked(S, voted.view, d)
    BY <1>2, <1>3, HsQuorumBacked DEF HsPhase
  <2>2. HsGood(me, HsExecute(voted, d), S)
    BY <2>1, <1>2, HsExecuteGood
  <2> QED
    BY <2>2, <1>1, <1>3 DEF HsOnCommit
<1>4. CASE ~HsHas(voted, "commit", d)
  BY <1>1, <1>2, <1>4 DEF HsOnCommit
<1> QED
  BY <1>3, <1>4

LEMMA HsOwnCommitGood ==
  ASSUME HsMinority, NEW me \in Correct, NEW e, NEW S, HsGood(me, e, S),
         e.view <= MaxView, NEW d \in Digest, HsBacked(S, e.view, d)
  PROVE  HsGood(me, HsOwnCommit(e, me, d), S)
<1>1. me \in Replica
  BY DEF Correct
<1>2. HsGood(me, HsOnCommit(e, me, d), S)
  BY <1>1, HsOnCommitGood
<1> QED
  BY <1>1, <1>2, HsCastGood DEF HsOwnCommit, HsPhase

LEMMA HsOnPrecommitGood ==
  ASSUME HsMinority, NEW me \in Correct, NEW e, NEW S, HsGood(me, e, S),
         e.view <= MaxView, NEW r \in Replica, NEW d \in Digest,
         r \in Correct => HsBacked(S, e.view, d)
  PROVE  /\ HsGood(me, HsOnPrecommit(e, me, r, d), S)
         /\ \A m \in HsCommitSent(e, me, r, d) :
              /\ m = [phase |-> "commit", view |-> e.view, digest |-> d, from |-> me]
              /\ HsBacked(S, e.view, d)
<1>1. PICK voted : voted = HsCast(e, "pre-commit", r, d)
  OBVIOUS
<1>2. HsGood(me, voted, S) /\ voted.view = e.view
  BY <1>1, HsCastGood DEF HsPhase
<1>3. CASE HsHas(voted, "pre-commit", d)
  <2>1. HsBacked(S, voted.view, d)
    BY <1>2, <1>3, HsQuorumBacked DEF HsPhase
  <2>2. HsGood(me, HsOwnCommit(voted, me, d), S)
    BY <2>1, <1>2, HsOwnCommitGood
  <2> QED
    BY <2>1, <2>2, <1>1, <1>2, <1>3 DEF HsOnPrecommit, HsCommitSent, HsMsg
<1>4. CASE ~HsHas(voted, "pre-commit", d)
  BY <1>1, <1>2, <1>4 DEF HsOnPrecommit, HsCommitSent
<1> QED
  BY <1>3, <1>4

LEMMA HsOwnPrecommitGood ==
  ASSUME HsMinority, NEW me \in Correct, NEW e, NEW S, HsGood(me, e, S),
         e.view <= MaxView, NEW d \in Digest, HsBacked(S, e.view, d)
  PROVE  HsGood(me, HsOwnPrecommit(e, me, d), S)
<1>1. me \in Replica
  BY DEF Correct
<1>2. HsGood(me, HsOnPrecommit(e, me, me, d), S)
  BY <1>1, HsOnPrecommitGood
<1> QED
  BY <1>1, <1>2, HsCastGood DEF HsOwnPrecommit, HsPhase

LEMMA HsOnPrepareGood ==
  ASSUME HsMinority, NEW me \in Correct, NEW e, NEW S, HsGood(me, e, S),
         e.view <= MaxView, NEW r \in Replica, NEW d \in Digest,
         r \in Correct => HsBacked(S, e.view, d)
  PROVE  /\ HsGood(me, HsOnPrepare(e, me, r, d), S)
         /\ \A m \in HsPrecommitSent(e, me, r, d) :
              /\ m \in {[phase |-> p, view |-> e.view, digest |-> d, from |-> me] :
                          p \in {"pre-commit", "commit"}}
              /\ HsBacked(S, e.view, d)
<1>1. PICK voted : voted = HsCast(e, "prepare", r, d)
  OBVIOUS
<1>2. HsGood(me, voted, S) /\ voted.view = e.view /\ me \in Replica
  BY <1>1, HsCastGood DEF HsPhase, Correct
<1>3. CASE HsHas(voted, "prepare", d)
  <2>1. HsBacked(S, voted.view, d)
    BY <1>2, <1>3, HsQuorumBacked DEF HsPhase
  <2>2. PICK locked : locked = [voted EXCEPT !.locked = d]
    OBVIOUS
  <2>3. HsGood(me, locked, S) /\ locked.view = e.view
    BY <2>2, <1>2, HsLockGood
  <2>4. HsGood(me, HsOwnPrecommit(locked, me, d), S)
    BY <2>1, <2>3, <1>2, HsOwnPrecommitGood
  <2>5. HsOnPrepare(e, me, r, d) = HsOwnPrecommit(locked, me, d)
    BY <2>2, <1>1, <1>3 DEF HsOnPrepare
  <2>6. \A m \in HsCommitSent(e, me, me, d) :
          m = [phase |-> "commit", view |-> e.view, digest |-> d, from |-> me]
    BY <2>1, <1>2, HsOnPrecommitGood
  <2>7. HsPrecommitSent(e, me, r, d)
          = {[phase |-> "pre-commit", view |-> e.view, digest |-> d, from |-> me]}
              \cup HsCommitSent(e, me, me, d)
    BY <1>1, <1>3 DEF HsPrecommitSent, HsMsg
  <2> QED
    BY <2>1, <2>4, <2>5, <2>6, <2>7, <1>2
<1>4. CASE ~HsHas(voted, "prepare", d)
  BY <1>1, <1>2, <1>4 DEF HsOnPrepare, HsPrecommitSent
<1> QED
  BY <1>3, <1>4

LEMMA HsOwnPrepareGood ==
  ASSUME HsMinority, NEW me \in Correct, NEW e, NEW S, HsGood(me, e, S),
         e.view <= MaxView, NEW d \in Digest, HsBacked(S, e.view, d)
  PROVE  HsGood(me, HsOwnPrepare(e, me, d), S)
<1>1. me \in Replica
  BY DEF Correct
<1>2. HsGood(me, HsOnPrepare(e, me, me, d), S)
  BY <1>1, HsOnPrepareGood
<1> QED
  BY <1>1, <1>2, HsCastGood DEF HsOwnPrepare, HsPhase

(* More messages take nothing back. *)
LEMMA HsMonotone ==
  ASSUME NEW S, NEW T, S \subseteq T, NEW me, NEW e, HsGood(me, e, S)
  PROVE  HsGood(me, e, T)
BY DEF HsGood, HsEngineInv, HsBacked, HsProposed

(* A step of r in which it comes to e and broadcasts M, all of it backed,  *)
(* keeps the invariant.                                                    *)
LEMMA HsStep ==
  ASSUME HsInv, NEW r \in Correct, NEW e, NEW M \in SUBSET HsMessage,
         hs' = [hs EXCEPT ![r] = e], hsSent' = hsSent \cup M,
         HsGood(r, e, hsSent'), HsSentInv(hsSent')
  PROVE  HsInv'
<1>1. HsTypeOK'
  BY DEF HsInv, HsTypeOK, HsGood
<1>2. ASSUME NEW w \in Correct PROVE HsEngineInv(w, hs'[w], hsSent')
  <2>1. CASE w = r
    BY <2>1 DEF HsInv, HsTypeOK, HsGood
  <2>2. CASE w # r
    <3>1. hs'[w] = hs[w] /\ HsGood(w, hs[w], hsSent)
      BY <2>2 DEF HsInv, HsTypeOK, HsGood
    <3> QED
      BY <3>1, HsMonotone DEF HsGood
  <2> QED
    BY <2>1, <2>2
<1> QED
  BY <1>1, <1>2 DEF HsInv

(* Votes for what is backed add no proposal. *)
LEMMA HsVotesSent ==
  ASSUME NEW S, HsSentInv(S), NEW M,
         \A m \in M : m.phase # "propose" /\ HsBacked(S, m.view, m.digest)
  PROVE  HsSentInv(S \cup M)
<1>1. \A v \in HsSteady, x \in Digest : HsProposed(S \cup M, v, x) => HsProposed(S, v, x)
  BY DEF HsProposed
<1>2. \A v, x : HsBacked(S, v, x) => HsBacked(S \cup M, v, x)
  BY DEF HsBacked, HsProposed
<1> QED
  BY <1>1, <1>2 DEF HsSentInv, HsAskedOnce

LEMMA HsEngines ==
  ASSUME HsInv, NEW r \in Correct, HsRunning(r)
  PROVE  /\ r \in Replica /\ hs[r].view \in View /\ hs[r].view <= MaxView
         /\ HsGood(r, hs[r], hsSent)
BY DEF HsInv, HsTypeOK, HsRunning, HsGood, HsEngine, Correct

(* A message of a correct replica that is available was sent. *)
LEMMA HsHeard ==
  ASSUME HsInv, NEW r \in Correct, NEW m, HsAvailable(r, m), m.from \in Correct
  PROVE  HsBacked(hsSent, m.view, m.digest)
BY HsAssumption DEF HsAvailable, HsInv, HsSentInv, Correct

(* A leader that its own lock keeps from voting adds its proposal alone.   *)
LEMMA HsProposeStep ==
  ASSUME HsMinority, HsInv, NEW r \in Correct, NEW d \in Digest, HsPropose(r, d)
  PROVE  HsInv'
<1>1. PICK e : e = hs[r]
  OBVIOUS
<1>2. /\ r \in Replica /\ e.view \in View /\ e.view <= MaxView
      /\ HsGood(r, e, hsSent)
  BY <1>1, HsEngines DEF HsPropose
<1>3. PICK m : m = [phase |-> "propose", view |-> e.view, digest |-> d, from |-> r]
  OBVIOUS
<1>4. PICK n : n = [phase |-> "prepare", view |-> e.view, digest |-> d, from |-> r]
  OBVIOUS
<1>5. PICK C : C = HsPrecommitSent(e, r, r, d)
  OBVIOUS
<1>6. PICK S : S = hsSent \cup {m}
  OBVIOUS
<1>7. /\ r = LeaderOf(HsRank, e.view)
      /\ ~HsPipelined => \A x \in Digest : ~HsProposed(hsSent, e.view, x)
  BY <1>1 DEF HsPropose, HsProposed, HsMsg
<1>8. HsProposed(S, e.view, d) /\ HsBacked(S, e.view, d)
  BY <1>3, <1>6, <1>7 DEF HsProposed, HsBacked
<1>9. HsSentInv(S)
  <2>1. ASSUME NEW v, NEW x, HsProposed(S, v, x), ~HsProposed(hsSent, v, x)
        PROVE  v = e.view /\ x = d
    BY <2>1, <1>3, <1>6 DEF HsProposed
  <2>2. \A v, x : HsBacked(hsSent, v, x) => HsBacked(S, v, x)
    BY <1>6 DEF HsBacked, HsProposed
  <2>3. \A k \in S : HsBacked(S, k.view, k.digest)
    BY <2>2, <1>3, <1>6, <1>8 DEF HsInv, HsSentInv
  <2>4. ASSUME ~HsPipelined, NEW v \in HsSteady, NEW x \in Digest, NEW y \in Digest,
               HsProposed(S, v, x), HsProposed(S, v, y)
        PROVE  x = y
    BY <2>1, <2>4, <1>7 DEF HsInv, HsSentInv, HsAskedOnce
  <2> QED
    BY <2>3, <2>4 DEF HsSentInv, HsAskedOnce
<1>10. HsGood(r, e, S)
  BY <1>2, <1>6, HsMonotone
<1>11. m \in HsMessage
  BY <1>2, <1>3 DEF HsMessage, HsPhase
<1>12. CASE e.locked \in {NoDigest, d}
  <2>1. /\ hs' = [hs EXCEPT ![r] = HsOwnPrepare(e, r, d)]
        /\ hsSent' = S \cup ({n} \cup C)
    BY <1>1, <1>3, <1>4, <1>5, <1>6, <1>12 DEF HsPropose, HsMsg
  <2>2. /\ HsGood(r, HsOwnPrepare(e, r, d), S)
        /\ \A c \in C : c \in {[phase |-> p, view |-> e.view, digest |-> d, from |-> r] :
                                  p \in {"pre-commit", "commit"}}
    BY <1>2, <1>5, <1>8, <1>10, HsOwnPrepareGood, HsOnPrepareGood
  <2>3. HsSentInv(hsSent')
    <3>1. \A k \in {n} \cup C : k.phase # "propose" /\ HsBacked(S, k.view, k.digest)
      BY <1>4, <1>8, <2>2
    <3>2. HsSentInv(S \cup ({n} \cup C))
      BY <3>1, <1>9, HsVotesSent
    <3> QED
      BY <2>1, <3>2
  <2>4. HsGood(r, HsOwnPrepare(e, r, d), hsSent')
    BY <2>1, <2>2, HsMonotone
  <2>5. {m, n} \cup C \in SUBSET HsMessage
    BY <1>2, <1>4, <1>11, <2>2 DEF HsMessage, HsPhase
  <2>6. hsSent' = hsSent \cup ({m, n} \cup C)
    BY <1>6, <2>1
  <2> QED
    BY <2>1, <2>3, <2>4, <2>5, <2>6, HsStep
<1>13. CASE e.locked \notin {NoDigest, d}
  <2>1. hs' = hs /\ hsSent' = S /\ hsSent' = hsSent \cup {m}
    BY <1>1, <1>3, <1>6, <1>13 DEF HsPropose, HsMsg
  <2>2. hs' = [hs EXCEPT ![r] = e]
    BY <2>1, <1>1 DEF HsInv, HsTypeOK
  <2>3. HsGood(r, e, hsSent') /\ HsSentInv(hsSent')
    BY <2>1, <1>9, <1>10
  <2>4. {m} \in SUBSET HsMessage
    BY <1>11
  <2> QED
    BY <2>1, <2>2, <2>3, <2>4, HsStep
<1> QED
  BY <1>12, <1>13

LEMMA HsHandleProposeStep ==
  ASSUME HsMinority, HsInv, NEW r \in Correct, NEW d \in Digest, HsHandlePropose(r, d)
  PROVE  HsInv'
<1>1. PICK e : e = hs[r]
  OBVIOUS
<1>2. /\ r \in Replica /\ e.view \in View /\ e.view <= MaxView
      /\ HsGood(r, e, hsSent)
  BY <1>1, HsEngines DEF HsHandlePropose
<1>3. PICK n : n = [phase |-> "prepare", view |-> e.view, digest |-> d, from |-> r]
  OBVIOUS
<1>4. PICK C : C = HsPrecommitSent(e, r, r, d)
  OBVIOUS
<1>5. /\ hs' = [hs EXCEPT ![r] = HsOwnPrepare(e, r, d)]
      /\ hsSent' = hsSent \cup ({n} \cup C)
  BY <1>1, <1>3, <1>4 DEF HsHandlePropose, HsMsg
<1>6. HsBacked(hsSent, e.view, d)
  <2>1. HsAvailable(r, HsMsg(e, LeaderOf(HsRank, e.view), "propose", d))
    BY <1>1 DEF HsHandlePropose
  <2>2. CASE LeaderOf(HsRank, e.view) \in Correct
    BY <2>1, <2>2, HsHeard DEF HsMsg
  <2> QED
    BY <2>2 DEF HsBacked, HsSteady
<1>7. /\ HsGood(r, HsOwnPrepare(e, r, d), hsSent)
      /\ \A c \in C : c \in {[phase |-> p, view |-> e.view, digest |-> d, from |-> r] :
                                p \in {"pre-commit", "commit"}}
  BY <1>2, <1>4, <1>6, HsOwnPrepareGood, HsOnPrepareGood
<1>8. HsSentInv(hsSent')
  <2>1. \A k \in {n} \cup C : k.phase # "propose" /\ HsBacked(hsSent, k.view, k.digest)
    BY <1>3, <1>6, <1>7
  <2>2. HsSentInv(hsSent)
    BY DEF HsInv
  <2>3. HsSentInv(hsSent \cup ({n} \cup C))
    BY <2>1, <2>2, HsVotesSent
  <2> QED
    BY <1>5, <2>3
<1>9. HsGood(r, HsOwnPrepare(e, r, d), hsSent')
  BY <1>5, <1>7, HsMonotone
<1>10. {n} \cup C \in SUBSET HsMessage
  BY <1>2, <1>3, <1>7 DEF HsMessage, HsPhase
<1> QED
  BY <1>5, <1>8, <1>9, <1>10, HsStep

LEMMA HsHandlePrepareStep ==
  ASSUME HsMinority, HsInv, NEW r \in Correct, NEW d \in Digest,
         NEW w \in Replica, HsHandlePrepare(r, w, d)
  PROVE  HsInv'
<1>1. PICK e : e = hs[r]
  OBVIOUS
<1>2. /\ r \in Replica /\ e.view \in View /\ e.view <= MaxView
      /\ HsGood(r, e, hsSent)
  BY <1>1, HsEngines DEF HsHandlePrepare
<1>3. PICK C : C = HsPrecommitSent(e, r, w, d)
  OBVIOUS
<1>4. /\ hs' = [hs EXCEPT ![r] = HsOnPrepare(e, r, w, d)]
      /\ hsSent' = hsSent \cup C
      /\ HsAvailable(r, HsMsg(e, w, "prepare", d))
  BY <1>1, <1>3 DEF HsHandlePrepare
<1>5. w \in Correct => HsBacked(hsSent, e.view, d)
  BY <1>4, HsHeard DEF HsMsg
<1>6. /\ HsGood(r, HsOnPrepare(e, r, w, d), hsSent)
      /\ \A c \in C : /\ c \in {[phase |-> p, view |-> e.view, digest |-> d, from |-> r] :
                                   p \in {"pre-commit", "commit"}}
                       /\ HsBacked(hsSent, e.view, d)
  BY <1>2, <1>3, <1>5, HsOnPrepareGood
<1>7. HsSentInv(hsSent')
  <2>1. HsSentInv(hsSent)
    BY DEF HsInv
  <2>2. \A c \in C : c.phase # "propose" /\ HsBacked(hsSent, c.view, c.digest)
    BY <1>6
  <2>3. HsSentInv(hsSent \cup C)
    BY <2>1, <2>2, HsVotesSent
  <2> QED
    BY <1>4, <2>3
<1>8. HsGood(r, HsOnPrepare(e, r, w, d), hsSent')
  BY <1>4, <1>6, HsMonotone
<1>9. C \in SUBSET HsMessage
  BY <1>2, <1>6 DEF HsMessage, HsPhase
<1> QED
  BY <1>4, <1>7, <1>8, <1>9, HsStep

LEMMA HsHandlePrecommitStep ==
  ASSUME HsMinority, HsInv, NEW r \in Correct, NEW d \in Digest,
         NEW w \in Replica, HsHandlePrecommit(r, w, d)
  PROVE  HsInv'
<1>1. PICK e : e = hs[r]
  OBVIOUS
<1>2. /\ r \in Replica /\ e.view \in View /\ e.view <= MaxView
      /\ HsGood(r, e, hsSent)
  BY <1>1, HsEngines DEF HsHandlePrecommit
<1>3. PICK C : C = HsCommitSent(e, r, w, d)
  OBVIOUS
<1>4. /\ hs' = [hs EXCEPT ![r] = HsOnPrecommit(e, r, w, d)]
      /\ hsSent' = hsSent \cup C
      /\ HsAvailable(r, HsMsg(e, w, "pre-commit", d))
  BY <1>1, <1>3 DEF HsHandlePrecommit
<1>5. w \in Correct => HsBacked(hsSent, e.view, d)
  BY <1>4, HsHeard DEF HsMsg
<1>6. /\ HsGood(r, HsOnPrecommit(e, r, w, d), hsSent)
      /\ \A c \in C : /\ c = [phase |-> "commit", view |-> e.view, digest |-> d, from |-> r]
                       /\ HsBacked(hsSent, e.view, d)
  BY <1>2, <1>3, <1>5, HsOnPrecommitGood
<1>7. HsSentInv(hsSent')
  <2>1. HsSentInv(hsSent)
    BY DEF HsInv
  <2>2. \A c \in C : c.phase # "propose" /\ HsBacked(hsSent, c.view, c.digest)
    BY <1>6
  <2>3. HsSentInv(hsSent \cup C)
    BY <2>1, <2>2, HsVotesSent
  <2> QED
    BY <1>4, <2>3
<1>8. HsGood(r, HsOnPrecommit(e, r, w, d), hsSent')
  BY <1>4, <1>6, HsMonotone
<1>9. C \in SUBSET HsMessage
  BY <1>2, <1>6 DEF HsMessage, HsPhase
<1> QED
  BY <1>4, <1>7, <1>8, <1>9, HsStep

LEMMA HsHandleCommitStep ==
  ASSUME HsMinority, HsInv, NEW r \in Correct, NEW d \in Digest,
         NEW w \in Replica, HsHandleCommit(r, w, d)
  PROVE  HsInv'
<1>1. PICK e : e = hs[r]
  OBVIOUS
<1>2. e.view <= MaxView /\ HsGood(r, e, hsSent)
  BY <1>1, HsEngines DEF HsHandleCommit
<1>3. /\ hs' = [hs EXCEPT ![r] = HsOnCommit(e, w, d)]
      /\ hsSent' = hsSent \cup {}
      /\ HsAvailable(r, HsMsg(e, w, "commit", d))
  BY <1>1 DEF HsHandleCommit
<1>4. w \in Correct => HsBacked(hsSent, e.view, d)
  BY <1>3, HsHeard DEF HsMsg
<1>5. HsGood(r, HsOnCommit(e, w, d), hsSent)
  BY <1>2, <1>4, HsOnCommitGood
<1>6. hsSent' = hsSent /\ HsSentInv(hsSent')
  BY <1>3 DEF HsInv
<1>7. HsGood(r, HsOnCommit(e, w, d), hsSent')
  BY <1>5, <1>6
<1>8. {} \in SUBSET HsMessage
  OBVIOUS
<1> QED
  BY <1>3, <1>6, <1>7, <1>8, HsStep

-----------------------------------------------------------------------------
(* With fewer than a third Byzantine, in every view with a correct leader  *)
(* a replica only ever votes for and commits what that leader proposed.    *)
THEOREM HsInvariant == ASSUME HsMinority PROVE HsSpec => []HsInv
<1>1. HsInit => HsInv
  <2> SUFFICES ASSUME HsInit PROVE HsInv
    OBVIOUS
  <2>1. HsTypeOK
    BY HsViews DEF HsInit, HsTypeOK, HsEngine, Ballots, NoBallots
  <2>2. HsSentInv(hsSent)
    BY DEF HsInit, HsSentInv, HsAskedOnce, HsProposed
  <2>3. \A r \in Correct : HsEngineInv(r, hs[r], hsSent)
    BY DEF HsInit, HsEngineInv, NoBallots, Correct
  <2> QED
    BY <2>1, <2>2, <2>3 DEF HsInv
<1>2. HsInv /\ [HsNext]_hsVars => HsInv'
  <2> SUFFICES ASSUME HsInv, [HsNext]_hsVars PROVE HsInv'
    OBVIOUS
  <2>1. ASSUME NEW r \in Correct, NEW d \in Digest, HsPropose(r, d) PROVE HsInv'
    BY <2>1, HsProposeStep
  <2>2. ASSUME NEW r \in Correct, NEW d \in Digest, HsHandlePropose(r, d) PROVE HsInv'
    BY <2>2, HsHandleProposeStep
  <2>3. ASSUME NEW r \in Correct, NEW d \in Digest, NEW w \in Replica,
               HsHandlePrepare(r, w, d)
        PROVE  HsInv'
    BY <2>3, HsHandlePrepareStep
  <2>4. ASSUME NEW r \in Correct, NEW d \in Digest, NEW w \in Replica,
               HsHandlePrecommit(r, w, d)
        PROVE  HsInv'
    BY <2>4, HsHandlePrecommitStep
  <2>5. ASSUME NEW r \in Correct, NEW d \in Digest, NEW w \in Replica,
               HsHandleCommit(r, w, d)
        PROVE  HsInv'
    BY <2>5, HsHandleCommitStep
  <2>6. CASE UNCHANGED hsVars
    BY <2>6 DEF HsInv, HsTypeOK, hsVars
  <2> QED
    BY <2>1, <2>2, <2>3, <2>4, <2>5, <2>6 DEF HsNext
<1> QED
  BY <1>1, <1>2, PTL DEF HsSpec

(* In a view whose leader is correct and was asked for one proposal the    *)
(* correct replicas that commit agree, whoever leads the other views, what-*)
(* ever is proposed there and however the locks are overwritten.           *)
HsSteadyAgreement ==
  \A r, w \in Correct, v \in HsSteady :
    /\ HsAskedOnce(hsSent, v)
    /\ hs[r].committed[v] # NoDigest /\ hs[w].committed[v] # NoDigest
    => hs[r].committed[v] = hs[w].committed[v]

(* hotstuff.py:95 lets a leader propose again in its view: the theorem says*)
(* of each view by itself what one proposal is good for, and assumes       *)
(* nothing of the callers of propose.                                      *)
THEOREM HsSteadyAgreementHolds ==
  ASSUME HsMinority PROVE HsSpec => []HsSteadyAgreement
<1>1. HsInv => HsSteadyAgreement
  <2> SUFFICES ASSUME HsInv, NEW r \in Correct, NEW w \in Correct, NEW v \in HsSteady,
                      HsAskedOnce(hsSent, v),
                      hs[r].committed[v] # NoDigest, hs[w].committed[v] # NoDigest
               PROVE  hs[r].committed[v] = hs[w].committed[v]
    BY DEF HsSteadyAgreement
  <2>1. v \in View
    BY DEF HsSteady
  <2>2. /\ HsProposed(hsSent, v, hs[r].committed[v])
        /\ HsProposed(hsSent, v, hs[w].committed[v])
    BY <2>1 DEF HsInv, HsEngineInv, HsBacked
  <2>3. hs[r].committed[v] \in Digest /\ hs[w].committed[v] \in Digest
    BY <2>1 DEF HsInv, HsTypeOK, HsEngine
  <2> QED
    BY <2>2, <2>3 DEF HsAskedOnce
<1> QED
  BY <1>1, HsInvariant, PTL

(* The callers of propose wait for the decision of the view, and every view*)
(* in reach is led by a correct replica.                                   *)
HsOrderly == /\ HsMinority /\ ~HsPipelined
             /\ \A v \in View : LeaderOf(HsRank, v) \in Correct

(* HotStuff's agreement in an orderly run: no two correct replicas commit  *)
(* different digests in one view (consensus/bft/hotstuff.py).              *)
THEOREM HsAgreementHolds == ASSUME HsOrderly PROVE HsSpec => []HsAgreement
<1>1. HsMinority
  BY DEF HsOrderly
<1>2. HsInv /\ HsSteadyAgreement => HsAgreement
  BY DEF HsInv, HsSentInv, HsSteadyAgreement, HsAgreement, HsSteady, HsOrderly
<1> QED
  BY <1>1, <1>2, HsInvariant, HsSteadyAgreementHolds, PTL

-----------------------------------------------------------------------------
(* Types, whoever is Byzantine and however many.                           *)
LEMMA PbftCastTyped ==
  ASSUME NEW e \in PbftEngine, NEW r \in Replica, NEW d \in Digest,
         NEW table \in {"prepares", "commits"}
  PROVE  PbftCast(e, table, r, d) \in PbftEngine /\ PbftCast(e, table, r, d).sequence = e.sequence
<1>1. /\ e.sequence \in Sequence
      /\ e.prepares \in [Sequence -> Ballots] /\ e.commits \in [Sequence -> Ballots]
  BY DEF PbftEngine
<1>2. CASE table = "prepares"
  <2>1. PICK new : new = [e.prepares EXCEPT ![e.sequence][r] = d]
    OBVIOUS
  <2>2. PbftCast(e, table, r, d) = [e EXCEPT !.prepares = new]
    BY <1>2, <2>1 DEF PbftCast, PbftEngine
  <2>3. new \in [Sequence -> Ballots]
    BY <1>1, <2>1, RecordedVote
  <2> QED
    BY <2>2, <2>3 DEF PbftEngine
<1>3. CASE table = "commits"
  <2>1. PICK new : new = [e.commits EXCEPT ![e.sequence][r] = d]
    OBVIOUS
  <2>2. PbftCast(e, table, r, d) = [e EXCEPT !.commits = new]
    BY <1>3, <2>1 DEF PbftCast, PbftEngine
  <2>3. new \in [Sequence -> Ballots]
    BY <1>1, <2>1, RecordedVote
  <2> QED
    BY <2>2, <2>3 DEF PbftEngine
<1> QED
  BY <1>2, <1>3

LEMMA PbftOnCommitTyped ==
  ASSUME NEW e \in PbftEngine, e.sequence <= MaxSequence, NEW r \in Replica, NEW d \in Digest
  PROVE  PbftOnCommit(e, r, d) \in PbftEngine
<1>1. PICK v : v = PbftCast(e, "commits", r, d)
  OBVIOUS
<1>2. v \in PbftEngine /\ v.sequence = e.sequence
  BY <1>1, PbftCastTyped
<1>3. PbftExecute(v, d) \in PbftEngine
  <2>1. PICK new : new = [v.executed EXCEPT ![v.sequence] = d]
    OBVIOUS
  <2>2. PbftExecute(v, d) = [[v EXCEPT !.executed = new] EXCEPT !.sequence = v.sequence + 1]
    BY <1>2, <2>1 DEF PbftExecute, PbftEngine
  <2>3. new \in [Sequence -> Digest \cup {NoDigest}] /\ v.sequence + 1 \in Sequence
    BY <1>2, <2>1, PbftSequences DEF PbftEngine
  <2> QED
    BY <1>2, <2>2, <2>3 DEF PbftEngine
<1> QED
  BY <1>1, <1>2, <1>3 DEF PbftOnCommit

LEMMA PbftOnPrepareTyped ==
  ASSUME NEW e \in PbftEngine, e.sequence <= MaxSequence, NEW me \in Correct,
         NEW r \in Replica, NEW d \in Digest
  PROVE  /\ PbftOnPrepare(e, me, r, d) \in PbftEngine
         /\ PbftCommitSent(e, me, r, d) \subseteq PbftMessage
<1>1. PICK v : v = PbftCast(e, "prepares", r, d)
  OBVIOUS
<1>2. v \in PbftEngine /\ v.sequence = e.sequence /\ me \in Replica
  BY <1>1, PbftCastTyped DEF Correct
<1>3. PbftOwnCommit(v, me, d) \in PbftEngine
  <2>1. PICK w : w = PbftOnCommit(v, me, d)
    OBVIOUS
  <2>2. w \in PbftEngine
    BY <1>2, <2>1, PbftOnCommitTyped
  <2> QED
    BY <1>2, <2>1, <2>2, PbftCastTyped DEF PbftOwnCommit
<1>4. PbftMsg(e, me, "commit", d) \in PbftMessage
  BY <1>2 DEF PbftMsg, PbftMessage, PbftEngine
<1> QED
  BY <1>1, <1>2, <1>3, <1>4 DEF PbftOnPrepare, PbftCommitSent

LEMMA PbftAcceptTyped ==
  ASSUME NEW e \in PbftEngine, e.sequence <= MaxSequence, NEW me \in Correct, NEW d \in Digest
  PROVE  PbftAccept(e, me, d) \in PbftEngine
<1>1. PICK w : w = PbftOnPrepare(e, me, me, d)
  OBVIOUS
<1>2. w \in PbftEngine /\ me \in Replica
  BY <1>1, PbftOnPrepareTyped DEF Correct
<1> QED
  BY <1>1, <1>2, PbftCastTyped DEF PbftAccept

LEMMA PbftTypes == PbftSpec => []PbftTypeOK
<1>1. PbftInit => PbftTypeOK
  BY PbftSequences DEF PbftInit, PbftTypeOK, PbftEngine, Ballots, NoBallots
<1>2. PbftTypeOK /\ [PbftNext]_pbftVars => PbftTypeOK'
  <2> SUFFICES ASSUME PbftTypeOK, PbftNext PROVE PbftTypeOK'
    BY DEF pbftVars, PbftTypeOK
  <2>1. PICK r \in Correct, d \in Digest :
          \/ PbftPropose(r, d)
          \/ PbftHandlePrePrepare(r, d)
          \/ \E w \in Replica : PbftHandlePrepare(r, w, d)
          \/ \E w \in Replica : PbftHandleCommit(r, w, d)
    BY DEF PbftNext
  <2>2. PICK e : e = pbft[r]
    OBVIOUS
  <2>3. e \in PbftEngine /\ r \in Replica /\ pbftSent \subseteq PbftMessage
    BY <2>2 DEF PbftTypeOK, Correct
  <2>4. e.sequence <= MaxSequence
    BY <2>1, <2>2 DEF PbftPropose, PbftHandlePrePrepare, PbftHandlePrepare,
                      PbftHandleCommit, PbftUndecided
  <2>5. \A phase \in {"pre-prepare", "prepare", "commit"} : PbftMsg(e, r, phase, d) \in PbftMessage
    BY <2>3 DEF PbftMsg, PbftMessage, PbftEngine
  <2>6. ASSUME NEW w \in Replica PROVE /\ PbftOnPrepare(e, r, w, d) \in PbftEngine
                                       /\ PbftCommitSent(e, r, w, d) \subseteq PbftMessage
                                       /\ PbftOnCommit(e, w, d) \in PbftEngine
    BY <2>3, <2>4, PbftOnPrepareTyped, PbftOnCommitTyped
  <2>7. PbftAccept(e, r, d) \in PbftEngine
    BY <2>3, <2>4, PbftAcceptTyped
  <2>8. CASE PbftPropose(r, d)
    <3>1. /\ pbft' = [pbft EXCEPT ![r] = PbftAccept(e, r, d)]
          /\ pbftSent' = pbftSent \cup {PbftMsg(e, r, "pre-prepare", d), PbftMsg(e, r, "prepare", d)}
                                  \cup PbftCommitSent(e, r, r, d)
      BY <2>2, <2>8 DEF PbftPropose
    <3> QED
      BY <2>3, <2>5, <2>6, <2>7, <3>1 DEF PbftTypeOK
  <2>9. CASE PbftHandlePrePrepare(r, d)
    <3>1. /\ pbft' = [pbft EXCEPT ![r] = PbftAccept(e, r, d)]
          /\ pbftSent' = pbftSent \cup {PbftMsg(e, r, "prepare", d)} \cup PbftCommitSent(e, r, r, d)
      BY <2>2, <2>9 DEF PbftHandlePrePrepare
    <3> QED
      BY <2>3, <2>5, <2>6, <2>7, <3>1 DEF PbftTypeOK
  <2>10. ASSUME NEW w \in Replica, PbftHandlePrepare(r, w, d) PROVE PbftTypeOK'
    <3>1. /\ pbft' = [pbft EXCEPT ![r] = PbftOnPrepare(e, r, w, d)]
          /\ pbftSent' = pbftSent \cup PbftCommitSent(e, r, w, d)
      BY <2>2, <2>10 DEF PbftHandlePrepare
    <3> QED
      BY <2>3, <2>6, <3>1 DEF PbftTypeOK
  <2>11. ASSUME NEW w \in Replica, PbftHandleCommit(r, w, d) PROVE PbftTypeOK'
    <3>1. pbft' = [pbft EXCEPT ![r] = PbftOnCommit(e, w, d)] /\ pbftSent' = pbftSent
      BY <2>2, <2>11 DEF PbftHandleCommit
    <3> QED
      BY <2>3, <2>6, <3>1 DEF PbftTypeOK
  <2> QED
    BY <2>1, <2>8, <2>9, <2>10, <2>11
<1> QED
  BY <1>1, <1>2, PTL DEF PbftSpec

LEMMA HsCastTyped ==
  ASSUME NEW e \in HsEngine, NEW p \in HsPhase, NEW r \in Replica, NEW d \in Digest
  PROVE  HsCast(e, p, r, d) \in HsEngine /\ HsCast(e, p, r, d).view = e.view
<1>1. e.view \in View /\ e.votes \in [HsPhase -> [View -> Ballots]]
      /\ e.votes[p] \in [View -> Ballots]
  BY DEF HsEngine
<1>2. PICK new : new = [e.votes[p] EXCEPT ![e.view][r] = d]
  OBVIOUS
<1>3. PICK votes : votes = [e.votes EXCEPT ![p] = new]
  OBVIOUS
<1>4. HsCast(e, p, r, d) = [e EXCEPT !.votes = votes]
  BY <1>1, <1>2, <1>3 DEF HsCast, HsEngine
<1>5. new \in [View -> Ballots]
  BY <1>1, <1>2, RecordedVote
<1>6. votes \in [HsPhase -> [View -> Ballots]]
  BY <1>1, <1>3, <1>5
<1> QED
  BY <1>4, <1>6 DEF HsEngine

LEMMA HsOnCommitTyped ==
  ASSUME NEW e \in HsEngine, e.view <= MaxView, NEW r \in Replica, NEW d \in Digest
  PROVE  HsOnCommit(e, r, d) \in HsEngine
<1>1. PICK v : v = HsCast(e, "commit", r, d)
  OBVIOUS
<1>2. v \in HsEngine /\ v.view = e.view
  BY <1>1, HsCastTyped DEF HsPhase
<1>3. HsExecute(v, d) \in HsEngine
  <2>1. PICK new : new = [v.committed EXCEPT ![v.view] = d]
    OBVIOUS
  <2>2. HsExecute(v, d) = [[[v EXCEPT !.committed = new] EXCEPT !.view = v.view + 1]
                             EXCEPT !.locked = NoDigest]
    BY <1>2, <2>1 DEF HsExecute, HsEngine
  <2>3. new \in [View -> Digest \cup {NoDigest}] /\ v.view + 1 \in View
    BY <1>2, <2>1, HsViews DEF HsEngine
  <2> QED
    BY <1>2, <2>2, <2>3 DEF HsEngine
<1> QED
  BY <1>1, <1>2, <1>3 DEF HsOnCommit

LEMMA HsOnPrecommitTyped ==
  ASSUME NEW e \in HsEngine, e.view <= MaxView, NEW me \in Correct,
         NEW r \in Replica, NEW d \in Digest
  PROVE  HsOnPrecommit(e, me, r, d) \in HsEngine /\ HsCommitSent(e, me, r, d) \subseteq HsMessage
<1>1. PICK v : v = HsCast(e, "pre-commit", r, d)
  OBVIOUS
<1>2. v \in HsEngine /\ v.view = e.view /\ me \in Replica
  BY <1>1, HsCastTyped DEF HsPhase, Correct
<1>3. HsOwnCommit(v, me, d) \in HsEngine
  <2>1. PICK w : w = HsOnCommit(v, me, d)
    OBVIOUS
  <2>2. w \in HsEngine
    BY <1>2, <2>1, HsOnCommitTyped
  <2> QED
    BY <1>2, <2>1, <2>2, HsCastTyped DEF HsOwnCommit, HsPhase
<1>4. HsMsg(e, me, "commit", d) \in HsMessage
  BY <1>2 DEF HsMsg, HsMessage, HsEngine, HsPhase
<1> QED
  BY <1>1, <1>2, <1>3, <1>4 DEF HsOnPrecommit, HsCommitSent

LEMMA HsOnPrepareTyped ==
  ASSUME NEW e \in HsEngine, e.view <= MaxView, NEW me \in Correct,
         NEW r \in Replica, NEW d \in Digest
  PROVE  HsOnPrepare(e, me, r, d) \in HsEngine /\ HsPrecommitSent(e, me, r, d) \subseteq HsMessage
<1>1. PICK v : v = HsCast(e, "prepare", r, d)
  OBVIOUS
<1>2. v \in HsEngine /\ v.view = e.view /\ me \in Replica
  BY <1>1, HsCastTyped DEF HsPhase, Correct
<1>3. PICK l : l = [v EXCEPT !.locked = d]
  OBVIOUS
<1>4. l \in HsEngine /\ l.view = e.view
  BY <1>2, <1>3 DEF HsEngine
<1>5. HsOwnPrecommit(l, me, d) \in HsEngine
  <2>1. PICK w : w = HsOnPrecommit(l, me, me, d)
    OBVIOUS
  <2>2. w \in HsEngine
    BY <1>2, <1>4, <2>1, HsOnPrecommitTyped
  <2> QED
    BY <1>2, <2>1, <2>2, HsCastTyped DEF HsOwnPrecommit, HsPhase
<1>6. HsCommitSent(e, me, me, d) \subseteq HsMessage
  BY <1>2, HsOnPrecommitTyped
<1>7. HsMsg(e, me, "pre-commit", d) \in HsMessage
  BY <1>2 DEF HsMsg, HsMessage, HsEngine, HsPhase
<1> QED
  BY <1>1, <1>2, <1>3, <1>5, <1>6, <1>7 DEF HsOnPrepare, HsPrecommitSent

LEMMA HsOwnPrepareTyped ==
  ASSUME NEW e \in HsEngine, e.view <= MaxView, NEW me \in Correct, NEW d \in Digest
  PROVE  HsOwnPrepare(e, me, d) \in HsEngine
<1>1. PICK w : w = HsOnPrepare(e, me, me, d)
  OBVIOUS
<1>2. w \in HsEngine /\ me \in Replica
  BY <1>1, HsOnPrepareTyped DEF Correct
<1> QED
  BY <1>1, <1>2, HsCastTyped DEF HsOwnPrepare, HsPhase

LEMMA HsTypes == HsSpec => []HsTypeOK
<1>1. HsInit => HsTypeOK
  BY HsViews DEF HsInit, HsTypeOK, HsEngine, Ballots, NoBallots
<1>2. HsTypeOK /\ [HsNext]_hsVars => HsTypeOK'
  <2> SUFFICES ASSUME HsTypeOK, HsNext PROVE HsTypeOK'
    BY DEF hsVars, HsTypeOK
  <2>1. PICK r \in Correct, d \in Digest :
          \/ HsPropose(r, d)
          \/ HsHandlePropose(r, d)
          \/ \E w \in Replica : HsHandlePrepare(r, w, d)
          \/ \E w \in Replica : HsHandlePrecommit(r, w, d)
          \/ \E w \in Replica : HsHandleCommit(r, w, d)
    BY DEF HsNext
  <2>2. PICK e : e = hs[r]
    OBVIOUS
  <2>3. e \in HsEngine /\ r \in Replica /\ hsSent \subseteq HsMessage
    BY <2>2 DEF HsTypeOK, Correct
  <2>4. e.view <= MaxView
    BY <2>1, <2>2 DEF HsPropose, HsHandlePropose, HsHandlePrepare, HsHandlePrecommit,
                      HsHandleCommit, HsRunning
  <2>5. \A phase \in {"propose", "prepare"} : HsMsg(e, r, phase, d) \in HsMessage
    BY <2>3 DEF HsMsg, HsMessage, HsEngine, HsPhase
  <2>6. ASSUME NEW w \in Replica
        PROVE  /\ HsOnPrepare(e, r, w, d) \in HsEngine
               /\ HsPrecommitSent(e, r, w, d) \subseteq HsMessage
               /\ HsOnPrecommit(e, r, w, d) \in HsEngine
               /\ HsCommitSent(e, r, w, d) \subseteq HsMessage
               /\ HsOnCommit(e, w, d) \in HsEngine
    BY <2>3, <2>4, HsOnPrepareTyped, HsOnPrecommitTyped, HsOnCommitTyped
  <2>7. HsOwnPrepare(e, r, d) \in HsEngine
    BY <2>3, <2>4, HsOwnPrepareTyped
  <2>8. CASE HsPropose(r, d)
    <3>1. CASE e.locked \in {NoDigest, d}
      <4>1. /\ hs' = [hs EXCEPT ![r] = HsOwnPrepare(e, r, d)]
            /\ hsSent' = hsSent \cup {HsMsg(e, r, "propose", d), HsMsg(e, r, "prepare", d)}
                                \cup HsPrecommitSent(e, r, r, d)
        BY <2>2, <2>8, <3>1 DEF HsPropose
      <4> QED
        BY <2>3, <2>5, <2>6, <2>7, <4>1 DEF HsTypeOK
    <3>2. CASE e.locked \notin {NoDigest, d}
      <4>1. hs' = hs /\ hsSent' = hsSent \cup {HsMsg(e, r, "propose", d)}
        BY <2>2, <2>8, <3>2 DEF HsPropose
      <4> QED
        BY <2>3, <2>5, <4>1 DEF HsTypeOK
    <3> QED
      BY <3>1, <3>2
  <2>9. CASE HsHandlePropose(r, d)
    <3>1. /\ hs' = [hs EXCEPT ![r] = HsOwnPrepare(e, r, d)]
          /\ hsSent' = hsSent \cup {HsMsg(e, r, "prepare", d)} \cup HsPrecommitSent(e, r, r, d)
      BY <2>2, <2>9 DEF HsHandlePropose
    <3> QED
      BY <2>3, <2>5, <2>6, <2>7, <3>1 DEF HsTypeOK
  <2>10. ASSUME NEW w \in Replica, HsHandlePrepare(r, w, d) PROVE HsTypeOK'
    <3>1. /\ hs' = [hs EXCEPT ![r] = HsOnPrepare(e, r, w, d)]
          /\ hsSent' = hsSent \cup HsPrecommitSent(e, r, w, d)
      BY <2>2, <2>10 DEF HsHandlePrepare
    <3> QED
      BY <2>3, <2>6, <3>1 DEF HsTypeOK
  <2>11. ASSUME NEW w \in Replica, HsHandlePrecommit(r, w, d) PROVE HsTypeOK'
    <3>1. /\ hs' = [hs EXCEPT ![r] = HsOnPrecommit(e, r, w, d)]
          /\ hsSent' = hsSent \cup HsCommitSent(e, r, w, d)
      BY <2>2, <2>11 DEF HsHandlePrecommit
    <3> QED
      BY <2>3, <2>6, <3>1 DEF HsTypeOK
  <2>12. ASSUME NEW w \in Replica, HsHandleCommit(r, w, d) PROVE HsTypeOK'
    <3>1. hs' = [hs EXCEPT ![r] = HsOnCommit(e, w, d)] /\ hsSent' = hsSent
      BY <2>2, <2>12 DEF HsHandleCommit
    <3> QED
      BY <2>3, <2>6, <3>1 DEF HsTypeOK
  <2> QED
    BY <2>1, <2>8, <2>9, <2>10, <2>11, <2>12
<1> QED
  BY <1>1, <1>2, PTL DEF HsSpec

-----------------------------------------------------------------------------
(* Logs of decisions.  A step of an engine leaves its table of decisions   *)
(* alone, or enters the decision it worked on and goes on to the next.     *)
Grows(table, next, newTable, newNext) ==
  \/ newTable = table /\ newNext = next
  \/ newNext = next + 1 /\ \E d \in Digest : newTable = [table EXCEPT ![next] = d]

(* What is decided is exactly what is below the next entry. *)
DecidedUpTo(table, next) ==
  \A i \in DOMAIN table : table[i] # NoDigest <=> i < next

DigestOrNone == Digest \cup {NoDigest}

LEMMA DecidedGrows ==
  ASSUME NEW I \in SUBSET Nat, NEW table \in [I -> DigestOrNone], NEW next \in I,
         DecidedUpTo(table, next), NEW newTable, NEW newNext,
         Grows(table, next, newTable, newNext)
  PROVE  DecidedUpTo(newTable, newNext)
<1>1. CASE newTable = table /\ newNext = next
  BY <1>1
<1>2. ASSUME NEW d \in Digest, newTable = [table EXCEPT ![next] = d], newNext = next + 1
      PROVE  DecidedUpTo(newTable, newNext)
  <2>1. DOMAIN newTable = I /\ \A i \in I : newTable[i] = IF i = next THEN d ELSE table[i]
    BY <1>2
  <2>2. d # NoDigest
    BY ReplicaAssumption
  <2>3. \A i \in I : i \in Nat /\ next \in Nat /\ (table[i] # NoDigest <=> i < next)
    BY DEF DecidedUpTo
  <2>4. ASSUME NEW i \in I PROVE newTable[i] # NoDigest <=> i < newNext
    <3>1. CASE i = next
      BY <1>2, <2>1, <2>2, <2>3, <3>1
    <3>2. CASE i # next
      BY <1>2, <2>1, <2>3, <3>2
    <3> QED
      BY <3>1, <3>2
  <2> QED
    BY <2>1, <2>4 DEF DecidedUpTo
<1> QED
  BY <1>1, <1>2 DEF Grows

(* The entries from the first to the next are a sequence. *)
LEMMA DecisionsEntries ==
  ASSUME NEW I \in SUBSET Nat, NEW table \in [I -> DigestOrNone], NEW next \in I,
         NEW first \in Nat, first <= next, \A i \in first .. next : i \in I
  PROVE  /\ next - first \in Nat
         /\ DecisionsOf(table, first, next) \in Seq(DigestOrNone)
         /\ Len(DecisionsOf(table, first, next)) = next - first
         /\ \A i \in 1 .. next - first :
              /\ first + i - 1 \in I /\ first + i - 1 < next
              /\ DecisionsOf(table, first, next)[i] = table[first + i - 1]
<1>1. next \in Nat
  OBVIOUS
<1>2. PICK n \in Nat : n = next - first
  BY <1>1
<1>3. ASSUME NEW i \in 1 .. n
      PROVE  first + i - 1 \in I /\ first + i - 1 < next /\ table[first + i - 1] \in DigestOrNone
  <2>1. first + i - 1 \in first .. next /\ first + i - 1 < next
    BY <1>1, <1>2
  <2> QED
    BY <2>1
<1>4. PICK s : s = DecisionsOf(table, first, next)
  OBVIOUS
<1>5. s = [i \in 1 .. n |-> table[first + i - 1]]
  BY <1>2, <1>4 DEF DecisionsOf
<1>6. s \in [1 .. n -> DigestOrNone]
  BY <1>3, <1>5
<1>7. s \in Seq(DigestOrNone) /\ Len(s) = n
  BY <1>6
<1>8. \A i \in 1 .. n : s[i] = table[first + i - 1]
  BY <1>5
<1> QED
  BY <1>2, <1>3, <1>4, <1>7, <1>8

LEMMA AppendedFunction ==
  ASSUME NEW X, NEW s \in Seq(X), NEW n \in Nat, Len(s) = n, NEW d \in X
  PROVE  Append(s, d) = [i \in 1 .. n + 1 |-> IF i = n + 1 THEN d ELSE s[i]]
<1>1. PICK t \in Seq(X) : t = Append(s, d)
  BY AppendProperties
<1>2. Len(t) = n + 1 /\ \A i \in 1 .. n : t[i] = s[i]
  BY <1>1, AppendProperties
<1>3. t[n + 1] = d
  BY <1>1, AppendProperties
<1>4. t = [i \in 1 .. n + 1 |-> t[i]]
  BY <1>2
<1>5. \A i \in 1 .. n + 1 : t[i] = IF i = n + 1 THEN d ELSE s[i]
  BY <1>2, <1>3
<1> QED
  BY <1>1, <1>4, <1>5

(* A decision makes the sequence one longer. *)
LEMMA DecisionsGrow ==
  ASSUME NEW I \in SUBSET Nat, NEW table \in [I -> DigestOrNone], NEW next \in I,
         NEW first \in Nat, first <= next, \A i \in first .. next : i \in I,
         NEW d \in Digest
  PROVE  DecisionsOf([table EXCEPT ![next] = d], first, next + 1)
           = Append(DecisionsOf(table, first, next), d)
<1>1. next \in Nat
  OBVIOUS
<1>2. PICK n \in Nat : n = next - first
  BY <1>1
<1>3. PICK s \in Seq(DigestOrNone) : s = DecisionsOf(table, first, next)
  BY DecisionsEntries
<1>4. Len(s) = n /\ \A i \in 1 .. n : /\ first + i - 1 \in I /\ first + i - 1 < next
                                       /\ s[i] = table[first + i - 1]
  <2>1. /\ Len(DecisionsOf(table, first, next)) = next - first
        /\ \A i \in 1 .. next - first :
             /\ first + i - 1 \in I /\ first + i - 1 < next
             /\ DecisionsOf(table, first, next)[i] = table[first + i - 1]
    BY DecisionsEntries
  <2> QED
    BY <1>2, <1>3, <2>1
<1>5. PICK t : t = [table EXCEPT ![next] = d]
  OBVIOUS
<1>6. (next + 1) - first = n + 1 /\ first + (n + 1) - 1 = next
  BY <1>1, <1>2
<1>7. DecisionsOf(t, first, next + 1) = [i \in 1 .. n + 1 |-> t[first + i - 1]]
  BY <1>6 DEF DecisionsOf
<1>8. Append(s, d) = [i \in 1 .. n + 1 |-> IF i = n + 1 THEN d ELSE s[i]]
  <2>1. Len(s) = n /\ d \in DigestOrNone
    BY <1>4 DEF DigestOrNone
  <2> QED
    BY <2>1, AppendedFunction
<1>9. ASSUME NEW i \in 1 .. n + 1
      PROVE  t[first + i - 1] = IF i = n + 1 THEN d ELSE s[i]
  <2>1. CASE i = n + 1
    <3>1. t[next] = d
      BY <1>5
    <3> QED
      BY <1>6, <2>1, <3>1
  <2>2. CASE i \in 1 .. n
    <3>1. first + i - 1 \in I /\ first + i - 1 # next /\ s[i] = table[first + i - 1]
      BY <1>1, <1>4, <2>2
    <3>2. t[first + i - 1] = table[first + i - 1]
      BY <1>5, <3>1
    <3> QED
      BY <2>2, <3>1, <3>2
  <2> QED
    BY <2>1, <2>2
<1>10. DecisionsOf(t, first, next + 1) = Append(s, d)
  BY <1>7, <1>8, <1>9
<1> QED
  BY <1>3, <1>5, <1>10

(* PBFT: casting a vote decides nothing; a handler decides once at most.   *)
PbftMoved(e, t) == Grows(e.executed, e.sequence, t.executed, t.sequence)

LEMMA PbftCastKeeps ==
  ASSUME NEW e \in PbftEngine, NEW table \in {"prepares", "commits"}, NEW r, NEW d
  PROVE  /\ PbftCast(e, table, r, d).executed = e.executed
         /\ PbftCast(e, table, r, d).sequence = e.sequence
<1>1. CASE table = "prepares"
  BY <1>1 DEF PbftCast, PbftEngine
<1>2. CASE table = "commits"
  BY <1>2 DEF PbftCast, PbftEngine
<1> QED
  BY <1>1, <1>2

LEMMA PbftOnCommitMoves ==
  ASSUME NEW e \in PbftEngine, NEW r \in Replica, NEW d \in Digest
  PROVE  PbftMoved(e, PbftOnCommit(e, r, d))
<1>1. PICK v : v = PbftCast(e, "commits", r, d)
  OBVIOUS
<1>2. v \in PbftEngine /\ v.executed = e.executed /\ v.sequence = e.sequence
  BY <1>1, PbftCastTyped, PbftCastKeeps
<1>3. CASE PbftHas(v, "commits", d)
  <2>1. PICK t : t = PbftExecute(v, d)
    OBVIOUS
  <2>2. t.executed = [v.executed EXCEPT ![v.sequence] = d] /\ t.sequence = v.sequence + 1
    BY <1>2, <2>1 DEF PbftExecute, PbftEngine
  <2>3. PbftOnCommit(e, r, d) = t
    BY <1>1, <1>3, <2>1 DEF PbftOnCommit
  <2> QED
    BY <1>2, <2>2, <2>3 DEF PbftMoved, Grows
<1>4. CASE ~PbftHas(v, "commits", d)
  <2>1. PbftOnCommit(e, r, d) = v
    BY <1>1, <1>4 DEF PbftOnCommit
  <2> QED
    BY <1>2, <2>1 DEF PbftMoved, Grows
<1> QED
  BY <1>3, <1>4

LEMMA PbftOnPrepareMoves ==
  ASSUME NEW e \in PbftEngine, e.sequence <= MaxSequence, NEW me \in Correct,
         NEW r \in Replica, NEW d \in Digest
  PROVE  PbftMoved(e, PbftOnPrepare(e, me, r, d))
<1>1. PICK v : v = PbftCast(e, "prepares", r, d)
  OBVIOUS
<1>2. /\ v \in PbftEngine /\ v.executed = e.executed /\ v.sequence = e.sequence
      /\ me \in Replica
  BY <1>1, PbftCastTyped, PbftCastKeeps DEF Correct
<1>3. CASE PbftHas(v, "prepares", d)
  <2>1. PICK w : w = PbftOnCommit(v, me, d)
    OBVIOUS
  <2>2. w \in PbftEngine /\ PbftMoved(v, w)
    BY <1>2, <2>1, PbftOnCommitTyped, PbftOnCommitMoves
  <2>3. PICK t : t = PbftCast(w, "commits", me, d)
    OBVIOUS
  <2>4. t.executed = w.executed /\ t.sequence = w.sequence
    BY <2>2, <2>3, PbftCastKeeps
  <2>5. PbftOnPrepare(e, me, r, d) = t
    BY <1>1, <1>3, <2>1, <2>3 DEF PbftOnPrepare, PbftOwnCommit
  <2> QED
    BY <1>2, <2>2, <2>4, <2>5 DEF PbftMoved
<1>4. CASE ~PbftHas(v, "prepares", d)
  <2>1. PbftOnPrepare(e, me, r, d) = v
    BY <1>1, <1>4 DEF PbftOnPrepare
  <2> QED
    BY <1>2, <2>1 DEF PbftMoved, Grows
<1> QED
  BY <1>3, <1>4

LEMMA PbftAcceptMoves ==
  ASSUME NEW e \in PbftEngine, e.sequence <= MaxSequence, NEW me \in Correct, NEW d \in Digest
  PROVE  PbftMoved(e, PbftAccept(e, me, d))
<1>1. PICK w : w = PbftOnPrepare(e, me, me, d)
  OBVIOUS
<1>2. me \in Replica
  BY DEF Correct
<1>3. w \in PbftEngine /\ PbftMoved(e, w)
  BY <1>1, <1>2, PbftOnPrepareTyped, PbftOnPrepareMoves
<1>4. PICK t : t = PbftCast(w, "prepares", me, d)
  OBVIOUS
<1>5. t.executed = w.executed /\ t.sequence = w.sequence
  BY <1>3, <1>4, PbftCastKeeps
<1>6. PbftAccept(e, me, d) = t
  BY <1>1, <1>4 DEF PbftAccept
<1> QED
  BY <1>3, <1>5, <1>6 DEF PbftMoved

(* A step is the step of one replica. *)
LEMMA PbftNextMoves ==
  ASSUME PbftTypeOK, PbftNext
  PROVE  \E r \in Correct : \E t : pbft' = [pbft EXCEPT ![r] = t] /\ PbftMoved(pbft[r], t)
<1>1. PICK r \in Correct, d \in Digest :
        \/ PbftPropose(r, d)
        \/ PbftHandlePrePrepare(r, d)
        \/ \E w \in Replica : PbftHandlePrepare(r, w, d)
        \/ \E w \in Replica : PbftHandleCommit(r, w, d)
  BY DEF PbftNext
<1>2. PICK e \in PbftEngine : e = pbft[r]
  BY DEF PbftTypeOK
<1>3. e.sequence <= MaxSequence
  BY <1>1, <1>2 DEF PbftPropose, PbftHandlePrePrepare, PbftHandlePrepare,
                    PbftHandleCommit, PbftUndecided
<1>4. CASE PbftPropose(r, d) \/ PbftHandlePrePrepare(r, d)
  <2>1. pbft' = [pbft EXCEPT ![r] = PbftAccept(e, r, d)]
    BY <1>2, <1>4 DEF PbftPropose, PbftHandlePrePrepare
  <2> QED
    BY <1>2, <1>3, <2>1, PbftAcceptMoves
<1>5. ASSUME NEW w \in Replica, PbftHandlePrepare(r, w, d)
      PROVE  pbft' = [pbft EXCEPT ![r] = PbftOnPrepare(e, r, w, d)]
  BY <1>2, <1>5 DEF PbftHandlePrepare
<1>6. ASSUME NEW w \in Replica, PbftHandleCommit(r, w, d)
      PROVE  pbft' = [pbft EXCEPT ![r] = PbftOnCommit(e, w, d)]
  BY <1>2, <1>6 DEF PbftHandleCommit
<1>7. \A w \in Replica : /\ PbftMoved(e, PbftOnPrepare(e, r, w, d))
                         /\ PbftMoved(e, PbftOnCommit(e, w, d))
  BY <1>3, PbftOnPrepareMoves, PbftOnCommitMoves
<1> QED
  BY <1>1, <1>2, <1>4, <1>5, <1>6, <1>7

(* Whoever lies and whatever the primary does: what a correct replica has  *)
(* executed is one digest for every sequence number below its own, and     *)
(* none above (consensus/bft/pbft.py:_execute).                            *)
PbftLogInv ==
  PbftTypeOK /\ \A r \in Correct : DecidedUpTo(pbft[r].executed, pbft[r].sequence)

LEMMA PbftEachMoves ==
  ASSUME PbftTypeOK, PbftNext, NEW q \in Correct
  PROVE  PbftMoved(pbft[q], pbft'[q])
<1>1. PICK r \in Correct : \E t : pbft' = [pbft EXCEPT ![r] = t] /\ PbftMoved(pbft[r], t)
  BY PbftNextMoves
<1>2. PICK t : pbft' = [pbft EXCEPT ![r] = t] /\ PbftMoved(pbft[r], t)
  BY <1>1
<1>3. pbft'[q] = IF q = r THEN t ELSE pbft[q]
  BY <1>2 DEF PbftTypeOK
<1> QED
  BY <1>2, <1>3 DEF PbftMoved, Grows

(* A correct replica of consensus/bft/pbft.py skips no sequence number and *)
(* executes none twice, under any Byzantine behaviour.                     *)
THEOREM PbftLogInvariant == PbftSpec => []PbftLogInv
<1>1. PbftInit /\ PbftTypeOK => PbftLogInv
  <2> SUFFICES ASSUME PbftInit, PbftTypeOK, NEW r \in Correct
               PROVE  DecidedUpTo(pbft[r].executed, pbft[r].sequence)
    BY DEF PbftLogInv
  <2>1. pbft[r].executed = [s \in Sequence |-> NoDigest] /\ pbft[r].sequence = 1
    BY DEF PbftInit
  <2>2. \A s \in Sequence : ~(s < 1)
    BY PbftSequences DEF Sequence
  <2> QED
    BY <2>1, <2>2 DEF DecidedUpTo
<1>2. PbftLogInv /\ PbftTypeOK' /\ [PbftNext]_pbftVars => PbftLogInv'
  <2> SUFFICES ASSUME PbftLogInv, PbftTypeOK', PbftNext, NEW r \in Correct
               PROVE  DecidedUpTo(pbft'[r].executed, pbft'[r].sequence)
    BY DEF PbftLogInv, pbftVars
  <2>1. PICK e \in PbftEngine : e = pbft[r]
    BY DEF PbftLogInv, PbftTypeOK
  <2>2. PICK t : t = pbft'[r]
    OBVIOUS
  <2>3. /\ e.executed \in [Sequence -> DigestOrNone] /\ e.sequence \in Sequence
        /\ Sequence \in SUBSET Nat
    BY PbftSequences DEF PbftEngine, DigestOrNone
  <2>4. DecidedUpTo(e.executed, e.sequence)
    BY <2>1 DEF PbftLogInv
  <2>5. Grows(e.executed, e.sequence, t.executed, t.sequence)
    BY <2>1, <2>2, PbftEachMoves DEF PbftLogInv, PbftMoved
  <2>6. DecidedUpTo(t.executed, t.sequence)
    BY <2>3, <2>4, <2>5, DecidedGrows
  <2> QED
    BY <2>2, <2>6
<1> QED
  BY <1>1, <1>2, PbftTypes, PTL DEF PbftSpec

(* A step of a correct replica executes at most one digest, at the number  *)
(* it works on, and changes nothing it executed before (pbft.py:_execute), *)
(* whoever lies and whatever the primary proposes.                         *)
PbftLogGrows == [][\A r \in Correct : PbftMoved(pbft[r], pbft'[r])]_pbftVars

THEOREM PbftLogGrowsHolds == PbftSpec => PbftLogGrows
<1>1. PbftTypeOK /\ [PbftNext]_pbftVars
        => [\A r \in Correct : PbftMoved(pbft[r], pbft'[r])]_pbftVars
  BY PbftEachMoves
<1> QED
  BY <1>1, PbftTypes, PTL DEF PbftSpec, PbftLogGrows

(* What a correct replica has executed, as a log. *)
LEMMA PbftLogEntry ==
  ASSUME PbftLogInv, NEW r \in Correct
  PROVE  /\ pbft[r].sequence \in Sequence /\ pbft[r].sequence \in Nat
         /\ PbftDecisions[r] = DecisionsOf(pbft[r].executed, 1, pbft[r].sequence)
         /\ Len(PbftDecisions[r]) = pbft[r].sequence - 1
         /\ \A i \in 1 .. pbft[r].sequence - 1 :
              /\ i \in Sequence
              /\ PbftDecisions[r][i] = pbft[r].executed[i]
              /\ pbft[r].executed[i] # NoDigest
<1>1. PICK table : table = pbft[r].executed
  OBVIOUS
<1>2. PICK next : next = pbft[r].sequence
  OBVIOUS
<1>3. table \in [Sequence -> DigestOrNone] /\ next \in Sequence /\ Sequence \in SUBSET Nat
  BY <1>1, <1>2, PbftSequences DEF PbftLogInv, PbftTypeOK, PbftEngine, DigestOrNone
<1>4. 1 \in Nat /\ 1 <= next /\ next \in Nat /\ \A i \in 1 .. next : i \in Sequence
  BY <1>3, PbftAssumption DEF Sequence
<1>5. PICK s : s = DecisionsOf(table, 1, next)
  OBVIOUS
<1>6. /\ Len(s) = next - 1
      /\ \A i \in 1 .. next - 1 : /\ 1 + i - 1 \in Sequence /\ 1 + i - 1 < next
                                  /\ s[i] = table[1 + i - 1]
  <2>1. /\ Len(DecisionsOf(table, 1, next)) = next - 1
        /\ \A i \in 1 .. next - 1 :
             /\ 1 + i - 1 \in Sequence /\ 1 + i - 1 < next
             /\ DecisionsOf(table, 1, next)[i] = table[1 + i - 1]
    <3>1. PICK first \in Nat : first = 1
      OBVIOUS
    <3>2. first <= next /\ \A i \in first .. next : i \in Sequence
      BY <1>4, <3>1
    <3>3. /\ Len(DecisionsOf(table, first, next)) = next - first
          /\ \A i \in 1 .. next - first :
               /\ first + i - 1 \in Sequence /\ first + i - 1 < next
               /\ DecisionsOf(table, first, next)[i] = table[first + i - 1]
      BY <1>3, <3>2, DecisionsEntries
    <3> QED
      BY <3>1, <3>3
  <2> QED
    BY <1>5, <2>1
<1>7. \A i \in 1 .. next - 1 : 1 + i - 1 = i
  BY <1>4
<1>8. \A i \in 1 .. next - 1 : i \in Sequence /\ i < next /\ s[i] = table[i]
  BY <1>6, <1>7
<1>9. DecidedUpTo(table, next)
  BY <1>1, <1>2 DEF PbftLogInv
<1>10. \A i \in 1 .. next - 1 : table[i] # NoDigest
  BY <1>3, <1>8, <1>9 DEF DecidedUpTo
<1>11. PbftDecisions[r] = s
  BY <1>1, <1>2, <1>5 DEF PbftDecisions
<1>12. Len(PbftDecisions[r]) = next - 1
  BY <1>6, <1>11
<1>13. \A i \in 1 .. next - 1 : PbftDecisions[r][i] = table[i]
  BY <1>8, <1>11
<1>14. \A i \in 1 .. pbft[r].sequence - 1 :
         /\ i \in Sequence
         /\ PbftDecisions[r][i] = pbft[r].executed[i]
         /\ pbft[r].executed[i] # NoDigest
  BY <1>1, <1>2, <1>8, <1>10, <1>13
<1>15. Len(PbftDecisions[r]) = pbft[r].sequence - 1
  BY <1>2, <1>12
<1>16. pbft[r].sequence \in Sequence /\ pbft[r].sequence \in Nat
  BY <1>2, <1>3, <1>4
<1>17. PbftDecisions[r] = DecisionsOf(pbft[r].executed, 1, pbft[r].sequence)
  BY DEF PbftDecisions
<1> QED
  BY <1>14, <1>15, <1>16, <1>17

(* Where the correct replicas of PBFT agree number by number, they         *)
(* implement one replicated log: every step of theirs executes one digest  *)
(* that no other log contradicts, or none (pbft.py:_execute).              *)
THEOREM PbftAgreementMakesLog == PbftSpec /\ []PbftAgreement => PbftImplementsLog
<1>1. PbftInit => PbftLog!Init
  <2> SUFFICES ASSUME PbftInit PROVE PbftDecisions = [r \in Correct |-> <<>>]
    BY DEF PbftLog!Init
  <2>1. ASSUME NEW r \in Correct PROVE DecisionsOf(pbft[r].executed, 1, pbft[r].sequence) = <<>>
    <3>1. pbft[r].sequence = 1
      BY DEF PbftInit
    <3> QED
      BY <3>1 DEF DecisionsOf
  <2> QED
    BY <2>1 DEF PbftDecisions
<1>2. PbftLogInv /\ PbftLogInv' /\ PbftAgreement' /\ [PbftNext]_pbftVars
        => [PbftLog!Next]_PbftDecisions
  <2> SUFFICES ASSUME PbftLogInv, PbftLogInv', PbftAgreement', PbftNext,
                      PbftDecisions' # PbftDecisions
               PROVE  PbftLog!Next
    BY DEF pbftVars, PbftDecisions
  <2>1. PbftTypeOK /\ PbftTypeOK'
    BY DEF PbftLogInv
  <2>2. PICK r \in Correct : \E t : pbft' = [pbft EXCEPT ![r] = t] /\ PbftMoved(pbft[r], t)
    BY <2>1, PbftNextMoves
  <2>3. PICK t : pbft' = [pbft EXCEPT ![r] = t] /\ PbftMoved(pbft[r], t)
    BY <2>2
  <2>4. \A w \in Correct : pbft'[w] = IF w = r THEN t ELSE pbft[w]
    BY <2>1, <2>3 DEF PbftTypeOK
  <2>5. PICK e \in PbftEngine : e = pbft[r]
    BY <2>1 DEF PbftTypeOK
  <2>6. PbftDecisions' = [PbftDecisions EXCEPT ![r] = DecisionsOf(t.executed, 1, t.sequence)]
    BY <2>4 DEF PbftDecisions
  <2>7. ~(t.executed = e.executed /\ t.sequence = e.sequence)
    <3> SUFFICES ASSUME t.executed = e.executed, t.sequence = e.sequence PROVE FALSE
      OBVIOUS
    <3>1. DecisionsOf(t.executed, 1, t.sequence) = PbftDecisions[r]
      BY <2>5 DEF PbftDecisions
    <3>2. [PbftDecisions EXCEPT ![r] = PbftDecisions[r]] = PbftDecisions
      BY DEF PbftDecisions
    <3> QED
      BY <2>6, <3>1, <3>2
  <2>8. PICK d \in Digest : /\ t.sequence = e.sequence + 1
                            /\ t.executed = [e.executed EXCEPT ![e.sequence] = d]
    BY <2>3, <2>5, <2>7 DEF PbftMoved, Grows
  <2>9. PICK next \in Sequence : next = e.sequence
    BY DEF PbftEngine
  <2>10. /\ e.executed \in [Sequence -> DigestOrNone] /\ Sequence \in SUBSET Nat
         /\ 1 \in Nat /\ 1 <= next /\ next \in Nat /\ \A i \in 1 .. next : i \in Sequence
    BY PbftAssumption, PbftSequences DEF PbftEngine, DigestOrNone, Sequence
  <2>11. Len(PbftDecisions[r]) = next - 1 /\ Len(PbftDecisions[r]) + 1 = next
    BY <2>5, <2>9, <2>10, PbftLogEntry
  <2>12. PbftDecisions' = [PbftDecisions EXCEPT ![r] = Append(PbftDecisions[r], d)]
    <3>1. DecisionsOf([e.executed EXCEPT ![next] = d], 1, next + 1)
            = Append(DecisionsOf(e.executed, 1, next), d)
      BY <2>10, DecisionsGrow
    <3>2. PbftDecisions[r] = DecisionsOf(e.executed, 1, next)
      BY <2>5, <2>9 DEF PbftDecisions
    <3>3. DecisionsOf(t.executed, 1, t.sequence) = Append(PbftDecisions[r], d)
      BY <2>8, <2>9, <3>1, <3>2
    <3> QED
      BY <2>6, <3>3
  <2>13. ASSUME NEW w \in Correct, Len(PbftDecisions[w]) > Len(PbftDecisions[r])
         PROVE  PbftDecisions[w][Len(PbftDecisions[r]) + 1] = d
    <3>1. Len(PbftDecisions[w]) = pbft[w].sequence - 1 /\ pbft[w].sequence \in Nat
      BY PbftLogEntry
    <3>2. next \in 1 .. pbft[w].sequence - 1
      BY <2>10, <2>11, <2>13, <3>1
    <3>3. /\ PbftDecisions[w][next] = pbft[w].executed[next]
          /\ pbft[w].executed[next] # NoDigest
      BY <3>2, PbftLogEntry
    <3>4. w # r
      BY <2>10, <2>11, <2>13
    <3>5. pbft'[w] = pbft[w] /\ pbft'[r] = t
      BY <2>4, <3>4
    <3>6. t.executed[next] = d /\ d # NoDigest
      BY <2>8, <2>9, <2>10, ReplicaAssumption
    <3>7. pbft'[w].executed[next] = pbft'[r].executed[next]
      BY <3>3, <3>5, <3>6 DEF PbftAgreement
    <3> QED
      BY <2>11, <3>3, <3>5, <3>6, <3>7
  <2>14. PbftLog!Decide(r, d)
    BY <2>12, <2>13 DEF PbftLog!Decide
  <2> QED
    BY <2>14 DEF PbftLog!Next
<1> QED
  BY <1>1, <1>2, PbftLogInvariant, PTL DEF PbftSpec, PbftImplementsLog, PbftLog!Spec

(* Under a correct primary the correct replicas of consensus/bft/pbft.py   *)
(* implement one replicated log: no sequence number is skipped, executed   *)
(* twice or executed differently.                                          *)
THEOREM PbftLogRefined ==
  ASSUME CorrectPrimary PROVE PbftSpec => PbftImplementsLog
BY PbftAgreementMakesLog, PbftAgreementHolds, PTL

-----------------------------------------------------------------------------
(* HotStuff: votes and locks decide nothing; a handler decides once at     *)
(* most, in the view it works on.                                          *)
HsMoved(e, t) == Grows(e.committed, e.view, t.committed, t.view)

LEMMA HsCastKeeps ==
  ASSUME NEW e \in HsEngine, NEW p \in HsPhase, NEW r, NEW d
  PROVE  /\ HsCast(e, p, r, d).committed = e.committed
         /\ HsCast(e, p, r, d).view = e.view
<1>1. PICK new : new = [e.votes[p] EXCEPT ![e.view][r] = d]
  OBVIOUS
<1>2. PICK votes : votes = [e.votes EXCEPT ![p] = new]
  OBVIOUS
<1>3. HsCast(e, p, r, d) = [e EXCEPT !.votes = votes]
  BY <1>1, <1>2 DEF HsCast, HsEngine
<1> QED
  BY <1>3 DEF HsEngine

LEMMA HsOnCommitMoves ==
  ASSUME NEW e \in HsEngine, NEW r \in Replica, NEW d \in Digest
  PROVE  HsMoved(e, HsOnCommit(e, r, d))
<1>1. PICK v : v = HsCast(e, "commit", r, d)
  OBVIOUS
<1>2. v \in HsEngine /\ v.committed = e.committed /\ v.view = e.view
  BY <1>1, HsCastTyped, HsCastKeeps DEF HsPhase
<1>3. CASE HsHas(v, "commit", d)
  <2>1. PICK t : t = HsExecute(v, d)
    OBVIOUS
  <2>2. t.committed = [v.committed EXCEPT ![v.view] = d] /\ t.view = v.view + 1
    BY <1>2, <2>1 DEF HsExecute, HsEngine
  <2>3. HsOnCommit(e, r, d) = t
    BY <1>1, <1>3, <2>1 DEF HsOnCommit
  <2> QED
    BY <1>2, <2>2, <2>3 DEF HsMoved, Grows
<1>4. CASE ~HsHas(v, "commit", d)
  <2>1. HsOnCommit(e, r, d) = v
    BY <1>1, <1>4 DEF HsOnCommit
  <2> QED
    BY <1>2, <2>1 DEF HsMoved, Grows
<1> QED
  BY <1>3, <1>4

LEMMA HsOnPrecommitMoves ==
  ASSUME NEW e \in HsEngine, e.view <= MaxView, NEW me \in Correct,
         NEW r \in Replica, NEW d \in Digest
  PROVE  HsMoved(e, HsOnPrecommit(e, me, r, d))
<1>1. PICK v : v = HsCast(e, "pre-commit", r, d)
  OBVIOUS
<1>2. /\ v \in HsEngine /\ v.committed = e.committed /\ v.view = e.view
      /\ me \in Replica
  <2>1. PICK p \in HsPhase : p = "pre-commit"
    BY DEF HsPhase
  <2>2. v = HsCast(e, p, r, d)
    BY <1>1, <2>1
  <2>3. v \in HsEngine
    BY <2>2, HsCastTyped
  <2>4. v.committed = e.committed /\ v.view = e.view
    BY <2>2, HsCastKeeps
  <2> QED
    BY <2>3, <2>4 DEF Correct
<1>3. CASE HsHas(v, "pre-commit", d)
  <2>1. PICK w : w = HsOnCommit(v, me, d)
    OBVIOUS
  <2>2. w \in HsEngine /\ HsMoved(v, w)
    BY <1>2, <2>1, HsOnCommitTyped, HsOnCommitMoves
  <2>3. PICK t : t = HsCast(w, "commit", me, d)
    OBVIOUS
  <2>4. t.committed = w.committed /\ t.view = w.view
    BY <2>2, <2>3, HsCastKeeps DEF HsPhase
  <2>5. HsOnPrecommit(e, me, r, d) = t
    BY <1>1, <1>3, <2>1, <2>3 DEF HsOnPrecommit, HsOwnCommit
  <2> QED
    BY <1>2, <2>2, <2>4, <2>5 DEF HsMoved
<1>4. CASE ~HsHas(v, "pre-commit", d)
  <2>1. HsOnPrecommit(e, me, r, d) = v
    BY <1>1, <1>4 DEF HsOnPrecommit
  <2> QED
    BY <1>2, <2>1 DEF HsMoved, Grows
<1> QED
  BY <1>3, <1>4

LEMMA HsOnPrepareMoves ==
  ASSUME NEW e \in HsEngine, e.view <= MaxView, NEW me \in Correct,
         NEW r \in Replica, NEW d \in Digest
  PROVE  HsMoved(e, HsOnPrepare(e, me, r, d))
<1>1. PICK v : v = HsCast(e, "prepare", r, d)
  OBVIOUS
<1>2. /\ v \in HsEngine /\ v.committed = e.committed /\ v.view = e.view
      /\ me \in Replica
  <2>1. PICK p \in HsPhase : p = "prepare"
    BY DEF HsPhase
  <2>2. v = HsCast(e, p, r, d)
    BY <1>1, <2>1
  <2>3. v \in HsEngine
    BY <2>2, HsCastTyped
  <2>4. v.committed = e.committed /\ v.view = e.view
    BY <2>2, HsCastKeeps
  <2> QED
    BY <2>3, <2>4 DEF Correct
<1>3. CASE HsHas(v, "prepare", d)
  <2>1. PICK l : l = [v EXCEPT !.locked = d]
    OBVIOUS
  <2>2. l \in HsEngine /\ l.committed = e.committed /\ l.view = e.view
    BY <1>2, <2>1 DEF HsEngine
  <2>3. PICK w : w = HsOnPrecommit(l, me, me, d)
    OBVIOUS
  <2>4. w \in HsEngine /\ HsMoved(l, w)
    BY <1>2, <2>2, <2>3, HsOnPrecommitTyped, HsOnPrecommitMoves
  <2>5. PICK t : t = HsCast(w, "pre-commit", me, d)
    OBVIOUS
  <2>6. t.committed = w.committed /\ t.view = w.view
    BY <2>4, <2>5, HsCastKeeps DEF HsPhase
  <2>7. HsOnPrepare(e, me, r, d) = t
    BY <1>1, <1>3, <2>1, <2>3, <2>5 DEF HsOnPrepare, HsOwnPrecommit
  <2> QED
    BY <2>2, <2>4, <2>6, <2>7 DEF HsMoved
<1>4. CASE ~HsHas(v, "prepare", d)
  <2>1. HsOnPrepare(e, me, r, d) = v
    BY <1>1, <1>4 DEF HsOnPrepare
  <2> QED
    BY <1>2, <2>1 DEF HsMoved, Grows
<1> QED
  BY <1>3, <1>4

LEMMA HsOwnPrepareMoves ==
  ASSUME NEW e \in HsEngine, e.view <= MaxView, NEW me \in Correct, NEW d \in Digest
  PROVE  HsMoved(e, HsOwnPrepare(e, me, d))
<1>1. PICK w : w = HsOnPrepare(e, me, me, d)
  OBVIOUS
<1>2. me \in Replica
  BY DEF Correct
<1>3. w \in HsEngine /\ HsMoved(e, w)
  BY <1>1, <1>2, HsOnPrepareTyped, HsOnPrepareMoves
<1>4. PICK t : t = HsCast(w, "prepare", me, d)
  OBVIOUS
<1>5. t.committed = w.committed /\ t.view = w.view
  BY <1>3, <1>4, HsCastKeeps DEF HsPhase
<1>6. HsOwnPrepare(e, me, d) = t
  BY <1>1, <1>4 DEF HsOwnPrepare
<1> QED
  BY <1>3, <1>5, <1>6 DEF HsMoved

LEMMA HsNextMoves ==
  ASSUME HsTypeOK, HsNext
  PROVE  \E r \in Correct : \E t : hs' = [hs EXCEPT ![r] = t] /\ HsMoved(hs[r], t)
<1>1. PICK r \in Correct, d \in Digest :
        \/ HsPropose(r, d)
        \/ HsHandlePropose(r, d)
        \/ \E w \in Replica : HsHandlePrepare(r, w, d)
        \/ \E w \in Replica : HsHandlePrecommit(r, w, d)
        \/ \E w \in Replica : HsHandleCommit(r, w, d)
  BY DEF HsNext
<1>2. PICK e \in HsEngine : e = hs[r]
  BY DEF HsTypeOK
<1>3. e.view <= MaxView
  BY <1>1, <1>2 DEF HsPropose, HsHandlePropose, HsHandlePrepare, HsHandlePrecommit,
                    HsHandleCommit, HsRunning
<1>4. CASE HsPropose(r, d) \/ HsHandlePropose(r, d)
  <2>1. \/ hs' = [hs EXCEPT ![r] = HsOwnPrepare(e, r, d)]
        \/ hs' = [hs EXCEPT ![r] = e]
    BY <1>2, <1>4 DEF HsPropose, HsHandlePropose, HsTypeOK
  <2>2. HsMoved(e, e)
    BY DEF HsMoved, Grows
  <2> QED
    BY <1>2, <1>3, <2>1, <2>2, HsOwnPrepareMoves
<1>5. ASSUME NEW w \in Replica, HsHandlePrepare(r, w, d)
      PROVE  hs' = [hs EXCEPT ![r] = HsOnPrepare(e, r, w, d)]
  BY <1>2, <1>5 DEF HsHandlePrepare
<1>6. ASSUME NEW w \in Replica, HsHandlePrecommit(r, w, d)
      PROVE  hs' = [hs EXCEPT ![r] = HsOnPrecommit(e, r, w, d)]
  BY <1>2, <1>6 DEF HsHandlePrecommit
<1>7. ASSUME NEW w \in Replica, HsHandleCommit(r, w, d)
      PROVE  hs' = [hs EXCEPT ![r] = HsOnCommit(e, w, d)]
  BY <1>2, <1>7 DEF HsHandleCommit
<1>8. \A w \in Replica : /\ HsMoved(e, HsOnPrepare(e, r, w, d))
                         /\ HsMoved(e, HsOnPrecommit(e, r, w, d))
                         /\ HsMoved(e, HsOnCommit(e, w, d))
  BY <1>3, HsOnPrepareMoves, HsOnPrecommitMoves, HsOnCommitMoves
<1> QED
  BY <1>1, <1>2, <1>4, <1>5, <1>6, <1>7, <1>8

(* Whoever leads and however many lie: what a correct replica has decided  *)
(* is one digest for every view below its own, and none above              *)
(* (consensus/bft/hotstuff.py:_execute).                                   *)
HsLogInv ==
  HsTypeOK /\ \A r \in Correct : DecidedUpTo(hs[r].committed, hs[r].view)

LEMMA HsEachMoves ==
  ASSUME HsTypeOK, HsNext, NEW q \in Correct
  PROVE  HsMoved(hs[q], hs'[q])
<1>1. PICK r \in Correct : \E t : hs' = [hs EXCEPT ![r] = t] /\ HsMoved(hs[r], t)
  BY HsNextMoves
<1>2. PICK t : hs' = [hs EXCEPT ![r] = t] /\ HsMoved(hs[r], t)
  BY <1>1
<1>3. hs'[q] = IF q = r THEN t ELSE hs[q]
  BY <1>2 DEF HsTypeOK
<1> QED
  BY <1>2, <1>3 DEF HsMoved, Grows

(* A correct replica of consensus/bft/hotstuff.py skips no view and decides *)
(* none twice, under any Byzantine behaviour.                              *)
THEOREM HsLogInvariant == HsSpec => []HsLogInv
<1>1. HsInit /\ HsTypeOK => HsLogInv
  <2> SUFFICES ASSUME HsInit, HsTypeOK, NEW r \in Correct
               PROVE  DecidedUpTo(hs[r].committed, hs[r].view)
    BY DEF HsLogInv
  <2>1. hs[r].committed = [v \in View |-> NoDigest] /\ hs[r].view = 0
    BY DEF HsInit
  <2>2. \A v \in View : ~(v < 0)
    BY HsViews
  <2> QED
    BY <2>1, <2>2 DEF DecidedUpTo
<1>2. HsLogInv /\ HsTypeOK' /\ [HsNext]_hsVars => HsLogInv'
  <2> SUFFICES ASSUME HsLogInv, HsTypeOK', HsNext, NEW r \in Correct
               PROVE  DecidedUpTo(hs'[r].committed, hs'[r].view)
    BY DEF HsLogInv, hsVars
  <2>1. PICK e \in HsEngine : e = hs[r]
    BY DEF HsLogInv, HsTypeOK
  <2>2. PICK t : t = hs'[r]
    OBVIOUS
  <2>3. /\ e.committed \in [View -> DigestOrNone] /\ e.view \in View
        /\ View \in SUBSET Nat
    BY HsViews DEF HsEngine, DigestOrNone
  <2>4. DecidedUpTo(e.committed, e.view)
    BY <2>1 DEF HsLogInv
  <2>5. Grows(e.committed, e.view, t.committed, t.view)
    BY <2>1, <2>2, HsEachMoves DEF HsLogInv, HsMoved
  <2>6. DecidedUpTo(t.committed, t.view)
    BY <2>3, <2>4, <2>5, DecidedGrows
  <2> QED
    BY <2>2, <2>6
<1> QED
  BY <1>1, <1>2, HsTypes, PTL DEF HsSpec

(* A step of a correct replica adds at most one decision, in the view it   *)
(* works on, and changes no earlier one (hotstuff.py:_execute), whoever    *)
(* lies and whatever the leaders propose.                                  *)
HsLogGrows == [][\A r \in Correct : HsMoved(hs[r], hs'[r])]_hsVars

THEOREM HsLogGrowsHolds == HsSpec => HsLogGrows
<1>1. HsTypeOK /\ [HsNext]_hsVars
        => [\A r \in Correct : HsMoved(hs[r], hs'[r])]_hsVars
  BY HsEachMoves
<1> QED
  BY <1>1, HsTypes, PTL DEF HsSpec, HsLogGrows

(* What a correct replica has committed, as a log.                         *)
LEMMA HsLogEntry ==
  ASSUME HsLogInv, NEW r \in Correct
  PROVE  /\ hs[r].view \in View /\ hs[r].view \in Nat
         /\ HsDecisions[r] = DecisionsOf(hs[r].committed, 0, hs[r].view)
         /\ Len(HsDecisions[r]) = hs[r].view
         /\ \A i \in 1 .. hs[r].view :
              /\ i - 1 \in View
              /\ HsDecisions[r][i] = hs[r].committed[i - 1]
              /\ hs[r].committed[i - 1] # NoDigest
<1>1. PICK table : table = hs[r].committed
  OBVIOUS
<1>2. PICK next : next = hs[r].view
  OBVIOUS
<1>3. table \in [View -> DigestOrNone] /\ next \in View /\ View \in SUBSET Nat
  BY <1>1, <1>2, HsViews DEF HsLogInv, HsTypeOK, HsEngine, DigestOrNone
<1>4. 0 \in Nat /\ 0 <= next /\ next \in Nat /\ \A i \in 0 .. next : i \in View
  BY <1>3, HsAssumption DEF View
<1>5. PICK s : s = DecisionsOf(table, 0, next)
  OBVIOUS
<1>6. /\ Len(s) = next
      /\ \A i \in 1 .. next : i - 1 \in View /\ i - 1 < next /\ s[i] = table[i - 1]
  <2>1. PICK first \in Nat : first = 0
    OBVIOUS
  <2>2. first <= next /\ \A i \in first .. next : i \in View
    BY <1>4, <2>1
  <2>3. /\ Len(DecisionsOf(table, first, next)) = next - first
        /\ \A i \in 1 .. next - first :
             /\ first + i - 1 \in View /\ first + i - 1 < next
             /\ DecisionsOf(table, first, next)[i] = table[first + i - 1]
    BY <1>3, <2>2, DecisionsEntries
  <2>4. next - first = next /\ \A i \in 1 .. next : first + i - 1 = i - 1
    BY <1>4, <2>1
  <2> QED
    BY <1>5, <2>1, <2>3, <2>4
<1>7. DecidedUpTo(table, next)
  BY <1>1, <1>2 DEF HsLogInv
<1>8. \A i \in 1 .. next : table[i - 1] # NoDigest
  BY <1>3, <1>6, <1>7 DEF DecidedUpTo
<1>9. HsDecisions[r] = s
  BY <1>1, <1>2, <1>5 DEF HsDecisions
<1>10. Len(HsDecisions[r]) = hs[r].view
  BY <1>2, <1>6, <1>9
<1>11. \A i \in 1 .. hs[r].view :
         /\ i - 1 \in View
         /\ HsDecisions[r][i] = hs[r].committed[i - 1]
         /\ hs[r].committed[i - 1] # NoDigest
  BY <1>1, <1>2, <1>6, <1>8, <1>9
<1>12. hs[r].view \in View /\ hs[r].view \in Nat
  BY <1>2, <1>3, <1>4
<1>13. HsDecisions[r] = DecisionsOf(hs[r].committed, 0, hs[r].view)
  BY DEF HsDecisions
<1> QED
  BY <1>10, <1>11, <1>12, <1>13

(* Where the correct replicas of HotStuff agree view by view, they         *)
(* implement one replicated log, whoever leads (hotstuff.py:_execute).     *)
THEOREM HsAgreementMakesLog == HsSpec /\ []HsAgreement => HsImplementsLog
<1>1. HsInit => HsLog!Init
  <2> SUFFICES ASSUME HsInit PROVE HsDecisions = [r \in Correct |-> <<>>]
    BY DEF HsLog!Init
  <2>1. ASSUME NEW r \in Correct PROVE DecisionsOf(hs[r].committed, 0, hs[r].view) = <<>>
    <3>1. hs[r].view = 0
      BY DEF HsInit
    <3> QED
      BY <3>1 DEF DecisionsOf
  <2> QED
    BY <2>1 DEF HsDecisions
<1>2. HsLogInv /\ HsLogInv' /\ HsAgreement' /\ [HsNext]_hsVars
        => [HsLog!Next]_HsDecisions
  <2> SUFFICES ASSUME HsLogInv, HsLogInv', HsAgreement', HsNext,
                      HsDecisions' # HsDecisions
               PROVE  HsLog!Next
    BY DEF hsVars, HsDecisions
  <2>1. HsTypeOK /\ HsTypeOK'
    BY DEF HsLogInv
  <2>2. PICK r \in Correct : \E t : hs' = [hs EXCEPT ![r] = t] /\ HsMoved(hs[r], t)
    BY <2>1, HsNextMoves
  <2>3. PICK t : hs' = [hs EXCEPT ![r] = t] /\ HsMoved(hs[r], t)
    BY <2>2
  <2>4. \A w \in Correct : hs'[w] = IF w = r THEN t ELSE hs[w]
    BY <2>1, <2>3 DEF HsTypeOK
  <2>5. PICK e \in HsEngine : e = hs[r]
    BY <2>1 DEF HsTypeOK
  <2>6. HsDecisions' = [HsDecisions EXCEPT ![r] = DecisionsOf(t.committed, 0, t.view)]
    BY <2>4 DEF HsDecisions
  <2>7. ~(t.committed = e.committed /\ t.view = e.view)
    <3> SUFFICES ASSUME t.committed = e.committed, t.view = e.view PROVE FALSE
      OBVIOUS
    <3>1. DecisionsOf(t.committed, 0, t.view) = HsDecisions[r]
      BY <2>5 DEF HsDecisions
    <3>2. [HsDecisions EXCEPT ![r] = HsDecisions[r]] = HsDecisions
      BY DEF HsDecisions
    <3> QED
      BY <2>6, <3>1, <3>2
  <2>8. PICK d \in Digest : /\ t.view = e.view + 1
                            /\ t.committed = [e.committed EXCEPT ![e.view] = d]
    BY <2>3, <2>5, <2>7 DEF HsMoved, Grows
  <2>9. PICK next \in View : next = e.view
    BY DEF HsEngine
  <2>10. /\ e.committed \in [View -> DigestOrNone] /\ View \in SUBSET Nat
         /\ 0 \in Nat /\ 0 <= next /\ next \in Nat /\ \A i \in 0 .. next : i \in View
    BY HsAssumption, HsViews DEF HsEngine, DigestOrNone, View
  <2>11. Len(HsDecisions[r]) = next
    BY <2>5, <2>9, HsLogEntry
  <2>12. HsDecisions' = [HsDecisions EXCEPT ![r] = Append(HsDecisions[r], d)]
    <3>1. DecisionsOf([e.committed EXCEPT ![next] = d], 0, next + 1)
            = Append(DecisionsOf(e.committed, 0, next), d)
      BY <2>10, DecisionsGrow
    <3>2. HsDecisions[r] = DecisionsOf(e.committed, 0, next)
      BY <2>5, <2>9 DEF HsDecisions
    <3>3. DecisionsOf(t.committed, 0, t.view) = Append(HsDecisions[r], d)
      BY <2>8, <2>9, <3>1, <3>2
    <3> QED
      BY <2>6, <3>3
  <2>13. ASSUME NEW w \in Correct, Len(HsDecisions[w]) > Len(HsDecisions[r])
         PROVE  HsDecisions[w][Len(HsDecisions[r]) + 1] = d
    <3>1. Len(HsDecisions[w]) = hs[w].view /\ hs[w].view \in Nat
      BY HsLogEntry
    <3>2. next + 1 \in 1 .. hs[w].view /\ next + 1 - 1 = next
      BY <2>10, <2>11, <2>13, <3>1
    <3>3. /\ HsDecisions[w][next + 1] = hs[w].committed[next]
          /\ hs[w].committed[next] # NoDigest
      <4>1. \A i \in 1 .. hs[w].view : /\ HsDecisions[w][i] = hs[w].committed[i - 1]
                                       /\ hs[w].committed[i - 1] # NoDigest
        BY HsLogEntry
      <4>2. PICK i \in 1 .. hs[w].view : i = next + 1
        BY <3>2
      <4>3. i - 1 = next
        BY <2>10, <4>2
      <4> QED
        BY <4>1, <4>2, <4>3
    <3>4. w # r
      BY <2>10, <2>11, <2>13
    <3>5. hs'[w] = hs[w] /\ hs'[r] = t
      BY <2>4, <3>4
    <3>6. t.committed[next] = d /\ d # NoDigest
      BY <2>8, <2>9, <2>10, ReplicaAssumption
    <3>7. hs'[w].committed[next] = hs'[r].committed[next]
      BY <3>3, <3>5, <3>6 DEF HsAgreement
    <3> QED
      BY <2>11, <3>3, <3>5, <3>6, <3>7
  <2>14. HsLog!Decide(r, d)
    BY <2>12, <2>13 DEF HsLog!Decide
  <2> QED
    BY <2>14 DEF HsLog!Next
<1> QED
  BY <1>1, <1>2, HsLogInvariant, PTL DEF HsSpec, HsImplementsLog, HsLog!Spec

(* In an orderly run the correct replicas of consensus/bft/hotstuff.py     *)
(* implement one replicated log: no view is skipped, decided twice or      *)
(* decided differently.                                                    *)
THEOREM HsLogRefined == ASSUME HsOrderly PROVE HsSpec => HsImplementsLog
BY HsAgreementMakesLog, HsAgreementHolds, PTL
=============================================================================
