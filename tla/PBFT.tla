-------------------------------- MODULE PBFT --------------------------------
(***************************************************************************)
(* The engine consensus/bft/pbft.py at the correct replicas.  The view     *)
(* never leaves 0, so tables are keyed by the sequence number.  broadcast  *)
(* is re-entrant: an engine observes its own message before it records its *)
(* own vote, under the sequence it has reached by then.  A message that    *)
(* was sent is handled at any time, or never.                              *)
(***************************************************************************)
EXTENDS ReplicaSet

CONSTANTS PbftRank,       \* the sorted list of the replicas
          PbftLies,       \* PbftLies[r]: what the Byzantine replicas may send r
          Pipelined,      \* propose may be called again before the decision
          MaxSequence     \* bound: nothing is proposed above this sequence

VARIABLES pbft,           \* pbft[r]: the engine of correct replica r
          pbftSent        \* messages the correct replicas have broadcast

pbftVars == <<pbft, pbftSent>>

Sequence == 1 .. MaxSequence + 1

PbftMessage == [phase : {"pre-prepare", "prepare", "commit"},
                sequence : Sequence, digest : Digest, from : Replica]

ASSUME PbftAssumption ==
  /\ PbftRank \in SortedList /\ MaxSequence \in Nat \ {0} /\ Pipelined \in BOOLEAN
  /\ PbftLies \in [Correct -> SUBSET {m \in PbftMessage : m.from \in Byzantine}]

PbftEngine == [sequence : Sequence,
               prepares : [Sequence -> Ballots],
               commits : [Sequence -> Ballots],
               executed : [Sequence -> Digest \cup {NoDigest}]]

PbftTypeOK == /\ pbft \in [Correct -> PbftEngine]
              /\ pbftSent \subseteq PbftMessage

PbftInit ==
  /\ pbft = [r \in Correct |->
               [sequence |-> 1,
                prepares |-> [s \in Sequence |-> NoBallots],
                commits  |-> [s \in Sequence |-> NoBallots],
                executed |-> [s \in Sequence |-> NoDigest]]]
  /\ pbftSent = {}

-----------------------------------------------------------------------------
F == (Size - 1) \div 3
PbftWeakQuorum == F             \* faulty variant: one vote short of f + 1
PbftQuorum == 2 * F + 1

PbftMsg(e, r, phase, d) ==
  [phase |-> phase, sequence |-> e.sequence, digest |-> d, from |-> r]

PbftCast(e, table, r, d) == [e EXCEPT ![table][e.sequence][r] = d]
PbftHas(e, table, d) == Votes(e[table][e.sequence], d) >= PbftQuorum

(* _execute (the value of a digest that was not pre-prepared here is None). *)
PbftExecute(e, d) ==
  [e EXCEPT !.executed[e.sequence] = d, !.sequence = @ + 1]

(* _handle_commit needs no prepare quorum of its own. *)
PbftOnCommit(e, r, d) ==
  LET voted == PbftCast(e, "commits", r, d)
  IN IF PbftHas(voted, "commits", d) THEN PbftExecute(voted, d) ELSE voted

(* _broadcast_phase: observes its own vote, then records it once more. *)
PbftOwnCommit(e, me, d) == PbftCast(PbftOnCommit(e, me, d), "commits", me, d)

PbftOnPrepare(e, me, r, d) ==
  LET voted == PbftCast(e, "prepares", r, d)
  IN IF PbftHas(voted, "prepares", d) THEN PbftOwnCommit(voted, me, d) ELSE voted

PbftCommitSent(e, me, r, d) ==
  IF PbftHas(PbftCast(e, "prepares", r, d), "prepares", d)
  THEN {PbftMsg(e, me, "commit", d)} ELSE {}

(* _handle_preprepare: no earlier pre-prepare of the sequence is looked up. *)
PbftAccept(e, me, d) ==
  PbftCast(PbftOnPrepare(e, me, me, d), "prepares", me, d)

-----------------------------------------------------------------------------
PbftAvailable(r, m) == m \in pbftSent \/ m \in PbftLies[r]

PbftUndecided(r) == pbft[r].sequence <= MaxSequence

PbftPropose(r, d) ==
  LET e == pbft[r]
      m == PbftMsg(e, r, "pre-prepare", d)
  IN /\ PbftUndecided(r)
     /\ r = LeaderOf(PbftRank, 0)
     /\ \/ Pipelined
        \/ \A x \in Digest : PbftMsg(e, r, "pre-prepare", x) \notin pbftSent
     /\ pbft' = [pbft EXCEPT ![r] = PbftAccept(e, r, d)]
     /\ pbftSent' = pbftSent \cup {m, PbftMsg(e, r, "prepare", d)}
                             \cup PbftCommitSent(e, r, r, d)

PbftHandlePrePrepare(r, d) ==
  LET e == pbft[r]
  IN /\ PbftUndecided(r)
     /\ PbftAvailable(r, PbftMsg(e, LeaderOf(PbftRank, 0), "pre-prepare", d))
     /\ pbft' = [pbft EXCEPT ![r] = PbftAccept(e, r, d)]
     /\ pbftSent' = pbftSent \cup {PbftMsg(e, r, "prepare", d)}
                             \cup PbftCommitSent(e, r, r, d)

PbftHandlePrepare(r, w, d) ==
  LET e == pbft[r]
  IN /\ PbftUndecided(r)
     /\ PbftAvailable(r, PbftMsg(e, w, "prepare", d))
     /\ pbft' = [pbft EXCEPT ![r] = PbftOnPrepare(e, r, w, d)]
     /\ pbftSent' = pbftSent \cup PbftCommitSent(e, r, w, d)

PbftHandleCommit(r, w, d) ==
  /\ PbftUndecided(r)
  /\ PbftAvailable(r, PbftMsg(pbft[r], w, "commit", d))
  /\ pbft' = [pbft EXCEPT ![r] = PbftOnCommit(pbft[r], w, d)]
  /\ UNCHANGED pbftSent

PbftNext ==
  \E r \in Correct, d \in Digest :
    \/ PbftPropose(r, d)
    \/ PbftHandlePrePrepare(r, d)
    \/ \E w \in Replica : PbftHandlePrepare(r, w, d)
    \/ \E w \in Replica : PbftHandleCommit(r, w, d)

PbftSpec == PbftInit /\ [][PbftNext]_pbftVars

-----------------------------------------------------------------------------
(* No two correct replicas execute different digests at one sequence: the  *)
(* promise of the three phases, whatever is reordered (pbft.py:62: "BFT    *)
(* safety needs N >= 3f+1, i.e. N >= 4 for f >= 1").  It holds of Byzantine*)
(* backups; a Byzantine primary breaks it, as _handle_preprepare accepts a *)
(* second pre-prepare of a sequence and the replica commits twice.         *)
PbftAgreement ==
  \A r, w \in Correct, s \in Sequence :
    LET a == pbft[r].executed[s]
        b == pbft[w].executed[s]
    IN a # NoDigest /\ b # NoDigest => a = b

PbftDecisions ==
  [r \in Correct |-> DecisionsOf(pbft[r].executed, 1, pbft[r].sequence)]

PbftLog == INSTANCE ReplicatedLog WITH
             Participant <- Correct, Decision <- Digest, log <- PbftDecisions

(* Under a correct primary the correct replicas implement one replicated   *)
(* log: no sequence number is skipped, executed twice or executed          *)
(* differently, however votes are reordered, repeated or made up.          *)
PbftImplementsLog == PbftLog!Spec
=============================================================================
