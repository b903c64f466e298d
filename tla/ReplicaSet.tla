----------------------------- MODULE ReplicaSet -----------------------------
(***************************************************************************)
(* The replicas of the BFT engines pbft and hotstuff and their vote        *)
(* tables.  A digest stands for the value it is the hash of; a table keeps *)
(* the last vote of each replica.  Byzantine replicas say anything under   *)
(* their own names.                                                        *)
(***************************************************************************)
EXTENDS Integers, FiniteSets

CONSTANTS Replica, Byzantine,
          Digest, NoDigest

Size == Cardinality(Replica)

ASSUME ReplicaAssumption ==
  /\ IsFiniteSet(Replica) /\ Size > 0
  /\ Byzantine \subseteq Replica
  /\ NoDigest \notin Digest

Correct == Replica \ Byzantine

(* primary_for and leader_for, given the sorted list of the replicas. *)
SortedList == [0 .. Size - 1 -> Replica]
LeaderOf(rank, view) == rank[view % Size]

Ballots == [Replica -> Digest \cup {NoDigest}]
NoBallots == [r \in Replica |-> NoDigest]

Votes(table, d) == Cardinality({r \in Replica : table[r] = d})

(* The decisions of an engine: its entries from the first one up to the    *)
(* one it works on.                                                        *)
DecisionsOf(table, first, next) ==
  [i \in 1 .. next - first |-> table[first + i - 1]]
=============================================================================
