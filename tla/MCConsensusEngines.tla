------------------------- MODULE MCConsensusEngines -------------------------
(* Small instances of the engines: four replicas of which one lies, two or *)
(* three nodes for the others.                                             *)
EXTENDS ConsensusEngines, TLC

CONSTANTS r1, r2, r3, r4, d1, d2,      \* replicas, digests
          n1, n2, n3, none,            \* nodes
          t1, t2, t3                   \* Avalanche's transactions

(* PBFT's primary is correct, HotStuff's first leader is not. *)
MCPbftRank == (0 :> r1) @@ (1 :> r2) @@ (2 :> r3) @@ (3 :> r4)
MCHsRank == (0 :> r4) @@ (1 :> r1) @@ (2 :> r2) @@ (3 :> r3)

(* What r4 tells each of the others: it votes for d2 while they may decide *)
(* d1.                                                                     *)
Lie(p, s, d) == [phase |-> p, sequence |-> s, digest |-> d, from |-> r4]
MCPbftLies == (r1 :> {}) @@ (r2 :> {Lie("pre-prepare", 1, d2), Lie("commit", 1, d1)}) @@
              (r3 :> {Lie("commit", 1, d2)})

ViewLie(p, v, d) == [phase |-> p, view |-> v, digest |-> d, from |-> r4]
MCHsLies == (r1 :> {ViewLie("propose", 0, d1)}) @@
            (r2 :> {ViewLie("propose", 0, d1), ViewLie("propose", 0, d2)}) @@
            (r3 :> {ViewLie("propose", 0, d1)})

(* t1 and t2 are rivals, t3 builds on t2. *)
MCTxParents == (t1 :> {}) @@ (t2 :> {}) @@ (t3 :> {t2})
MCConflictOf == (t1 :> 1) @@ (t2 :> 1) @@ (t3 :> 3)

(* Members are interchangeable: n1 creates the first event, n2 its first   *)
(* before n3.                                                              *)
MCFirstEvents ==
  \A i \in DOMAIN hgEvents :
    LET before(m) == \E j \in 1 .. i - 1 : hgEvents[j].creator = m
    IN /\ hgEvents[i].creator = n2 => before(n1)
       /\ hgEvents[i].creator = n3 => before(n2)

(* Hashes fall in an order of their own. *)
MCHashRank == <<3, 4, 2, 1>>
MCBlockRank == <<3, 4, 2, 1>>
MCBeaconRank == <<2, 3, 1>>

MCWeight == [t \in 0 .. 4 |-> IF t = 2 THEN 2 ELSE 1]
MCDagConflict == [t \in 0 .. 4 |-> IF t \in {2, 3} THEN 1 ELSE none]

MCHome == (t1 :> n1) @@ (t2 :> n2)
MCRepWeight == (r1 :> 1) @@ (r2 :> 1)

MCSnowStart == {<<n1, "red">>, <<n2, "blue">>}
=============================================================================
