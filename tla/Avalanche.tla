------------------------------ MODULE Avalanche ------------------------------
(***************************************************************************)
(* The engine consensus/gossip/avalanche.py at every node: a DAG of        *)
(* transactions in conflict sets, a Snowball step per conflict set.  The   *)
(* driver of the queries is the caller's: it samples K peers, asks each    *)
(* whether it strongly prefers the transaction and records the yes-votes.  *)
(***************************************************************************)
EXTENDS Integers, FiniteSets, FiniteSetsExt

CONSTANTS AvaNode,
          Tx, TxParents, ConflictOf,   \* what a transaction's message says
          NoTx,
          K, AvaQuorum,                \* sample size, ceil(alpha * K)
          Beta1, Beta2,
          MaxSuccess                   \* bound: successful queries per transaction

VARIABLES ava,            \* ava[n]: the engine of node n
          avaSent         \* transactions that have been broadcast

avaVars == <<ava, avaSent>>

Conflict == {ConflictOf[t] : t \in Tx}

ASSUME AvaAssumption ==
  /\ NoTx \notin Tx
  /\ TxParents \in [Tx -> SUBSET Tx]
  /\ AvaQuorum \in 1 .. K /\ {Beta1, Beta2} \subseteq Nat \ {0} /\ MaxSuccess \in Nat

AvaEngine ==
  [known : SUBSET Tx, accepted : SUBSET Tx, d : [Tx -> 0 .. MaxSuccess],
   set : [Conflict -> [members : SUBSET Tx, pref : Tx \cup {NoTx},
                       last : Tx \cup {NoTx}, cnt : Nat]]]

AvaTypeOK == ava \in [AvaNode -> AvaEngine] /\ avaSent \subseteq Tx

AvaInit ==
  /\ ava = [n \in AvaNode |->
              [known |-> {}, accepted |-> {}, d |-> [t \in Tx |-> 0],
               set |-> [c \in Conflict |-> [members |-> {}, pref |-> NoTx,
                                            last |-> NoTx, cnt |-> 0]]]]
  /\ avaSent = {}

-----------------------------------------------------------------------------
(* ancestors: through the vertices the engine knows. *)
AvaAncestors(e, t) ==
  LET up[i \in 0 .. Cardinality(Tx)] ==
        IF i = 0 THEN TxParents[t] \cap e.known
        ELSE up[i - 1] \cup (UNION {TxParents[u] : u \in up[i - 1]} \cap e.known)
  IN up[Cardinality(Tx)]

Preferred(e, t) == e.set[ConflictOf[t]].pref = t

(* respond: whether t is strongly preferred. *)
Respond(e, t) ==
  t \in e.known /\ \A u \in AvaAncestors(e, t) \cup {t} : Preferred(e, u)

AddTx(e, t) ==
  LET c == e.set[ConflictOf[t]]
      joined == [c EXCEPT !.members = @ \cup {t},
                          !.pref = IF @ = NoTx THEN t ELSE @]
  IN [e EXCEPT !.known = @ \cup {t}, !.set[ConflictOf[t]] = joined]

(* _can_accept: an unknown parent does not hold t back, and the counter is *)
(* the conflict set's, whichever member its last successes were for.       *)
CanAccept(e, t, accepted) ==
  LET c == e.set[ConflictOf[t]]
  IN /\ TxParents[t] \cap e.known \subseteq accepted
     /\ c.pref = t
     /\ c.cnt >= IF Cardinality(c.members) = 1 THEN Beta1 ELSE Beta2

(* Goes on until no vertex is accepted any more. *)
TryAcceptAll(e) ==
  LET closed == {A \in SUBSET e.known :
                   /\ e.accepted \subseteq A
                   /\ \A t \in e.known : CanAccept(e, t, A) => t \in A}
  IN [e EXCEPT !.accepted = {t \in e.known : \A A \in closed : t \in A}]

(* Faulty variant: the preference never moves. *)
SucceededStubborn(e, t) ==
  LET c == e.set[ConflictOf[t]]
  IN [e EXCEPT !.d[t] = @ + 1,
               !.set[ConflictOf[t]] =
                 [c EXCEPT !.last = t, !.cnt = IF c.last = t THEN @ + 1 ELSE 1]]

Succeeded(e, t) ==
  LET c == e.set[ConflictOf[t]]
  IN [e EXCEPT !.d[t] = @ + 1,
               !.set[ConflictOf[t]] =
                 [c EXCEPT !.pref = IF e.d[@] <= e.d[t] THEN t ELSE @,
                           !.last = t,
                           !.cnt = IF c.last = t THEN @ + 1 ELSE 1]]

Failed(e, t) == [e EXCEPT !.set[ConflictOf[t]].cnt = 0]

RecordQuery(e, t, yes) ==
  TryAcceptAll(IF yes >= AvaQuorum THEN Succeeded(e, t) ELSE Failed(e, t))

-----------------------------------------------------------------------------
AvaPropose(n, t) ==
  /\ t \notin ava[n].known
  /\ ava' = [ava EXCEPT ![n] = AddTx(@, t)]
  /\ avaSent' = avaSent \cup {t}

AvaObserve(n, t) ==
  /\ t \in avaSent \ ava[n].known
  /\ ava' = [ava EXCEPT ![n] = AddTx(@, t)]
  /\ UNCHANGED avaSent

AvaQuery(n, t, sample) ==
  /\ t \in ava[n].known
  /\ ava[n].d[t] < MaxSuccess
  /\ ava' = [ava EXCEPT ![n] =
               RecordQuery(@, t, Quantify(sample, LAMBDA p : Respond(ava[p], t)))]
  /\ UNCHANGED avaSent

AvaNext ==
  \E n \in AvaNode, t \in Tx :
    \/ AvaPropose(n, t)
    \/ AvaObserve(n, t)
    \/ \E sample \in kSubset(K, AvaNode \ {n}) : AvaQuery(n, t, sample)

AvaSpec == AvaInit /\ [][AvaNext]_avaVars

-----------------------------------------------------------------------------
(* The preference of a conflict set is a member no other member leads in   *)
(* confidence, in whatever order members join and queries succeed; and an  *)
(* accepted transaction won a query, although the counter that accepts it  *)
(* may count the successes of a rival.                                     *)
AvaPreferenceLeads ==
  \A n \in AvaNode, t \in Tx :
    LET e == ava[n]
        c == e.set[ConflictOf[t]]
    IN t \in e.known => /\ c.pref \in c.members
                        /\ e.d[c.pref] >= e.d[t]
                        /\ t \in e.accepted => e.d[t] > 0
=============================================================================
