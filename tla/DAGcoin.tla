------------------------------- MODULE DAGcoin -------------------------------
(***************************************************************************)
(* The engine consensus/dag/dagcoin.py at every node: a tangle whose       *)
(* transactions are confirmed by the weight of what approves them.  A      *)
(* transaction is its rank among the ids, genesis the first.               *)
(***************************************************************************)
EXTENDS Collections

CONSTANTS DagNode,
          MaxTx,                  \* bound: transactions that are proposed
          Weight, DagConflict,    \* what a proposer says of a transaction
          NoConflict,
          ConfirmationWeight

VARIABLES parents,        \* parents[t]: of each transaction that was broadcast
          dag             \* dag[n]: the engine of node n

dagVars == <<parents, dag>>

Genesis == 0
DagTx == 1 .. MaxTx

ASSUME DagAssumption ==
  /\ MaxTx \in Nat /\ ConfirmationWeight \in Nat \ {0}
  /\ Weight \in [0 .. MaxTx -> Nat \ {0}] /\ Weight[Genesis] = 1
  /\ DagConflict[Genesis] = NoConflict

DagEngine == [txs : SUBSET (0 .. MaxTx), tips : SUBSET (0 .. MaxTx),
              confirmed : SUBSET DagTx,
              lost : SUBSET DagTx]     \* delivered before a parent

DagTypeOK == /\ DOMAIN parents \subseteq DagTx
             /\ \A t \in DOMAIN parents : parents[t] \subseteq 0 .. MaxTx
             /\ dag \in [DagNode -> DagEngine]

DagInit == /\ parents = <<>>
           /\ dag = [n \in DagNode |-> [txs |-> {Genesis}, tips |-> {Genesis},
                                        confirmed |-> {}, lost |-> {}]]

-----------------------------------------------------------------------------
(* cumulative_weight: of t and of what approves it in e, given who the     *)
(* parents of each transaction are: the least set with t and the children  *)
(* of its members.                                                         *)
HasChildren(P, e, A) == \A u \in e.txs \cap DOMAIN P : P[u] \cap A # {} => u \in A
Approvers(P, e, t) ==
  {u \in e.txs : \A A \in SUBSET e.txs : t \in A /\ HasChildren(P, e, A) => u \in A}

CumulativeWeight(P, e, t) == SumOver(Weight, Approvers(P, e, t))

IsConflictLeader(P, e, t) ==
  \A rival \in {u \in e.txs : DagConflict[u] = DagConflict[t]} \ {t} :
    CumulativeWeight(P, e, rival) < CumulativeWeight(P, e, t)

Confirmable(P, e, t) ==
  /\ CumulativeWeight(P, e, t) >= ConfirmationWeight
  /\ DagConflict[t] = NoConflict \/ IsConflictLeader(P, e, t)

(* Faulty variant: looks only at the transactions that a tip approves. *)
ReevaluateTips(P, e) ==
  [e EXCEPT !.confirmed = @ \cup {t \in e.txs \cap DagTx :
     (\E u \in e.tips \cap DOMAIN P : t \in P[u]) /\ Confirmable(P, e, t)}]

Reevaluate(P, e) ==
  [e EXCEPT !.confirmed = @ \cup {t \in e.txs \cap DagTx : Confirmable(P, e, t)}]

SelectTips(e) == {t \in e.tips : Cardinality({u \in e.tips : u < t}) < 2}

DagAddTx(P, e, t) ==
  Reevaluate(P, [e EXCEPT !.txs = @ \cup {t}, !.tips = (@ \ P[t]) \cup {t}])

DagDrop(e, t) == [e EXCEPT !.lost = @ \cup {t}]

-----------------------------------------------------------------------------
(* The proposer names one parent or leaves the choice to select_tips. *)
DagPropose(n, t, named) ==
  /\ t \notin DOMAIN parents
  /\ parents' = [u \in DOMAIN parents \cup {t} |->
                   IF u = t THEN IF named = {} THEN SelectTips(dag[n]) ELSE named
                   ELSE parents[u]]
  /\ dag' = [dag EXCEPT ![n] = DagAddTx(parents', @, t)]

(* observe: a transaction with an unknown parent is dropped, and the node  *)
(* below, which keeps its payload, never hands it over again.              *)
DagObserve(n, t) ==
  /\ t \in DOMAIN parents \ (dag[n].txs \cup dag[n].lost)
  /\ dag' = [dag EXCEPT ![n] = IF parents[t] \subseteq @.txs
                               THEN DagAddTx(parents, @, t)
                               ELSE DagDrop(@, t)]
  /\ UNCHANGED parents

DagNext ==
  \E n \in DagNode, t \in DagTx :
    \/ \E named \in {{}} \cup {{u} : u \in dag[n].txs} : DagPropose(n, t, named)
    \/ DagObserve(n, t)

DagSpec == DagInit /\ [][DagNext]_dagVars

-----------------------------------------------------------------------------
(* Confirmation does not depend on the order of arrival where there is no  *)
(* conflict: nodes that know the same transactions confirm the same ones,  *)
(* and a confirmed transaction's ancestors are confirmed.  Nor does what   *)
(* select_tips offers: the tips are the transactions nothing known         *)
(* approves.                                                               *)
DagOrderFree ==
  \A n, m \in DagNode :
    LET free(e) == {t \in e.confirmed : DagConflict[t] = NoConflict}
    IN /\ dag[n].txs = dag[m].txs => free(dag[n]) = free(dag[m])
       /\ \A t \in dag[n].confirmed :
            \A u \in parents[t] \ {Genesis} :
              DagConflict[u] = NoConflict => u \in dag[n].confirmed
       /\ dag[n].tips = {t \in dag[n].txs :
                           \A u \in dag[n].txs \cap DOMAIN parents : t \notin parents[u]}
=============================================================================
