---------------------------- MODULE ReplicatedLog ----------------------------
(***************************************************************************)
(* What the BFT engines of consensus/bft promise: every participant keeps  *)
(* a log of decisions, one entry per height, sequence number or view, that *)
(* only grows by one entry at a time, and an entry never differs from the  *)
(* one another participant has in its place ("no two correct nodes ever    *)
(* commit different values at the same height", tendermint.py).  How a     *)
(* decision comes about is left open: leaders, votes, quorums and the      *)
(* network are the business of Tendermint, PBFT and HotStuff.              *)
(***************************************************************************)
EXTENDS Naturals, Sequences

CONSTANTS Participant,    \* the correct ones
          Decision        \* what can be decided

VARIABLE log              \* log[p]: the decisions of p, oldest first

Init == log = [p \in Participant |-> <<>>]

(* p decides d, which no one's entry in that place contradicts. *)
Decide(p, d) ==
  /\ log' = [log EXCEPT ![p] = Append(@, d)]
  /\ \A q \in Participant :
       Len(log[q]) > Len(log[p]) => log[q][Len(log[p]) + 1] = d

Next == \E p \in Participant, d \in Decision : Decide(p, d)

Spec == Init /\ [][Next]_log

-----------------------------------------------------------------------------
(* Of two participants' logs one is a prefix of the other. *)
Consistent ==
  \A p, q \in Participant :
    \A i \in 1 .. Len(log[p]) : i <= Len(log[q]) => log[p][i] = log[q][i]
=============================================================================
