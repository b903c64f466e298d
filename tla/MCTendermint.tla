---------------------------- MODULE MCTendermint ----------------------------
(* Instances of Tendermint for TLC. *)
EXTENDS Tendermint, TLC

CONSTANTS v1, v2, v3, v4, A, B

Four == {v1, v2, v3, v4}

(* Proposers of heights 0, 1, 2, 3: v1 leads height 1. *)
FourOrder == (0 :> v4) @@ (1 :> v1) @@ (2 :> v2) @@ (3 :> v3)

(* Everything v1 may say of value x at height h, and its votes alone. *)
Votes(h, x) == {Prevote(h, v1, x), Precommit(h, v1, x)}
Says(h, x) == Votes(h, x) \cup {Proposal(h, v1, x)}

(* The leader v1 of height 1 stands for A before v2 and v3 and for B       *)
(* before v4; at height 2, led by v2, it votes for A.                      *)
TwoFaced == (v2 :> Says(1, A) \cup Votes(2, A))
              @@ (v3 :> Says(1, A) \cup Votes(2, A))
              @@ (v4 :> Says(1, B) \cup Votes(2, A))

(* The leader proposes A to v2 and v3 and B to v4, but votes for A.        *)
Favourite ==
  (v2 :> Says(1, A)) @@ (v3 :> Says(1, A))
    @@ (v4 :> Votes(1, A) \cup {Proposal(1, v1, B)})
=============================================================================
