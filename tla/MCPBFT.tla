------------------------------- MODULE MCPBFT -------------------------------
(* Four replicas, as many as one Byzantine replica needs, and it is the    *)
(* primary: it shows r1 one digest, r2 the other and r3 both, and votes as *)
(* it speaks.                                                              *)
EXTENDS PBFT, TLC

CONSTANTS r1, r2, r3, r4, d1, d2, none

MCPbftRank == (0 :> r4) @@ (1 :> r1) @@ (2 :> r2) @@ (3 :> r3)

Says(phases, digests) ==
  [phase : phases, sequence : {1}, digest : digests, from : {r4}]
MCPbftLies ==
  (r1 :> Says({"pre-prepare", "prepare", "commit"}, {d1})) @@
  (r2 :> Says({"pre-prepare", "prepare", "commit"}, {d2})) @@
  (r3 :> Says({"pre-prepare", "prepare"}, {d1, d2}))
=============================================================================
