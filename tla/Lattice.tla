------------------------------- MODULE Lattice -------------------------------
(***************************************************************************)
(* The engine consensus/dag/lattice.py at every node: a chain of blocks    *)
(* per account, a transfer being a send on one chain and a receive on      *)
(* another, and votes of representatives on competing blocks.  A block is  *)
(* its position among the blocks created; equal blocks have equal hashes   *)
(* and are one.                                                            *)
(***************************************************************************)
EXTENDS Collections

CONSTANTS LatNode, Account,
          Home,              \* Home[a]: the node where a's owner works
          Rep, RepWeight,
          Amount,            \* of a send
          Opening,           \* what an account is opened with
          MaxBlocks          \* bound: blocks that are created

VARIABLES latBlocks,         \* the blocks created so far
          latVotes,          \* <<rep, block>>: votes that were cast
          latShared,         \* accounts their owner uses from every node
          lat                \* lat[n]: the engine of node n

latVars == <<latBlocks, latVotes, latShared, lat>>

NoBlock == 0
LatticeId == 1 .. MaxBlocks

ASSUME LatAssumption == /\ IsFiniteSet(Account) /\ IsFiniteSet(Rep) /\ MaxBlocks \in Nat
                        /\ Home \in [Account -> LatNode]
                        /\ RepWeight \in [Rep -> Nat] /\ \E r \in Rep : RepWeight[r] > 0
                        /\ Amount \subseteq Nat \ {0} /\ Opening \in Nat

(* link: the recipient of a send, the send a receive claims. *)
LatticeBlock ==
  [type : {"open", "send", "receive"}, account : Account,
   previous : LatticeId \cup {NoBlock}, balance : Nat, amount : Nat,
   recipient : Account, source : LatticeId \cup {NoBlock}]

LatTypeOK ==
  /\ latBlocks \in Seq(LatticeBlock)
  /\ latVotes \subseteq Rep \X LatticeId /\ latShared \subseteq Account
  /\ lat \in [LatNode -> [blocks : SUBSET LatticeId, chains : [Account -> Seq(LatticeId)],
                          claimed : SUBSET LatticeId,       \* pending[b] is True
                          votes : SUBSET (Rep \X LatticeId)]]

LatInit ==
  /\ latBlocks = <<>> /\ latVotes = {} /\ latShared \in {{}} \cup {{a} : a \in Account}
  /\ lat = [n \in LatNode |-> [blocks |-> {}, chains |-> [a \in Account |-> <<>>],
                               claimed |-> {}, votes |-> {}]]

-----------------------------------------------------------------------------
RepTotal == SumOver(RepWeight, Rep)
HalfQuorum == RepTotal \div 2            \* faulty variant: half is enough
LatQuorum == RepTotal \div 2 + 1

LatConfirmed(e, b) ==
  SumOver(RepWeight, {r \in Rep : <<r, b>> \in e.votes}) >= LatQuorum

LatHead(e, a) == IF e.chains[a] = <<>> THEN NoBlock ELSE e.chains[a][Len(e.chains[a])]

(* Every application sets the balance of the account to its head's. *)
BalanceOf(e, a) == IF e.chains[a] = <<>> THEN 0 ELSE latBlocks[LatHead(e, a)].balance

(* Faulty variant: a receive does not mark its send. *)
ApplyUnmarked(H, e, b) ==
  LET a == H[b].account
      stored == [e EXCEPT !.blocks = @ \cup {b}]
  IN IF b \in e.blocks THEN e
     ELSE IF H[b].previous # LatHead(e, a) THEN stored
     ELSE [stored EXCEPT !.chains[a] = Append(@, b)]

(* _apply: a block that is not next in its chain is only stored, be it a   *)
(* fork or early.  A send makes its receivable pending, again if a receive *)
(* came before it.                                                         *)
Apply(H, e, b) ==
  LET a == H[b].account
      stored == [e EXCEPT !.blocks = @ \cup {b}]
  IN IF b \in e.blocks THEN e
     ELSE IF H[b].previous # LatHead(e, a) THEN stored
     ELSE [stored EXCEPT !.chains[a] = Append(@, b),
                         !.claimed = CASE H[b].type = "receive" -> @ \cup {H[b].source}
                                       [] H[b].type = "send" -> @ \ {b}
                                       [] OTHER -> @]

-----------------------------------------------------------------------------
(* propose: applied here, then broadcast; a block equal to an old one is   *)
(* that block.                                                             *)
LatPropose(n, block) ==
  /\ n = Home[block.account] \/ block.account \in latShared
  /\ LET old == {b \in DOMAIN latBlocks : latBlocks[b] = block}
         H == IF old = {} THEN Append(latBlocks, block) ELSE latBlocks
     IN /\ Len(H) <= MaxBlocks
        /\ latBlocks' = H
        /\ lat' = [lat EXCEPT ![n] =
                     Apply(H, @, IF old = {} THEN Len(H) ELSE CHOOSE b \in old : TRUE)]
  /\ UNCHANGED <<latVotes, latShared>>

LatOpen(n, a) ==
  /\ lat[n].chains[a] = <<>>
  /\ LatPropose(n, [type |-> "open", account |-> a, previous |-> NoBlock,
                    balance |-> Opening, amount |-> Opening, recipient |-> a,
                    source |-> NoBlock])

(* Faulty variant: the balance is not looked at. *)
LatSendUnchecked(n, a, to, amount) ==
  LatPropose(n, [type |-> "send", account |-> a, previous |-> LatHead(lat[n], a),
                 balance |-> BalanceOf(lat[n], a) - amount, amount |-> amount,
                 recipient |-> to, source |-> NoBlock])

LatSend(n, a, to, amount) ==
  /\ BalanceOf(lat[n], a) >= amount
  /\ LatPropose(n, [type |-> "send", account |-> a, previous |-> LatHead(lat[n], a),
                    balance |-> BalanceOf(lat[n], a) - amount, amount |-> amount,
                    recipient |-> to, source |-> NoBlock])

(* Any account may claim a send the node knows: whom it names is not       *)
(* looked at, only whether this node has seen it claimed.                  *)
LatReceive(n, a, b) ==
  /\ b \in lat[n].blocks \ lat[n].claimed /\ latBlocks[b].type = "send"
  /\ LatPropose(n, [type |-> "receive", account |-> a, previous |-> LatHead(lat[n], a),
                    balance |-> BalanceOf(lat[n], a) + latBlocks[b].amount,
                    amount |-> latBlocks[b].amount, recipient |-> a, source |-> b])

LatObserve(n, b) ==
  /\ b \notin lat[n].blocks
  /\ lat' = [lat EXCEPT ![n] = Apply(latBlocks, @, b)]
  /\ UNCHANGED <<latBlocks, latVotes, latShared>>

Rivals(b) == {c \in DOMAIN latBlocks : /\ latBlocks[c].account = latBlocks[b].account
                                       /\ latBlocks[c].previous = latBlocks[b].previous}

(* A representative, outside the engine, votes once among rivals, and      *)
(* (bound) only where there are any.                                       *)
LatCast(r, b) ==
  /\ Cardinality(Rivals(b)) > 1 /\ \A c \in Rivals(b) : <<r, c>> \notin latVotes
  /\ latVotes' = latVotes \cup {<<r, b>>}
  /\ UNCHANGED <<latBlocks, latShared, lat>>

LatHearVote(n, v) ==
  /\ v \notin lat[n].votes
  /\ lat' = [lat EXCEPT ![n].votes = @ \cup {v}]
  /\ UNCHANGED <<latBlocks, latVotes, latShared>>

LatNext ==
  \/ \E n \in LatNode, a \in Account :
       \/ LatOpen(n, a)
       \/ \E to \in Account, amount \in Amount : LatSend(n, a, to, amount)
       \/ \E b \in DOMAIN latBlocks : LatReceive(n, a, b)
  \/ \E n \in LatNode, b \in DOMAIN latBlocks : LatObserve(n, b)
  \/ \E r \in Rep, b \in DOMAIN latBlocks : LatCast(r, b)
  \/ \E n \in LatNode, v \in latVotes : LatHearVote(n, v)

LatSpec == LatInit /\ [][LatNext]_latVars

-----------------------------------------------------------------------------
(* Accounts of two nodes claim one send: each node marks it as claimed     *)
(* before it hears of the other.                                           *)
LatRaced ==
  \E b, c \in DOMAIN latBlocks :
    /\ latBlocks[b].type = "receive" /\ latBlocks[c].type = "receive"
    /\ latBlocks[b].source = latBlocks[c].source
    /\ Home[latBlocks[b].account] # Home[latBlocks[c].account]

(* Transfers neither make nor lose money while every account is used from  *)
(* one node and no two nodes race for a send: the balances at home and the *)
(* sends nobody has received make up what the accounts were opened with.   *)
(* So a node receives a send once, whichever of its accounts claims it and *)
(* in whatever order blocks arrive.  Two nodes that race make money.       *)
LatConserved ==
  latShared = {} /\ ~LatRaced =>
    LET open == {b \in DOMAIN latBlocks : latBlocks[b].type = "open"}
        unclaimed == {b \in DOMAIN latBlocks :
                        /\ latBlocks[b].type = "send"
                        /\ \A c \in DOMAIN latBlocks :
                             latBlocks[c].type = "receive" => latBlocks[c].source # b}
        amounts == [b \in DOMAIN latBlocks |-> latBlocks[b].amount]
    IN SumOver([a \in Account |-> BalanceOf(lat[Home[a]], a)], Account)
         + SumOver(amounts, unclaimed) = SumOver(amounts, open)

(* Of the blocks that compete for one place of an account's chain the      *)
(* votes confirm at most one, whichever node counts them.                  *)
LatOneConfirmed ==
  \A n, m \in LatNode, b, c \in DOMAIN latBlocks :
    c \in Rivals(b) /\ LatConfirmed(lat[n], b) /\ LatConfirmed(lat[m], c) => b = c
=============================================================================
