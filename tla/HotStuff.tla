------------------------------ MODULE HotStuff ------------------------------
(***************************************************************************)
(* The engine consensus/bft/hotstuff.py at the correct replicas: propose,  *)
(* prepare (which locks), pre-commit, commit, one decision per view, the   *)
(* leader rotating with the view.  Re-entrance and delivery as in PBFT.    *)
(***************************************************************************)
EXTENDS ReplicaSet

CONSTANTS HsRank,         \* the sorted list of the replicas
          HsLies,         \* HsLies[r]: what the Byzantine replicas may send r
          HsPipelined,    \* propose may be called again before the decision
          MaxView         \* bound: nothing is proposed above this view

VARIABLES hs,             \* hs[r]: the engine of correct replica r
          hsSent          \* messages the correct replicas have broadcast

hsVars == <<hs, hsSent>>

View == 0 .. MaxView + 1
HsPhase == {"prepare", "pre-commit", "commit"}

HsMessage == [phase : HsPhase \cup {"propose"}, view : View,
              digest : Digest, from : Replica]

ASSUME HsAssumption ==
  /\ HsRank \in SortedList /\ MaxView \in Nat /\ HsPipelined \in BOOLEAN
  /\ HsLies \in [Correct -> SUBSET {m \in HsMessage : m.from \in Byzantine}]

HsEngine == [view : View,
             locked : Digest \cup {NoDigest},
             votes : [HsPhase -> [View -> Ballots]],
             committed : [View -> Digest \cup {NoDigest}]]

HsTypeOK == hs \in [Correct -> HsEngine] /\ hsSent \subseteq HsMessage

HsInit ==
  /\ hs = [r \in Correct |->
             [view |-> 0, locked |-> NoDigest,
              votes |-> [p \in HsPhase |-> [v \in View |-> NoBallots]],
              committed |-> [v \in View |-> NoDigest]]]
  /\ hsSent = {}

-----------------------------------------------------------------------------
HsQuorum == (2 * Size) \div 3 + 1

HsMsg(e, r, phase, d) ==
  [phase |-> phase, view |-> e.view, digest |-> d, from |-> r]

HsCast(e, phase, r, d) == [e EXCEPT !.votes[phase][e.view][r] = d]

(* Faulty variant: a phase goes on with its first vote. *)
HsHasVote(e, phase, d) == Votes(e.votes[phase][e.view], d) > 0

HsHas(e, phase, d) == Votes(e.votes[phase][e.view], d) >= HsQuorum

(* _execute: the lock does not outlive the view. *)
HsExecute(e, d) ==
  [e EXCEPT !.committed[e.view] = d, !.view = @ + 1, !.locked = NoDigest]

HsOnCommit(e, r, d) ==
  LET voted == HsCast(e, "commit", r, d)
  IN IF HsHas(voted, "commit", d) THEN HsExecute(voted, d) ELSE voted

(* _broadcast_phase for commit, pre-commit and prepare: the engine observes *)
(* its own vote, then records it under the view it has reached.             *)
HsOwnCommit(e, me, d) == HsCast(HsOnCommit(e, me, d), "commit", me, d)

HsOnPrecommit(e, me, r, d) ==
  LET voted == HsCast(e, "pre-commit", r, d)
  IN IF HsHas(voted, "pre-commit", d) THEN HsOwnCommit(voted, me, d) ELSE voted

HsOwnPrecommit(e, me, d) ==
  HsCast(HsOnPrecommit(e, me, me, d), "pre-commit", me, d)

(* _handle_prepare: a quorum locks, whatever was locked before. *)
HsOnPrepare(e, me, r, d) ==
  LET voted == HsCast(e, "prepare", r, d)
  IN IF HsHas(voted, "prepare", d)
     THEN HsOwnPrecommit([voted EXCEPT !.locked = d], me, d) ELSE voted

HsOwnPrepare(e, me, d) == HsCast(HsOnPrepare(e, me, me, d), "prepare", me, d)

(* The messages these cascades broadcast on their way. *)
HsCommitSent(e, me, r, d) ==
  IF HsHas(HsCast(e, "pre-commit", r, d), "pre-commit", d)
  THEN {HsMsg(e, me, "commit", d)} ELSE {}

HsPrecommitSent(e, me, r, d) ==
  IF HsHas(HsCast(e, "prepare", r, d), "prepare", d)
  THEN {HsMsg(e, me, "pre-commit", d)} \cup HsCommitSent(e, me, me, d) ELSE {}

-----------------------------------------------------------------------------
HsAvailable(r, m) == m \in hsSent \/ m \in HsLies[r]

HsRunning(r) == hs[r].view <= MaxView

(* propose does not look whether the view has a proposal already: whether  *)
(* its caller waits for the decision is HsPipelined.  The message leaves   *)
(* whether or not the leader's own lock lets it vote.                      *)
HsPropose(r, d) ==
  LET e == hs[r]
      m == HsMsg(e, r, "propose", d)
  IN /\ HsRunning(r)
     /\ r = LeaderOf(HsRank, e.view)
     /\ \/ HsPipelined
        \/ \A x \in Digest : HsMsg(e, r, "propose", x) \notin hsSent
     /\ IF e.locked \in {NoDigest, d}
        THEN /\ hs' = [hs EXCEPT ![r] = HsOwnPrepare(e, r, d)]
             /\ hsSent' = hsSent \cup {m, HsMsg(e, r, "prepare", d)}
                                 \cup HsPrecommitSent(e, r, r, d)
        ELSE hs' = hs /\ hsSent' = hsSent \cup {m}

HsHandlePropose(r, d) ==
  LET e == hs[r]
  IN /\ HsRunning(r)
     /\ HsAvailable(r, HsMsg(e, LeaderOf(HsRank, e.view), "propose", d))
     /\ e.locked \in {NoDigest, d}
     /\ hs' = [hs EXCEPT ![r] = HsOwnPrepare(e, r, d)]
     /\ hsSent' = hsSent \cup {HsMsg(e, r, "prepare", d)}
                         \cup HsPrecommitSent(e, r, r, d)

HsHandlePrepare(r, w, d) ==
  LET e == hs[r]
  IN /\ HsRunning(r)
     /\ HsAvailable(r, HsMsg(e, w, "prepare", d))
     /\ hs' = [hs EXCEPT ![r] = HsOnPrepare(e, r, w, d)]
     /\ hsSent' = hsSent \cup HsPrecommitSent(e, r, w, d)

HsHandlePrecommit(r, w, d) ==
  LET e == hs[r]
  IN /\ HsRunning(r)
     /\ HsAvailable(r, HsMsg(e, w, "pre-commit", d))
     /\ hs' = [hs EXCEPT ![r] = HsOnPrecommit(e, r, w, d)]
     /\ hsSent' = hsSent \cup HsCommitSent(e, r, w, d)

HsHandleCommit(r, w, d) ==
  /\ HsRunning(r)
  /\ HsAvailable(r, HsMsg(hs[r], w, "commit", d))
  /\ hs' = [hs EXCEPT ![r] = HsOnCommit(hs[r], w, d)]
  /\ UNCHANGED hsSent

HsNext ==
  \E r \in Correct, d \in Digest :
    \/ HsPropose(r, d)
    \/ HsHandlePropose(r, d)
    \/ \E w \in Replica : HsHandlePrepare(r, w, d)
    \/ \E w \in Replica : HsHandlePrecommit(r, w, d)
    \/ \E w \in Replica : HsHandleCommit(r, w, d)

HsSpec == HsInit /\ [][HsNext]_hsVars

-----------------------------------------------------------------------------
(* No two correct replicas commit different digests in one view: so it is  *)
(* where a correct leader is asked to propose once in a view, whatever is  *)
(* reordered, and where a Byzantine leader shows its second proposal to a  *)
(* minority.  A leader that votes on both sides breaks it, and so does a   *)
(* correct one asked twice: no replica records that it has voted, and a    *)
(* second quorum of prepares overwrites the lock of the first.             *)
HsAgreement ==
  \A r, w \in Correct, v \in View :
    LET a == hs[r].committed[v]
        b == hs[w].committed[v]
    IN a # NoDigest /\ b # NoDigest => a = b

HsDecisions ==
  [r \in Correct |-> DecisionsOf(hs[r].committed, 0, hs[r].view)]

HsLog == INSTANCE ReplicatedLog WITH
           Participant <- Correct, Decision <- Digest, log <- HsDecisions

(* Where HsAgreement holds (in the run the callers of propose wait for the *)
(* decision) the correct replicas implement one replicated log: no view is *)
(* skipped, committed twice or committed differently.                      *)
HsImplementsLog == HsLog!Spec
=============================================================================
