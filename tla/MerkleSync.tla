----------------------------- MODULE MerkleSync -----------------------------
(***************************************************************************)
(* Merkelized objects kept equal by gossip and by digests: MerkelizedObject*)
(* and its subclasses Blockchain, DAGObject and TransactionChain of        *)
(* core_objects.py at every node, and the loop of node.py that broadcasts  *)
(* the latest digest and has peers send what came after it.  A post is a   *)
(* message with its place in posts for a digest.  Datagrams may be late or *)
(* never arrive; one to a node that has its post would change nothing and  *)
(* is left out.  A post that is refused strikes its sender and is not     *)
(* stored, so that it may be offered again.                                *)
(***************************************************************************)
EXTENDS Collections

CONSTANTS SyncNode, MaxPosts, MaxRequests   \* bounds: posts, update requests

VARIABLES object,       \* the class of the shared object
          posts,        \* posts[i]: the parents of post i
          log,          \* log[n]: _digests of node n
          sent,         \* [to, post]: posts under way
          asked         \* [to, from, digest]: update requests under way

syncVars == <<object, posts, log, sent, asked>>

MerkleClass == {"Blockchain", "DAGObject", "TransactionChain"}
Post == 1 .. MaxPosts

ASSUME SyncAssumption == MaxPosts \in Nat

SyncTypeOK ==
  /\ object \in MerkleClass
  /\ posts \in Seq(SUBSET Post)
  /\ log \in [SyncNode -> Seq(Post)]
  /\ sent \subseteq [to : SyncNode, post : Post]
  /\ asked \subseteq [to : SyncNode, from : SyncNode, digest : SUBSET Post]
  /\ \A n \in SyncNode : Cardinality(ToSet(log[n])) = Len(log[n])

SyncInit ==
  /\ object \in MerkleClass /\ posts = <<>>
  /\ log = [n \in SyncNode |-> <<>>]
  /\ sent = {} /\ asked = {}
-----------------------------------------------------------------------------
(* _record_merkelized_message: the parents of a new post are heads no      *)
(* more, and it is one whether or not a child came before it.              *)
Heads(P, l) == FoldLeft(LAMBDA heads, p : (heads \ P[p]) \cup {p}, {}, l)

(* get_latest_digest: the frontier of a DAGObject, else the last post, {}  *)
(* standing for "".                                                        *)
LatestDigest(P, l) ==
  IF object = "DAGObject" THEN Heads(P, l)
  ELSE IF l = <<>> THEN {} ELSE {Last(l)}

(* is_valid of a Blockchain: a block names the last one. *)
NamesLast(P, l, p) == P[p] = LatestDigest(P, l)

(* is_valid of a DAGObject: a post attaches to present heads only. *)
AttachesToHeads(P, l, p) == P[p] \subseteq Heads(P, l)

(* is_valid of the classes; a TransactionChain takes every dict. *)
Acceptable(P, l, p) ==
  \/ object = "Blockchain" /\ NamesLast(P, l, p)
  \/ object = "DAGObject" /\ AttachesToHeads(P, l, p)
  \/ object = "TransactionChain"

(* has_digest: where in the log l a digest stands, and -1 where it does    *)
(* not.  Only a DAGObject knows the digest of the beginning.               *)
DigestIndex(P, l, digest) ==
  LET at == {i \in 0 .. Len(l) : LatestDigest(P, SubSeq(l, 1, i)) = digest}
  IN IF at = {} \/ (digest = {} /\ object # "DAGObject") THEN -1
     ELSE CHOOSE i \in at : \A j \in at : j <= i

(* Faulty variant: the index is one too high. *)
SinceSkipsOne(P, l, digest) ==
  LET i == DigestIndex(P, l, digest)
  IN IF i = -1 THEN <<>> ELSE SubSeq(l, i + 2, Len(l))

(* is_valid_digest and get_messages_since_digest. *)
Since(P, l, digest) ==
  LET i == DigestIndex(P, l, digest)
  IN IF i = -1 THEN <<>> ELSE SubSeq(l, i + 1, Len(l))

Posted(p, N) == [to : N, post : {p}]
-----------------------------------------------------------------------------
(* create_shared_message of a post built on this node's object: a block on *)
(* the last one, a DAG post on some of the heads.                          *)
Publish(n, parents) ==
  /\ Len(posts) < MaxPosts
  /\ LET p == Len(posts) + 1
         P == Append(posts, parents)
     IN /\ Acceptable(P, log[n], p)
        /\ object = "TransactionChain" => parents = {}
        /\ posts' = P
        /\ log' = [log EXCEPT ![n] = Append(@, p)]
        /\ sent' = sent \cup Posted(p, SyncNode \ {n})
  /\ UNCHANGED <<object, asked>>

(* handle_message: a stored post is dropped, an acceptable one is          *)
(* recorded, stored and broadcast.                                         *)
HandlePost(n, p) ==
  /\ [to |-> n, post |-> p] \in sent
  /\ LET rest == sent \ Posted(p, {n})
     IN IF p \notin ToSet(log[n]) /\ Acceptable(posts, log[n], p)
        THEN /\ log' = [log EXCEPT ![n] = Append(@, p)]
             /\ sent' = rest \cup Posted(p, {m \in SyncNode \ {n} : p \notin ToSet(log[m])})
        ELSE sent' = rest /\ UNCHANGED log
  /\ UNCHANGED <<object, posts, asked>>

(* check_for_merkelized_objects, and request_shared_object_update by       *)
(* broadcast.                                                              *)
RequestUpdate(n) ==
  /\ Cardinality(asked) < MaxRequests
  /\ asked' = asked \cup [to : SyncNode \ {n}, from : {n},
                          digest : {LatestDigest(posts, log[n])}]
  /\ asked' # asked
  /\ UNCHANGED <<object, posts, log, sent>>

(* _handle_shared_object_update_request: the answer goes to the node that  *)
(* asks, as posts like any other.                                          *)
AnswerUpdate(n, r) ==
  /\ r \in asked /\ r.to = n
  /\ asked' = asked \ {r}
  /\ sent' = sent \cup {[to |-> r.from, post |-> p] :
                          p \in ToSet(Since(posts, log[n], r.digest)) \ ToSet(log[r.from])}
  /\ UNCHANGED <<object, posts, log>>

SyncNext ==
  \E n \in SyncNode :
    \/ \E parents \in SUBSET ToSet(log[n]) : Publish(n, parents)
    \/ \E p \in Post : HandlePost(n, p)
    \/ RequestUpdate(n)
    \/ \E r \in asked : AnswerUpdate(n, r)

SyncSpec == SyncInit /\ [][SyncNext]_syncVars
-----------------------------------------------------------------------------
Replay(P, l, s) ==
  FoldLeft(LAMBDA m, p : IF Acceptable(P, m, p) /\ p \notin ToSet(m)
                         THEN Append(m, p) ELSE m, l, s)

(* A peer that recognises a node's latest digest has exactly what the node *)
(* is missing: taken in order, its answer is accepted post by post and     *)
(* brings the node up to the peer, although the two logs may have grown in *)
(* different orders.  (A TransactionChain takes its posts in any order, so *)
(* that a digest says nothing of what came before.)                        *)
SyncBringsUpToDate ==
  object # "TransactionChain" =>
    \A n \in SyncNode : \A m \in SyncNode :
      LET digest == LatestDigest(posts, log[n])
      IN DigestIndex(posts, log[m], digest) # -1 =>
           ToSet(Replay(posts, log[n], Since(posts, log[m], digest))) = ToSet(log[m])
=============================================================================
