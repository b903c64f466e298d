------------------------------ MODULE ChatRoom ------------------------------
(***************************************************************************)
(* protocols/chat: one room of a ChatGroup at every node, and the adapter  *)
(* ChatroomObject of examples/chatroom_protocol.py before it.  Users sign  *)
(* what they send, one user at each node.  The application thread of a     *)
(* node and its listener each ask is_valid first and call add_message      *)
(* later; messages come in any order, more than once or never, and a       *)
(* node's own ones come back to it before it has stored them.              *)
(***************************************************************************)
EXTENDS Collections

CONSTANTS
  User, NoAdmin,             \* NoAdmin: the administrator of a room that is not there
  Stamp,                    \* timestamps: a user's messages of one kind differ in them
  MaxSaid                   \* bound: messages broadcast

VARIABLES
  policy,                   \* the membership policy of the group
  room,                     \* room[n]: the room at node n
  seen,                     \* seen[n]: _seen_message_ids of the room's name at n
  speaking,                 \* speaking[n]: the message in create_shared_message
  listening,                \* listening[n]: the one the listener found valid
  spoken,                   \* messages broadcast so far
  heard                     \* heard[n]: messages in the database of n

chatVars == <<policy, room, seen, speaking, listening, spoken, heard>>

ASSUME ChatAssumption == NoAdmin \notin User /\ MaxSaid \in Nat

Policy == {"open", "invite", "admin_approval"}
ChatMessage == [action : {"CREATE", "JOIN", "POST"}, actor : User, timestamp : Stamp]
               \cup [action : {"ACCEPT"}, actor : User, member : User, timestamp : Stamp]

ChatTypeOK ==
  /\ policy \in Policy
  /\ room \in [User -> [admin : User \cup {NoAdmin}, members : SUBSET User,
                        messages : Seq(ChatMessage)]]
  /\ seen \in [User -> SUBSET ChatMessage] /\ heard \in [User -> SUBSET ChatMessage]
  /\ speaking \in [User -> SUBSET ChatMessage] /\ listening \in [User -> SUBSET ChatMessage]
  /\ spoken \subseteq ChatMessage
  /\ \A n \in User : Len(room[n].messages) = Cardinality(ToSet(room[n].messages))

ChatInit ==
  /\ policy \in Policy
  /\ room = [n \in User |-> [admin |-> NoAdmin, members |-> {}, messages |-> <<>>]]
  /\ seen = [n \in User |-> {}] /\ heard = [n \in User |-> {}]
  /\ speaking = [n \in User |-> {}] /\ listening = [n \in User |-> {}]
  /\ spoken = {}
-----------------------------------------------------------------------------
Exists(r) == r.admin # NoAdmin

(* The three policies agree on who may join; under admin_approval the      *)
(* administrator must accept itself to post.                               *)
MayJoin(r, actor) == actor \notin r.members

(* Faulty variant: whoever asked to join may post. *)
MayPostAfterJoin(r, actor) ==
  \/ actor \in r.members \/ (actor = r.admin /\ policy # "admin_approval")
  \/ \E m \in ToSet(r.messages) : m.action = "JOIN" /\ m.actor = actor

MayPost(r, actor) ==
  actor \in r.members \/ (actor = r.admin /\ policy # "admin_approval")

(* is_valid of ChatroomObject. *)
ChatroomValid(r, m) ==
  CASE m.action = "CREATE" -> ~Exists(r)
    [] m.action = "JOIN"   -> Exists(r) /\ MayJoin(r, m.actor)
    [] m.action = "ACCEPT" -> Exists(r) /\ m.actor = r.admin
    [] m.action = "POST"   -> Exists(r) /\ MayPost(r, m.actor)

(* is_valid of ChatGroup: may_create is true under every policy. *)
ChatValid(r, m) == ChatroomValid(r, m)

(* _append: a message with an id the room has seen is not added again. *)
AppendOnce(s, known, m) == IF m \in known THEN s ELSE Append(s, m)

(* add_message: a creation replaces the room, though not the ids seen in it. *)
Chatted(r, known, m) ==
  CASE m.action = "CREATE" ->
         [admin |-> m.actor, members |-> IF policy = "open" THEN {m.actor} ELSE {},
          messages |-> AppendOnce(<<>>, known, m)]
    [] m.action = "JOIN" ->
         [r EXCEPT !.members = @ \cup (IF policy = "open" THEN {m.actor} ELSE {}),
                   !.messages = AppendOnce(@, known, m)]
    [] m.action = "ACCEPT" -> [r EXCEPT !.members = @ \cup {m.member},
                                        !.messages = AppendOnce(@, known, m)]
    [] m.action = "POST" -> [r EXCEPT !.messages = AppendOnce(@, known, m)]

Add(n, m) == /\ room' = [room EXCEPT ![n] = Chatted(@, seen[n], m)]
             /\ seen' = [seen EXCEPT ![n] = @ \cup {m}]
-----------------------------------------------------------------------------
(* create_shared_message: the verdict, the addition and broadcast, the     *)
(* database.                                                               *)
Judge(n, m) ==
  /\ m.actor = n /\ m \notin spoken /\ speaking[n] = {}
  /\ Cardinality(spoken) < MaxSaid
  /\ ChatValid(room[n], m)
  /\ speaking' = [speaking EXCEPT ![n] = {m}]
  /\ UNCHANGED <<policy, room, seen, listening, spoken, heard>>

Say(n, m) ==
  /\ m \in speaking[n] \ spoken
  /\ Add(n, m)
  /\ spoken' = spoken \cup {m}
  /\ UNCHANGED <<policy, speaking, listening, heard>>

Save(n, m) ==
  /\ m \in speaking[n] \cap spoken
  /\ heard' = [heard EXCEPT ![n] = @ \cup {m}]
  /\ speaking' = [speaking EXCEPT ![n] = {}]
  /\ UNCHANGED <<policy, room, seen, listening, spoken>>

(* handle_message: the look-up and the verdict, the addition.  Invalid     *)
(* messages are not stored, and are judged again when they come again.     *)
Hear(n, m) ==
  /\ m \in spoken \ heard[n] /\ listening[n] = {}
  /\ ChatValid(room[n], m)
  /\ listening' = [listening EXCEPT ![n] = {m}]
  /\ UNCHANGED <<policy, room, seen, speaking, spoken, heard>>

AddHeard(n, m) ==
  /\ m \in listening[n]
  /\ Add(n, m)
  /\ heard' = [heard EXCEPT ![n] = @ \cup {m}]
  /\ listening' = [listening EXCEPT ![n] = {}]
  /\ UNCHANGED <<policy, speaking, spoken>>

ChatNext ==
  \E n \in User, m \in ChatMessage :
    Judge(n, m) \/ Say(n, m) \/ Save(n, m) \/ Hear(n, m) \/ AddHeard(n, m)

ChatSpec == ChatInit /\ [][ChatNext]_chatVars
-----------------------------------------------------------------------------
(* What entitles m to stand in the messages s of a room at place k: the    *)
(* creator of the room accepts members, and a post comes after its author  *)
(* was accepted ("Rooms require admin approval to join", membership.py),   *)
(* is the creator's own, or its author's who joined an open room.          *)
Entitled(s, k, m, known) ==
  CASE m.action = "POST" ->
         \/ \E j \in 1 .. k - 1 : s[j].action = "ACCEPT" /\ s[j].member = m.actor
         \/ m.actor = s[1].actor /\ policy # "admin_approval"
         \/ policy = "open" /\ \E x \in known : x.action = "JOIN" /\ x.actor = m.actor
    [] m.action = "ACCEPT" -> m.actor = s[1].actor
    [] OTHER -> TRUE

(* Creations judged side by side replace the room while a verdict about    *)
(* the room of before is waiting: that lets one message into the new room  *)
(* that nothing there entitles, never two, however threads and messages    *)
(* interleave.  Where a node knows one creation there is none: a post then *)
(* stands only after what made its author a member, although membership    *)
(* changes between verdict and addition.                                   *)
ChatPostsByMembers ==
  \A n \in User :
    LET s == room[n].messages
        stray == {k \in DOMAIN s : ~Entitled(s, k, s[k], seen[n])}
    IN /\ \A i, k \in stray : i = k
       /\ stray # {} => \E x, y \in seen[n] : x.action = "CREATE" /\ y.action = "CREATE" /\ x # y
=============================================================================
