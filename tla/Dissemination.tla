--------------------------- MODULE Dissemination ---------------------------
(***************************************************************************)
(* What a network of ChaincraftNodes promises to the applications that     *)
(* publish through create_shared_message: a payload enters an application  *)
(* only after it was published somewhere and only after everything its     *)
(* is_valid() needs, and a node logs (stores) only payloads its own        *)
(* application has integrated.  How payloads travel is left open.          *)
(***************************************************************************)
EXTENDS FiniteSets

CONSTANTS Node, Message,
          Requires,     \* Requires[m]: what is_valid(m) needs integrated
          Persistent    \* nodes whose log survives a restart

VARIABLES published,    \* payloads accepted by create_shared_message
          integrated,   \* integrated[n]: payloads in n's shared objects
          stored        \* stored[n]: payloads in n's message database

absVars == <<published, integrated, stored>>

Init == /\ published = {}
        /\ integrated = [n \in Node |-> {}]
        /\ stored = [n \in Node |-> {}]

(* The application of n publishes m. *)
Publish(n, m) ==
  /\ Requires[m] \subseteq integrated[n]
  /\ published' = published \cup {m}
  /\ UNCHANGED <<integrated, stored>>

(* m reaches n's shared objects. *)
Integrate(n, m) ==
  /\ m \in published
  /\ Requires[m] \subseteq integrated[n]
  /\ integrated' = [integrated EXCEPT ![n] = @ \cup {m}]
  /\ UNCHANGED <<published, stored>>

(* n logs m. *)
Store(n, m) ==
  /\ m \in integrated[n]
  /\ stored' = [stored EXCEPT ![n] = @ \cup {m}]
  /\ UNCHANGED <<published, integrated>>

(* n restarts: the shared objects are new, the log is kept or lost. *)
Restart(n) ==
  /\ integrated' = [integrated EXCEPT ![n] = {}]
  /\ stored' = [stored EXCEPT ![n] = IF n \in Persistent THEN @ ELSE {}]
  /\ UNCHANGED published

Next == \E n \in Node : \/ Restart(n)
                        \/ \E m \in Message : \/ Publish(n, m)
                                              \/ Integrate(n, m)
                                              \/ Store(n, m)

Spec == Init /\ [][Next]_absVars

=============================================================================
