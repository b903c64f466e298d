----------------------------- MODULE EngineProofs -----------------------------
(***************************************************************************)
(* Proofs about fork choice and the two engines on top of it: what the     *)
(* chain of a block is, that a node's canonical chain ends in the best     *)
(* block it knows, and what follows for mined chains and for the beacon.   *)
(* At the end, what is proved of each engine, of all as one system.        *)
(***************************************************************************)
EXTENDS ConsensusEngines, ReplicaProofs, GossipEngineProofs

(* The ways through a tree from its root.  The last of each is its name.   *)
Ways(f, N, par) == PathsIn(f, N, par, <<Root>>)

WayEnd(f, N, b) ==
  /\ f[b] \in Seq(0 .. N) /\ Len(f[b]) \in Nat /\ Len(f[b]) >= 1
  /\ f[b][Len(f[b])] = b
  /\ b \in ToSet(f[b]) /\ Root \in ToSet(f[b]) /\ ToSet(f[b]) \subseteq 0 .. b
  /\ Len(f[b]) = 1 <=> b = Root

LEMMA WayEnds ==
  ASSUME NEW N \in Nat, NEW par, ParentsFirst(par, N), NEW f, Ways(f, N, par)
  PROVE  \A b \in 0 .. N : WayEnd(f, N, b)
<1>1. PICK P : P = {b \in 0 .. N :
           /\ b \in ToSet(f[b]) /\ Root \in ToSet(f[b]) /\ ToSet(f[b]) \subseteq 0 .. b}
  OBVIOUS
<1>2. f[0] = <<0>>
  BY DEF Ways, PathsIn, Root
<1>3. ToSet(f[0]) = {0}
  <2>1. DOMAIN <<0>> = {1} /\ <<0>>[1] = 0
    OBVIOUS
  <2> QED
    BY <1>2, <2>1 DEF ToSet
<1>4. 0 \in P
  BY <1>1, <1>3 DEF Root
<1>5. ASSUME NEW b \in 1 .. N
      PROVE  /\ par[b] \in 0 .. b - 1 /\ par[b] \in 0 .. N /\ b \in 0 .. N
             /\ f[par[b]] \in Seq(0 .. N) /\ f[b] = Append(f[par[b]], b)
             /\ ToSet(f[b]) = ToSet(f[par[b]]) \cup {b}
  <2>1. par[b] \in 0 .. b - 1 /\ par[b] \in 0 .. N /\ b \in 0 .. N
    BY DEF ParentsFirst
  <2>2. f[par[b]] \in Seq(0 .. N) /\ f[b] = Append(f[par[b]], b)
    BY <2>1 DEF Ways, PathsIn
  <2> QED
    BY <2>1, <2>2, MembersAppend
<1>6. ASSUME NEW b \in 1 .. N, par[b] \in P PROVE b \in P
  <2>1. par[b] \in 0 .. b - 1 /\ ToSet(f[b]) = ToSet(f[par[b]]) \cup {b}
    BY <1>5
  <2>2. Root \in ToSet(f[par[b]]) /\ ToSet(f[par[b]]) \subseteq 0 .. par[b]
    BY <1>1, <1>6
  <2>3. 0 .. par[b] \subseteq 0 .. b /\ b \in 0 .. b /\ b \in 0 .. N
    BY <2>1
  <2> QED
    BY <1>1, <2>1, <2>2, <2>3
<1>7. \A b \in 0 .. N : b \in P
  BY <1>4, <1>6, EveryChild
<1>8. ASSUME NEW b \in 1 .. N
      PROVE  /\ f[b] \in Seq(0 .. N) /\ Len(f[b]) \in Nat /\ Len(f[b]) > 1
             /\ f[b][Len(f[b])] = b
  <2>1. PICK s \in Seq(0 .. N) : s = f[par[b]]
    BY <1>5
  <2>2. f[b] = Append(s, b) /\ b \in 0 .. N
    BY <1>5, <2>1
  <2>3. Root \in ToSet(s)
    BY <1>1, <1>5, <1>7, <2>1
  <2>4. Len(s) \in Nat /\ Len(s) # 0
    BY <2>3 DEF ToSet
  <2> QED
    BY <2>2, <2>4
<1>9. /\ f[0] \in Seq(0 .. N) /\ Len(f[0]) = 1 /\ f[0][1] = 0
  BY <1>2
<1> QED
  BY <1>1, <1>7, <1>8, <1>9 DEF Root, WayEnd

(* Each block on a way stands where its own way ends, after its parent.    *)
LEMMA WayPositions ==
  ASSUME NEW N \in Nat, NEW par, ParentsFirst(par, N), NEW f, Ways(f, N, par)
  PROVE  \A b \in 0 .. N : \A i \in 1 .. Len(f[b]) :
           /\ f[b][i] \in 0 .. N /\ Len(f[f[b][i]]) = i
           /\ i > 1 => f[b][i] # Root /\ par[f[b][i]] = f[b][i - 1]
<1>1. PICK P : P = {b \in 0 .. N : \A i \in 1 .. Len(f[b]) :
           /\ f[b][i] \in 0 .. N /\ Len(f[f[b][i]]) = i
           /\ i > 1 => f[b][i] # Root /\ par[f[b][i]] = f[b][i - 1]}
  OBVIOUS
<1>2. 0 \in P
  <2>1. f[0] = <<0>> /\ 0 \in 0 .. N
    BY DEF Ways, PathsIn, Root
  <2>2. Len(f[0]) = 1 /\ f[0][1] = 0
    BY <2>1
  <2>3. ASSUME NEW i \in 1 .. Len(f[0])
        PROVE  /\ f[0][i] \in 0 .. N /\ Len(f[f[0][i]]) = i
               /\ i > 1 => f[0][i] # Root /\ par[f[0][i]] = f[0][i - 1]
    <3>1. i = 1 /\ ~ (i > 1)
      BY <2>2
    <3>2. f[0][i] = 0
      BY <2>2, <3>1
    <3> QED
      BY <2>1, <2>2, <3>1, <3>2
  <2> QED
    BY <1>1, <2>1, <2>3
<1>3. ASSUME NEW b \in 1 .. N, par[b] \in P PROVE b \in P
  <2>1. PICK p \in 0 .. N : p = par[b]
    BY DEF ParentsFirst
  <2>2. PICK s \in Seq(0 .. N) : s = f[p]
    BY DEF Ways, PathsIn
  <2>3. f[b] = Append(s, b) /\ b \in 0 .. N
    BY <2>1, <2>2 DEF Ways, PathsIn
  <2>4. /\ Len(s) \in Nat /\ Len(s) >= 1 /\ s[Len(s)] = p
        /\ Len(f[b]) = Len(s) + 1 /\ f[b][Len(s) + 1] = b
        /\ \A i \in 1 .. Len(s) : f[b][i] = s[i]
    <3>1. WayEnd(f, N, p)
      BY WayEnds
    <3> QED
      BY <2>2, <2>3, <3>1 DEF WayEnd
  <2>5. ASSUME NEW i \in 1 .. Len(s)
        PROVE  /\ s[i] \in 0 .. N /\ Len(f[s[i]]) = i
               /\ i > 1 => s[i] # Root /\ par[s[i]] = s[i - 1]
    BY <1>1, <1>3, <2>1, <2>2
  <2>6. ASSUME NEW i \in 1 .. Len(f[b])
        PROVE  /\ f[b][i] \in 0 .. N /\ Len(f[f[b][i]]) = i
               /\ i > 1 => f[b][i] # Root /\ par[f[b][i]] = f[b][i - 1]
    <3>1. CASE i \in 1 .. Len(s)
      <4>1. i > 1 => i - 1 \in 1 .. Len(s)
        BY <3>1, <2>4
      <4> QED
        BY <3>1, <4>1, <2>4, <2>5
    <3>2. CASE i = Len(s) + 1
      <4>1. i - 1 = Len(s) /\ Len(s) \in 1 .. Len(s)
        BY <3>2, <2>4
      <4>2. f[b][Len(s)] = p
        BY <4>1, <2>4
      <4>3. f[b][i] = b /\ Len(f[b]) = i /\ f[b][i - 1] = p
        BY <3>2, <4>1, <4>2, <2>4
      <4> QED
        BY <4>3, <2>1, <2>3 DEF Root
    <3> QED
      BY <3>1, <3>2, <2>4
  <2> QED
    BY <1>1, <2>3, <2>6
<1>4. \A b \in 0 .. N : b \in P
  BY <1>2, <1>3, EveryChild
<1> QED
  BY <1>1, <1>4

(* A set that has the parent of each of its members.                       *)
Rooted(S, N, par) == Root \in S /\ \A b \in 1 .. N : b \in S => par[b] \in S

LEMMA WayInside ==
  ASSUME NEW N \in Nat, NEW par, ParentsFirst(par, N), NEW f, Ways(f, N, par),
         NEW S, Rooted(S, N, par)
  PROVE  \A b \in 0 .. N : b \in S => ToSet(f[b]) \subseteq S
<1>1. PICK P : P = {b \in 0 .. N : b \in S => ToSet(f[b]) \subseteq S}
  OBVIOUS
<1>2. 0 \in P
  <2>1. 0 \in 0 .. N
    OBVIOUS
  <2>2. WayEnd(f, N, 0)
    BY <2>1, WayEnds
  <2>3. ToSet(f[0]) \subseteq {0} /\ 0 \in S
    BY <2>2 DEF Rooted, Root, WayEnd
  <2> QED
    BY <1>1, <2>1, <2>3
<1>3. ASSUME NEW b \in 1 .. N, par[b] \in P PROVE b \in P
  <2>1. PICK p \in 0 .. N : p = par[b]
    BY DEF ParentsFirst
  <2>2. PICK s \in Seq(0 .. N) : s = f[p]
    BY DEF Ways, PathsIn
  <2>3. f[b] = Append(s, b) /\ b \in 0 .. N
    BY <2>1, <2>2 DEF Ways, PathsIn
  <2>4. ToSet(f[b]) = ToSet(s) \cup {b}
    BY <2>3, MembersAppend
  <2>5. b \in S => ToSet(s) \subseteq S
    BY <1>1, <1>3, <2>1, <2>2 DEF Rooted
  <2> QED
    BY <1>1, <2>3, <2>4, <2>5
<1>4. \A b \in 0 .. N : b \in P
  BY <1>2, <1>3, EveryChild
<1> QED
  BY <1>1, <1>4

LEMMA WayRooted ==
  ASSUME NEW N \in Nat, NEW par, ParentsFirst(par, N), NEW f, Ways(f, N, par),
         NEW a \in 0 .. N
  PROVE  Rooted(ToSet(f[a]), N, par)
<1> WayEnd(f, N, a)
  BY WayEnds
<1>1. PICK s \in Seq(0 .. N) : s = f[a]
  BY DEF WayEnd
<1>2. Root \in ToSet(s)
  BY <1>1 DEF WayEnd
<1>3. ASSUME NEW b \in 1 .. N, b \in ToSet(s) PROVE par[b] \in ToSet(s)
  <2>1. PICK i \in 1 .. Len(s) : s[i] = b
    BY <1>3 DEF ToSet
  <2>2. Len(f[b]) = i /\ (i > 1 => par[b] = s[i - 1])
    BY <1>1, <2>1, WayPositions
  <2>3. i # 1
    <3>1. b \in 0 .. N /\ b # Root
      BY DEF Root
    <3>2. WayEnd(f, N, b)
      BY <3>1, WayEnds
    <3> QED
      BY <2>2, <3>1, <3>2 DEF WayEnd
  <2>4. i > 1 /\ i - 1 \in 1 .. Len(s)
    BY <2>3
  <2> QED
    BY <2>2, <2>4 DEF ToSet
<1> QED
  BY <1>1, <1>2, <1>3 DEF Rooted

LEMMA WayNamed ==
  ASSUME NEW N \in Nat, NEW par, ParentsFirst(par, N), NEW f, Ways(f, N, par),
         NEW a \in 0 .. N, NEW b \in 0 .. N, ToSet(f[a]) = ToSet(f[b])
  PROVE  a = b
<1>1. WayEnd(f, N, a) /\ WayEnd(f, N, b)
  BY WayEnds
<1>2. a \in 0 .. b /\ b \in 0 .. a
  BY <1>1 DEF WayEnd
<1> QED
  BY <1>2

(* What a way and such a set have in common is the way to some block, and  *)
(* the rest of the way comes after it.                                     *)
Cut(f, N, S, b, m) ==
  /\ Only(f[b], S) = f[m]
  /\ ToSet(f[m]) = ToSet(f[b]) \cap S
  /\ f[m] \o Only(f[b], (0 .. N) \ S) = f[b]

LEMMA WayCut ==
  ASSUME NEW N \in Nat, NEW par, ParentsFirst(par, N), NEW f, Ways(f, N, par),
         NEW S, Rooted(S, N, par)
  PROVE  \A b \in 0 .. N : \E m \in 0 .. N : Cut(f, N, S, b, m)
<1>1. PICK P : P = {b \in 0 .. N : \E m \in 0 .. N : Cut(f, N, S, b, m)}
  OBVIOUS
<1>2. PICK rest : rest = (0 .. N) \ S
  OBVIOUS
<1>3. ASSUME NEW b \in 0 .. N, b \in S PROVE Cut(f, N, S, b, b)
  <2>1. PICK s \in Seq(0 .. N) : s = f[b]
    BY WayEnds DEF WayEnd
  <2>2. ToSet(s) \subseteq S
    BY <1>3, <2>1, WayInside
  <2>3. Only(s, S) = s
    BY <2>2, OnlyAll
  <2>4. Only(s, rest) = <<>>
    <3>1. ToSet(s) \cap rest = {}
      BY <1>2, <2>2
    <3> QED
      BY <3>1, OnlyNone
  <2>5. s \o <<>> = s
    OBVIOUS
  <2> QED
    BY <1>2, <2>1, <2>2, <2>3, <2>4, <2>5 DEF Cut
<1>4. 0 \in P
  <2>1. 0 \in S /\ 0 \in 0 .. N
    BY DEF Rooted, Root
  <2>2. Cut(f, N, S, 0, 0)
    BY <1>3, <2>1
  <2> QED
    BY <1>1, <2>1, <2>2
<1>5. ASSUME NEW b \in 1 .. N, par[b] \in P PROVE b \in P
  <2>1. CASE b \in S
    BY <1>1, <1>3, <2>1
  <2>2. CASE b \notin S
    <3>1. PICK p \in 0 .. N : p = par[b]
      BY DEF ParentsFirst
    <3>2. PICK s \in Seq(0 .. N) : s = f[p]
      BY DEF Ways, PathsIn
    <3>3. f[b] = Append(s, b) /\ b \in 0 .. N
      BY <3>1, <3>2 DEF Ways, PathsIn
    <3>4. PICK m \in 0 .. N : Cut(f, N, S, p, m)
      BY <1>1, <1>5, <3>1
    <3>5. PICK k \in Seq(0 .. N) : k = f[m]
      BY WayEnds DEF WayEnd
    <3>6. PICK t \in Seq(0 .. N) : t = Only(s, rest)
      BY OnlyProperties
    <3>7. Only(s, S) = k /\ ToSet(k) = ToSet(s) \cap S /\ k \o t = s
      BY <1>2, <3>2, <3>4, <3>5, <3>6 DEF Cut
    <3>8. Only(f[b], S) = k
      BY <2>2, <3>3, <3>7, OnlyAppend
    <3>9. Only(f[b], rest) = Append(t, b)
      <4>1. b \in rest
        BY <1>2, <2>2, <3>3
      <4>2. Only(Append(s, b), rest) = IF b \in rest THEN Append(Only(s, rest), b)
                                                     ELSE Only(s, rest)
        BY <3>3, OnlyAppend
      <4> QED
        BY <3>3, <3>6, <4>1, <4>2
    <3>10. ToSet(k) = ToSet(f[b]) \cap S
      <4>1. ToSet(Append(s, b)) = ToSet(s) \cup {b}
        BY MembersAppend
      <4>2. ToSet(f[b]) = ToSet(s) \cup {b}
        BY <3>3, <4>1
      <4> QED
        BY <2>2, <3>7, <4>2
    <3>11. k \o Append(t, b) = Append(k \o t, b)
      <4>1. k \in Seq(0 .. N) /\ t \in Seq(0 .. N) /\ b \in 0 .. N
        OBVIOUS
      <4> QED
        BY <4>1, AppendInside
    <3>12. Cut(f, N, S, b, m)
      BY <1>2, <3>3, <3>5, <3>7, <3>8, <3>9, <3>10, <3>11 DEF Cut
    <3> QED
      BY <1>1, <3>3, <3>12
  <2> QED
    BY <2>1, <2>2
<1>6. \A b \in 0 .. N : b \in P
  BY <1>4, <1>5, EveryChild
<1> QED
  BY <1>1, <1>6

(* From one way to another: drop what is only in the first, then append    *)
(* what is only in the second.                                             *)
Rewritten(y, r, e, x) ==
  /\ Only(y, ToSet(y) \ ToSet(r)) \o e = x
  /\ ToSet(r) \subseteq ToSet(y)

LEMMA WayRewritten ==
  ASSUME NEW N \in Nat, NEW par, ParentsFirst(par, N), NEW f, Ways(f, N, par),
         NEW a \in 0 .. N, NEW b \in 0 .. N
  PROVE  Rewritten(f[a], Only(f[a], ToSet(f[a]) \ ToSet(f[b])),
                   Only(f[b], ToSet(f[b]) \ ToSet(f[a])), f[b])
<1> PICK y : y = f[a]
  OBVIOUS
<1> PICK x : x = f[b]
  OBVIOUS
<1> PICK r : r = Only(y, ToSet(y) \ ToSet(x))
  OBVIOUS
<1> PICK e : e = Only(x, ToSet(x) \ ToSet(y))
  OBVIOUS
<1>1. y \in Seq(0 .. N) /\ x \in Seq(0 .. N)
  BY WayEnds DEF WayEnd
<1>2. PICK X : X = ToSet(x)
  OBVIOUS
<1>3. PICK Y : Y = ToSet(y)
  OBVIOUS
<1>4. Rooted(X, N, par) /\ Rooted(Y, N, par)
  BY <1>2, <1>3, WayRooted
<1>5. X \subseteq 0 .. N /\ Y \subseteq 0 .. N
  BY <1>1, <1>2, <1>3, MembersCounted
<1>6. ToSet(r) = Y \ X
  <2>1. ToSet(r) = Y \cap (Y \ X)
    BY <1>1, <1>2, <1>3, OnlyProperties
  <2> QED
    BY <2>1
<1>7. Only(y, Y \ ToSet(r)) = Only(y, X)
  <2>1. PICK Z : Z = Y \ ToSet(r)
    OBVIOUS
  <2>2. ToSet(y) \cap Z = ToSet(y) \cap X
    BY <1>3, <1>6, <2>1
  <2>3. y \in Seq(0 .. N)
    BY <1>1
  <2>4. Only(y, Z) = Only(y, X)
    BY <2>2, <2>3, OnlyAgree
  <2> QED
    BY <2>1, <2>4
<1>8. e = Only(x, (0 .. N) \ Y)
  <2>1. PICK Z : Z = X \ Y
    OBVIOUS
  <2>2. PICK W : W = (0 .. N) \ Y
    OBVIOUS
  <2>3. ToSet(x) \cap Z = ToSet(x) \cap W
    BY <1>2, <1>5, <2>1, <2>2
  <2>4. x \in Seq(0 .. N)
    BY <1>1
  <2>5. Only(x, Z) = Only(x, W)
    BY <2>3, <2>4, OnlyAgree
  <2> QED
    BY <1>2, <1>3, <2>1, <2>2, <2>5
<1>9. PICK m \in 0 .. N : Cut(f, N, X, a, m)
  BY <1>4, WayCut
<1>10. PICK k \in 0 .. N : Cut(f, N, Y, b, k)
  BY <1>4, WayCut
<1>11. m = k
  <2>1. ToSet(f[m]) = Y \cap X /\ ToSet(f[k]) = X \cap Y
    BY <1>2, <1>3, <1>9, <1>10 DEF Cut
  <2>2. ToSet(f[m]) = ToSet(f[k])
    BY <2>1
  <2> QED
    BY <2>2, WayNamed
<1>12. Only(y, X) = f[m] /\ f[k] \o Only(x, (0 .. N) \ Y) = x
  BY <1>9, <1>10 DEF Cut
<1>13. Rewritten(y, r, e, x)
  BY <1>3, <1>6, <1>7, <1>8, <1>11, <1>12 DEF Rewritten
<1> QED
  BY <1>13

-----------------------------------------------------------------------------
(* A table of blocks: each names an earlier one as its parent, and no two  *)
(* have the same id.                                                       *)
ParentIn(B) == [b \in 1 .. Len(B) |-> B[b].parent]

BlockTable(B) ==
  /\ Len(B) \in Nat
  /\ \A b \in 1 .. Len(B) : B[b].parent \in 0 .. b - 1 /\ B[b].rank \in Nat
  /\ \A a, b \in 1 .. Len(B) : B[a].rank = B[b].rank => a = b

(* The ways through the table, which are what ChainTo computes.            *)
WaysTo(f, B) ==
  /\ ParentsFirst(ParentIn(B), Len(B))
  /\ Ways(f, Len(B), ParentIn(B))
  /\ \A b \in 0 .. Len(B) : ChainTo(B, b) = f[b]

LEMMA TableWays ==
  ASSUME NEW B, BlockTable(B)
  PROVE  \E f : WaysTo(f, B)
<1>1. PICK N \in Nat : N = Len(B)
  BY DEF BlockTable
<1>2. PICK par : par = ParentIn(B)
  OBVIOUS
<1>3. ParentsFirst(par, N)
  BY <1>1, <1>2 DEF ParentsFirst, ParentIn, BlockTable
<1>4. <<Root>> \in Seq(0 .. N)
  BY DEF Root
<1>5. PICK f : PathsIn(f, N, par, <<Root>>)
  BY <1>3, <1>4, PathsExist
<1>6. \A b \in 1 .. N : par[b] = B[b].parent /\ par[b] \in 0 .. N
  BY <1>1, <1>2, <1>3 DEF ParentIn, ParentsFirst
<1>7. f = [b \in 0 .. N |-> IF b = Root THEN <<Root>> ELSE Append(f[B[b].parent], b)]
  <2>1. ASSUME NEW b \in 0 .. N
        PROVE  f[b] = IF b = Root THEN <<Root>> ELSE Append(f[B[b].parent], b)
    <3>1. CASE b = Root
      BY <1>5, <3>1 DEF PathsIn, Root
    <3>2. CASE b # Root
      <4>1. b \in 1 .. N
        BY <3>2 DEF Root
      <4>2. f[b] = Append(f[par[b]], b)
        BY <1>5, <4>1 DEF PathsIn
      <4> QED
        BY <1>6, <3>2, <4>1, <4>2
    <3> QED
      BY <3>1, <3>2
  <2>2. f \in [0 .. N -> Seq(0 .. N)]
    BY <1>5 DEF PathsIn
  <2> QED
    BY <2>1, <2>2
<1>8. PICK to : to = CHOOSE g : g = [b \in 0 .. N |->
                       IF b = Root THEN <<Root>> ELSE Append(g[B[b].parent], b)]
  OBVIOUS
<1>9. to = [b \in 0 .. N |->
                       IF b = Root THEN <<Root>> ELSE Append(to[B[b].parent], b)]
  BY <1>7, <1>8
<1>10. PICK P : P = {b \in 0 .. N : to[b] = f[b]}
  OBVIOUS
<1>11. 0 \in P
  BY <1>5, <1>9, <1>10 DEF PathsIn, Root
<1>12. ASSUME NEW b \in 1 .. N, par[b] \in P PROVE b \in P
  <2>1. to[b] = Append(to[B[b].parent], b)
    <3>1. b \in 0 .. N /\ b # Root
      BY DEF Root
    <3> QED
      BY <1>9, <3>1
  <2>2. f[b] = Append(f[par[b]], b)
    BY <1>5 DEF PathsIn
  <2>3. to[par[b]] = f[par[b]] /\ B[b].parent = par[b] /\ b \in 0 .. N
    BY <1>6, <1>10, <1>12
  <2>4. to[b] = f[b]
    BY <2>1, <2>2, <2>3
  <2> QED
    BY <1>10, <2>3, <2>4
<1>13. \A b \in 0 .. N : b \in P
  BY <1>3, <1>11, <1>12, EveryChild
<1>14. \A b \in 0 .. N : ChainTo(B, b) = to[b]
  BY <1>1, <1>8 DEF ChainTo
<1>15. WaysTo(f, B)
  BY <1>1, <1>2, <1>3, <1>5, <1>10, <1>13, <1>14 DEF WaysTo, Ways
<1> QED
  BY <1>15

(* Heights: one more than the parent's, and only the root has none.        *)
HeightFact(B, b) ==
  /\ HeightIn(B, b) \in 0 .. b
  /\ HeightIn(B, b) = 0 <=> b = Root
  /\ b # Root => HeightIn(B, b) = HeightIn(B, B[b].parent) + 1

LEMMA TableHeights ==
  ASSUME NEW B, BlockTable(B)
  PROVE  \A b \in 0 .. Len(B) : HeightFact(B, b)
<1>1. PICK f : WaysTo(f, B)
  BY TableWays
<1>2. PICK N \in Nat : N = Len(B)
  BY DEF BlockTable
<1>3. PICK par : par = ParentIn(B)
  OBVIOUS
<1>4. ParentsFirst(par, N) /\ Ways(f, N, par)
  BY <1>1, <1>2, <1>3 DEF WaysTo
<1>5. \A b \in 0 .. N : WayEnd(f, N, b)
  BY <1>4, WayEnds
<1>6. \A b \in 0 .. N : HeightIn(B, b) = Len(f[b]) - 1
  BY <1>1, <1>2 DEF HeightIn, WaysTo
<1>7. PICK P : P = {b \in 0 .. N : Len(f[b]) <= b + 1}
  OBVIOUS
<1>8. 0 \in P
  <2>1. WayEnd(f, N, 0) /\ 0 \in 0 .. N
    BY <1>5
  <2> QED
    BY <1>7, <2>1 DEF WayEnd, Root
<1>9. ASSUME NEW b \in 1 .. N
      PROVE  /\ par[b] = B[b].parent /\ par[b] \in 0 .. N /\ par[b] < b
             /\ Len(f[b]) = Len(f[par[b]]) + 1 /\ Len(f[par[b]]) \in Nat
  <2>1. par[b] = B[b].parent /\ par[b] \in 0 .. N /\ par[b] < b
    BY <1>2, <1>3, <1>4 DEF ParentsFirst, ParentIn
  <2>2. PICK s \in Seq(0 .. N) : s = f[par[b]]
    BY <1>5, <2>1 DEF WayEnd
  <2>3. f[b] = Append(s, b)
    BY <1>4, <2>2 DEF Ways, PathsIn
  <2> QED
    BY <2>1, <2>2, <2>3
<1>10. ASSUME NEW b \in 1 .. N, par[b] \in P PROVE b \in P
  BY <1>7, <1>9, <1>10
<1>11. \A b \in 0 .. N : b \in P
  BY <1>4, <1>8, <1>10, EveryChild
<1>12. ASSUME NEW b \in 0 .. N PROVE HeightFact(B, b)
  <2>1. WayEnd(f, N, b) /\ Len(f[b]) <= b + 1 /\ HeightIn(B, b) = Len(f[b]) - 1
    BY <1>5, <1>6, <1>7, <1>11
  <2>2. ASSUME b # Root PROVE HeightIn(B, b) = HeightIn(B, B[b].parent) + 1
    <3>1. b \in 1 .. N
      BY <2>2 DEF Root
    <3>2. /\ par[b] = B[b].parent /\ par[b] \in 0 .. N
          /\ Len(f[b]) = Len(f[par[b]]) + 1 /\ Len(f[par[b]]) \in Nat
      BY <1>9, <3>1
    <3>3. HeightIn(B, par[b]) = Len(f[par[b]]) - 1
      BY <1>6, <3>2
    <3> QED
      BY <2>1, <3>2, <3>3
  <2> QED
    BY <2>1, <2>2 DEF WayEnd, HeightFact
<1> QED
  BY <1>2, <1>12

(* A new block leaves the ways to the others alone.                        *)
Grown(B, C) ==
  /\ BlockTable(C) /\ Len(C) = Len(B) + 1
  /\ \A b \in 1 .. Len(B) : C[b] = B[b]
  /\ \A b \in 0 .. Len(B) : ChainTo(C, b) = ChainTo(B, b)
                            /\ HeightIn(C, b) = HeightIn(B, b)

LEMMA TableGrows ==
  ASSUME NEW B, BlockTable(B), NEW X, B \in Seq(X),
         NEW x \in X, x.parent \in 0 .. Len(B), x.rank \in Nat,
         \A b \in 1 .. Len(B) : B[b].rank # x.rank
  PROVE  Grown(B, Append(B, x))
<1> PICK C : C = Append(B, x)
  OBVIOUS
<1>1. PICK N \in Nat : N = Len(B)
  BY DEF BlockTable
<1>2. /\ Len(C) = N + 1 /\ C[N + 1] = x
      /\ \A b \in 1 .. N : C[b] = B[b]
  BY <1>1
<1>3. BlockTable(C)
  <2>1. ASSUME NEW b \in 1 .. N + 1 PROVE C[b].parent \in 0 .. b - 1 /\ C[b].rank \in Nat
    <3>1. CASE b \in 1 .. N
      BY <1>1, <1>2, <3>1 DEF BlockTable
    <3>2. CASE b = N + 1
      BY <1>1, <1>2, <3>2
    <3>3. b \in 1 .. N \/ b = N + 1
      OBVIOUS
    <3> QED
      BY <3>1, <3>2, <3>3
  <2>2. ASSUME NEW a \in 1 .. N + 1, NEW b \in 1 .. N + 1, C[a].rank = C[b].rank
        PROVE  a = b
    <3>1. CASE a \in 1 .. N /\ b \in 1 .. N
      BY <1>1, <1>2, <2>2, <3>1 DEF BlockTable
    <3>2. CASE a = N + 1 /\ b \in 1 .. N
      BY <1>1, <1>2, <2>2, <3>2
    <3>3. CASE a \in 1 .. N /\ b = N + 1
      BY <1>1, <1>2, <2>2, <3>3
    <3> QED
      BY <3>1, <3>2, <3>3
  <2> QED
    BY <1>2, <2>1, <2>2 DEF BlockTable
<1>4. PICK M \in Nat : M = Len(C)
  BY <1>2
<1>5. PICK f : WaysTo(f, B)
  BY TableWays
<1>6. PICK g : WaysTo(g, C)
  BY <1>3, TableWays
<1>7. PICK par : par = ParentIn(B)
  OBVIOUS
<1>8. PICK q : q = ParentIn(C)
  OBVIOUS
<1>9. \A b \in 1 .. N : q[b] = par[b]
  BY <1>1, <1>2, <1>7, <1>8 DEF ParentIn
<1>10. /\ ParentsFirst(par, N) /\ PathsIn(f, N, par, <<Root>>)
       /\ ParentsFirst(q, M) /\ PathsIn(g, M, q, <<Root>>)
  BY <1>1, <1>4, <1>5, <1>6, <1>7, <1>8 DEF WaysTo, Ways
<1>11. M >= N
  BY <1>2, <1>4
<1>12. \A b \in 0 .. N : g[b] = f[b]
  BY <1>9, <1>10, <1>11, PathsUnique
<1>13. \A b \in 0 .. N : ChainTo(B, b) = f[b]
  BY <1>1, <1>5 DEF WaysTo
<1>14. \A b \in 0 .. M : ChainTo(C, b) = g[b]
  BY <1>4, <1>6 DEF WaysTo
<1>15. \A b \in 0 .. N : b \in 0 .. M
  BY <1>11
<1>16. \A b \in 0 .. N : ChainTo(C, b) = ChainTo(B, b)
  BY <1>12, <1>13, <1>14, <1>15
<1>17. Grown(B, C)
  BY <1>1, <1>2, <1>3, <1>16 DEF HeightIn, Grown
<1> QED
  BY <1>17

(* Any blocks have a best one, and only one.                               *)
LEMMA BestOfSome ==
  ASSUME NEW B, BlockTable(B), NEW T, T # {}, T \subseteq 0 .. Len(B)
  PROVE  \E b \in T : \A d \in T \ {b} : Better(B, b, d)
<1>1. PICK N \in Nat : N = Len(B)
  BY DEF BlockTable
<1>2. PICK h : h = [b \in 0 .. N |-> HeightIn(B, b)]
  OBVIOUS
<1>3. \A b \in T : HeightFact(B, b) /\ b \in 0 .. N /\ h[b] = HeightIn(B, b)
  BY <1>1, <1>2, TableHeights
<1>4. \A b \in T : h[b] \in 0 .. N /\ (h[b] = 0 <=> b = Root)
  BY <1>3 DEF HeightFact
<1>5. PICK g : g = [b \in T |-> N - h[b]]
  OBVIOUS
<1>6. \A b \in T : g[b] \in Nat /\ g[b] = N - h[b]
  BY <1>4, <1>5
<1>7. PICK t \in T : \A d \in T : g[t] <= g[d]
  BY <1>6, Least
<1>8. PICK U : U = {d \in T : h[d] = h[t]}
  OBVIOUS
<1>9. PICK r : r = [d \in U |-> IF d = Root THEN 0 ELSE B[d].rank]
  OBVIOUS
<1>10. \A d \in U : d # Root => d \in 1 .. N
  BY <1>3, <1>8 DEF Root
<1>11. \A d \in U : r[d] \in Nat /\ (d # Root => r[d] = B[d].rank)
  BY <1>1, <1>9, <1>10 DEF BlockTable
<1>12. PICK b \in U : \A d \in U : r[b] <= r[d]
  <2>1. t \in U
    BY <1>8
  <2> QED
    BY <1>11, <2>1, Least
<1>13. b \in T /\ h[b] = h[t]
  BY <1>8
<1>14. ASSUME NEW d \in T \ {b} PROVE Better(B, b, d)
  <2>1. h[d] <= h[b]
    <3>1. g[t] <= g[d] /\ g[t] = N - h[t] /\ g[d] = N - h[d]
      BY <1>6, <1>7
    <3> QED
      BY <1>4, <1>13, <3>1
  <2>2. CASE h[d] < h[b]
    BY <1>3, <1>4, <1>13, <2>2 DEF Better
  <2>3. CASE h[d] = h[b]
    <3>1. d \in U
      BY <1>8, <1>13, <2>3
    <3>2. d # Root /\ b # Root
      BY <1>4, <1>13, <2>3
    <3>3. d \in 1 .. N /\ b \in 1 .. N
      BY <1>10, <3>1, <3>2
    <3>4. B[b].rank <= B[d].rank /\ B[b].rank \in Nat /\ B[d].rank \in Nat
      BY <1>11, <1>12, <3>1, <3>2
    <3>5. B[b].rank # B[d].rank
      BY <1>1, <3>3 DEF BlockTable
    <3> QED
      BY <1>3, <1>13, <2>3, <3>2, <3>4, <3>5 DEF Better
  <2> QED
    BY <1>4, <1>13, <2>1, <2>2, <2>3
<1> QED
  BY <1>13, <1>14

LEMMA BetterOneWay ==
  ASSUME NEW B, BlockTable(B), NEW a \in 0 .. Len(B), NEW b \in 0 .. Len(B)
  PROVE  ~ (Better(B, a, b) /\ Better(B, b, a))
<1>1. HeightIn(B, a) \in Nat /\ HeightIn(B, b) \in Nat
  <2>1. HeightFact(B, a) /\ HeightFact(B, b)
    BY TableHeights
  <2> QED
    BY <2>1 DEF HeightFact, BlockTable
<1>2. \A c \in 0 .. Len(B) : c # Root => B[c].rank \in Nat
  BY DEF BlockTable, Root
<1> QED
  BY <1>1, <1>2 DEF Better

-----------------------------------------------------------------------------
(* What add_block keeps of a chain: with a block it has the block's parent,*)
(* a block that is no tip is lower than some tip, and the canonical chain  *)
(* is the way to the best of the tips.                                     *)
Leads(B, c, t) ==
  /\ t \in c.tips /\ c.canonical = ChainTo(B, t)
  /\ \A d \in c.tips \ {t} : Better(B, t, d)

ChainSound(B, M, c) ==
  /\ c \in ForkAwareChain(M)
  /\ c.nodes \subseteq 0 .. Len(B) /\ Root \in c.nodes /\ c.tips \subseteq c.nodes
  /\ \A b \in c.nodes \ {Root} : B[b].parent \in c.nodes
  /\ \A b \in c.nodes \ c.tips : \E t \in c.tips : HeightIn(B, t) > HeightIn(B, b)
  /\ \E t \in c.tips : Leads(B, c, t)

(* The last of the canonical chain is that tip, and at each place is a     *)
(* block of that height, after its parent.                                 *)
Positions(B, c) ==
  /\ Len(c.canonical) \in Nat /\ Len(c.canonical) >= 1
  /\ \A i \in 1 .. Len(c.canonical) :
       /\ c.canonical[i] \in 0 .. Len(B) /\ HeightIn(B, c.canonical[i]) = i - 1
       /\ i > 1 => c.canonical[i] # Root
                   /\ B[c.canonical[i]].parent = c.canonical[i - 1]

LEMMA LeadingTip ==
  ASSUME NEW B, BlockTable(B), NEW M, NEW c, ChainSound(B, M, c),
         NEW t, Leads(B, c, t)
  PROVE  ChainTip(c) = t /\ t \in 0 .. Len(B) /\ Positions(B, c)
<1>1. PICK f : WaysTo(f, B)
  BY TableWays
<1>2. PICK N \in Nat : N = Len(B)
  BY DEF BlockTable
<1>3. PICK par : par = ParentIn(B)
  OBVIOUS
<1>4. ParentsFirst(par, N) /\ Ways(f, N, par)
  BY <1>1, <1>2, <1>3 DEF WaysTo
<1>5. t \in 0 .. N
  BY <1>2 DEF Leads, ChainSound
<1>6. PICK s \in Seq(0 .. N) : s = f[t]
  BY <1>4, <1>5, WayEnds DEF WayEnd
<1>7. c.canonical = s
  BY <1>1, <1>2, <1>5, <1>6 DEF Leads, WaysTo
<1>8. Len(s) \in Nat /\ Len(s) >= 1 /\ s[Len(s)] = t
  BY <1>4, <1>5, <1>6, WayEnds DEF WayEnd
<1>9. ASSUME NEW i \in 1 .. Len(s)
      PROVE  /\ s[i] \in 0 .. N /\ HeightIn(B, s[i]) = i - 1
             /\ i > 1 => s[i] # Root /\ B[s[i]].parent = s[i - 1]
  <2>1. /\ s[i] \in 0 .. N /\ Len(f[s[i]]) = i
        /\ i > 1 => s[i] # Root /\ par[s[i]] = s[i - 1]
    BY <1>4, <1>5, <1>6, WayPositions
  <2>2. HeightIn(B, s[i]) = i - 1
    BY <1>1, <1>2, <2>1 DEF HeightIn, WaysTo
  <2>3. s[i] # Root => par[s[i]] = B[s[i]].parent
    <3>1. s[i] # Root => s[i] \in 1 .. N
      BY <2>1 DEF Root
    <3> QED
      BY <1>2, <1>3, <3>1 DEF ParentIn
  <2> QED
    BY <2>1, <2>2, <2>3
<1> QED
  BY <1>2, <1>5, <1>7, <1>8, <1>9 DEF ChainTip, Positions

LEMMA SoundIsBest ==
  ASSUME NEW B, BlockTable(B), NEW M, NEW c, ChainSound(B, M, c)
  PROVE  IsBestChain(B, c) /\ Positions(B, c) /\ ChainTip(c) \in c.nodes
<1>1. PICK t : Leads(B, c, t)
  BY DEF ChainSound
<1>2. ChainTip(c) = t /\ t \in 0 .. Len(B) /\ Positions(B, c)
  BY <1>1, LeadingTip
<1>3. ASSUME NEW b \in c.nodes \ {t} PROVE Better(B, t, b)
  <2>1. CASE b \in c.tips
    BY <1>1, <1>3, <2>1 DEF Leads
  <2>2. CASE b \notin c.tips
    <3>1. PICK d \in c.tips : HeightIn(B, d) > HeightIn(B, b)
      BY <1>3, <2>2 DEF ChainSound
    <3>2. /\ HeightIn(B, d) \in Int /\ HeightIn(B, b) \in Int
          /\ HeightIn(B, t) \in Int
      <4>1. HeightFact(B, d) /\ HeightFact(B, b) /\ HeightFact(B, t)
        BY <1>2, TableHeights DEF ChainSound
      <4> QED
        BY <4>1 DEF HeightFact
    <3>3. HeightIn(B, t) >= HeightIn(B, d)
      <4>1. d = t \/ Better(B, t, d)
        BY <1>1 DEF Leads
      <4> QED
        BY <3>2, <4>1 DEF Better
    <3> QED
      BY <3>1, <3>2, <3>3 DEF Better
  <2> QED
    BY <2>1, <2>2
<1>4. t \in c.nodes /\ c.canonical = ChainTo(B, t)
  BY <1>1 DEF Leads, ChainSound
<1> QED
  BY <1>2, <1>3, <1>4 DEF IsBestChain

(* Two that know the same blocks have the same chain.                      *)
LEMMA SoundAgreed ==
  ASSUME NEW B, BlockTable(B), NEW M, NEW c, ChainSound(B, M, c),
         NEW d, ChainSound(B, M, d), c.nodes = d.nodes
  PROVE  c.canonical = d.canonical /\ ChainTip(c) = ChainTip(d)
<1>1. PICK s : s = ChainTip(c)
  OBVIOUS
<1>2. PICK t : t = ChainTip(d)
  OBVIOUS
<1>3. /\ \A b \in c.nodes \ {s} : Better(B, s, b)
      /\ c.canonical = ChainTo(B, s) /\ s \in c.nodes
  BY <1>1, SoundIsBest DEF IsBestChain
<1>4. /\ \A b \in d.nodes \ {t} : Better(B, t, b)
      /\ d.canonical = ChainTo(B, t) /\ t \in d.nodes
  BY <1>2, SoundIsBest DEF IsBestChain
<1>5. s \in 0 .. Len(B) /\ t \in 0 .. Len(B)
  BY <1>3, <1>4 DEF ChainSound
<1>6. s = t
  BY <1>3, <1>4, <1>5, BetterOneWay
<1> QED
  BY <1>1, <1>2, <1>3, <1>4, <1>6

LEMMA EmptyTable ==
  ASSUME NEW M \in Nat
  PROVE  BlockTable(<<>>) /\ ChainSound(<<>>, M, EmptyChain)
<1>1. BlockTable(<<>>) /\ Len(<<>>) = 0
  BY DEF BlockTable
<1>2. PICK f : WaysTo(f, <<>>)
  BY <1>1, TableWays
<1>3. f[0] = <<Root>> /\ ChainTo(<<>>, 0) = f[0]
  BY <1>1, <1>2 DEF WaysTo, Ways, PathsIn
<1>4. PICK c : c = EmptyChain
  OBVIOUS
<1>5. /\ c.nodes = {0} /\ c.tips = {0} /\ c.canonical = <<0>>
  BY <1>4 DEF EmptyChain, Root
<1>6. c \in ForkAwareChain(M)
  <2>1. 0 \in 0 .. M /\ <<0>> \in Seq(0 .. M) /\ <<>> \in Seq(0 .. M)
    OBVIOUS
  <2> QED
    BY <1>4, <2>1 DEF EmptyChain, ForkAwareChain, Root
<1>7. Leads(<<>>, c, 0)
  BY <1>3, <1>5 DEF Leads, Root
<1>8. ChainSound(<<>>, M, c)
  BY <1>1, <1>5, <1>6, <1>7 DEF ChainSound, Root
<1> QED
  BY <1>1, <1>4, <1>8

(* A chain stays what it was when a block is made.                         *)
LEMMA SoundStays ==
  ASSUME NEW B, BlockTable(B), NEW C, Grown(B, C),
         NEW M, NEW c, ChainSound(B, M, c)
  PROVE  ChainSound(C, M, c)
<1> USE DEF Grown
<1>1. PICK N \in Nat : N = Len(B)
  BY DEF BlockTable
<1>2. \A b \in 0 .. N : b \in 0 .. Len(C)
  BY <1>1
<1>3. c \in ForkAwareChain(M) /\ c.nodes \subseteq 0 .. N /\ c.tips \subseteq c.nodes
  BY <1>1 DEF ChainSound
<1>4. \A b \in c.nodes \ {Root} : C[b].parent \in c.nodes
  <2>1. ASSUME NEW b \in c.nodes \ {Root} PROVE b \in 1 .. N
    BY <1>3 DEF Root
  <2> QED
    BY <1>1, <2>1 DEF ChainSound
<1>5. ASSUME NEW b \in c.nodes \ c.tips
      PROVE  \E t \in c.tips : HeightIn(C, t) > HeightIn(C, b)
  <2>1. PICK t \in c.tips : HeightIn(B, t) > HeightIn(B, b)
    BY DEF ChainSound
  <2>2. t \in 0 .. N /\ b \in 0 .. N
    BY <1>3
  <2> QED
    BY <1>1, <2>1, <2>2
<1>6. PICK t : Leads(B, c, t)
  BY DEF ChainSound
<1>7. t \in 0 .. N /\ t \in c.tips /\ c.canonical = ChainTo(C, t)
  BY <1>1, <1>3, <1>6 DEF Leads
<1>8. ASSUME NEW d \in c.tips \ {t} PROVE Better(C, t, d)
  <2>1. d \in 0 .. N /\ Better(B, t, d)
    BY <1>3, <1>6 DEF Leads
  <2>2. HeightIn(C, t) = HeightIn(B, t) /\ HeightIn(C, d) = HeightIn(B, d)
    BY <1>1, <1>7, <2>1
  <2>3. CASE HeightIn(B, t) > HeightIn(B, d)
    BY <2>2, <2>3 DEF Better
  <2>4. CASE HeightIn(B, t) = HeightIn(B, d) /\ d # Root /\ B[t].rank < B[d].rank
    <3>1. HeightFact(B, t) /\ HeightFact(B, d)
      BY <1>1, <1>7, <2>1, TableHeights
    <3>2. t # Root
      BY <2>4, <3>1 DEF HeightFact
    <3>3. t \in 1 .. N /\ d \in 1 .. N
      BY <1>7, <2>1, <2>4, <3>2 DEF Root
    <3> QED
      BY <1>1, <2>2, <2>4, <3>3 DEF Better
  <2> QED
    BY <2>1, <2>3, <2>4 DEF Better
<1>9. Leads(C, c, t)
  BY <1>7, <1>8 DEF Leads
<1>10. c.nodes \subseteq 0 .. Len(C) /\ Root \in c.nodes
  BY <1>2, <1>3 DEF ChainSound
<1> QED
  BY <1>3, <1>4, <1>5, <1>7, <1>9, <1>10 DEF ChainSound

(* add_block.                                                              *)
LEMMA AddBlockSound ==
  ASSUME NEW B, BlockTable(B), NEW M \in Nat, Len(B) <= M,
         NEW c, ChainSound(B, M, c),
         NEW b \in 1 .. Len(B), b \notin c.nodes, B[b].parent \in c.nodes,
         NEW e, e = AddBlock(B, c, b)
  PROVE  /\ ChainSound(B, M, e) /\ e.nodes = c.nodes \cup {b}
         /\ IsRewrite(c, e)
<1>1. PICK N \in Nat : N = Len(B)
  BY DEF BlockTable
<1>2. PICK f : WaysTo(f, B)
  BY TableWays
<1>3. PICK p \in c.nodes : p = B[b].parent
  OBVIOUS
<1>4. PICK T : T = (c.tips \cup {b}) \ {B[b].parent}
  OBVIOUS
<1>5. PICK S : S = c.nodes \cup {b}
  OBVIOUS
<1>6. /\ c \in ForkAwareChain(M) /\ c.nodes \subseteq 0 .. N /\ Root \in c.nodes
      /\ c.tips \subseteq c.nodes
  BY <1>1 DEF ChainSound
<1>7. S \subseteq 0 .. N /\ T \subseteq S /\ b \in T /\ 0 .. N \subseteq 0 .. M
  BY <1>1, <1>3, <1>4, <1>5, <1>6
<1>8. \A d \in T : d \in 0 .. Len(B)
  BY <1>1, <1>7
<1>9. \E d \in T : \A a \in T \ {d} : Better(B, d, a)
  BY <1>7, <1>8, BestOfSome
<1>10. PICK best : best = BestTip(B, c, T)
  OBVIOUS
<1>11. best \in T /\ \A a \in T \ {best} : Better(B, best, a)
  BY <1>9, <1>10 DEF BestTip
<1>12. PICK old : Leads(B, c, old)
  BY DEF ChainSound
<1>13. ChainTip(c) = old /\ old \in 0 .. N
  BY <1>1, <1>12, LeadingTip
<1>14. PICK new \in Seq(0 .. N) : new = ChainTo(B, best)
  <2>1. best \in 0 .. N
    BY <1>7, <1>11
  <2> QED
    BY <1>1, <1>2, <2>1 DEF WaysTo, Ways, PathsIn
<1>15. PICK was \in Seq(0 .. N) : was = c.canonical
  BY <1>1, <1>2, <1>12, <1>13 DEF Leads, WaysTo, Ways, PathsIn
<1>16. PICK grown : grown = [c EXCEPT !.nodes = @ \cup {b}, !.tips = T]
  OBVIOUS
<1>17. PICK add : add = Only(new, ToSet(new) \ ToSet(was))
  OBVIOUS
<1>18. PICK drop : drop = Only(was, ToSet(was) \ ToSet(new))
  OBVIOUS
<1>19. e = IF best = old THEN [grown EXCEPT !.extended = <<>>, !.reverted = <<>>]
           ELSE [grown EXCEPT !.canonical = new, !.extended = add, !.reverted = drop]
  <2>1. e = IF BestTip(B, c, T) = ChainTip(c)
            THEN [grown EXCEPT !.extended = <<>>, !.reverted = <<>>]
            ELSE [grown EXCEPT
                    !.canonical = ChainTo(B, BestTip(B, c, T)),
                    !.extended = Only(ChainTo(B, BestTip(B, c, T)),
                                      ToSet(ChainTo(B, BestTip(B, c, T)))
                                        \ ToSet(c.canonical)),
                    !.reverted = Only(c.canonical,
                                      ToSet(c.canonical)
                                        \ ToSet(ChainTo(B, BestTip(B, c, T))))]
    BY <1>4, <1>16, Zenon DEF AddBlock
  <2> QED
    BY <1>10, <1>13, <1>14, <1>15, <1>17, <1>18, <2>1
<1>20. Seq(0 .. N) \subseteq Seq(0 .. M)
  <2>1. 0 .. N \subseteq 0 .. M
    BY <1>7
  <2> QED
    BY <2>1, SeqMonotonic
<1>21. /\ new \in Seq(0 .. M) /\ add \in Seq(0 .. M) /\ drop \in Seq(0 .. M)
       /\ <<>> \in Seq(0 .. M)
  <2>1. add \in Seq(0 .. N) /\ drop \in Seq(0 .. N)
    BY <1>17, <1>18, OnlyProperties
  <2> QED
    BY <1>20, <2>1
<1>22. /\ e \in ForkAwareChain(M) /\ e.nodes = S /\ e.tips = T
       /\ e.canonical = IF best = old THEN was ELSE new
       /\ e.extended = IF best = old THEN <<>> ELSE add
       /\ e.reverted = IF best = old THEN <<>> ELSE drop
  <2>1. /\ grown \in ForkAwareChain(M) /\ grown.nodes = S /\ grown.tips = T
        /\ grown.canonical = was
    <3>1. S \in SUBSET (0 .. M) /\ T \in SUBSET (0 .. M)
      BY <1>7
    <3> QED
      BY <1>5, <1>6, <1>15, <1>16, <3>1 DEF ForkAwareChain
  <2>2. CASE best = old
    BY <1>19, <1>21, <2>1, <2>2 DEF ForkAwareChain
  <2>3. CASE best # old
    BY <1>19, <1>21, <2>1, <2>3 DEF ForkAwareChain
  <2> QED
    BY <2>2, <2>3
<1>23. Leads(B, e, best)
  <2>1. e.canonical = ChainTo(B, best)
    BY <1>12, <1>14, <1>15, <1>22 DEF Leads
  <2> QED
    BY <1>11, <1>22, <2>1 DEF Leads
<1>24. \A d \in S \ {Root} : B[d].parent \in S
  BY <1>3, <1>5 DEF ChainSound
<1>25. HeightIn(B, b) > HeightIn(B, p) /\ HeightIn(B, b) \in Int
  <2>1. HeightFact(B, b) /\ HeightFact(B, p) /\ b # Root
    BY <1>1, <1>6, TableHeights DEF Root
  <2> QED
    BY <1>3, <2>1 DEF HeightFact
<1>26. ASSUME NEW d \in S \ T PROVE \E t \in T : HeightIn(B, t) > HeightIn(B, d)
  <2>1. d # b /\ d \in c.nodes
    BY <1>5, <1>7
  <2>2. CASE d = p
    BY <1>7, <1>25, <2>2
  <2>3. CASE d # p
    <3>1. d \notin c.tips
      BY <1>3, <1>4, <2>3
    <3>2. PICK t \in c.tips : HeightIn(B, t) > HeightIn(B, d)
      BY <2>1, <3>1 DEF ChainSound
    <3>3. CASE t # p
      BY <1>3, <1>4, <3>2, <3>3
    <3>4. CASE t = p
      <4>1. HeightFact(B, d) /\ HeightFact(B, p)
        BY <1>1, <1>6, <2>1, TableHeights
      <4>2. HeightIn(B, b) > HeightIn(B, d)
        BY <1>25, <3>2, <3>4, <4>1 DEF HeightFact
      <4> QED
        BY <1>7, <4>2
    <3> QED
      BY <3>3, <3>4
  <2> QED
    BY <2>2, <2>3
<1>27. ChainSound(B, M, e)
  BY <1>1, <1>5, <1>6, <1>7, <1>11, <1>22, <1>23, <1>24, <1>26 DEF ChainSound
<1>28. IsRewrite(c, e)
  <2>1. CASE best = old
    <3>1. ToSet(<<>>) = {} /\ ToSet(was) \ {} = ToSet(was)
      BY MembersEmpty
    <3>2. Only(was, ToSet(was)) = was
      BY OnlyAll
    <3>3. was \o <<>> = was
      OBVIOUS
    <3> QED
      BY <1>15, <1>22, <2>1, <3>1, <3>2, <3>3 DEF IsRewrite
  <2>2. CASE best # old
    <3>1. PICK par : par = ParentIn(B)
      OBVIOUS
    <3>2. ParentsFirst(par, N) /\ Ways(f, N, par)
      BY <1>1, <1>2, <3>1 DEF WaysTo
    <3>3. was = f[old] /\ new = f[best] /\ best \in 0 .. N
      BY <1>1, <1>2, <1>7, <1>11, <1>12, <1>13, <1>14, <1>15 DEF Leads, WaysTo
    <3>4. Rewritten(f[old], Only(f[old], ToSet(f[old]) \ ToSet(f[best])),
                    Only(f[best], ToSet(f[best]) \ ToSet(f[old])), f[best])
      BY <1>13, <3>2, <3>3, WayRewritten
    <3>5. Rewritten(was, drop, add, new)
      BY <1>17, <1>18, <3>3, <3>4
    <3> QED
      BY <1>15, <1>22, <2>2, <3>5 DEF IsRewrite, Rewritten
  <2> QED
    BY <2>1, <2>2
<1> QED
  BY <1>5, <1>22, <1>27, <1>28

-----------------------------------------------------------------------------
(* Mined chains.  Every block is valid where it was made: its parent is an *)
(* earlier block and its height one more than the parent's.                *)
MinedBlock == [parent : 0 .. MaxMined, height : Nat, rank : Nat]

MinedSound ==
  /\ mined \in Seq(MinedBlock) /\ Len(mined) \in Nat /\ Len(mined) <= MaxMined
  /\ BlockTable(mined)
  /\ \A b \in 1 .. Len(mined) : mined[b].rank = BlockRank[b]
                                /\ mined[b].height = HeightIn(mined, b)

EngineRecord(r) ==
  /\ r \in [chain : ForkAwareChain(MaxMined), header : {<<>>} \cup Seq(Nat)]
  /\ ChainSound(mined, MaxMined, r.chain)

PowInv ==
  /\ MinedSound
  /\ pow \in [Miner -> [chain : ForkAwareChain(MaxMined), header : {<<>>} \cup Seq(Nat)]]
  /\ \A n \in Miner : EngineRecord(pow[n])

(* A step of fork choice at every node whose blocks change.                *)
PowStep ==
  \A n \in Miner : pow[n].chain.nodes # pow'[n].chain.nodes =>
                     IsRewrite(pow[n].chain, pow'[n].chain)

LEMMA PowStart == PowInit => PowInv
<1> SUFFICES ASSUME PowInit PROVE PowInv
  OBVIOUS
<1>1. mined = <<>> /\ <<>> \in Seq(MinedBlock) /\ Len(<<>>) = 0 /\ MaxMined \in Nat
  BY PowAssumption DEF PowInit
<1>2. BlockTable(<<>>) /\ ChainSound(<<>>, MaxMined, EmptyChain)
  BY <1>1, EmptyTable
<1>3. MinedSound
  BY <1>1, <1>2 DEF MinedSound
<1>4. ASSUME NEW n \in Miner
      PROVE  /\ pow[n] \in [chain : ForkAwareChain(MaxMined), header : {<<>>} \cup Seq(Nat)]
             /\ pow[n].chain = EmptyChain
  BY <1>2 DEF PowInit, ChainSound
<1>5. pow \in [Miner -> [chain : ForkAwareChain(MaxMined), header : {<<>>} \cup Seq(Nat)]]
  BY <1>4 DEF PowInit
<1>6. \A n \in Miner : EngineRecord(pow[n])
  BY <1>1, <1>2, <1>4 DEF EngineRecord
<1> QED
  BY <1>3, <1>5, <1>6 DEF PowInv

(* A step changes the engine of one node.                                  *)
LEMMA PowUpdate ==
  ASSUME PowInv, NEW n \in Miner, NEW row,
         MinedSound', \A m \in Miner : ChainSound(mined', MaxMined, pow[m].chain),
         row \in [chain : ForkAwareChain(MaxMined), header : {<<>>} \cup Seq(Nat)],
         ChainSound(mined', MaxMined, row.chain),
         row.chain = pow[n].chain \/ IsRewrite(pow[n].chain, row.chain),
         pow' = [pow EXCEPT ![n] = row]
  PROVE  PowInv' /\ PowStep
<1>1. /\ pow' \in [Miner -> [chain : ForkAwareChain(MaxMined), header : {<<>>} \cup Seq(Nat)]]
      /\ \A m \in Miner : pow'[m] = IF m = n THEN row ELSE pow[m]
  BY DEF PowInv
<1>2. \A m \in Miner : ChainSound(mined', MaxMined, pow'[m].chain)
  BY <1>1
<1>3. PowInv'
  BY <1>1, <1>2 DEF PowInv, EngineRecord
<1>4. PowStep
  <2>1. ASSUME NEW m \in Miner, pow[m].chain.nodes # pow'[m].chain.nodes
        PROVE  IsRewrite(pow[m].chain, pow'[m].chain)
    BY <1>1, <2>1
  <2> QED
    BY <2>1 DEF PowStep
<1> QED
  BY <1>3, <1>4

LEMMA PowMineKeeps ==
  ASSUME PowInv, NEW n \in Miner, MineReadTip(n) \/ MineReadHeight(n)
  PROVE  PowInv' /\ PowStep
<1>1. PICK head \in Seq(Nat) : pow' = [pow EXCEPT ![n].header = head]
  <2>1. CASE MineReadTip(n)
    <3>1. ChainSound(mined, MaxMined, pow[n].chain) /\ BlockTable(mined)
      BY DEF PowInv, EngineRecord, MinedSound
    <3>2. ChainTip(pow[n].chain) \in pow[n].chain.nodes
      BY <3>1, SoundIsBest
    <3>3. ChainTip(pow[n].chain) \in Nat
      BY <3>1, <3>2 DEF ChainSound, BlockTable
    <3>4. <<ChainTip(pow[n].chain)>> \in Seq(Nat)
      BY <3>3
    <3> QED
      BY <2>1, <3>4 DEF MineReadTip
  <2>2. CASE MineReadHeight(n)
    <3>1. ChainSound(mined, MaxMined, pow[n].chain) /\ BlockTable(mined)
      BY DEF PowInv, EngineRecord, MinedSound
    <3>2. Len(pow[n].chain.canonical) \in Nat /\ Len(pow[n].chain.canonical) >= 1
      BY <3>1, SoundIsBest DEF Positions
    <3>3. ChainHeight(pow[n].chain) + 1 \in Nat
      BY <3>2 DEF ChainHeight
    <3>4. pow[n].header \in Seq(Nat)
      <4>1. <<>> \in Seq(Nat)
        OBVIOUS
      <4> QED
        BY <4>1 DEF PowInv
    <3>5. Append(pow[n].header, ChainHeight(pow[n].chain) + 1) \in Seq(Nat)
      BY <3>3, <3>4
    <3>6. pow' = [pow EXCEPT ![n].header =
                    Append(pow[n].header, ChainHeight(pow[n].chain) + 1)]
      BY <2>2 DEF MineReadHeight, PowInv
    <3> QED
      BY <3>5, <3>6
  <2> QED
    BY <2>1, <2>2
<1>2. mined' = mined
  BY DEF MineReadTip, MineReadHeight
<1>3. PICK row : row = [pow[n] EXCEPT !.header = head]
  OBVIOUS
<1>4. /\ row \in [chain : ForkAwareChain(MaxMined), header : {<<>>} \cup Seq(Nat)]
      /\ row.chain = pow[n].chain
  BY <1>3 DEF PowInv
<1>5. pow' = [pow EXCEPT ![n] = row]
  BY <1>1, <1>3 DEF PowInv
<1>6. MinedSound'
  BY <1>2 DEF PowInv, MinedSound
<1>7. \A m \in Miner : ChainSound(mined', MaxMined, pow[m].chain)
  BY <1>2 DEF PowInv, EngineRecord
<1>8. ChainSound(mined', MaxMined, row.chain)
  BY <1>4, <1>7
<1> QED
  BY <1>4, <1>5, <1>6, <1>7, <1>8, PowUpdate

LEMMA PowProposeKeeps ==
  ASSUME PowInv, NEW n \in Miner, PowPropose(n)
  PROVE  PowInv' /\ PowStep
<1>1. PICK N \in Nat : N = Len(mined)
  BY DEF PowInv, MinedSound
<1>2. /\ mined \in Seq(MinedBlock) /\ N <= MaxMined /\ BlockTable(mined)
      /\ \A b \in 1 .. N : mined[b].rank = BlockRank[b]
                           /\ mined[b].height = HeightIn(mined, b)
  BY <1>1 DEF PowInv, MinedSound
<1>3. PICK x : x = [parent |-> pow[n].header[1], height |-> pow[n].header[2],
                    rank |-> BlockRank[N + 1]]
  OBVIOUS
<1>4. PICK B : B = Append(mined, x)
  OBVIOUS
<1>5. PICK idle : idle = [pow[n] EXCEPT !.header = <<>>]
  OBVIOUS
<1>6. /\ idle \in [chain : ForkAwareChain(MaxMined), header : {<<>>} \cup Seq(Nat)]
      /\ idle.chain = pow[n].chain /\ idle.header = <<>>
  BY <1>5 DEF PowInv
<1>7. ChainSound(mined, MaxMined, idle.chain)
  BY <1>6 DEF PowInv, EngineRecord
<1>8. /\ N < MaxMined
      /\ IF PowVerify(mined, idle.chain, B[Len(B)])
           THEN mined' = B /\ pow' = [pow EXCEPT ![n] =
                          [idle EXCEPT !.chain = AddBlock(B, idle.chain, Len(B))]]
           ELSE pow' = [pow EXCEPT ![n] = idle] /\ UNCHANGED mined
  BY <1>1, <1>3, <1>4, <1>5 DEF PowPropose
<1>9. CASE PowVerify(mined, idle.chain, B[Len(B)])
  <2>1. Len(B) = N + 1 /\ B[N + 1] = x /\ \A b \in 1 .. N : B[b] = mined[b]
    BY <1>1, <1>2, <1>4
  <2>2. /\ x.parent \in idle.chain.nodes /\ x.height = HeightIn(mined, x.parent) + 1
        /\ x.rank = BlockRank[N + 1]
    BY <1>3, <1>9, <2>1 DEF PowVerify
  <2>3. x.parent \in 0 .. N
    BY <1>1, <1>7, <2>2 DEF ChainSound
  <2>4. x.height \in Nat /\ HeightIn(mined, x.parent) \in Nat
    <3>1. HeightFact(mined, x.parent)
      BY <1>1, <1>2, <2>3, TableHeights
    <3> QED
      BY <2>2, <2>3, <3>1 DEF HeightFact
  <2>5. N + 1 \in 1 .. MaxMined /\ N + 1 <= MaxMined /\ 0 .. N \subseteq 0 .. MaxMined
    BY <1>8, PowAssumption
  <2>6. x.rank \in Nat
    BY <2>2, <2>5, PowAssumption
  <2>7. x \in MinedBlock
    BY <1>3, <2>3, <2>4, <2>5, <2>6 DEF MinedBlock
  <2>8. ASSUME NEW b \in 1 .. N PROVE mined[b].rank # x.rank
    <3>1. b \in 1 .. MaxMined /\ b # N + 1
      BY <2>5
    <3>2. BlockRank[b] # BlockRank[N + 1]
      BY <2>5, <3>1, PowAssumption
    <3> QED
      BY <1>2, <2>2, <3>2
  <2>9. /\ Grown(mined, B) /\ BlockTable(B)
        /\ \A b \in 0 .. N : ChainTo(B, b) = ChainTo(mined, b)
                              /\ HeightIn(B, b) = HeightIn(mined, b)
    <3>1. x.parent \in 0 .. Len(mined) /\ \A b \in 1 .. Len(mined) : mined[b].rank # x.rank
      BY <1>1, <2>3, <2>8
    <3>2. BlockTable(mined) /\ mined \in Seq(MinedBlock)
      BY <1>2
    <3>3. Grown(mined, Append(mined, x))
      BY <2>6, <2>7, <3>1, <3>2, TableGrows
    <3>4. Grown(mined, B)
      BY <1>4, <3>3
    <3> QED
      BY <1>1, <3>4 DEF Grown
  <2>10. ASSUME NEW c, ChainSound(mined, MaxMined, c)
         PROVE  ChainSound(B, MaxMined, c)
    BY <1>2, <2>9, <2>10, SoundStays
  <2>11. HeightIn(B, N + 1) = x.height
    <3>1. HeightFact(B, N + 1) /\ N + 1 # Root
      BY <2>1, <2>9, TableHeights DEF Root
    <3> QED
      BY <2>1, <2>2, <2>3, <2>9, <3>1 DEF HeightFact
  <2>12. MinedSound'
    <3>1. B \in Seq(MinedBlock) /\ Len(B) \in Nat /\ Len(B) <= MaxMined
      BY <1>2, <1>4, <2>1, <2>5, <2>7
    <3>2. ASSUME NEW b \in 1 .. N + 1
          PROVE  B[b].rank = BlockRank[b] /\ B[b].height = HeightIn(B, b)
      <4>1. CASE b \in 1 .. N
        BY <1>2, <2>1, <2>9, <4>1
      <4>2. CASE b = N + 1
        BY <2>1, <2>2, <2>11, <4>2
      <4>3. b \in 1 .. N \/ b = N + 1
        OBVIOUS
      <4> QED
        BY <4>1, <4>2, <4>3
    <3>3. mined' = B
      BY <1>8, <1>9
    <3> QED
      BY <2>1, <2>9, <3>1, <3>2, <3>3 DEF MinedSound
  <2>13. PICK c : c = AddBlock(B, idle.chain, N + 1)
    OBVIOUS
  <2>14. ChainSound(B, MaxMined, c) /\ IsRewrite(idle.chain, c)
    <3>1. ChainSound(B, MaxMined, idle.chain)
      BY <1>7, <2>10
    <3>2. N + 1 \notin idle.chain.nodes /\ B[N + 1].parent \in idle.chain.nodes
      BY <1>1, <1>7, <2>1, <2>2 DEF ChainSound
    <3>3. N + 1 \in 1 .. Len(B) /\ Len(B) <= MaxMined /\ MaxMined \in Nat
      BY <2>1, <2>5, PowAssumption
    <3> QED
      BY <2>9, <2>13, <3>1, <3>2, <3>3, AddBlockSound
  <2>15. PICK row : row = [idle EXCEPT !.chain = c]
    OBVIOUS
  <2>16. /\ row \in [chain : ForkAwareChain(MaxMined), header : {<<>>} \cup Seq(Nat)]
         /\ row.chain = c
    BY <1>6, <2>14, <2>15 DEF ChainSound
  <2>17. mined' = B /\ pow' = [pow EXCEPT ![n] = row]
    BY <1>8, <1>9, <2>1, <2>13, <2>15
  <2>18. \A m \in Miner : ChainSound(mined', MaxMined, pow[m].chain)
    BY <2>10, <2>17 DEF PowInv, EngineRecord
  <2>19. /\ ChainSound(mined', MaxMined, row.chain)
         /\ IsRewrite(pow[n].chain, row.chain)
    BY <1>6, <2>14, <2>16, <2>17
  <2> QED
    BY <2>12, <2>16, <2>17, <2>18, <2>19, PowUpdate
<1>10. CASE ~ PowVerify(mined, idle.chain, B[Len(B)])
  <2>1. mined' = mined /\ pow' = [pow EXCEPT ![n] = idle]
    BY <1>8, <1>10
  <2>2. MinedSound'
    BY <2>1 DEF PowInv, MinedSound
  <2>3. \A m \in Miner : ChainSound(mined', MaxMined, pow[m].chain)
    BY <2>1 DEF PowInv, EngineRecord
  <2>4. ChainSound(mined', MaxMined, idle.chain)
    BY <1>6, <2>3
  <2> QED
    BY <1>6, <2>1, <2>2, <2>3, <2>4, PowUpdate
<1> QED
  BY <1>9, <1>10

LEMMA PowObserveKeeps ==
  ASSUME PowInv, NEW n \in Miner, NEW b \in DOMAIN mined, PowObserve(n, b)
  PROVE  PowInv' /\ PowStep
<1>1. PICK N \in Nat : N = Len(mined)
  BY DEF PowInv, MinedSound
<1>2. PICK c : c = AddBlock(mined, pow[n].chain, b)
  OBVIOUS
<1>3. /\ b \in 1 .. N /\ N <= MaxMined /\ BlockTable(mined) /\ MaxMined \in Nat
      /\ ChainSound(mined, MaxMined, pow[n].chain)
  BY <1>1, PowAssumption DEF PowInv, MinedSound, EngineRecord
<1>4. /\ b \notin pow[n].chain.nodes /\ mined[b].parent \in pow[n].chain.nodes
      /\ mined' = mined /\ pow' = [pow EXCEPT ![n].chain = c]
  BY <1>2 DEF PowObserve, PowVerify
<1>5. ChainSound(mined, MaxMined, c) /\ IsRewrite(pow[n].chain, c)
  BY <1>1, <1>2, <1>3, <1>4, AddBlockSound
<1>6. PICK row : row = [pow[n] EXCEPT !.chain = c]
  OBVIOUS
<1>7. /\ row \in [chain : ForkAwareChain(MaxMined), header : {<<>>} \cup Seq(Nat)]
      /\ row.chain = c
  BY <1>5, <1>6 DEF PowInv, ChainSound
<1>8. pow' = [pow EXCEPT ![n] = row]
  BY <1>4, <1>6 DEF PowInv
<1>9. MinedSound'
  BY <1>4 DEF PowInv, MinedSound
<1>10. \A m \in Miner : ChainSound(mined', MaxMined, pow[m].chain)
  BY <1>4 DEF PowInv, EngineRecord
<1>11. ChainSound(mined', MaxMined, row.chain) /\ IsRewrite(pow[n].chain, row.chain)
  BY <1>4, <1>5, <1>7
<1> QED
  BY <1>7, <1>8, <1>9, <1>10, <1>11, PowUpdate

LEMMA PowSteps ==
  ASSUME PowInv, [PowNext]_powVars
  PROVE  PowInv' /\ PowStep
<1>1. CASE PowNext
  BY <1>1, PowMineKeeps, PowProposeKeeps, PowObserveKeeps DEF PowNext
<1>2. CASE UNCHANGED powVars
  <2>1. mined' = mined /\ pow' = pow
    BY <1>2 DEF powVars
  <2>2. PowInv'
    BY <2>1 DEF PowInv, MinedSound, EngineRecord
  <2> QED
    BY <2>1, <2>2 DEF PowStep
<1> QED
  BY <1>1, <1>2

(* Every block any node knows is in the table, and every node's chain is   *)
(* sound: the invariant of fork choice.                                    *)
THEOREM PowInvariant == PowSpec => []PowInv
<1>1. PowInit => PowInv
  BY PowStart
<1>2. PowInv /\ [PowNext]_powVars => PowInv'
  BY PowSteps
<1> QED
  BY <1>1, <1>2, PTL DEF PowSpec

LEMMA PowBest == PowInv => PowBestChain
<1> SUFFICES ASSUME PowInv PROVE PowBestChain
  OBVIOUS
<1>1. BlockTable(mined) /\ \A n \in Miner : ChainSound(mined, MaxMined, pow[n].chain)
  BY DEF PowInv, MinedSound, EngineRecord
<1>2. \A n \in Miner : IsBestChain(mined, pow[n].chain) /\ Positions(mined, pow[n].chain)
  BY <1>1, SoundIsBest
<1>3. ASSUME NEW n \in Miner, NEW m \in Miner, pow[n].chain.nodes = pow[m].chain.nodes
      PROVE  PowDecision(pow[n].chain) = PowDecision(pow[m].chain)
  <2>1. pow[n].chain.canonical = pow[m].chain.canonical
    BY <1>1, <1>3, SoundAgreed
  <2> QED
    BY <2>1 DEF PowDecision, ChainHeight
<1>4. ASSUME NEW n \in Miner, NEW i \in 2 .. Len(pow[n].chain.canonical)
      PROVE  mined[pow[n].chain.canonical[i]].height = i - 1
  <2>1. PICK c : c = pow[n].chain.canonical
    OBVIOUS
  <2>2. i \in 1 .. Len(c) /\ i > 1 /\ Len(c) \in Nat
    BY <1>2, <2>1 DEF Positions
  <2>3. c[i] \in 0 .. Len(mined) /\ c[i] # Root /\ HeightIn(mined, c[i]) = i - 1
    BY <1>2, <2>1, <2>2 DEF Positions
  <2>4. c[i] \in 1 .. Len(mined)
    BY <2>3 DEF Root
  <2> QED
    BY <2>1, <2>3, <2>4 DEF PowInv, MinedSound
<1> QED
  BY <1>2, <1>3, <1>4 DEF PowBestChain

(* Whatever the order in which blocks arrive, a node's chain ends in the   *)
(* best block it knows, nodes with the same blocks decide the same, and    *)
(* each canonical block stands at the height it claims (proof_of_work.py,  *)
(* _ingest and decision).                                                  *)
THEOREM PowBestChainHolds == PowSpec => []PowBestChain
<1>1. PowInv => PowBestChain
  BY PowBest
<1> QED
  BY <1>1, PowInvariant, PTL

(* last_result always tells exactly how the canonical chain has changed    *)
(* (chain.py, add_block).                                                  *)
THEOREM PowResultExactHolds == PowSpec => PowResultExact
<1>1. PowInv /\ [PowNext]_powVars => [PowStep]_powVars
  BY PowSteps
<1>2. PowInv /\ [PowNext]_powVars =>
        [\A n \in Miner : pow[n].chain.nodes # pow'[n].chain.nodes =>
                            IsRewrite(pow[n].chain, pow'[n].chain)]_powVars
  BY <1>1 DEF PowStep
<1> QED
  BY <1>2, PowInvariant, PTL DEF PowSpec, PowResultExact

-----------------------------------------------------------------------------
(* The beacon.  Messages with one id have one parent, and where the id     *)
(* fixes it one timestamp; a node keeps the timestamp of the block then.   *)
Fixed == {"hash_chain", "pow"}

Copies(s, B) ==
  \A i \in 1 .. Len(B) :
    /\ B[i].id \in 1 .. Len(B) /\ B[B[i].id].parent = B[i].parent
    /\ s \in Fixed => B[B[i].id].ts = B[i].ts

BeaconEngine == [chain : ForkAwareChain(MaxBeacon), ts : [1 .. MaxBeacon -> 0 .. MaxTime],
                 made : Nat, parent : {<<>>} \cup Seq(0 .. MaxBeacon)]

Stamped(s, B, e) ==
  /\ e \in BeaconEngine /\ ChainSound(B, MaxBeacon, e.chain)
  /\ s \in Fixed => \A b \in e.chain.nodes \ {Root} : e.ts[b] = B[b].ts

BeaconTable(s, B) ==
  /\ s \in Source /\ B \in Seq(BeaconMessage) /\ Len(B) \in Nat /\ Len(B) <= MaxBeacon
  /\ BlockTable(B) /\ Copies(s, B)
  /\ \A i \in 1 .. Len(B) : B[i].rank = BeaconRank[i]

BeaconInv ==
  /\ BeaconTable(source, beaconBlocks) /\ clock \in 0 .. MaxTime
  /\ beacon \in [BeaconNode -> BeaconEngine]
  /\ \A n \in BeaconNode : Stamped(source, beaconBlocks, beacon[n])

(* Of the blocks a node knows it keeps the timestamps, and blocks stay.    *)
BeaconStep ==
  /\ \A n \in BeaconNode : \A b \in beacon[n].chain.nodes \ {Root} :
       beacon'[n].ts[b] = beacon[n].ts[b]
  /\ \A b \in 1 .. Len(beaconBlocks) : beaconBlocks'[b] = beaconBlocks[b]

LEMMA BeaconStart == BeaconInit => BeaconInv
<1> SUFFICES ASSUME BeaconInit PROVE BeaconInv
  OBVIOUS
<1>1. /\ beaconBlocks = <<>> /\ <<>> \in Seq(BeaconMessage) /\ Len(<<>>) = 0
      /\ MaxBeacon \in Nat /\ MaxTime \in Nat /\ clock = 0 /\ source \in Source
  BY BeaconAssumption DEF BeaconInit
<1>2. BlockTable(<<>>) /\ ChainSound(<<>>, MaxBeacon, EmptyChain)
  BY <1>1, EmptyTable
<1>3. BeaconTable(source, beaconBlocks)
  BY <1>1, <1>2 DEF BeaconTable, Copies
<1>4. PICK e : e = [chain |-> EmptyChain, ts |-> [b \in 1 .. MaxBeacon |-> 0],
                    made |-> 0, parent |-> <<>>]
  OBVIOUS
<1>5. beacon = [n \in BeaconNode |-> e]
  BY <1>4 DEF BeaconInit
<1>6. e \in BeaconEngine /\ e.chain = EmptyChain
  BY <1>1, <1>2, <1>4 DEF ChainSound, BeaconEngine
<1>7. EmptyChain.nodes = {Root}
  BY DEF EmptyChain
<1>8. Stamped(source, beaconBlocks, e)
  BY <1>1, <1>2, <1>6, <1>7 DEF Stamped
<1> QED
  BY <1>1, <1>3, <1>5, <1>6, <1>8 DEF BeaconInv

(* _ingest, of a message whose parent the node knows.                      *)
LEMMA IngestKeeps ==
  ASSUME NEW s, NEW B, BeaconTable(s, B), NEW e, Stamped(s, B, e),
         NEW i \in 1 .. Len(B), B[i].parent \in e.chain.nodes
  PROVE  /\ Stamped(s, B, IngestBlock(B, e, i))
         /\ \A b \in e.chain.nodes \ {Root} : IngestBlock(B, e, i).ts[b] = e.ts[b]
<1>1. PICK b : b = B[i].id
  OBVIOUS
<1>2. /\ b \in 1 .. Len(B) /\ B[b].parent = B[i].parent /\ Len(B) \in Nat
      /\ s \in Fixed => B[b].ts = B[i].ts
  BY <1>1 DEF BeaconTable, Copies
<1>3. CASE b \in e.chain.nodes
  BY <1>1, <1>3 DEF IngestBlock
<1>4. CASE b \notin e.chain.nodes
  <2>1. PICK c : c = AddBlock(B, e.chain, b)
    OBVIOUS
  <2>2. PICK g : g = [e EXCEPT !.chain = c, !.ts[b] = B[i].ts]
    OBVIOUS
  <2>3. IngestBlock(B, e, i) = g
    BY <1>1, <1>4, <2>1, <2>2 DEF IngestBlock
  <2>4. ChainSound(B, MaxBeacon, c) /\ c.nodes = e.chain.nodes \cup {b}
    <3>1. BlockTable(B) /\ MaxBeacon \in Nat /\ Len(B) <= MaxBeacon
      BY BeaconAssumption DEF BeaconTable
    <3>2. ChainSound(B, MaxBeacon, e.chain) /\ B[b].parent \in e.chain.nodes
      BY <1>2 DEF Stamped
    <3> QED
      BY <1>2, <1>4, <2>1, <3>1, <3>2, AddBlockSound
  <2>5. B[i].ts \in 0 .. MaxTime /\ b \in 1 .. MaxBeacon
    <3>1. B[i] \in BeaconMessage /\ Len(B) <= MaxBeacon /\ MaxBeacon \in Nat
      BY BeaconAssumption DEF BeaconTable
    <3> QED
      BY <1>2, <3>1 DEF BeaconMessage
  <2>6. e.ts \in [1 .. MaxBeacon -> 0 .. MaxTime] /\ e \in BeaconEngine
    BY DEF Stamped, BeaconEngine
  <2>7. PICK ts : ts = [e.ts EXCEPT ![b] = B[i].ts]
    OBVIOUS
  <2>8. /\ ts \in [1 .. MaxBeacon -> 0 .. MaxTime] /\ ts[b] = B[i].ts
        /\ \A a \in 1 .. MaxBeacon : a # b => ts[a] = e.ts[a]
    BY <2>5, <2>6, <2>7
  <2>9. g = [e EXCEPT !.chain = c, !.ts = ts]
    BY <2>2, <2>6, <2>7 DEF BeaconEngine
  <2>10. g \in BeaconEngine /\ g.chain = c /\ g.ts = ts
    BY <2>4, <2>6, <2>8, <2>9 DEF BeaconEngine, ChainSound
  <2>11. ASSUME NEW a \in e.chain.nodes \ {Root} PROVE ts[a] = e.ts[a] /\ a # b
    <3>1. a \in 1 .. MaxBeacon
      <4>1. e.chain.nodes \subseteq 0 .. Len(B) /\ Len(B) <= MaxBeacon /\ MaxBeacon \in Nat
        BY BeaconAssumption DEF Stamped, ChainSound, BeaconTable
      <4> QED
        BY <1>2, <4>1 DEF Root
    <3> QED
      BY <1>4, <2>8, <3>1
  <2>12. ASSUME s \in Fixed, NEW a \in c.nodes \ {Root} PROVE ts[a] = B[a].ts
    <3>1. CASE a = b
      BY <1>2, <2>8, <2>12, <3>1
    <3>2. CASE a # b
      BY <2>4, <2>11, <2>12, <3>2 DEF Stamped
    <3> QED
      BY <3>1, <3>2
  <2>13. Stamped(s, B, g)
    BY <2>4, <2>10, <2>12 DEF Stamped
  <2> QED
    BY <2>3, <2>10, <2>11, <2>13
<1> QED
  BY <1>3, <1>4

(* A step changes the engine of one node.                                  *)
LEMMA BeaconUpdate ==
  ASSUME BeaconInv, NEW n \in BeaconNode, NEW row, UNCHANGED <<source, clock>>,
         BeaconTable(source, beaconBlocks'),
         \A b \in 1 .. Len(beaconBlocks) : beaconBlocks'[b] = beaconBlocks[b],
         \A m \in BeaconNode : Stamped(source, beaconBlocks', beacon[m]),
         Stamped(source, beaconBlocks', row),
         \A b \in beacon[n].chain.nodes \ {Root} : row.ts[b] = beacon[n].ts[b],
         beacon' = [beacon EXCEPT ![n] = row]
  PROVE  BeaconInv' /\ BeaconStep
<1>1. beacon \in [BeaconNode -> BeaconEngine] /\ row \in BeaconEngine
  BY DEF BeaconInv, Stamped
<1>2. /\ beacon' \in [BeaconNode -> BeaconEngine]
      /\ \A m \in BeaconNode : beacon'[m] = IF m = n THEN row ELSE beacon[m]
  BY <1>1
<1>3. \A m \in BeaconNode : Stamped(source', beaconBlocks', beacon'[m])
  BY <1>2
<1>4. BeaconTable(source', beaconBlocks') /\ clock' \in 0 .. MaxTime
  BY DEF BeaconInv
<1>5. BeaconInv'
  BY <1>2, <1>3, <1>4 DEF BeaconInv
<1>6. BeaconStep
  BY <1>2 DEF BeaconStep
<1> QED
  BY <1>5, <1>6

LEMMA BeaconReadKeeps ==
  ASSUME BeaconInv, NEW n \in BeaconNode, BeaconReadTip(n)
  PROVE  BeaconInv' /\ BeaconStep
<1>1. PICK t : t = ChainTip(beacon[n].chain)
  OBVIOUS
<1>2. Stamped(source, beaconBlocks, beacon[n]) /\ BeaconTable(source, beaconBlocks)
  BY DEF BeaconInv
<1>3. ChainSound(beaconBlocks, MaxBeacon, beacon[n].chain) /\ BlockTable(beaconBlocks)
  BY <1>2 DEF Stamped, BeaconTable
<1>4. t \in 0 .. MaxBeacon
  <2>1. t \in beacon[n].chain.nodes
    BY <1>1, <1>3, SoundIsBest
  <2> QED
    BY <1>3, <2>1 DEF ChainSound, ForkAwareChain
<1>5. PICK row : row = [beacon[n] EXCEPT !.parent = <<t>>]
  OBVIOUS
<1>6. /\ row \in BeaconEngine /\ row.chain = beacon[n].chain /\ row.ts = beacon[n].ts
  <2>1. <<t>> \in Seq(0 .. MaxBeacon)
    BY <1>4
  <2> QED
    BY <1>2, <1>5, <2>1 DEF Stamped, BeaconEngine
<1>7. /\ beacon' = [beacon EXCEPT ![n] = row]
      /\ source' = source /\ clock' = clock /\ beaconBlocks' = beaconBlocks
  BY <1>1, <1>5 DEF BeaconReadTip, BeaconInv
<1>8. Stamped(source, beaconBlocks, row)
  BY <1>2, <1>6 DEF Stamped
<1>9. \A m \in BeaconNode : Stamped(source, beaconBlocks', beacon[m])
  BY <1>7 DEF BeaconInv
<1>10. \A b \in beacon[n].chain.nodes \ {Root} : row.ts[b] = beacon[n].ts[b]
  BY <1>6
<1> QED
  BY <1>2, <1>7, <1>8, <1>9, <1>10, BeaconUpdate

LEMMA BeaconObserveKeeps ==
  ASSUME BeaconInv, NEW n \in BeaconNode, NEW i \in DOMAIN beaconBlocks, BeaconObserve(n, i)
  PROVE  BeaconInv' /\ BeaconStep
<1>1. Stamped(source, beaconBlocks, beacon[n]) /\ BeaconTable(source, beaconBlocks)
  BY DEF BeaconInv
<1>2. i \in 1 .. Len(beaconBlocks)
  BY <1>1 DEF BeaconTable
<1>3. beaconBlocks[i].parent \in beacon[n].chain.nodes
  BY DEF BeaconObserve, ValidBlock
<1>4. PICK row : row = IngestBlock(beaconBlocks, beacon[n], i)
  OBVIOUS
<1>5. /\ Stamped(source, beaconBlocks, row)
      /\ \A b \in beacon[n].chain.nodes \ {Root} : row.ts[b] = beacon[n].ts[b]
  BY <1>1, <1>2, <1>3, <1>4, IngestKeeps
<1>6. /\ beacon' = [beacon EXCEPT ![n] = row]
      /\ source' = source /\ clock' = clock /\ beaconBlocks' = beaconBlocks
  BY <1>4 DEF BeaconObserve, BeaconInv
<1>7. \A m \in BeaconNode : Stamped(source, beaconBlocks', beacon[m])
  BY <1>6 DEF BeaconInv
<1> QED
  BY <1>1, <1>5, <1>6, <1>7, BeaconUpdate

(* Messages with one id are one block to the source.                       *)
LEMMA IdFixes ==
  ASSUME source \in Source, NEW a \in BeaconMessage, NEW b \in BeaconMessage,
         BlockId(a) = BlockId(b)
  PROVE  a.parent = b.parent /\ (source \in Fixed => a.ts = b.ts)
BY DEF Source, BlockId, HashChainId, SequentialId, PowId, LegacyId, Fixed

LEMMA BeaconProposeKeeps ==
  ASSUME BeaconInv, NEW n \in BeaconNode, BeaconPropose(n)
  PROVE  BeaconInv' /\ BeaconStep
<1>1. PICK N \in Nat : N = Len(beaconBlocks)
  BY DEF BeaconInv, BeaconTable
<1>2. Stamped(source, beaconBlocks, beacon[n]) /\ BeaconTable(source, beaconBlocks)
  BY DEF BeaconInv
<1>3. /\ beaconBlocks \in Seq(BeaconMessage) /\ N <= MaxBeacon /\ BlockTable(beaconBlocks)
      /\ \A b \in 1 .. N : beaconBlocks[b].rank = BeaconRank[b]
                           /\ beaconBlocks[b] \in BeaconMessage
  BY <1>1, <1>2 DEF BeaconTable
<1>4. PICK new : new = NextBlock(n)
  OBVIOUS
<1>5. PICK same : same = SameBlock(new)
  OBVIOUS
<1>6. PICK id : id = NextId(n)
  OBVIOUS
<1>7. PICK x : x = [new EXCEPT !.id = id]
  OBVIOUS
<1>8. PICK B : B = Append(beaconBlocks, [NextBlock(n) EXCEPT !.id = NextId(n)])
  OBVIOUS
<1>9. PICK e : e = [beacon[n] EXCEPT !.parent = <<>>, !.made = @ + 1]
  OBVIOUS
<1>10. /\ N < MaxBeacon /\ beacon[n].parent # <<>> /\ UNCHANGED <<source, clock>>
       /\ IF ValidBlock(B, e.chain, B[N + 1])
            THEN beaconBlocks' = B
                 /\ beacon' = [beacon EXCEPT ![n] = IngestBlock(B, e, N + 1)]
            ELSE beacon' = [beacon EXCEPT ![n] = e] /\ UNCHANGED beaconBlocks
  <2>1. /\ Len(beaconBlocks) < MaxBeacon /\ beacon[n].parent # <<>>
        /\ UNCHANGED <<source, clock>>
        /\ IF ValidBlock(B, e.chain, B[Len(beaconBlocks) + 1])
             THEN /\ beaconBlocks' = B
                  /\ beacon' = [beacon EXCEPT ![n] =
                                  IngestBlock(B, e, Len(beaconBlocks) + 1)]
             ELSE beacon' = [beacon EXCEPT ![n] = e] /\ UNCHANGED beaconBlocks
    BY <1>8, <1>9, Zenon DEF BeaconPropose
  <2> QED
    BY <1>1, <2>1
<1>11. /\ e \in BeaconEngine /\ e.chain = beacon[n].chain /\ e.ts = beacon[n].ts
  <2>1. PICK r \in BeaconEngine : r = beacon[n]
    BY <1>2 DEF Stamped
  <2>2. r.made + 1 \in Nat
    BY DEF BeaconEngine
  <2>3. PICK k \in Nat : k = r.made + 1
    BY <2>2
  <2>4. PICK P : P = {<<>>} \cup Seq(0 .. MaxBeacon)
    OBVIOUS
  <2>5. PICK z \in P : z = <<>>
    BY <2>4
  <2>6. e = [r EXCEPT !.parent = z, !.made = k]
    BY <1>9, <2>1, <2>3, <2>5
  <2>7. e \in BeaconEngine /\ e.chain = r.chain /\ e.ts = r.ts
    BY <2>4, <2>6 DEF BeaconEngine
  <2> QED
    BY <2>1, <2>7
<1>12. Stamped(source, beaconBlocks, e)
  BY <1>2, <1>11 DEF Stamped
<1>13. CASE ~ ValidBlock(B, e.chain, B[N + 1])
  <2>1. beacon' = [beacon EXCEPT ![n] = e] /\ beaconBlocks' = beaconBlocks
    BY <1>10, <1>13
  <2>2. \A m \in BeaconNode : Stamped(source, beaconBlocks', beacon[m])
    BY <2>1 DEF BeaconInv
  <2>3. \A b \in beacon[n].chain.nodes \ {Root} : e.ts[b] = beacon[n].ts[b]
    BY <1>11
  <2> QED
    BY <1>2, <1>10, <1>12, <2>1, <2>2, <2>3, BeaconUpdate
<1>14. CASE ValidBlock(B, e.chain, B[N + 1])
  <2>0. B = Append(beaconBlocks, x)
    BY <1>4, <1>6, <1>7, <1>8
  <2>1. Len(B) = N + 1 /\ B[N + 1] = x /\ \A b \in 1 .. N : B[b] = beaconBlocks[b]
    BY <1>1, <1>3, <2>0
  <2>2. /\ x.parent = new.parent /\ x.ts = clock /\ x.rank = BeaconRank[N + 1]
        /\ x.id = id /\ new.parent = x.parent /\ new.ts = x.ts
        /\ x.height = ChainHeight(beacon[n].chain) + 1 /\ x.salt = Salt(n)
    BY <1>1, <1>4, <1>7 DEF NextBlock
  <2>3. x.parent \in e.chain.nodes /\ x.parent \in 0 .. N
    <3>1. e.chain.nodes \subseteq 0 .. N
      BY <1>1, <1>12 DEF Stamped, ChainSound
    <3> QED
      BY <1>14, <2>1, <3>1 DEF ValidBlock
  <2>4. /\ N + 1 \in 1 .. MaxBeacon /\ N + 1 <= MaxBeacon /\ 0 .. N \subseteq 0 .. MaxBeacon
        /\ 1 .. N \subseteq 1 .. MaxBeacon
    BY <1>10, BeaconAssumption
  <2>5. x.height \in Nat
    <3>1. ChainSound(beaconBlocks, MaxBeacon, beacon[n].chain)
      BY <1>2 DEF Stamped
    <3>2. Positions(beaconBlocks, beacon[n].chain)
      BY <1>3, <3>1, SoundIsBest
    <3> QED
      BY <2>2, <3>2 DEF Positions, ChainHeight
  <2>6. x.rank \in Nat /\ x.ts \in 0 .. MaxTime
    BY <2>2, <2>4, BeaconAssumption DEF BeaconInv
  <2>7. Salt(n) \in Nat \cup BeaconNode
    <3>1. beacon[n].made \in Nat
      BY <1>2 DEF Stamped, BeaconEngine
    <3> QED
      BY <3>1 DEF Salt
  <2>8. new \in BeaconMessage
    <3>1. new.height \in Nat /\ new.rank \in Nat /\ new.ts \in 0 .. MaxTime
          /\ new.parent \in 0 .. MaxBeacon /\ new.salt \in Nat \cup BeaconNode
          /\ new.id \in 1 .. MaxBeacon
      BY <1>1, <1>4, <2>2, <2>3, <2>4, <2>5, <2>6, <2>7 DEF NextBlock
    <3> QED
      BY <1>4, <3>1 DEF BeaconMessage, NextBlock
  (* The id is its own, or that of an earlier message of the same block. *)
  <2>9. /\ id \in 1 .. N + 1
        /\ id = N + 1 \/ /\ id \in 1 .. N /\ beaconBlocks[id].parent = x.parent
                         /\ source \in Fixed => beaconBlocks[id].ts = x.ts
    <3>1. CASE same = {}
      BY <1>1, <1>4, <1>5, <1>6, <3>1 DEF NextId
    <3>2. CASE same # {}
      <4>1. PICK j \in same : id = beaconBlocks[j].id
        BY <1>4, <1>5, <1>6, <3>2 DEF NextId
      <4>2. j \in 1 .. N /\ BlockId(beaconBlocks[j]) = BlockId(new)
        BY <1>1, <1>3, <1>5, <4>1 DEF SameBlock
      <4>3. /\ id \in 1 .. N /\ beaconBlocks[id].parent = beaconBlocks[j].parent
            /\ source \in Fixed => beaconBlocks[id].ts = beaconBlocks[j].ts
        BY <1>1, <1>2, <4>1, <4>2 DEF BeaconTable, Copies
      <4>4. source \in Source /\ beaconBlocks[j] \in BeaconMessage
        BY <1>2, <1>3, <4>2 DEF BeaconTable
      <4>5. /\ beaconBlocks[j].parent = new.parent
            /\ source \in Fixed => beaconBlocks[j].ts = new.ts
        BY <2>8, <4>2, <4>4, IdFixes
      <4> QED
        BY <2>2, <4>3, <4>5
    <3> QED
      BY <3>1, <3>2
  <2>10. x \in BeaconMessage
    <3>1. id \in 1 .. MaxBeacon
      BY <2>4, <2>9
    <3> QED
      BY <1>7, <2>8, <3>1 DEF BeaconMessage
  <2>11. ASSUME NEW b \in 1 .. Len(beaconBlocks) PROVE beaconBlocks[b].rank # x.rank
    <3>1. b \in 1 .. MaxBeacon /\ b # N + 1
      BY <1>1, <2>4
    <3>2. BeaconRank[b] # BeaconRank[N + 1]
      BY <2>4, <3>1, BeaconAssumption
    <3> QED
      BY <1>1, <1>3, <2>2, <3>2
  <2>12. Grown(beaconBlocks, B)
    <3>1. x.parent \in 0 .. Len(beaconBlocks) /\ x.rank \in Nat
      BY <1>1, <2>3, <2>6
    <3>2. Grown(beaconBlocks, Append(beaconBlocks, x))
      BY <1>3, <2>10, <2>11, <3>1, TableGrows
    <3> QED
      BY <2>0, <3>2
  <2>13. Copies(source, B)
    <3>1. ASSUME NEW i \in 1 .. N + 1
          PROVE  /\ B[i].id \in 1 .. N + 1 /\ B[B[i].id].parent = B[i].parent
                 /\ source \in Fixed => B[B[i].id].ts = B[i].ts
      <4>1. CASE i \in 1 .. N
        <5>1. /\ beaconBlocks[i].id \in 1 .. N
              /\ beaconBlocks[beaconBlocks[i].id].parent = beaconBlocks[i].parent
              /\ source \in Fixed =>
                   beaconBlocks[beaconBlocks[i].id].ts = beaconBlocks[i].ts
          BY <1>1, <1>2, <4>1 DEF BeaconTable, Copies
        <5>2. B[i] = beaconBlocks[i] /\ B[beaconBlocks[i].id] = beaconBlocks[beaconBlocks[i].id]
          BY <2>1, <4>1, <5>1
        <5> QED
          BY <5>1, <5>2
      <4>2. CASE i = N + 1
        <5>1. B[i] = x /\ B[i].id = id
          BY <2>1, <2>2, <4>2
        <5>2. CASE id = N + 1
          BY <2>1, <4>2, <5>1, <5>2
        <5>3. CASE id # N + 1
          <6>1. id \in 1 .. N /\ B[id] = beaconBlocks[id]
            BY <2>1, <2>9, <5>3
          <6> QED
            BY <2>9, <5>1, <5>3, <6>1
        <5> QED
          BY <5>2, <5>3
      <4>3. i \in 1 .. N \/ i = N + 1
        OBVIOUS
      <4> QED
        BY <4>1, <4>2, <4>3
    <3> QED
      BY <2>1, <3>1 DEF Copies
  <2>14. BeaconTable(source, B)
    <3>1. B \in Seq(BeaconMessage) /\ Len(B) \in Nat /\ Len(B) <= MaxBeacon
      BY <1>3, <2>0, <2>1, <2>4, <2>10
    <3>2. ASSUME NEW i \in 1 .. N + 1 PROVE B[i].rank = BeaconRank[i]
      <4>1. i \in 1 .. N \/ i = N + 1
        OBVIOUS
      <4> QED
        BY <1>3, <2>1, <2>2, <4>1
    <3> QED
      BY <1>2, <2>1, <2>12, <2>13, <3>1, <3>2 DEF BeaconTable, Grown
  <2>15. ASSUME NEW g, Stamped(source, beaconBlocks, g) PROVE Stamped(source, B, g)
    <3>1. ChainSound(beaconBlocks, MaxBeacon, g.chain)
      BY <2>15 DEF Stamped
    <3>2. ChainSound(B, MaxBeacon, g.chain)
      BY <1>3, <2>12, <3>1, SoundStays
    <3>3. \A b \in g.chain.nodes \ {Root} : B[b] = beaconBlocks[b]
      <4>1. g.chain.nodes \subseteq 0 .. N
        BY <1>1, <3>1 DEF ChainSound
      <4> QED
        BY <2>1, <4>1 DEF Root
    <3> QED
      BY <2>15, <3>2, <3>3 DEF Stamped
  <2>16. PICK row : row = IngestBlock(B, e, N + 1)
    OBVIOUS
  <2>17. /\ Stamped(source, B, row)
         /\ \A b \in e.chain.nodes \ {Root} : row.ts[b] = e.ts[b]
    <3>1. Stamped(source, B, e) /\ N + 1 \in 1 .. Len(B) /\ B[N + 1].parent \in e.chain.nodes
      BY <1>12, <2>1, <2>3, <2>15
    <3> QED
      BY <2>14, <2>16, <3>1, IngestKeeps
  <2>18. beaconBlocks' = B /\ beacon' = [beacon EXCEPT ![n] = row]
    BY <1>10, <1>14, <2>16
  <2>19. \A m \in BeaconNode : Stamped(source, beaconBlocks', beacon[m])
    BY <2>15, <2>18 DEF BeaconInv
  <2>20. BeaconTable(source, beaconBlocks') /\ Stamped(source, beaconBlocks', row)
    BY <2>14, <2>17, <2>18
  <2>21. \A b \in 1 .. Len(beaconBlocks) : beaconBlocks'[b] = beaconBlocks[b]
    BY <1>1, <2>1, <2>18
  <2>22. \A b \in beacon[n].chain.nodes \ {Root} : row.ts[b] = beacon[n].ts[b]
    BY <1>11, <2>17
  <2> QED
    BY <1>10, <2>18, <2>19, <2>20, <2>21, <2>22, BeaconUpdate
<1> QED
  BY <1>13, <1>14

LEMMA BeaconSteps ==
  ASSUME BeaconInv, [BeaconNext]_beaconVars
  PROVE  BeaconInv' /\ BeaconStep
<1>1. CASE ClockTick
  <2>1. /\ UNCHANGED <<source, beaconBlocks, beacon>> /\ clock' = clock + 1
        /\ clock < MaxTime
    BY <1>1 DEF ClockTick
  <2>2. clock' \in 0 .. MaxTime
    BY <2>1, BeaconAssumption DEF BeaconInv
  <2>3. BeaconInv'
    BY <2>1, <2>2 DEF BeaconInv
  <2> QED
    BY <2>1, <2>3 DEF BeaconStep
<1>2. CASE UNCHANGED beaconVars
  <2>1. UNCHANGED <<source, clock, beaconBlocks, beacon>>
    BY <1>2 DEF beaconVars
  <2>2. BeaconInv'
    BY <2>1 DEF BeaconInv
  <2> QED
    BY <2>1, <2>2 DEF BeaconStep
<1>3. CASE \E n \in BeaconNode :
             \/ BeaconReadTip(n) \/ BeaconPropose(n)
             \/ \E i \in DOMAIN beaconBlocks : BeaconObserve(n, i)
  BY <1>3, BeaconReadKeeps, BeaconProposeKeeps, BeaconObserveKeeps
<1> QED
  BY <1>1, <1>2, <1>3 DEF BeaconNext

(* The invariant of the beacon: sound chains over a table in which the     *)
(* messages of one block agree on what its id fixes.                       *)
THEOREM BeaconInvariant == BeaconSpec => []BeaconInv
<1>1. BeaconInit => BeaconInv
  BY BeaconStart
<1>2. BeaconInv /\ [BeaconNext]_beaconVars => BeaconInv'
  BY BeaconSteps
<1> QED
  BY <1>1, <1>2, PTL DEF BeaconSpec

(* A canonical block is known.                                             *)
LEMMA CanonicalKnown ==
  ASSUME NEW B, BlockTable(B), NEW M, NEW c, ChainSound(B, M, c)
  PROVE  \A i \in 1 .. Len(c.canonical) : c.canonical[i] \in c.nodes
<1>1. PICK f : WaysTo(f, B)
  BY TableWays
<1>2. PICK N \in Nat : N = Len(B)
  BY DEF BlockTable
<1>3. PICK par : par = ParentIn(B)
  OBVIOUS
<1>4. ParentsFirst(par, N) /\ Ways(f, N, par)
  BY <1>1, <1>2, <1>3 DEF WaysTo
<1>5. Rooted(c.nodes, N, par)
  <2>1. \A b \in 1 .. N : par[b] = B[b].parent /\ b # Root
    BY <1>2, <1>3 DEF ParentIn, Root
  <2> QED
    BY <2>1 DEF Rooted, ChainSound
<1>6. PICK t : Leads(B, c, t)
  BY DEF ChainSound
<1>7. t \in c.nodes /\ t \in 0 .. N
  BY <1>2, <1>6 DEF Leads, ChainSound
<1>8. ToSet(f[t]) \subseteq c.nodes
  BY <1>4, <1>5, <1>7, WayInside
<1>9. PICK s \in Seq(0 .. N) : s = f[t]
  BY <1>4, <1>7, WayEnds DEF WayEnd
<1>10. c.canonical = s
  BY <1>1, <1>2, <1>6, <1>7, <1>9 DEF Leads, WaysTo
<1>11. \A i \in 1 .. Len(s) : s[i] \in ToSet(s)
  BY DEF ToSet
<1> QED
  BY <1>8, <1>9, <1>10, <1>11

(* Before a canonical block stands its parent.                             *)
LEMMA PredecessorIsParent ==
  ASSUME NEW B, BlockTable(B), NEW M, NEW c, ChainSound(B, M, c),
         NEW i \in 1 .. Len(c.canonical), c.canonical[i] # Root
  PROVE  PredecessorIn(c, c.canonical[i]) = B[c.canonical[i]].parent
<1>1. PICK b : b = c.canonical[i]
  OBVIOUS
<1>2. Positions(B, c)
  BY SoundIsBest
<1>3. PICK s : s = c.canonical
  OBVIOUS
<1>4. s \in Seq(0 .. M)
  BY <1>3 DEF ChainSound, ForkAwareChain
<1>5. PICK at : at = {j \in DOMAIN s : s[j] = b}
  OBVIOUS
<1>6. ASSUME NEW j \in at PROVE j = i
  <2>1. j \in 1 .. Len(s) /\ s[j] = b
    BY <1>4, <1>5
  <2>2. HeightIn(B, b) = j - 1 /\ HeightIn(B, b) = i - 1
    BY <1>1, <1>2, <1>3, <2>1 DEF Positions
  <2> QED
    BY <2>1, <2>2
<1>7. i \in at
  BY <1>1, <1>3, <1>4, <1>5
<1>8. i # 1
  <2>1. HeightIn(B, b) = i - 1 /\ b \in 0 .. Len(B)
    BY <1>1, <1>2 DEF Positions
  <2>2. HeightFact(B, b)
    BY <2>1, TableHeights
  <2> QED
    BY <1>1, <2>1, <2>2 DEF HeightFact
<1>9. (CHOOSE j \in at : TRUE) = i
  BY <1>6, <1>7
<1>10. PredecessorIn(c, b) = s[i - 1]
  <2>1. ~ (at = {} \/ 1 \in at)
    BY <1>6, <1>7, <1>8
  <2>2. PredecessorIn(c, b) = IF at = {} \/ 1 \in at THEN Root
                              ELSE s[(CHOOSE j \in at : TRUE) - 1]
    BY <1>3, <1>5 DEF PredecessorIn
  <2> QED
    BY <1>9, <2>1, <2>2
<1>11. B[b].parent = s[i - 1]
  BY <1>1, <1>2, <1>3, <1>8 DEF Positions
<1> QED
  BY <1>1, <1>10, <1>11

(* What is drawn from a canonical block is settled by the block.           *)
BlockDraw(d, b) ==
  CASE d = "direct" -> Direct(b)
    [] d = "rehash" -> Rehash(b)
    [] d = "timestamp_mix" -> <<b, beaconBlocks[b].ts>>
    [] d = "xor_chain" -> <<b, beaconBlocks[b].parent>>
    [] d = "modulo" -> Modulo(b)
    [] d = "height_salt" -> HeightSalt(b)

LEMMA DrawSettled ==
  ASSUME BeaconInv, NEW n \in BeaconNode, NEW d \in Derivation,
         d # "timestamp_mix" \/ TimeBound,
         NEW i \in 1 .. Len(beacon[n].chain.canonical),
         NEW b, b = beacon[n].chain.canonical[i], b # Root
  PROVE  Draw(beacon[n], d, b) = BlockDraw(d, b)
<1>1. Stamped(source, beaconBlocks, beacon[n]) /\ BlockTable(beaconBlocks)
  BY DEF BeaconInv, BeaconTable
<1>2. ChainSound(beaconBlocks, MaxBeacon, beacon[n].chain)
  BY <1>1 DEF Stamped
<1>3. b \in beacon[n].chain.nodes
  BY <1>1, <1>2, CanonicalKnown
<1>4. PredecessorIn(beacon[n].chain, b) = beaconBlocks[b].parent
  BY <1>1, <1>2, PredecessorIsParent
<1>5. TimeBound => beacon[n].ts[b] = beaconBlocks[b].ts
  BY <1>1, <1>3 DEF Stamped, TimeBound, Fixed
<1>6. XorChain(beacon[n], b) = <<b, beaconBlocks[b].parent>>
  BY <1>4 DEF XorChain
<1>7. TimeBound => TimestampMix(beacon[n], b) = <<b, beaconBlocks[b].ts>>
  BY <1>5 DEF TimestampMix
<1>8. CASE d = "timestamp_mix"
  BY <1>7, <1>8 DEF Draw, BlockDraw
<1>9. CASE d = "xor_chain"
  BY <1>6, <1>9 DEF Draw, BlockDraw
<1>10. CASE d \in {"direct", "rehash", "modulo", "height_salt"}
  BY <1>10 DEF Draw, BlockDraw
<1> QED
  BY <1>8, <1>9, <1>10 DEF Derivation

LEMMA BeaconAgrees == BeaconInv => BeaconDrawAgreed
<1> SUFFICES ASSUME BeaconInv, NEW n \in BeaconNode, NEW m \in BeaconNode,
                    NEW d \in Derivation, d # "timestamp_mix" \/ TimeBound
             PROVE  /\ beacon[n].chain.nodes = beacon[m].chain.nodes =>
                         Random(beacon[n], d) = Random(beacon[m], d)
                    /\ \A b \in {b \in (beacon[n].chain.nodes \cap beacon[m].chain.nodes)
                                         \ {Root} :
                          \A g \in {beacon[n], beacon[m]} :
                            \E i \in DOMAIN g.chain.canonical : g.chain.canonical[i] = b} :
                         Draw(beacon[n], d, b) = Draw(beacon[m], d, b)
  BY DEF BeaconDrawAgreed
<1>1. /\ BlockTable(beaconBlocks)
      /\ ChainSound(beaconBlocks, MaxBeacon, beacon[n].chain)
      /\ ChainSound(beaconBlocks, MaxBeacon, beacon[m].chain)
  BY DEF BeaconInv, BeaconTable, Stamped
<1>2. /\ beacon[n].chain.canonical \in Seq(0 .. MaxBeacon)
      /\ beacon[m].chain.canonical \in Seq(0 .. MaxBeacon)
  BY <1>1 DEF ChainSound, ForkAwareChain
<1>3. ASSUME beacon[n].chain.nodes = beacon[m].chain.nodes
      PROVE  Random(beacon[n], d) = Random(beacon[m], d)
  <2>1. PICK c : c = beacon[n].chain.canonical
    OBVIOUS
  <2>2. c = beacon[m].chain.canonical
    BY <1>1, <1>3, <2>1, SoundAgreed
  <2>3. Len(c) \in Nat /\ Len(c) >= 1
    BY <1>1, <2>1, SoundIsBest DEF Positions
  <2>4. PICK h \in Int : h = (Len(c) - 1) - BeaconDepth
    <3>1. BeaconDepth \in Nat
      BY BeaconAssumption
    <3>2. (Len(c) - 1) - BeaconDepth \in Int
      BY <2>3, <3>1
    <3> QED
      BY <3>2
  <2>5. PICK fin : fin = IF h < 1 THEN Root ELSE c[h + 1]
    OBVIOUS
  <2>6. PICK b : b = IF fin # Root THEN fin ELSE c[Len(c)]
    OBVIOUS
  <2>7. FinalizedBlock(beacon[n]) = fin /\ FinalizedBlock(beacon[m]) = fin
    BY <2>1, <2>2, <2>4, <2>5 DEF FinalizedBlock, ChainHeight
  <2>8. ChainTip(beacon[n].chain) = c[Len(c)] /\ ChainTip(beacon[m].chain) = c[Len(c)]
    BY <2>1, <2>2 DEF ChainTip
  <2>9. /\ Random(beacon[n], d) = IF b = Root THEN <<>> ELSE Draw(beacon[n], d, b)
        /\ Random(beacon[m], d) = IF b = Root THEN <<>> ELSE Draw(beacon[m], d, b)
    BY <2>6, <2>7, <2>8 DEF Random
  <2>10. CASE b = Root
    BY <2>9, <2>10
  <2>11. CASE b # Root
    <3>1. PICK i \in 1 .. Len(c) : b = c[i]
      <4>1. CASE fin # Root
        <5>1. h >= 1 /\ h + 1 \in 1 .. Len(c)
          BY <2>3, <2>4, <2>5, <4>1, BeaconAssumption
        <5> QED
          BY <2>5, <2>6, <4>1, <5>1
      <4>2. CASE fin = Root
        BY <2>3, <2>6, <4>2
      <4> QED
        BY <4>1, <4>2
    <3>2. Draw(beacon[n], d, b) = BlockDraw(d, b)
      BY <2>1, <2>11, <3>1, DrawSettled
    <3>3. Draw(beacon[m], d, b) = BlockDraw(d, b)
      BY <2>2, <2>11, <3>1, DrawSettled
    <3> QED
      BY <2>9, <2>11, <3>2, <3>3
  <2> QED
    BY <2>10, <2>11
<1>4. ASSUME NEW b, b # Root,
             NEW i \in DOMAIN beacon[n].chain.canonical, beacon[n].chain.canonical[i] = b,
             NEW j \in DOMAIN beacon[m].chain.canonical, beacon[m].chain.canonical[j] = b
      PROVE  Draw(beacon[n], d, b) = Draw(beacon[m], d, b)
  <2>1. i \in 1 .. Len(beacon[n].chain.canonical) /\ j \in 1 .. Len(beacon[m].chain.canonical)
    BY <1>2
  <2>2. Draw(beacon[n], d, b) = BlockDraw(d, b)
    BY <1>4, <2>1, DrawSettled
  <2>3. Draw(beacon[m], d, b) = BlockDraw(d, b)
    BY <1>4, <2>1, DrawSettled
  <2> QED
    BY <2>2, <2>3
<1> QED
  BY <1>3, <1>4

(* Nodes with the same blocks draw the same number, and a block canonical  *)
(* at two nodes gives both the same, by every source and every derivation  *)
(* but a timestamp the id does not fix (beacon/core.py, beacon/            *)
(* derivation.py).                                                         *)
THEOREM BeaconDrawAgreedHolds == BeaconSpec => []BeaconDrawAgreed
<1>1. BeaconInv => BeaconDrawAgreed
  BY BeaconAgrees
<1> QED
  BY <1>1, BeaconInvariant, PTL

(* What BeaconDrawStable says of a step.                                   *)
DrawsStay ==
  \A n \in BeaconNode, d \in Derivation :
    LET e == beacon[n]
        f == beacon'[n]
        stay == {e.chain.canonical[i] : i \in 2 .. Len(e.chain.canonical)}
                  \cap {f.chain.canonical[i] : i \in 2 .. Len(f.chain.canonical)}
    IN \A b \in stay : Draw(e, d, b) = Draw(f, d, b)

LEMMA BeaconStays ==
  ASSUME BeaconInv, BeaconInv', BeaconStep
  PROVE  DrawsStay
<1> SUFFICES ASSUME NEW n \in BeaconNode, NEW d \in Derivation,
                    NEW i \in 2 .. Len(beacon[n].chain.canonical),
                    NEW j \in 2 .. Len(beacon'[n].chain.canonical),
                    NEW b, b = beacon[n].chain.canonical[i],
                    b = beacon'[n].chain.canonical[j]
             PROVE  Draw(beacon[n], d, b) = Draw(beacon'[n], d, b)
  BY DEF DrawsStay
<1>1. PICK e : e = beacon[n]
  OBVIOUS
<1>2. PICK f : f = beacon'[n]
  OBVIOUS
<1>3. PICK C : C = beaconBlocks'
  OBVIOUS
<1>4. BlockTable(beaconBlocks) /\ ChainSound(beaconBlocks, MaxBeacon, e.chain)
  BY <1>1 DEF BeaconInv, BeaconTable, Stamped
<1>5. BlockTable(C) /\ ChainSound(C, MaxBeacon, f.chain)
  BY <1>2, <1>3 DEF BeaconInv, BeaconTable, Stamped
<1>6. Positions(beaconBlocks, e.chain) /\ Positions(C, f.chain)
  BY <1>4, <1>5, SoundIsBest
<1>7. i \in 1 .. Len(e.chain.canonical) /\ i > 1 /\ j \in 1 .. Len(f.chain.canonical)
  BY <1>1, <1>2, <1>6 DEF Positions
<1>8. b \in 0 .. Len(beaconBlocks) /\ b # Root
  BY <1>1, <1>6, <1>7 DEF Positions
<1>9. b \in 1 .. Len(beaconBlocks) /\ C[b] = beaconBlocks[b]
  BY <1>3, <1>8 DEF Root, BeaconStep
<1>10. PredecessorIn(e.chain, b) = beaconBlocks[b].parent
  <2>1. e.chain.canonical[i] = b /\ e.chain.canonical[i] # Root
    BY <1>1, <1>8
  <2>2. PredecessorIn(e.chain, e.chain.canonical[i])
          = beaconBlocks[e.chain.canonical[i]].parent
    BY <1>4, <1>7, <2>1, PredecessorIsParent
  <2> QED
    BY <2>1, <2>2
<1>11. PredecessorIn(f.chain, b) = C[b].parent
  <2>1. f.chain.canonical[j] = b /\ f.chain.canonical[j] # Root
    BY <1>2, <1>8
  <2>2. PredecessorIn(f.chain, f.chain.canonical[j]) = C[f.chain.canonical[j]].parent
    BY <1>5, <1>7, <2>1, PredecessorIsParent
  <2> QED
    BY <2>1, <2>2
<1>12. XorChain(e, b) = XorChain(f, b)
  BY <1>9, <1>10, <1>11 DEF XorChain
<1>13. TimestampMix(e, b) = TimestampMix(f, b)
  <2>1. b \in e.chain.nodes
    BY <1>1, <1>4, <1>7, CanonicalKnown
  <2>2. f.ts[b] = e.ts[b]
    BY <1>1, <1>2, <1>8, <2>1 DEF BeaconStep
  <2> QED
    BY <2>2 DEF TimestampMix
<1>14. Draw(e, d, b) = Draw(f, d, b)
  BY <1>12, <1>13 DEF Draw, Derivation
<1> QED
  BY <1>1, <1>2, <1>14

(* A number drawn from a block stays while the block is canonical, when    *)
(* the block comes again with another timestamp too (beacon/core.py).      *)
THEOREM BeaconDrawStableHolds == BeaconSpec => BeaconDrawStable
<1>1. BeaconInv /\ [BeaconNext]_beaconVars => BeaconInv' /\ BeaconStep
  BY BeaconSteps
<1>2. BeaconInv /\ BeaconInv' /\ [BeaconNext]_beaconVars => [DrawsStay]_beaconVars
  BY <1>1, BeaconStays
<1>3. BeaconInv /\ BeaconInv' /\ [BeaconNext]_beaconVars =>
        [\A n \in BeaconNode, d \in Derivation :
           LET e == beacon[n]
               f == beacon'[n]
               stay == {e.chain.canonical[i] : i \in 2 .. Len(e.chain.canonical)}
                         \cap {f.chain.canonical[i] : i \in 2 .. Len(f.chain.canonical)}
           IN \A b \in stay : Draw(e, d, b) = Draw(f, d, b)]_beaconVars
  BY <1>2 DEF DrawsStay
<1> QED
  BY <1>3, BeaconInvariant, PTL DEF BeaconSpec, BeaconDrawStable

-----------------------------------------------------------------------------
(* A run of all engines is, seen from each, a run of that engine: an       *)
(* engine that was not chosen rests (consensus/registry.py, create).       *)
THEOREM EngineParts ==
  EngineSpec => /\ PbftSpec /\ HsSpec /\ AvaSpec /\ HgSpec /\ RelaySpec
                /\ DagSpec /\ LatSpec /\ PowSpec /\ BeaconSpec /\ SnowSpec
<1>1. EngineInit => /\ PbftInit /\ HsInit /\ AvaInit /\ HgInit /\ RelayInit
                    /\ DagInit /\ LatInit /\ PowInit /\ BeaconInit /\ SnowInit
  BY DEF EngineInit
<1>2. ASSUME [EngineNext]_engineVars
      PROVE  /\ [PbftNext]_pbftVars /\ [HsNext]_hsVars /\ [AvaNext]_avaVars
             /\ [HgNext]_hgVars /\ [RelayNext]_relayVars /\ [DagNext]_dagVars
             /\ [LatNext]_latVars /\ [PowNext]_powVars /\ [BeaconNext]_beaconVars
             /\ [SnowNext]_snowVars
  BY <1>2 DEF EngineNext, engineVars
<1> QED
  BY <1>1, <1>2, PTL DEF EngineSpec, PbftSpec, HsSpec, AvaSpec, HgSpec, RelaySpec,
                         DagSpec, LatSpec, PowSpec, BeaconSpec, SnowSpec

(* What is proved of the engines, of the composition that the run checks.  *)
THEOREM EnginesSound ==
  ASSUME CorrectPrimary, HsMinority, SnowThreshold > 0
  PROVE  EngineSpec => [](/\ PbftAgreement /\ HsSteadyAgreement /\ AvaPreferenceLeads
                          /\ HgDecidedSupported /\ RelaySpread
                          /\ SnowValidity /\ SnowCountedOnce
                          /\ LatOneConfirmed /\ LatConserved /\ DagOrderFree
                          /\ PowBestChain /\ BeaconDrawAgreed)
<1>1. PbftSpec => []PbftAgreement
  BY PbftAgreementHolds
<1>2. HsSpec => []HsSteadyAgreement
  BY HsSteadyAgreementHolds
<1>3. SnowSpec => []SnowValidity
  BY SnowValidityHolds
<1> QED
  BY <1>1, <1>2, <1>3, EngineParts, AvaPreferenceHolds, HgSupportHolds, RelaySpreads,
     SnowCountedOnceHolds, LatOneConfirmedHolds, LatConservedHolds, DagOrderFreeHolds,
     PowBestChainHolds, BeaconDrawAgreedHolds, PTL

(* The logs of the replicas, of the composition that the run checks: PBFT's *)
(* under a correct primary, HotStuff's as long as its replicas agree.      *)
THEOREM EnginesKeepLogs ==
  ASSUME CorrectPrimary
  PROVE  EngineSpec => /\ PbftImplementsLog
                       /\ []HsAgreement => HsImplementsLog
<1>1. PbftSpec => PbftImplementsLog
  BY PbftLogRefined
<1> QED
  BY <1>1, EngineParts, HsAgreementMakesLog, PTL

(* The engine chosen stays chosen, and every engine's state is of its kind.*)
THEOREM EnginesTyped == EngineSpec => []EngineTypeOK
<1>1. EngineInit => kind \in Kind
  BY DEF EngineInit
<1>2. kind \in Kind /\ [EngineNext]_engineVars => (kind \in Kind)'
  <2>1. [EngineNext]_engineVars => kind' = kind
    BY DEF EngineNext, engineVars
  <2> QED
    BY <2>1
<1>3. EngineSpec => [](kind \in Kind)
  BY <1>1, <1>2, PTL DEF EngineSpec
<1>4. RelayInv => RelayTypeOK
  BY DEF RelayInv
<1>5. SnowInv => SnowTypeOK
  BY DEF SnowInv
<1>6. PowInv => PowTypeOK
  BY DEF PowInv, PowTypeOK, MinedSound, MinedBlock
<1>7. BeaconInv => BeaconTypeOK
  BY DEF BeaconInv, BeaconTypeOK, BeaconTable, BeaconEngine
<1>8. (/\ kind \in Kind /\ PbftTypeOK /\ HsTypeOK /\ AvaTypeOK /\ HgTypeOK /\ RelayTypeOK
       /\ DagTypeOK /\ LatTypeOK /\ PowTypeOK /\ BeaconTypeOK /\ SnowTypeOK) => EngineTypeOK
  BY DEF EngineTypeOK
<1> QED
  BY <1>3, <1>4, <1>5, <1>6, <1>7, <1>8, EngineParts, PbftTypes, HsTypes, AvaPreferenceHolds,
     HgSupportHolds, RelayInvariant, DagTypesHold, LatTypesHold, PowInvariant,
     BeaconInvariant, SnowInvariant, PTL
=============================================================================
