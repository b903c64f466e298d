---------------------------- MODULE FoldTheorems ----------------------------
(***************************************************************************)
(* Facts about definitions by recursion over numbers, finite sets and      *)
(* sequences, stated of sets and functions so that they can be cited for   *)
(* any operator: an operator enters as the table of its values.            *)
(***************************************************************************)
EXTENDS Collections,
        FiniteSetTheorems, SequenceTheorems, WellFoundedInduction, TLAPS

(* A set of natural numbers has a least element: here, of their names. *)
LEMMA Least ==
  ASSUME NEW S, S # {}, NEW f, \A i \in S : f[i] \in Nat
  PROVE  \E i \in S : \A j \in S : f[i] <= f[j]
<1>1. PICK T : T = {f[i] : i \in S}
  OBVIOUS
<1>2. T \subseteq Nat /\ T # {}
  BY <1>1
<1>3. PICK R : R = {ss \in Nat \X Nat : ss[1] < ss[2]}
  OBVIOUS
<1>4. IsWellFoundedOn(R, Nat)
  BY <1>3, NatLessThanWellFounded DEF OpToRel
<1>5. PICK x \in T : \A y \in T : ~ (<<y, x>> \in R)
  BY <1>2, <1>4, WFMin
<1>6. \A y \in T : ~ (y < x)
  BY <1>2, <1>3, <1>5
<1>7. PICK i \in S : x = f[i]
  BY <1>1
<1>8. ASSUME NEW j \in S PROVE f[i] <= f[j]
  <2>1. f[j] \in T
    BY <1>1
  <2>2. ~ (f[j] < f[i])
    BY <1>6, <1>7, <2>1
  <2> QED
    BY <2>2
<1> QED
  BY <1>8

(* Induction over the natural numbers, of a set. *)
LEMMA EveryNumber ==
  ASSUME NEW P, 0 \in P, \A n \in Nat : n \in P => n + 1 \in P
  PROVE  \A n \in Nat : n \in P
<1> SUFFICES ASSUME NEW m \in Nat, m \notin P PROVE FALSE
  OBVIOUS
<1>1. PICK S : S = {n \in Nat : n \notin P}
  OBVIOUS
<1>2. PICK f : f = [n \in Nat |-> n]
  OBVIOUS
<1>3. S # {} /\ \A i \in S : f[i] \in Nat
  BY <1>1, <1>2
<1>4. PICK i \in S : \A j \in S : f[i] <= f[j]
  BY <1>3, Least
<1>5. i \in Nat /\ i # 0 /\ i - 1 \notin S
  BY <1>1, <1>2, <1>4
<1>6. i - 1 \in Nat /\ (i - 1) + 1 = i
  BY <1>5
<1> QED
  BY <1>1, <1>5, <1>6

LEMMA EveryPosition ==
  ASSUME NEW N \in Nat, NEW P, 0 \in P, \A i \in 1 .. N : i - 1 \in P => i \in P
  PROVE  \A i \in 0 .. N : i \in P
<1>1. PICK Q : Q = {n \in Nat : n \in P \/ n > N}
  OBVIOUS
<1>2. 0 \in Q
  BY <1>1
<1>3. \A n \in Nat : n \in Q => n + 1 \in Q
  <2> SUFFICES ASSUME NEW n \in Nat, n \in Q, n + 1 <= N PROVE n + 1 \in P
    BY <1>1
  <2>1. n \in P /\ n + 1 \in 1 .. N /\ (n + 1) - 1 = n
    BY <1>1
  <2> QED
    BY <2>1
<1>4. \A n \in Nat : n \in Q
  BY <1>2, <1>3, EveryNumber
<1> QED
  BY <1>1, <1>4

(* Induction over sequences, of a set. *)
LEMMA EverySequence ==
  ASSUME NEW X, NEW P, <<>> \in P,
         \A s \in Seq(X), x \in X : s \in P => Append(s, x) \in P
  PROVE  \A s \in Seq(X) : s \in P
<1>1. PICK Q : Q = {n \in Nat : \A s \in Seq(X) : Len(s) = n => s \in P}
  OBVIOUS
<1>2. 0 \in Q
  BY <1>1
<1>3. ASSUME NEW n \in Nat, n \in Q PROVE n + 1 \in Q
  <2> SUFFICES ASSUME NEW s \in Seq(X), Len(s) = n + 1 PROVE s \in P
    BY <1>1
  <2>1. PICK t : t = [i \in 1 .. n |-> s[i]]
    OBVIOUS
  <2>2. t \in Seq(X) /\ Len(t) = n
    BY <2>1
  <2>3. s[n + 1] \in X
    OBVIOUS
  <2>4. s = Append(t, s[n + 1])
    BY <2>1, <2>2, <2>3
  <2> QED
    BY <1>1, <1>3, <2>2, <2>3, <2>4
<1>4. \A n \in Nat : n \in Q
  BY <1>2, <1>3, EveryNumber
<1> QED
  BY <1>1, <1>4

(* Induction over the subsets of a finite set, of a set. *)
LEMMA EverySubset ==
  ASSUME NEW S, IsFiniteSet(S), NEW P, {} \in P,
         \A s \in SUBSET S : s # {} /\ (\A x \in s : s \ {x} \in P) => s \in P
  PROVE  \A s \in SUBSET S : s \in P
<1>1. PICK Q : Q = {n \in Nat : \A s \in SUBSET S : Cardinality(s) = n => s \in P}
  OBVIOUS
<1>2. ASSUME NEW s \in SUBSET S
      PROVE  /\ IsFiniteSet(s) /\ Cardinality(s) \in Nat
             /\ Cardinality(s) = 0 <=> s = {}
  BY FS_Subset, FS_CardinalityType, FS_EmptySet
<1>3. 0 \in Q
  BY <1>1, <1>2
<1>4. ASSUME NEW n \in Nat, n \in Q PROVE n + 1 \in Q
  <2> SUFFICES ASSUME NEW s \in SUBSET S, Cardinality(s) = n + 1 PROVE s \in P
    BY <1>1
  <2>1. s # {}
    BY <1>2
  <2>2. ASSUME NEW x \in s PROVE s \ {x} \in P
    <3>1. IsFiniteSet(s)
      BY <1>2
    <3>2. Cardinality(s \ {x}) = Cardinality(s) - 1
      BY <3>1, FS_RemoveElement
    <3>3. Cardinality(s \ {x}) = n /\ s \ {x} \in SUBSET S
      BY <3>2
    <3> QED
      BY <1>1, <1>4, <3>3
  <2> QED
    BY <2>1, <2>2
<1>5. \A n \in Nat : n \in Q
  BY <1>3, <1>4, EveryNumber
<1> QED
  BY <1>1, <1>2, <1>5

(* it is the recursion over the subsets of S that starts from base and     *)
(* deals with ch[s] last: G is the table of the operation, over V.         *)
SubsetRun(it, S, V, base, G, ch) ==
  /\ it \in [SUBSET S -> V]
  /\ \A s \in SUBSET S :
       it[s] = IF s = {} THEN base ELSE G[<<it[s \ {ch[s]}], ch[s]>>]

(* There is such a function over every finite set. *)
LEMMA SubsetRecursion ==
  ASSUME NEW S, IsFiniteSet(S), NEW V, NEW base \in V, NEW G, NEW ch,
         \A x \in S, v \in V : G[<<v, x>>] \in V,
         \A s \in SUBSET S : s # {} => ch[s] \in s
  PROVE  \E it : SubsetRun(it, S, V, base, G, ch)
<1>1. PICK D : D = [n \in Nat |-> {s \in SUBSET S : Cardinality(s) <= n}]
  OBVIOUS
<1>2. PICK P : P = {n \in Nat : \E it \in [D[n] -> V] : \A s \in D[n] :
                      it[s] = IF s = {} THEN base ELSE G[<<it[s \ {ch[s]}], ch[s]>>]}
  OBVIOUS
<1>3. ASSUME NEW s \in SUBSET S
      PROVE  /\ IsFiniteSet(s) /\ Cardinality(s) \in Nat
             /\ Cardinality(s) <= Cardinality(S) /\ Cardinality(S) \in Nat
             /\ Cardinality(s) = 0 <=> s = {}
  BY FS_Subset, FS_CardinalityType, FS_EmptySet
<1>4. ASSUME NEW s \in SUBSET S, s # {}
      PROVE  /\ ch[s] \in s /\ s \ {ch[s]} \in SUBSET S
             /\ Cardinality(s \ {ch[s]}) = Cardinality(s) - 1
  <2>1. ch[s] \in s /\ IsFiniteSet(s)
    BY <1>3, <1>4
  <2> QED
    BY <2>1, FS_RemoveElement
<1>5. 0 \in P
  <2>1. D[0] = {{}}
    BY <1>1, <1>3
  <2>2. PICK it : it = [s \in D[0] |-> base]
    OBVIOUS
  <2>3. it \in [D[0] -> V] /\ \A s \in D[0] : s = {} /\ it[s] = base
    BY <2>1, <2>2
  <2> QED
    BY <1>2, <2>3
<1>6. ASSUME NEW n \in Nat, n \in P PROVE n + 1 \in P
  <2>1. PICK it \in [D[n] -> V] : \A s \in D[n] :
          it[s] = IF s = {} THEN base ELSE G[<<it[s \ {ch[s]}], ch[s]>>]
    BY <1>2, <1>6
  <2>2. D[n] \subseteq D[n + 1] /\ {} \in D[n]
    BY <1>1, <1>3
  <2>3. ASSUME NEW s \in D[n + 1], s # {}
        PROVE  ch[s] \in S /\ s \ {ch[s]} \in D[n]
    BY <1>1, <1>3, <1>4, <2>3
  <2>4. PICK up : up = [s \in D[n + 1] |->
                          IF s \in D[n] THEN it[s] ELSE G[<<it[s \ {ch[s]}], ch[s]>>]]
    OBVIOUS
  <2>5. ASSUME NEW s \in D[n + 1] PROVE up[s] \in V
    BY <2>1, <2>2, <2>3, <2>4
  <2>6. ASSUME NEW s \in D[n + 1]
        PROVE  up[s] = IF s = {} THEN base ELSE G[<<up[s \ {ch[s]}], ch[s]>>]
    <3>1. CASE s = {}
      BY <2>1, <2>2, <2>4, <3>1
    <3>2. CASE s # {}
      <4>1. s \ {ch[s]} \in D[n] /\ s \ {ch[s]} \in D[n + 1]
        BY <2>2, <2>3, <3>2
      <4>2. up[s \ {ch[s]}] = it[s \ {ch[s]}]
        BY <2>4, <4>1
      <4> QED
        BY <2>1, <2>4, <3>2, <4>2
    <3> QED
      BY <3>1, <3>2
  <2>7. up \in [D[n + 1] -> V]
    BY <2>4, <2>5
  <2>8. \E f \in [D[n + 1] -> V] : \A s \in D[n + 1] :
          f[s] = IF s = {} THEN base ELSE G[<<f[s \ {ch[s]}], ch[s]>>]
    BY <2>6, <2>7
  <2>9. n + 1 \in Nat
    OBVIOUS
  <2> QED
    BY <1>2, <2>8, <2>9
<1>7. \A n \in Nat : n \in P
  BY <1>5, <1>6, EveryNumber
<1>8. PICK n \in Nat : n = Cardinality(S)
  BY FS_CardinalityType
<1>9. D[n] = SUBSET S
  BY <1>1, <1>3, <1>8
<1>10. \E it \in [D[n] -> V] : \A s \in D[n] :
         it[s] = IF s = {} THEN base ELSE G[<<it[s \ {ch[s]}], ch[s]>>]
  BY <1>2, <1>7
<1> QED
  BY <1>9, <1>10 DEF SubsetRun

-----------------------------------------------------------------------------
(* The greatest position of a set of positions. *)
LEMMA GreatestPosition ==
  ASSUME NEW N \in Nat, NEW t \in SUBSET (1 .. N), t # {}
  PROVE  Max(t) \in t /\ \A y \in t : Max(t) >= y
<1>1. PICK f : f = [i \in 1 .. N |-> N - i]
  OBVIOUS
<1>2. \A i \in t : f[i] \in Nat
  BY <1>1
<1>3. PICK i \in t : \A j \in t : f[i] <= f[j]
  BY <1>2, Least
<1>4. \A j \in t : i >= j
  <2>1. i \in 1 .. N /\ f[i] = N - i /\ \A j \in t : j \in 1 .. N /\ f[j] = N - j
    BY <1>1
  <2> QED
    BY <1>3, <2>1
<1>5. \E x \in t : \A y \in t : x >= y
  BY <1>4
<1> QED
  BY <1>5 DEF Max

LEMMA FirstPositions ==
  ASSUME NEW N \in Nat, NEW n \in 1 .. N
  PROVE  /\ 1 .. n \in SUBSET (1 .. N) /\ 1 .. n # {}
         /\ Max(1 .. n) = n /\ (1 .. n) \ {n} = 1 .. (n - 1)
<1>1. 1 .. n \in SUBSET (1 .. N) /\ 1 .. n # {} /\ n \in 1 .. n
  OBVIOUS
<1>2. Max(1 .. n) \in 1 .. n /\ \A y \in 1 .. n : Max(1 .. n) >= y
  BY <1>1, GreatestPosition
<1>3. Max(1 .. n) = n
  BY <1>1, <1>2
<1> QED
  BY <1>1, <1>3

(* Recursion from left to right over N positions, as FoldLeft does it. *)
PositionRun(it, N, V, base, G) ==
  /\ it \in [SUBSET (1 .. N) -> V]
  /\ \A t \in SUBSET (1 .. N) :
       it[t] = IF t = {} THEN base ELSE G[<<it[t \ {Max(t)}], Max(t)>>]

LEMMA PositionRecursion ==
  ASSUME NEW N \in Nat, NEW V, NEW base \in V, NEW G,
         \A v \in V, i \in 1 .. N : G[<<v, i>>] \in V
  PROVE  \E it : PositionRun(it, N, V, base, G)
<1>1. PICK S : S = 1 .. N
  OBVIOUS
<1>2. IsFiniteSet(S)
  BY <1>1, FS_Interval
<1>3. PICK ch : ch = [t \in SUBSET S |-> Max(t)]
  OBVIOUS
<1>4. \A t \in SUBSET S : t # {} => ch[t] \in t
  BY <1>1, <1>3, GreatestPosition
<1>5. \A x \in S, v \in V : G[<<v, x>>] \in V
  BY <1>1
<1>6. PICK it : SubsetRun(it, S, V, base, G, ch)
  BY <1>2, <1>4, <1>5, SubsetRecursion
<1>7. PositionRun(it, N, V, base, G)
  BY <1>1, <1>3, <1>6 DEF SubsetRun, PositionRun
<1> QED
  BY <1>7

(* tr is what Only has kept after each member of s. *)
OnlySteps(tr, X, s, T) ==
  /\ tr \in [0 .. Len(s) -> Seq(X)]
  /\ tr[0] = <<>> /\ tr[Len(s)] = Only(s, T)
  /\ \A i \in 1 .. Len(s) :
       tr[i] = IF s[i] \in T THEN Append(tr[i - 1], s[i]) ELSE tr[i - 1]

LEMMA OnlyTrace ==
  ASSUME NEW X, NEW T, NEW s \in Seq(X)
  PROVE  \E tr : OnlySteps(tr, X, s, T)
<1>1. PICK N \in Nat : N = Len(s)
  OBVIOUS
<1>2. PICK V : V = Seq(X)
  OBVIOUS
<1>3. PICK G : G = [p \in V \X (1 .. N) |->
                      IF s[p[2]] \in T THEN Append(p[1], s[p[2]]) ELSE p[1]]
  OBVIOUS
<1>4. /\ <<>> \in V
      /\ \A v \in V, i \in 1 .. N :
           /\ G[<<v, i>>] = IF s[i] \in T THEN Append(v, s[i]) ELSE v
           /\ G[<<v, i>>] \in V
  BY <1>1, <1>2, <1>3
<1>5. PICK it : PositionRun(it, N, V, <<>>, G)
  <2>1. <<>> \in V /\ \A v \in V, i \in 1 .. N : G[<<v, i>>] \in V
    BY <1>4
  <2> QED
    BY <2>1, PositionRecursion
<1>6. \A t \in SUBSET (1 .. N) : t # {} => Max(t) \in 1 .. N
  BY GreatestPosition
<1>7. it = [t \in SUBSET (1 .. N) |->
              IF t = {} THEN <<>>
              ELSE IF s[Max(t)] \in T THEN Append(it[t \ {Max(t)}], s[Max(t)])
                                      ELSE it[t \ {Max(t)}]]
  <2>1. ASSUME NEW t \in SUBSET (1 .. N), t # {}
        PROVE  it[t] = IF s[Max(t)] \in T THEN Append(it[t \ {Max(t)}], s[Max(t)])
                                          ELSE it[t \ {Max(t)}]
    BY <1>4, <1>5, <1>6, <2>1 DEF PositionRun
  <2> QED
    BY <1>5, <2>1 DEF PositionRun
<1>8. PICK fold : fold = CHOOSE f : f = [t \in SUBSET (1 .. N) |->
              IF t = {} THEN <<>>
              ELSE IF s[Max(t)] \in T THEN Append(f[t \ {Max(t)}], s[Max(t)])
                                      ELSE f[t \ {Max(t)}]]
  OBVIOUS
<1>9. fold = [t \in SUBSET (1 .. N) |->
              IF t = {} THEN <<>>
              ELSE IF s[Max(t)] \in T THEN Append(fold[t \ {Max(t)}], s[Max(t)])
                                      ELSE fold[t \ {Max(t)}]]
  BY <1>7, <1>8
<1>10. DOMAIN s = 1 .. N
  BY <1>1
<1>11. Only(s, T) = fold[1 .. N]
  BY <1>8, <1>10 DEF Only, FoldLeft, MapThenFoldSet
<1>12. PICK tr : tr = [n \in 0 .. N |-> fold[1 .. n]]
  OBVIOUS
<1>13. tr[0] = <<>>
  <2>1. 1 .. 0 = {} /\ {} \in SUBSET (1 .. N)
    OBVIOUS
  <2>2. fold[{}] = <<>>
    BY <1>9, <2>1
  <2> QED
    BY <1>12, <2>1, <2>2
<1>14. ASSUME NEW i \in 1 .. N
       PROVE  tr[i] = IF s[i] \in T THEN Append(tr[i - 1], s[i]) ELSE tr[i - 1]
  <2>1. PICK t \in SUBSET (1 .. N) : t = 1 .. i
    OBVIOUS
  <2>2. t # {} /\ Max(t) = i /\ t \ {Max(t)} = 1 .. (i - 1)
    BY <2>1, FirstPositions
  <2>3. fold[t] = IF s[Max(t)] \in T THEN Append(fold[t \ {Max(t)}], s[Max(t)])
                                     ELSE fold[t \ {Max(t)}]
    BY <1>9, <2>2
  <2>4. tr[i] = fold[t] /\ tr[i - 1] = fold[1 .. (i - 1)]
    BY <1>12, <2>1
  <2> QED
    BY <2>2, <2>3, <2>4
<1>15. \A i \in 0 .. N : tr[i] \in V
  <2>1. PICK P : P = {i \in 0 .. N : tr[i] \in V}
    OBVIOUS
  <2>2. 0 \in P
    BY <1>4, <1>13, <2>1
  <2>3. ASSUME NEW i \in 1 .. N, i - 1 \in P PROVE i \in P
    <3>1. tr[i - 1] \in Seq(X) /\ s[i] \in X /\ i \in 0 .. N
      <4>1. tr[i - 1] \in V
        BY <2>1, <2>3
      <4>2. i \in 1 .. Len(s)
        BY <1>1
      <4>3. s[i] \in X
        BY <4>2
      <4> QED
        BY <1>2, <4>1, <4>3
    <3>2. PICK a \in Seq(X) : a = tr[i - 1]
      BY <3>1
    <3>3. Append(a, s[i]) \in Seq(X)
      BY <3>1, AppendProperties
    <3>4. tr[i] = IF s[i] \in T THEN Append(a, s[i]) ELSE a
      BY <1>14, <3>2
    <3>5. tr[i] \in Seq(X)
      BY <3>3, <3>4
    <3> QED
      BY <1>2, <2>1, <3>1, <3>5
  <2> QED
    BY <2>1, <2>2, <2>3, EveryPosition
<1>16. tr \in [0 .. N -> V] /\ tr[N] = Only(s, T)
  BY <1>11, <1>12, <1>15
<1> QED
  BY <1>1, <1>2, <1>13, <1>14, <1>16 DEF OnlySteps

LEMMA OnlyEmpty ==
  ASSUME NEW T
  PROVE  Only(<<>>, T) = <<>>
<1>1. PICK X : X = {}
  OBVIOUS
<1>2. PICK s \in Seq(X) : s = <<>>
  <2>1. <<>> \in Seq(X)
    OBVIOUS
  <2> QED
    BY <2>1
<1>3. PICK tr : OnlySteps(tr, X, s, T)
  BY OnlyTrace
<1> QED
  BY <1>2, <1>3 DEF OnlySteps

(* Appending to the second of two concatenated sequences. *)
LEMMA AppendInside ==
  ASSUME NEW X, NEW k \in Seq(X), NEW t \in Seq(X), NEW x \in X
  PROVE  k \o Append(t, x) = Append(k \o t, x)
OBVIOUS

LEMMA OnlyAppend ==
  ASSUME NEW X, NEW T, NEW s \in Seq(X), NEW x \in X
  PROVE  Only(Append(s, x), T) = IF x \in T THEN Append(Only(s, T), x) ELSE Only(s, T)
<1>1. PICK u : u = Append(s, x)
  OBVIOUS
<1>2. PICK N \in Nat : N = Len(s)
  OBVIOUS
<1>3. /\ u \in Seq(X) /\ Len(u) = N + 1 /\ u[N + 1] = x
      /\ \A i \in 1 .. N : u[i] = s[i]
  BY <1>1, <1>2
<1>4. PICK tr : OnlySteps(tr, X, s, T)
  BY OnlyTrace
<1>5. PICK up : OnlySteps(up, X, u, T)
  BY <1>3, OnlyTrace
<1>6. PICK P : P = {i \in 0 .. N : up[i] = tr[i]}
  OBVIOUS
<1>7. 0 \in P
  BY <1>4, <1>5, <1>6 DEF OnlySteps
<1>8. ASSUME NEW i \in 1 .. N, i - 1 \in P PROVE i \in P
  <2>1. up[i - 1] = tr[i - 1] /\ u[i] = s[i]
    BY <1>3, <1>6, <1>8
  <2>2. i \in 1 .. Len(s) /\ i \in 1 .. Len(u) /\ i \in 0 .. N
    BY <1>2, <1>3
  <2>3. tr[i] = IF s[i] \in T THEN Append(tr[i - 1], s[i]) ELSE tr[i - 1]
    BY <1>4, <2>2 DEF OnlySteps
  <2>4. up[i] = IF u[i] \in T THEN Append(up[i - 1], u[i]) ELSE up[i - 1]
    BY <1>5, <2>2 DEF OnlySteps
  <2> QED
    BY <1>6, <2>1, <2>2, <2>3, <2>4
<1>9. \A i \in 0 .. N : i \in P
  BY <1>7, <1>8, EveryPosition
<1>10. up[N] = Only(s, T)
  BY <1>2, <1>4, <1>6, <1>9 DEF OnlySteps
<1>11. N + 1 \in 1 .. Len(u) /\ (N + 1) - 1 = N
  BY <1>3
<1>12. up[N + 1] = IF u[N + 1] \in T THEN Append(up[N], u[N + 1]) ELSE up[N]
  BY <1>5, <1>11 DEF OnlySteps
<1> QED
  BY <1>1, <1>3, <1>5, <1>10, <1>12 DEF OnlySteps

-----------------------------------------------------------------------------
(* The members of a sequence. *)
LEMMA MembersAppend ==
  ASSUME NEW X, NEW s \in Seq(X), NEW x \in X
  PROVE  /\ ToSet(Append(s, x)) = ToSet(s) \cup {x}
         /\ IsInjective(Append(s, x)) <=> IsInjective(s) /\ x \notin ToSet(s)
<1>1. PICK u : u = Append(s, x)
  OBVIOUS
<1>2. PICK N \in Nat : N = Len(s)
  OBVIOUS
<1>3. /\ DOMAIN s = 1 .. N /\ DOMAIN u = 1 .. (N + 1) /\ u[N + 1] = x
      /\ \A i \in 1 .. N : u[i] = s[i]
  BY <1>1, <1>2
<1>4. \A i \in 1 .. (N + 1) : i \in 1 .. N \/ i = N + 1
  OBVIOUS
<1>5. ToSet(u) = ToSet(s) \cup {x}
  BY <1>3, <1>4 DEF ToSet
<1>6. IsInjective(u) <=> IsInjective(s) /\ x \notin ToSet(s)
  BY <1>3, <1>4 DEF ToSet, IsInjective
<1> QED
  BY <1>1, <1>5, <1>6

LEMMA MembersEmpty == ToSet(<<>>) = {} /\ IsInjective(<<>>)
BY DEF ToSet, IsInjective

(* Only keeps those in T, each as often as before. *)
LEMMA OnlyProperties ==
  ASSUME NEW X, NEW T, NEW s \in Seq(X)
  PROVE  /\ Only(s, T) \in Seq(X)
         /\ ToSet(Only(s, T)) = ToSet(s) \cap T
         /\ IsInjective(s) => IsInjective(Only(s, T))
<1>1. PICK P : P = {u \in Seq(X) : /\ Only(u, T) \in Seq(X)
                                   /\ ToSet(Only(u, T)) = ToSet(u) \cap T
                                   /\ IsInjective(u) => IsInjective(Only(u, T))}
  OBVIOUS
<1>2. <<>> \in P
  <2>1. <<>> \in Seq(X) /\ Only(<<>>, T) = <<>>
    BY OnlyEmpty
  <2>2. ToSet(<<>>) = ToSet(<<>>) \cap T
    BY MembersEmpty
  <2> QED
    BY <1>1, <2>1, <2>2
<1>3. ASSUME NEW u \in Seq(X), NEW x \in X, u \in P PROVE Append(u, x) \in P
  <2>1. PICK o \in Seq(X) : o = Only(u, T)
    BY <1>1, <1>3
  <2>2. ToSet(o) = ToSet(u) \cap T /\ (IsInjective(u) => IsInjective(o))
    BY <1>1, <1>3, <2>1
  <2>3. PICK v \in Seq(X) : v = Append(u, x)
    BY AppendProperties
  <2>4. ToSet(v) = ToSet(u) \cup {x} /\ (IsInjective(v) <=> IsInjective(u) /\ x \notin ToSet(u))
    BY <2>3, MembersAppend
  <2>5. PICK w : w = Only(v, T)
    OBVIOUS
  <2>6. w = IF x \in T THEN Append(o, x) ELSE o
    BY <2>1, <2>3, <2>5, OnlyAppend
  <2>7. /\ ToSet(Append(o, x)) = ToSet(o) \cup {x}
        /\ IsInjective(Append(o, x)) <=> IsInjective(o) /\ x \notin ToSet(o)
        /\ Append(o, x) \in Seq(X)
    BY MembersAppend, AppendProperties
  <2>8. w \in Seq(X) /\ ToSet(w) = ToSet(v) \cap T /\ (IsInjective(v) => IsInjective(w))
    BY <2>2, <2>4, <2>6, <2>7
  <2> QED
    BY <1>1, <2>3, <2>5, <2>8
<1>4. \A u \in Seq(X) : u \in P
  BY <1>2, <1>3, EverySequence
<1> QED
  BY <1>1, <1>4

(* What Only keeps depends on the members of s only. *)
LEMMA OnlyAgree ==
  ASSUME NEW X, NEW S, NEW T, NEW s \in Seq(X), ToSet(s) \cap S = ToSet(s) \cap T
  PROVE  Only(s, S) = Only(s, T)
<1>1. PICK P : P = {u \in Seq(X) : ToSet(u) \cap S = ToSet(u) \cap T =>
                                     Only(u, S) = Only(u, T)}
  OBVIOUS
<1>2. <<>> \in P
  <2>1. <<>> \in Seq(X)
    OBVIOUS
  <2> QED
    BY <1>1, <2>1, OnlyEmpty
<1>3. ASSUME NEW u \in Seq(X), NEW x \in X, u \in P PROVE Append(u, x) \in P
  <2>1. ASSUME ToSet(Append(u, x)) \cap S = ToSet(Append(u, x)) \cap T
        PROVE  Only(Append(u, x), S) = Only(Append(u, x), T)
    <3>1. ToSet(Append(u, x)) = ToSet(u) \cup {x}
      BY MembersAppend
    <3>2. ToSet(u) \cap S = ToSet(u) \cap T /\ (x \in S <=> x \in T)
      BY <2>1, <3>1
    <3>3. Only(u, S) = Only(u, T)
      BY <1>1, <1>3, <3>2
    <3>4. Only(Append(u, x), S) = IF x \in S THEN Append(Only(u, S), x) ELSE Only(u, S)
      BY OnlyAppend
    <3>5. Only(Append(u, x), T) = IF x \in T THEN Append(Only(u, T), x) ELSE Only(u, T)
      BY OnlyAppend
    <3> QED
      BY <3>2, <3>3, <3>4, <3>5
  <2>2. Append(u, x) \in Seq(X)
    OBVIOUS
  <2> QED
    BY <1>1, <2>1, <2>2
<1>4. \A u \in Seq(X) : u \in P
  BY <1>2, <1>3, EverySequence
<1> QED
  BY <1>1, <1>4

LEMMA OnlyAll ==
  ASSUME NEW X, NEW T, NEW s \in Seq(X), ToSet(s) \subseteq T
  PROVE  Only(s, T) = s
<1>1. PICK P : P = {u \in Seq(X) : ToSet(u) \subseteq T => Only(u, T) = u}
  OBVIOUS
<1>2. <<>> \in P
  <2>1. <<>> \in Seq(X)
    OBVIOUS
  <2> QED
    BY <1>1, <2>1, OnlyEmpty
<1>3. ASSUME NEW u \in Seq(X), NEW x \in X, u \in P PROVE Append(u, x) \in P
  <2>1. ToSet(Append(u, x)) = ToSet(u) \cup {x}
    BY MembersAppend
  <2>2. Only(Append(u, x), T) = IF x \in T THEN Append(Only(u, T), x) ELSE Only(u, T)
    BY OnlyAppend
  <2>3. ToSet(Append(u, x)) \subseteq T => Only(Append(u, x), T) = Append(u, x)
    BY <1>1, <1>3, <2>1, <2>2
  <2>4. Append(u, x) \in Seq(X)
    OBVIOUS
  <2> QED
    BY <1>1, <2>3, <2>4
<1>4. \A u \in Seq(X) : u \in P
  BY <1>2, <1>3, EverySequence
<1> QED
  BY <1>1, <1>4

LEMMA OnlyNone ==
  ASSUME NEW X, NEW T, NEW s \in Seq(X), ToSet(s) \cap T = {}
  PROVE  Only(s, T) = <<>>
<1>1. PICK o \in Seq(X) : o = Only(s, T)
  BY OnlyProperties
<1>2. ToSet(o) = {}
  BY <1>1, OnlyProperties
<1>3. Len(o) \in Nat /\ ~ (Len(o) >= 1)
  BY <1>2 DEF ToSet
<1> QED
  BY <1>1, <1>3

LEMMA MembersCounted ==
  ASSUME NEW X, NEW s \in Seq(X)
  PROVE  /\ IsFiniteSet(ToSet(s)) /\ ToSet(s) \subseteq X
         /\ IsInjective(s) => Cardinality(ToSet(s)) = Len(s)
<1>1. PICK P : P = {u \in Seq(X) : /\ IsFiniteSet(ToSet(u)) /\ ToSet(u) \subseteq X
                                   /\ IsInjective(u) => Cardinality(ToSet(u)) = Len(u)}
  OBVIOUS
<1>2. <<>> \in P
  <2>1. <<>> \in Seq(X) /\ Len(<<>>) = 0
    OBVIOUS
  <2>2. IsFiniteSet({}) /\ Cardinality({}) = 0
    BY FS_EmptySet
  <2> QED
    BY <1>1, <2>1, <2>2, MembersEmpty
<1>3. ASSUME NEW u \in Seq(X), NEW x \in X, u \in P PROVE Append(u, x) \in P
  <2>1. PICK m : m = ToSet(u)
    OBVIOUS
  <2>2. IsFiniteSet(m) /\ m \subseteq X /\ (IsInjective(u) => Cardinality(m) = Len(u))
    BY <1>1, <1>3, <2>1
  <2>3. PICK v \in Seq(X) : v = Append(u, x)
    BY AppendProperties
  <2>4. ToSet(v) = m \cup {x} /\ (IsInjective(v) <=> IsInjective(u) /\ x \notin m)
    BY <2>1, <2>3, MembersAppend
  <2>5. /\ IsFiniteSet(m \cup {x})
        /\ x \notin m => Cardinality(m \cup {x}) = Cardinality(m) + 1
    BY <2>2, FS_AddElement
  <2>6. Len(v) = Len(u) + 1
    BY <2>3
  <2> QED
    BY <1>1, <2>2, <2>3, <2>4, <2>5, <2>6
<1>4. \A u \in Seq(X) : u \in P
  BY <1>2, <1>3, EverySequence
<1> QED
  BY <1>1, <1>4

-----------------------------------------------------------------------------
(* Sums.  A run of a sum over the subsets of S. *)
SumRun(it, f, S) ==
  /\ it \in [SUBSET S -> Int] /\ it[{}] = 0 /\ it[S] = SumOver(f, S)
  /\ \A s \in SUBSET S : s # {} =>
       LET x == CHOOSE x \in s : TRUE IN it[s] = f[x] + it[s \ {x}]

LEMMA SumSteps ==
  ASSUME NEW S, IsFiniteSet(S), NEW f, \A x \in S : f[x] \in Int
  PROVE  \E it : SumRun(it, f, S)
<1>1. PICK G : G = [p \in Int \X S |-> f[p[2]] + p[1]]
  OBVIOUS
<1>2. \A x \in S, v \in Int : G[<<v, x>>] = f[x] + v /\ G[<<v, x>>] \in Int
  BY <1>1
<1>3. PICK ch : ch = [s \in SUBSET S |-> CHOOSE x \in s : TRUE]
  OBVIOUS
<1>4. \A s \in SUBSET S : s # {} => ch[s] \in s
  BY <1>3
<1>5. PICK it : SubsetRun(it, S, Int, 0, G, ch)
  <2>1. \A x \in S, v \in Int : G[<<v, x>>] \in Int
    BY <1>2
  <2>2. 0 \in Int
    OBVIOUS
  <2> QED
    BY <1>4, <2>1, <2>2, SubsetRecursion
<1>6. it = [s \in SUBSET S |->
              IF s = {} THEN 0
              ELSE f[CHOOSE x \in s : TRUE] + it[s \ {CHOOSE x \in s : TRUE}]]
  <2>1. ASSUME NEW s \in SUBSET S, s # {}
        PROVE  it[s] = f[CHOOSE x \in s : TRUE] + it[s \ {CHOOSE x \in s : TRUE}]
    <3>1. PICK x \in s : x = CHOOSE z \in s : TRUE
      BY <2>1
    <3>2. ch[s] = x /\ s \ {x} \in SUBSET S
      BY <1>3, <3>1
    <3>3. it[s \ {x}] \in Int
      BY <1>5, <3>2 DEF SubsetRun
    <3>4. it[s] = G[<<it[s \ {x}], x>>]
      BY <1>5, <2>1, <3>2 DEF SubsetRun
    <3>5. it[s] = f[x] + it[s \ {x}]
      BY <1>2, <3>3, <3>4
    <3> QED
      BY <3>1, <3>5
  <2> QED
    BY <1>5, <2>1 DEF SubsetRun
<1>7. PICK sum : sum = CHOOSE g : g = [s \in SUBSET S |->
              IF s = {} THEN 0
              ELSE f[CHOOSE x \in s : TRUE] + g[s \ {CHOOSE x \in s : TRUE}]]
  OBVIOUS
<1>8. sum = [s \in SUBSET S |->
              IF s = {} THEN 0
              ELSE f[CHOOSE x \in s : TRUE] + sum[s \ {CHOOSE x \in s : TRUE}]]
  <2> DEFINE Unfolds(g) == g = [s \in SUBSET S |->
                             IF s = {} THEN 0
                             ELSE f[CHOOSE x \in s : TRUE] + g[s \ {CHOOSE x \in s : TRUE}]]
  <2>1. Unfolds(it)
    BY <1>6
  <2>2. sum = CHOOSE g : Unfolds(g)
    BY <1>7
  <2> HIDE DEF Unfolds
  <2>3. Unfolds(sum)
    BY <2>1, <2>2
  <2> QED
    BY <2>3 DEF Unfolds
<1>9. SumOver(f, S) = sum[S]
  BY <1>7 DEF SumOver, MapThenSumSet, MapThenFoldSet
<1>10. PICK P : P = {s \in SUBSET S : sum[s] \in Int}
  OBVIOUS
<1>11. sum[{}] = 0
  BY <1>8
<1>12. ASSUME NEW s \in SUBSET S, s # {}
       PROVE  LET x == CHOOSE x \in s : TRUE IN sum[s] = f[x] + sum[s \ {x}]
  BY <1>8, <1>12
<1>13. \A s \in SUBSET S : s \in P
  <2>1. {} \in P
    BY <1>10, <1>11
  <2>2. ASSUME NEW s \in SUBSET S, s # {}, \A x \in s : s \ {x} \in P PROVE s \in P
    <3>1. PICK x \in s : x = CHOOSE z \in s : TRUE
      BY <2>2
    <3>2. sum[s] = f[x] + sum[s \ {x}]
      BY <1>12, <2>2, <3>1
    <3>3. sum[s \ {x}] \in Int /\ f[x] \in Int
      BY <1>10, <2>2
    <3> QED
      BY <1>10, <3>2, <3>3
  <2> QED
    BY <2>1, <2>2, EverySubset
<1>14. sum \in [SUBSET S -> Int]
  BY <1>8, <1>10, <1>13
<1>15. SumRun(sum, f, S)
  BY <1>9, <1>11, <1>12, <1>14 DEF SumRun
<1> QED
  BY <1>15

LEMMA SumEmpty ==
  ASSUME NEW f
  PROVE  SumOver(f, {}) = 0
<1>1. PICK S : S = {}
  OBVIOUS
<1>2. IsFiniteSet(S) /\ \A x \in S : f[x] \in Int
  BY <1>1, FS_EmptySet
<1>3. PICK it : SumRun(it, f, S)
  BY <1>2, SumSteps
<1> QED
  BY <1>1, <1>3 DEF SumRun

(* The element taken out first makes no difference. *)
LEMMA SumRunRemove ==
  ASSUME NEW S, IsFiniteSet(S), NEW f, \A x \in S : f[x] \in Int, NEW it, SumRun(it, f, S)
  PROVE  \A s \in SUBSET S : \A y \in s : it[s] = f[y] + it[s \ {y}]
<1>1. PICK P : P = {s \in SUBSET S : \A y \in s : it[s] = f[y] + it[s \ {y}]}
  OBVIOUS
<1>2. {} \in P
  BY <1>1
<1>3. ASSUME NEW s \in SUBSET S, s # {}, \A x \in s : s \ {x} \in P PROVE s \in P
  <2> SUFFICES ASSUME NEW y \in s PROVE it[s] = f[y] + it[s \ {y}]
    BY <1>1
  <2>1. PICK x \in s : x = CHOOSE z \in s : TRUE
    BY <1>3
  <2>2. it[s] = f[x] + it[s \ {x}]
    BY <1>3, <2>1 DEF SumRun
  <2>3. CASE x = y
    BY <2>2, <2>3
  <2>4. CASE x # y
    <3>1. PICK r : r = (s \ {x}) \ {y}
      OBVIOUS
    <3>2. r = (s \ {y}) \ {x} /\ r \in SUBSET S
      BY <3>1
    <3>3. it[s \ {x}] = f[y] + it[r]
      BY <1>1, <1>3, <2>4, <3>1
    <3>4. it[s \ {y}] = f[x] + it[r]
      BY <1>1, <1>3, <2>4, <3>2
    <3>5. it[r] \in Int /\ f[x] \in Int /\ f[y] \in Int
      BY <3>2 DEF SumRun
    <3> QED
      BY <2>2, <3>3, <3>4, <3>5
  <2> QED
    BY <2>3, <2>4
<1>4. \A s \in SUBSET S : s \in P
  BY <1>2, <1>3, EverySubset
<1> QED
  BY <1>1, <1>4

LEMMA SumRemove ==
  ASSUME NEW S, IsFiniteSet(S), NEW f, \A x \in S : f[x] \in Int, NEW y \in S
  PROVE  /\ SumOver(f, S) = f[y] + SumOver(f, S \ {y})
         /\ SumOver(f, S) \in Int /\ SumOver(f, S \ {y}) \in Int
<1>1. PICK it : SumRun(it, f, S)
  BY SumSteps
<1>2. PICK T : T = S \ {y}
  OBVIOUS
<1>3. IsFiniteSet(T) /\ \A x \in T : f[x] \in Int
  BY <1>2, FS_Subset
<1>4. PICK jt : SumRun(jt, f, T)
  BY <1>3, SumSteps
<1>5. PICK P : P = {s \in SUBSET T : it[s] = jt[s]}
  OBVIOUS
<1>6. {} \in P
  BY <1>1, <1>4, <1>5 DEF SumRun
<1>7. ASSUME NEW s \in SUBSET T, s # {}, \A x \in s : s \ {x} \in P PROVE s \in P
  <2>1. PICK x \in s : x = CHOOSE z \in s : TRUE
    BY <1>7
  <2>2. s \in SUBSET S
    BY <1>2
  <2>3. it[s] = f[x] + it[s \ {x}]
    BY <1>1, <1>7, <2>1, <2>2 DEF SumRun
  <2>4. jt[s] = f[x] + jt[s \ {x}]
    BY <1>4, <1>7, <2>1 DEF SumRun
  <2> QED
    BY <1>5, <1>7, <2>3, <2>4
<1>8. \A s \in SUBSET T : s \in P
  BY <1>3, <1>6, <1>7, EverySubset
<1>9. it[T] = jt[T] /\ jt[T] \in Int
  BY <1>4, <1>5, <1>8 DEF SumRun
<1>10. it[S] = f[y] + it[S \ {y}]
  BY <1>1, SumRunRemove
<1>11. it[S] = SumOver(f, S) /\ it[S] \in Int /\ jt[T] = SumOver(f, T)
  BY <1>1, <1>4 DEF SumRun
<1> QED
  BY <1>2, <1>9, <1>10, <1>11

LEMMA SumType ==
  ASSUME NEW S, IsFiniteSet(S), NEW f, \A x \in S : f[x] \in Int
  PROVE  SumOver(f, S) \in Int
<1>1. PICK it : SumRun(it, f, S)
  BY SumSteps
<1> QED
  BY <1>1 DEF SumRun

LEMMA SumAgree ==
  ASSUME NEW S, IsFiniteSet(S), NEW f, NEW g, \A x \in S : f[x] \in Int /\ g[x] = f[x]
  PROVE  SumOver(g, S) = SumOver(f, S)
<1>1. PICK P : P = {s \in SUBSET S : SumOver(g, s) = SumOver(f, s)}
  OBVIOUS
<1>2. {} \in P
  BY <1>1, SumEmpty
<1>3. ASSUME NEW s \in SUBSET S, s # {}, \A x \in s : s \ {x} \in P PROVE s \in P
  <2>1. PICK x \in s : TRUE
    BY <1>3
  <2>2. /\ IsFiniteSet(s)
        /\ \A y \in s : f[y] \in Int
        /\ \A y \in s : g[y] \in Int
    BY FS_Subset
  <2>3. SumOver(f, s) = f[x] + SumOver(f, s \ {x})
    BY <2>2, SumRemove
  <2>4. SumOver(g, s) = g[x] + SumOver(g, s \ {x})
    BY <2>2, SumRemove
  <2>5. SumOver(g, s \ {x}) = SumOver(f, s \ {x}) /\ g[x] = f[x]
    BY <1>1, <1>3
  <2> QED
    BY <1>1, <2>3, <2>4, <2>5
<1>4. \A s \in SUBSET S : s \in P
  BY <1>2, <1>3, EverySubset
<1> QED
  BY <1>1, <1>4

(* The sum after f became g, which differs from it at y. *)
LEMMA SumChange ==
  ASSUME NEW S, IsFiniteSet(S), NEW f, \A x \in S : f[x] \in Int, NEW y \in S, NEW g,
         g[y] \in Int, \A x \in S \ {y} : g[x] = f[x]
  PROVE  SumOver(g, S) = SumOver(f, S) + g[y] - f[y]
<1>1. ASSUME NEW x \in S PROVE g[x] \in Int
  BY x = y \/ x \in S \ {y}
<1>2. /\ SumOver(f, S) = f[y] + SumOver(f, S \ {y})
      /\ SumOver(f, S) \in Int /\ SumOver(f, S \ {y}) \in Int
  BY SumRemove
<1>3. /\ SumOver(g, S) = g[y] + SumOver(g, S \ {y})
      /\ SumOver(g, S) \in Int /\ SumOver(g, S \ {y}) \in Int
  BY <1>1, SumRemove
<1>4. SumOver(g, S \ {y}) = SumOver(f, S \ {y})
  <2>1. PICK T : T = S \ {y}
    OBVIOUS
  <2>2. IsFiniteSet(T) /\ \A x \in T : f[x] \in Int /\ g[x] = f[x]
    BY <2>1, FS_Subset
  <2>3. SumOver(g, T) = SumOver(f, T)
    BY <2>2, SumAgree
  <2> QED
    BY <2>1, <2>3
<1>5. f[y] \in Int /\ g[y] \in Int
  OBVIOUS
<1> QED
  BY <1>2, <1>3, <1>4, <1>5

LEMMA SumInsert ==
  ASSUME NEW S, IsFiniteSet(S), NEW y, y \notin S, NEW f,
         f[y] \in Int, \A x \in S : f[x] \in Int
  PROVE  SumOver(f, S \cup {y}) = SumOver(f, S) + f[y]
<1>1. PICK T : T = S \cup {y}
  OBVIOUS
<1>2. IsFiniteSet(T)
  <2>1. IsFiniteSet(S \cup {y})
    BY FS_AddElement
  <2> QED
    BY <1>1, <2>1
<1>3. y \in T /\ T \ {y} = S /\ \A x \in T : f[x] \in Int
  BY <1>1
<1>4. /\ SumOver(f, T) = f[y] + SumOver(f, T \ {y})
      /\ SumOver(f, T) \in Int /\ SumOver(f, T \ {y}) \in Int
  BY <1>2, <1>3, SumRemove
<1>5. SumOver(f, T \ {y}) = SumOver(f, S)
  BY <1>3
<1>6. SumOver(f, T) = SumOver(f, S) + f[y]
  BY <1>4, <1>5
<1> QED
  BY <1>1, <1>6

(* A sum of natural numbers grows with the set. *)
LEMMA SumGrows ==
  ASSUME NEW T, IsFiniteSet(T), NEW f, \A x \in T : f[x] \in Nat, NEW S \in SUBSET T
  PROVE  SumOver(f, S) \in Nat /\ SumOver(f, T) \in Nat /\ SumOver(f, S) <= SumOver(f, T)
<1>1. PICK P : P = {s \in SUBSET T : \A r \in SUBSET s :
                      SumOver(f, r) \in Nat /\ SumOver(f, s) \in Nat
                      /\ SumOver(f, r) <= SumOver(f, s)}
  OBVIOUS
<1>2. {} \in P
  <2>1. PICK z \in Nat : z = SumOver(f, {})
    BY SumEmpty
  <2>2. \A r \in SUBSET {} : r = {}
    OBVIOUS
  <2>3. \A r \in SUBSET {} : SumOver(f, r) = z
    BY <2>1, <2>2
  <2> QED
    BY <1>1, <2>1, <2>3
<1>3. ASSUME NEW s \in SUBSET T, s # {}, \A x \in s : s \ {x} \in P PROVE s \in P
  <2>1. /\ IsFiniteSet(s)
        /\ \A y \in s : f[y] \in Int
    BY FS_Subset
  <2>2. ASSUME NEW x \in s
        PROVE  SumOver(f, s) \in Nat /\ SumOver(f, s \ {x}) <= SumOver(f, s)
    <3>1. SumOver(f, s) = f[x] + SumOver(f, s \ {x})
      BY <2>1, SumRemove
    <3>2. SumOver(f, s \ {x}) \in Nat /\ f[x] \in Nat
      BY <1>1, <1>3
    <3> QED
      BY <3>1, <3>2
  <2>3. PICK x \in s : TRUE
    BY <1>3
  <2>4. ASSUME NEW r \in SUBSET s, r # s
        PROVE  SumOver(f, r) \in Nat /\ SumOver(f, r) <= SumOver(f, s)
    <3>1. PICK y \in s : y \notin r
      BY <2>4
    <3>2. r \in SUBSET (s \ {y}) /\ s \ {y} \in P
      BY <1>3, <3>1
    <3>3. /\ SumOver(f, r) \in Nat /\ SumOver(f, s \ {y}) \in Nat
          /\ SumOver(f, r) <= SumOver(f, s \ {y})
      BY <1>1, <3>2
    <3>4. SumOver(f, s) \in Nat /\ SumOver(f, s \ {y}) <= SumOver(f, s)
      BY <2>2
    <3> QED
      BY <3>3, <3>4
  <2>5. SumOver(f, s) \in Nat
    BY <2>2, <2>3
  <2> QED
    BY <1>1, <2>4, <2>5
<1>4. T \in P
  <2>1. \A s \in SUBSET T : s \in P
    BY <1>2, <1>3, EverySubset
  <2> QED
    BY <2>1
<1> QED
  BY <1>1, <1>4

(* Zeros are worth nothing. *)
LEMMA SumZero ==
  ASSUME NEW T, IsFiniteSet(T), NEW f, \A x \in T : f[x] = 0
  PROVE  SumOver(f, T) = 0
<1>1. PICK P : P = {s \in SUBSET T : SumOver(f, s) = 0}
  OBVIOUS
<1>2. {} \in P
  BY <1>1, SumEmpty
<1>3. ASSUME NEW s \in SUBSET T, s # {}, \A x \in s : s \ {x} \in P PROVE s \in P
  <2>1. PICK x \in s : TRUE
    BY <1>3
  <2>2. IsFiniteSet(s)
    BY FS_Subset
  <2>3. (\A y \in s : f[y] \in Int) /\ f[x] = 0
    OBVIOUS
  <2>4. SumOver(f, s) = f[x] + SumOver(f, s \ {x})
    BY <2>2, <2>3, SumRemove
  <2>5. SumOver(f, s \ {x}) = 0
    BY <1>1, <1>3
  <2> QED
    BY <1>1, <2>3, <2>4, <2>5
<1>4. \A s \in SUBSET T : s \in P
  BY <1>2, <1>3, EverySubset
<1> QED
  BY <1>1, <1>4

(* A sum in two parts. *)
LEMMA SumParts ==
  ASSUME NEW T, IsFiniteSet(T), NEW f, \A x \in T : f[x] \in Int, NEW S \in SUBSET T
  PROVE  SumOver(f, T) = SumOver(f, S) + SumOver(f, T \ S)
<1>1. PICK P : P = {s \in SUBSET T : SumOver(f, T) = SumOver(f, s) + SumOver(f, T \ s)}
  OBVIOUS
<1>2. ASSUME NEW s \in SUBSET T
      PROVE  /\ IsFiniteSet(s) /\ \A x \in s : f[x] \in Int
             /\ SumOver(f, s) \in Int
  <2>1. IsFiniteSet(s) /\ \A x \in s : f[x] \in Int
    BY FS_Subset
  <2> QED
    BY <2>1, SumType
<1>3. {} \in P
  <2>1. SumOver(f, {}) = 0 /\ T \ {} = T /\ SumOver(f, T) \in Int
    BY <1>2, SumEmpty
  <2> QED
    BY <1>1, <2>1
<1>4. ASSUME NEW s \in SUBSET T, s # {}, \A x \in s : s \ {x} \in P PROVE s \in P
  <2>1. PICK x \in s : TRUE
    BY <1>4
  <2>2. PICK r : r = s \ {x}
    OBVIOUS
  <2>3. r \in SUBSET T /\ SumOver(f, T) = SumOver(f, r) + SumOver(f, T \ r)
    <3>1. r \in P
      BY <1>4, <2>2
    <3> QED
      BY <1>1, <3>1
  <2>4. SumOver(f, s) = f[x] + SumOver(f, r)
    <3>1. SumOver(f, s) = f[x] + SumOver(f, s \ {x})
      BY <1>2, SumRemove
    <3> QED
      BY <2>2, <3>1
  <2>5. PICK q : q = T \ r
    OBVIOUS
  <2>6. x \in q /\ q \in SUBSET T /\ q \ {x} = T \ s /\ T \ s \in SUBSET T
    BY <2>2, <2>5
  <2>7. SumOver(f, q) = f[x] + SumOver(f, q \ {x})
    BY <1>2, <2>6, SumRemove
  <2>8. /\ SumOver(f, s) \in Int /\ SumOver(f, r) \in Int /\ SumOver(f, q) \in Int
        /\ SumOver(f, T \ s) \in Int /\ f[x] \in Int
    BY <1>2, <2>3, <2>6
  <2>9. SumOver(f, T) = SumOver(f, r) + SumOver(f, q)
    BY <2>3, <2>5
  <2>10. SumOver(f, q) = f[x] + SumOver(f, T \ s)
    BY <2>6, <2>7
  <2>11. SumOver(f, T) = SumOver(f, s) + SumOver(f, T \ s)
    BY <2>4, <2>8, <2>9, <2>10
  <2> QED
    BY <1>1, <2>11
<1>5. \A s \in SUBSET T : s \in P
  BY <1>3, <1>4, EverySubset
<1> QED
  BY <1>1, <1>5

-----------------------------------------------------------------------------
(* Trees.  Numbers in order of birth: a parent comes before its child.     *)
ParentsFirst(par, N) == \A b \in 1 .. N : par[b] \in 0 .. b - 1

(* Induction from the root to the leaves. *)
LEMMA EveryChild ==
  ASSUME NEW N \in Nat, NEW par, ParentsFirst(par, N), NEW P, 0 \in P,
         \A b \in 1 .. N : par[b] \in P => b \in P
  PROVE  \A b \in 0 .. N : b \in P
<1>1. PICK Q : Q = {n \in 0 .. N : \A b \in 0 .. n : b \in P}
  OBVIOUS
<1>2. 0 \in Q
  BY <1>1
<1>3. ASSUME NEW i \in 1 .. N, i - 1 \in Q PROVE i \in Q
  <2>1. \A b \in 0 .. i - 1 : b \in P
    BY <1>1, <1>3
  <2>2. par[i] \in 0 .. i - 1
    BY DEF ParentsFirst
  <2>3. i \in P
    BY <2>1, <2>2
  <2>4. \A b \in 0 .. i : b \in 0 .. i - 1 \/ b = i
    OBVIOUS
  <2> QED
    BY <1>1, <2>1, <2>3, <2>4
<1>4. \A i \in 0 .. N : i \in Q
  BY <1>2, <1>3, EveryPosition
<1> QED
  BY <1>1, <1>4

(* The way from the root to each: what is before the root, then one by one.*)
PathsIn(f, N, par, start) ==
  /\ f \in [0 .. N -> Seq(0 .. N)]
  /\ f[0] = start
  /\ \A b \in 1 .. N : f[b] = Append(f[par[b]], b)

LEMMA PathsExist ==
  ASSUME NEW N \in Nat, NEW par, ParentsFirst(par, N), NEW start \in Seq(0 .. N)
  PROVE  \E f : PathsIn(f, N, par, start)
<1>1. PICK V : V = [0 .. N -> Seq(0 .. N)]
  OBVIOUS
<1>2. PICK base : base = [b \in 0 .. N |-> start]
  OBVIOUS
<1>3. PICK G : G = [p \in V \X (1 .. N) |->
                      [p[1] EXCEPT ![p[2]] = Append(p[1][par[p[2]]], p[2])]]
  OBVIOUS
<1>4. base \in V
  BY <1>1, <1>2
<1>5. ASSUME NEW v \in V, NEW i \in 1 .. N
      PROVE  /\ G[<<v, i>>] \in V
             /\ G[<<v, i>>][i] = Append(v[par[i]], i)
             /\ \A b \in 0 .. N : b # i => G[<<v, i>>][b] = v[b]
  <2>1. par[i] \in 0 .. N
    BY DEF ParentsFirst
  <2>2. PICK s : s = Append(v[par[i]], i)
    OBVIOUS
  <2>3. v[par[i]] \in Seq(0 .. N) /\ i \in 0 .. N
    BY <1>1, <2>1
  <2>4. s \in Seq(0 .. N)
    BY <2>2, <2>3, AppendProperties
  <2>5. G[<<v, i>>] = [v EXCEPT ![i] = s]
    BY <1>3, <2>2
  <2> QED
    BY <1>1, <2>2, <2>3, <2>4, <2>5
<1>6. PICK it : PositionRun(it, N, V, base, G)
  BY <1>4, <1>5, PositionRecursion
<1>7. PICK row : row = [n \in 0 .. N |-> it[1 .. n]]
  OBVIOUS
<1>8. row[0] = base
  <2>1. 1 .. 0 = {} /\ {} \in SUBSET (1 .. N) /\ 0 \in 0 .. N
    OBVIOUS
  <2> QED
    BY <1>6, <1>7, <2>1 DEF PositionRun
<1>9. ASSUME NEW n \in 1 .. N PROVE row[n] = G[<<row[n - 1], n>>] /\ row[n - 1] \in V
  <2>1. /\ 1 .. n \in SUBSET (1 .. N) /\ 1 .. n # {}
        /\ Max(1 .. n) = n /\ (1 .. n) \ {n} = 1 .. (n - 1)
    BY FirstPositions
  <2>2. it[1 .. n] = G[<<it[1 .. (n - 1)], n>>]
    BY <1>6, <2>1 DEF PositionRun
  <2>3. 1 .. (n - 1) \in SUBSET (1 .. N) /\ n - 1 \in 0 .. N /\ n \in 0 .. N
    BY <2>1
  <2>4. it[1 .. (n - 1)] \in V
    BY <1>6, <2>3 DEF PositionRun
  <2> QED
    BY <1>7, <2>2, <2>3, <2>4
<1>10. \A n \in 0 .. N : row[n] \in V
  <2>1. ASSUME NEW n \in 1 .. N PROVE row[n] \in V
    BY <1>5, <1>9
  <2> QED
    BY <1>4, <1>8, <2>1
(* Once written, an entry stays. *)
<1>11. PICK P : P = {n \in 0 .. N : \A b \in 0 .. n : row[n][b] = row[b][b]}
  OBVIOUS
<1>12. 0 \in P
  BY <1>11
<1>13. ASSUME NEW n \in 1 .. N, n - 1 \in P PROVE n \in P
  <2>1. ASSUME NEW b \in 0 .. n PROVE row[n][b] = row[b][b]
    <3>1. CASE b = n
      BY <3>1
    <3>2. CASE b # n
      <4>1. b \in 0 .. n - 1 /\ b \in 0 .. N
        BY <3>2
      <4>2. row[n - 1][b] = row[b][b]
        BY <1>11, <1>13, <4>1
      <4>3. PICK prev \in V : prev = row[n - 1]
        BY <1>9
      <4>4. row[n] = G[<<prev, n>>]
        BY <1>9, <4>3
      <4>5. G[<<prev, n>>][b] = prev[b]
        BY <1>5, <3>2, <4>1
      <4> QED
        BY <4>2, <4>3, <4>4, <4>5
    <3> QED
      BY <3>1, <3>2
  <2> QED
    BY <1>11, <2>1
<1>14. \A n \in 0 .. N : n \in P
  BY <1>12, <1>13, EveryPosition
<1>15. PICK f : f = [b \in 0 .. N |-> row[b][b]]
  OBVIOUS
<1>16. f \in [0 .. N -> Seq(0 .. N)]
  BY <1>1, <1>10, <1>15
<1>17. f[0] = start
  BY <1>2, <1>8, <1>15
<1>18. ASSUME NEW b \in 1 .. N PROVE f[b] = Append(f[par[b]], b)
  <2>1. par[b] \in 0 .. b - 1 /\ par[b] \in 0 .. N /\ b - 1 \in 0 .. N
    BY DEF ParentsFirst
  <2>2. PICK prev \in V : prev = row[b - 1]
    BY <1>9
  <2>3. row[b] = G[<<prev, b>>]
    BY <1>9, <2>2
  <2>4. G[<<prev, b>>][b] = Append(prev[par[b]], b)
    BY <1>5
  <2>5. row[b - 1][par[b]] = row[par[b]][par[b]]
    BY <1>11, <1>14, <2>1
  <2>6. row[b][b] = Append(row[par[b]][par[b]], b)
    BY <2>2, <2>3, <2>4, <2>5
  <2>7. f[b] = row[b][b] /\ f[par[b]] = row[par[b]][par[b]]
    BY <1>15, <2>1
  <2> QED
    BY <2>6, <2>7
<1>19. PathsIn(f, N, par, start)
  BY <1>16, <1>17, <1>18 DEF PathsIn
<1> QED
  BY <1>19

(* The recursion has one solution. *)
LEMMA PathsUnique ==
  ASSUME NEW N \in Nat, NEW par, ParentsFirst(par, N), NEW start,
         NEW f, PathsIn(f, N, par, start),
         NEW M \in Nat, M >= N, NEW q, ParentsFirst(q, M), \A b \in 1 .. N : q[b] = par[b],
         NEW g, PathsIn(g, M, q, start)
  PROVE  \A b \in 0 .. N : g[b] = f[b]
<1>1. PICK P : P = {b \in 0 .. N : g[b] = f[b]}
  OBVIOUS
<1>2. 0 \in P
  BY <1>1 DEF PathsIn
<1>3. ASSUME NEW b \in 1 .. N, par[b] \in P PROVE b \in P
  <2>1. b \in 1 .. M /\ q[b] = par[b]
    OBVIOUS
  <2>2. g[b] = Append(g[par[b]], b) /\ f[b] = Append(f[par[b]], b)
    BY <2>1 DEF PathsIn
  <2>3. g[par[b]] = f[par[b]] /\ b \in 0 .. N
    BY <1>1, <1>3
  <2>4. g[b] = f[b]
    BY <2>2, <2>3
  <2> QED
    BY <1>1, <2>3, <2>4
<1>4. \A b \in 0 .. N : b \in P
  BY <1>2, <1>3, EveryChild
<1> QED
  BY <1>1, <1>4

-----------------------------------------------------------------------------
(* Folds from left to right.  tr is what base has become after each member *)
(* of s, by G.                                                             *)
FoldRun(tr, s, V, base, G) ==
  /\ tr \in [0 .. Len(s) -> V] /\ tr[0] = base
  /\ \A i \in 1 .. Len(s) : tr[i] = G[<<tr[i - 1], s[i]>>]

(* r is what base becomes in the end. *)
FoldsTo(r, s, V, base, G) == \E tr : FoldRun(tr, s, V, base, G) /\ tr[Len(s)] = r

(* The same over sets of positions, as FoldLeft is defined. *)
FoldSets(it, s, V, base, G) ==
  /\ it \in [SUBSET (1 .. Len(s)) -> V] /\ it[{}] = base
  /\ \A t \in SUBSET (1 .. Len(s)) : t # {} =>
       Max(t) \in 1 .. Len(s) /\ it[t] = G[<<it[t \ {Max(t)}], s[Max(t)]>>]

FoldStays(G, V, X) == \A v \in V, x \in X : G[<<v, x>>] \in V

LEMMA FoldExists ==
  ASSUME NEW X, NEW s \in Seq(X), NEW V, NEW base \in V, NEW G, FoldStays(G, V, X)
  PROVE  \E it : FoldSets(it, s, V, base, G)
<1>1. PICK N \in Nat : N = Len(s)
  OBVIOUS
<1>2. \A i \in 1 .. N : s[i] \in X
  BY <1>1
<1>3. PICK H : H = [p \in V \X (1 .. N) |-> G[<<p[1], s[p[2]]>>]]
  OBVIOUS
<1>4. \A v \in V, i \in 1 .. N : H[<<v, i>>] = G[<<v, s[i]>>] /\ H[<<v, i>>] \in V
  BY <1>2, <1>3 DEF FoldStays
<1>5. PICK it : PositionRun(it, N, V, base, H)
  <2>1. \A v \in V, i \in 1 .. N : H[<<v, i>>] \in V
    BY <1>4
  <2> QED
    BY <2>1, PositionRecursion
<1>6. ASSUME NEW t \in SUBSET (1 .. N), t # {}
      PROVE  Max(t) \in 1 .. N /\ it[t] = G[<<it[t \ {Max(t)}], s[Max(t)]>>]
  <2>1. Max(t) \in 1 .. N
    BY <1>6, GreatestPosition
  <2>2. it[t \ {Max(t)}] \in V
    BY <1>5 DEF PositionRun
  <2>3. it[t] = H[<<it[t \ {Max(t)}], Max(t)>>]
    BY <1>5, <1>6 DEF PositionRun
  <2> QED
    BY <1>4, <2>1, <2>2, <2>3
<1>7. it \in [SUBSET (1 .. N) -> V] /\ it[{}] = base
  BY <1>5 DEF PositionRun
<1> QED
  BY <1>1, <1>6, <1>7 DEF FoldSets

(* Whatever solves the recursion over sets of positions is such a run. *)
FoldSolves(fold, s, V, base, G) ==
  /\ fold[{}] = base
  /\ \A t \in SUBSET (1 .. Len(s)) :
       t # {} /\ fold[t \ {Max(t)}] \in V =>
         fold[t] = G[<<fold[t \ {Max(t)}], s[Max(t)]>>]

LEMMA FoldFound ==
  ASSUME NEW X, NEW s \in Seq(X), NEW V, NEW base \in V, NEW G, FoldStays(G, V, X),
         NEW fold, FoldSolves(fold, s, V, base, G)
  PROVE  FoldsTo(fold[1 .. Len(s)], s, V, base, G)
<1>1. PICK N \in Nat : N = Len(s)
  OBVIOUS
<1>2. \A i \in 1 .. N : s[i] \in X
  BY <1>1
<1>3. PICK tr : tr = [n \in 0 .. N |-> fold[1 .. n]]
  OBVIOUS
<1>4. tr[0] = base
  <2>1. 1 .. 0 = {}
    OBVIOUS
  <2> QED
    BY <1>3, <2>1 DEF FoldSolves
<1>5. ASSUME NEW i \in 1 .. N, tr[i - 1] \in V
      PROVE  tr[i] = G[<<tr[i - 1], s[i]>>] /\ tr[i] \in V
  <2>1. PICK t \in SUBSET (1 .. N) : t = 1 .. i
    OBVIOUS
  <2>2. t # {} /\ Max(t) = i /\ t \ {Max(t)} = 1 .. (i - 1)
    BY <2>1, FirstPositions
  <2>3. tr[i] = fold[t] /\ tr[i - 1] = fold[t \ {Max(t)}]
    <3>1. i \in 0 .. N /\ i - 1 \in 0 .. N
      OBVIOUS
    <3>2. tr[i] = fold[1 .. i] /\ tr[i - 1] = fold[1 .. (i - 1)]
      BY <1>3, <3>1
    <3> QED
      BY <2>1, <2>2, <3>2
  <2>4. fold[t] = G[<<fold[t \ {Max(t)}], s[Max(t)]>>]
    <3>1. fold[t \ {Max(t)}] \in V /\ t # {}
      BY <1>5, <2>2, <2>3
    <3>2. t \in SUBSET (1 .. Len(s))
      BY <1>1
    <3> QED
      BY <3>1, <3>2 DEF FoldSolves
  <2>5. tr[i] = G[<<tr[i - 1], s[i]>>]
    BY <2>2, <2>3, <2>4
  <2>6. PICK v \in V, x \in X : v = tr[i - 1] /\ x = s[i]
    BY <1>2, <1>5
  <2>7. G[<<v, x>>] \in V
    BY DEF FoldStays
  <2> QED
    BY <2>5, <2>6, <2>7
<1>6. PICK P : P = {i \in 0 .. N : tr[i] \in V}
  OBVIOUS
<1>7. \A i \in 0 .. N : i \in P
  <2>1. 0 \in P
    BY <1>4, <1>6
  <2>2. \A i \in 1 .. N : i - 1 \in P => i \in P
    <3>1. ASSUME NEW i \in 1 .. N, i - 1 \in P PROVE i \in P
      <4>1. tr[i - 1] \in V /\ i \in 0 .. N
        BY <1>6, <3>1
      <4> QED
        BY <1>5, <1>6, <4>1
    <3> QED
      BY <3>1
  <2> QED
    BY <2>1, <2>2, EveryPosition
<1>8. \A i \in 1 .. N : tr[i] = G[<<tr[i - 1], s[i]>>]
  <2>1. ASSUME NEW i \in 1 .. N PROVE tr[i - 1] \in V
    <3>1. i - 1 \in 0 .. N
      OBVIOUS
    <3> QED
      BY <1>6, <1>7, <3>1
  <2> QED
    BY <1>5, <2>1
<1>9. tr \in [0 .. N -> V] /\ tr[N] = fold[1 .. N]
  BY <1>3, <1>6, <1>7
<1> QED
  BY <1>1, <1>4, <1>8, <1>9 DEF FoldRun, FoldsTo

LEMMA FoldNone ==
  ASSUME NEW s, s = <<>>, NEW V, NEW base, NEW G, NEW r, FoldsTo(r, s, V, base, G)
  PROVE  r = base
<1>1. Len(s) = 0
  OBVIOUS
<1> QED
  BY <1>1 DEF FoldsTo, FoldRun

LEMMA FoldTyped ==
  ASSUME NEW X, NEW s \in Seq(X), NEW V, NEW base, NEW G, NEW r, FoldsTo(r, s, V, base, G)
  PROVE  r \in V
<1>1. Len(s) \in Nat
  OBVIOUS
<1> QED
  BY <1>1 DEF FoldsTo, FoldRun

(* One member more is one step more. *)
LongerBy(u, s, x) == u = Append(s, x)

LEMMA FoldNext ==
  ASSUME NEW X, NEW s \in Seq(X), NEW x \in X, NEW u, LongerBy(u, s, x),
         NEW V, NEW base, NEW G, NEW r, FoldsTo(r, s, V, base, G),
         NEW q, FoldsTo(q, u, V, base, G)
  PROVE  q = G[<<r, x>>]
<1>0. PICK tr, up : /\ FoldRun(tr, s, V, base, G) /\ tr[Len(s)] = r
                    /\ FoldRun(up, u, V, base, G) /\ up[Len(u)] = q
  BY DEF FoldsTo
<1>1. PICK N \in Nat : N = Len(s)
  OBVIOUS
<1>3. Len(u) = N + 1 /\ u[N + 1] = x /\ \A i \in 1 .. N : u[i] = s[i]
  BY <1>1 DEF LongerBy
<1>4. /\ tr \in [0 .. N -> V] /\ tr[0] = base
      /\ \A i \in 1 .. N : tr[i] = G[<<tr[i - 1], s[i]>>]
  BY <1>0, <1>1 DEF FoldRun
<1>5. /\ up[0] = base /\ \A i \in 1 .. N + 1 : up[i] = G[<<up[i - 1], u[i]>>]
  BY <1>0, <1>3 DEF FoldRun
<1>6. PICK P : P = {i \in 0 .. N : up[i] = tr[i]}
  OBVIOUS
<1>7. 0 \in P
  BY <1>4, <1>5, <1>6
<1>8. ASSUME NEW i \in 1 .. N, i - 1 \in P PROVE i \in P
  <2>1. up[i - 1] = tr[i - 1] /\ u[i] = s[i] /\ i \in 0 .. N /\ i \in 1 .. N + 1
    BY <1>3, <1>6, <1>8
  <2>2. up[i] = G[<<up[i - 1], u[i]>>] /\ tr[i] = G[<<tr[i - 1], s[i]>>]
    BY <1>4, <1>5, <2>1
  <2> QED
    BY <1>6, <2>1, <2>2
<1>9. \A i \in 0 .. N : i \in P
  BY <1>7, <1>8, EveryPosition
<1>10. up[N] = tr[N]
  BY <1>4, <1>6, <1>9
<1>11. N + 1 \in 1 .. N + 1 /\ (N + 1) - 1 = N
  OBVIOUS
<1>12. up[N + 1] = G[<<up[N], x>>]
  BY <1>3, <1>5, <1>11
<1> QED
  BY <1>0, <1>1, <1>3, <1>10, <1>12
=============================================================================
