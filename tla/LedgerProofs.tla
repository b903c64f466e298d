---------------------------- MODULE LedgerProofs ----------------------------
(***************************************************************************)
(* Proofs about BlockProduction, for every set of accounts, transactions   *)
(* and configurations: the pool, the ledger and the chain of blocks.       *)
(***************************************************************************)
EXTENDS BlockProduction, FoldTheorems

-----------------------------------------------------------------------------
(* The pool.  Entries are distinct, and the index of slots and the entries *)
(* say the same.                                                           *)
PoolShape == [order : Seq(Transaction),
              slots : [Account \X Nonce -> Transaction \cup {NoTx}]]

PoolGood(p) ==
  /\ p \in PoolShape /\ IsInjective(p.order)
  /\ \A s \in Account \X Nonce :
       (\A tx \in Entries(p) : Slot(tx) # s) => p.slots[s] = NoTx
  /\ \A tx \in Entries(p) : p.slots[Slot(tx)] = tx

PoolWithin(p, c) ==
  /\ Len(p.order) <= c.maxSize
  /\ \A a \in Account : SenderCount(p, a) <= c.maxPerSender

LEMMA TransactionFields ==
  ASSUME NEW tx \in Transaction
  PROVE  /\ Slot(tx) \in Account \X Nonce /\ tx # NoTx
         /\ tx.sender \in Account /\ tx.recipient \in Account
         /\ tx.nonce \in Nat /\ tx.amount \in Nat /\ tx.fee \in Nat
BY TransactionAssumption DEF Slot

LEMMA PoolEntries ==
  ASSUME NEW p, PoolGood(p)
  PROVE  /\ p.order \in Seq(Transaction) /\ Len(p.order) \in Nat
         /\ Entries(p) \subseteq Transaction /\ IsFiniteSet(Entries(p))
         /\ Cardinality(Entries(p)) = Len(p.order)
<1>1. p.order \in Seq(Transaction) /\ IsInjective(p.order)
  BY DEF PoolGood, PoolShape
<1> QED
  BY <1>1, MembersCounted DEF Entries

(* The entries of a sender, and fewer of them. *)
LEMMA SenderCountBound ==
  ASSUME NEW p, NEW q, PoolGood(p), Entries(q) \subseteq Entries(p), NEW a
  PROVE  SenderCount(q, a) <= SenderCount(p, a) /\ SenderCount(p, a) \in Nat
<1>1. PICK of : of = {tx \in Entries(p) : tx.sender = a}
  OBVIOUS
<1>2. PICK left : left = {tx \in Entries(q) : tx.sender = a}
  OBVIOUS
<1>3. of \subseteq Entries(p) /\ left \subseteq of
  BY <1>1, <1>2
<1>4. IsFiniteSet(of)
  BY <1>3, PoolEntries, FS_Subset
<1>5. Cardinality(left) <= Cardinality(of) /\ Cardinality(of) \in Nat
  BY <1>3, <1>4, FS_Subset, FS_CardinalityType
<1> QED
  BY <1>1, <1>2, <1>5 DEF SenderCount

LEMMA FewerEntries ==
  ASSUME NEW p, NEW q, NEW c, PoolGood(p), PoolWithin(p, c), PoolGood(q),
         Entries(q) \subseteq Entries(p), {c.maxSize, c.maxPerSender} \subseteq Nat
  PROVE  PoolWithin(q, c)
<1>1. Cardinality(Entries(q)) <= Cardinality(Entries(p))
  BY PoolEntries, FS_Subset
<1>2. Len(q.order) <= c.maxSize
  BY <1>1, PoolEntries DEF PoolWithin
<1>3. ASSUME NEW a \in Account PROVE SenderCount(q, a) <= c.maxPerSender
  <2>1. SenderCount(q, a) <= SenderCount(p, a) /\ SenderCount(p, a) \in Nat
    BY SenderCountBound
  <2>2. SenderCount(q, a) \in Nat
    BY SenderCountBound
  <2> QED
    BY <2>1, <2>2 DEF PoolWithin
<1> QED
  BY <1>2, <1>3 DEF PoolWithin

LEMMA DiscardAllGood ==
  ASSUME NEW p, PoolGood(p), NEW T
  PROVE  PoolGood(DiscardAll(p, T)) /\ Entries(DiscardAll(p, T)) = Entries(p) \ T
<1>1. PICK q : q = DiscardAll(p, T)
  OBVIOUS
<1>2. PICK rest : rest = Entries(p) \ T
  OBVIOUS
<1>3. /\ p.order \in Seq(Transaction) /\ IsInjective(p.order)
      /\ p.slots \in [Account \X Nonce -> Transaction \cup {NoTx}]
      /\ Entries(p) = ToSet(p.order)
  BY DEF PoolGood, PoolShape, Entries
<1>4. PICK o : o = Only(p.order, rest)
  OBVIOUS
<1>5. o \in Seq(Transaction) /\ ToSet(o) = rest /\ IsInjective(o)
  <2>1. o \in Seq(Transaction) /\ ToSet(o) = ToSet(p.order) \cap rest /\ IsInjective(o)
    BY <1>3, <1>4, OnlyProperties
  <2> QED
    BY <1>2, <1>3, <2>1
<1>6. PICK sl : sl = [s \in Account \X Nonce |->
                        IF \E t \in T \cap Entries(p) : Slot(t) = s THEN NoTx ELSE p.slots[s]]
  OBVIOUS
<1>7. q = [order |-> o, slots |-> sl]
  BY <1>1, <1>2, <1>3, <1>4, <1>6 DEF DiscardAll
<1>8. q \in PoolShape /\ q.order = o /\ q.slots = sl /\ Entries(q) = rest
  BY <1>3, <1>5, <1>6, <1>7 DEF PoolShape, Entries
<1>9. ASSUME NEW s \in Account \X Nonce, \A tx \in rest : Slot(tx) # s
      PROVE  sl[s] = NoTx
  <2>1. CASE \E t \in T \cap Entries(p) : Slot(t) = s
    BY <1>6, <2>1
  <2>2. CASE ~ \E t \in T \cap Entries(p) : Slot(t) = s
    <3>1. \A tx \in Entries(p) : Slot(tx) # s
      BY <1>2, <1>9, <2>2
    <3> QED
      BY <1>6, <2>2, <3>1 DEF PoolGood
  <2> QED
    BY <2>1, <2>2
<1>10. ASSUME NEW tx \in rest PROVE sl[Slot(tx)] = tx
  <2>1. tx \in Entries(p) /\ tx \notin T /\ p.slots[Slot(tx)] = tx
    BY <1>2 DEF PoolGood
  <2>2. Slot(tx) \in Account \X Nonce
    BY <2>1, PoolEntries, TransactionFields
  <2>3. ~ \E t \in T \cap Entries(p) : Slot(t) = Slot(tx)
    BY <2>1 DEF PoolGood
  <2> QED
    BY <1>6, <2>1, <2>2, <2>3
<1>11. PoolGood(q)
  BY <1>5, <1>8, <1>9, <1>10 DEF PoolGood
<1> QED
  BY <1>1, <1>2, <1>8, <1>11

LEMMA DiscardGood ==
  ASSUME NEW p, PoolGood(p), NEW tx \in Entries(p)
  PROVE  PoolGood(Discard(p, tx)) /\ Entries(Discard(p, tx)) = Entries(p) \ {tx}
<1>1. PICK q : q = DiscardAll(p, {tx})
  OBVIOUS
<1>2. PoolGood(q) /\ Entries(q) = Entries(p) \ {tx}
  BY <1>1, DiscardAllGood
<1>3. DOMAIN p.slots = Account \X Nonce
  BY DEF PoolGood, PoolShape
<1>4. PICK old : old = p.slots
  OBVIOUS
<1>5. PICK s : s = Slot(tx)
  OBVIOUS
<1>6. [old EXCEPT ![s] = NoTx]
        = [r \in DOMAIN old |-> IF r = s THEN NoTx ELSE old[r]]
  OBVIOUS
<1>7. [r \in DOMAIN old |-> IF \E t \in {tx} \cap Entries(p) : Slot(t) = r
                            THEN NoTx ELSE old[r]]
        = [r \in DOMAIN old |-> IF r = s THEN NoTx ELSE old[r]]
  BY <1>5
<1>8. Discard(p, tx) = q
  BY <1>1, <1>4, <1>5, <1>6, <1>7 DEF Discard, DiscardAll
<1> QED
  BY <1>2, <1>8

LEMMA InsertGood ==
  ASSUME NEW p, PoolGood(p), NEW tx \in Transaction, tx \notin Entries(p),
         p.slots[Slot(tx)] = NoTx
  PROVE  PoolGood(Insert(p, tx)) /\ Entries(Insert(p, tx)) = Entries(p) \cup {tx}
<1>1. PICK q : q = Insert(p, tx)
  OBVIOUS
<1>2. /\ p.order \in Seq(Transaction) /\ IsInjective(p.order)
      /\ p.slots \in [Account \X Nonce -> Transaction \cup {NoTx}]
      /\ Entries(p) = ToSet(p.order)
  BY DEF PoolGood, PoolShape, Entries
<1>3. PICK o : o = Append(p.order, tx)
  OBVIOUS
<1>4. o \in Seq(Transaction) /\ ToSet(o) = Entries(p) \cup {tx} /\ IsInjective(o)
  BY <1>2, <1>3, MembersAppend, AppendProperties
<1>5. PICK sl : sl = [p.slots EXCEPT ![Slot(tx)] = tx]
  OBVIOUS
<1>6. Slot(tx) \in Account \X Nonce /\ tx # NoTx
  BY TransactionFields
<1>7. /\ sl \in [Account \X Nonce -> Transaction \cup {NoTx}]
      /\ \A s \in Account \X Nonce : sl[s] = IF s = Slot(tx) THEN tx ELSE p.slots[s]
  BY <1>2, <1>5, <1>6
<1>8. q = [order |-> o, slots |-> sl]
  BY <1>1, <1>3, <1>5 DEF Insert
<1>9. q \in PoolShape /\ q.order = o /\ q.slots = sl /\ Entries(q) = Entries(p) \cup {tx}
  BY <1>4, <1>7, <1>8 DEF PoolShape, Entries
<1>10. \A s \in Account \X Nonce : (\A t \in Entries(q) : Slot(t) # s) => sl[s] = NoTx
  BY <1>7, <1>9 DEF PoolGood
<1>11. ASSUME NEW t \in Entries(q) PROVE sl[Slot(t)] = t
  <2>1. CASE t = tx
    BY <1>6, <1>7, <2>1
  <2>2. CASE t \in Entries(p)
    <3>1. p.slots[Slot(t)] = t /\ t \in Transaction /\ t # NoTx
      BY <2>2, PoolEntries, TransactionFields DEF PoolGood
    <3>2. Slot(t) \in Account \X Nonce /\ Slot(t) # Slot(tx)
      BY <3>1, TransactionFields
    <3> QED
      BY <1>7, <3>1, <3>2
  <2> QED
    BY <1>9, <2>1, <2>2
<1> QED
  BY <1>1, <1>4, <1>9, <1>10, <1>11 DEF PoolGood

(* The entry that is evicted is one of the cheapest. *)
LEMMA LowestCheapest ==
  ASSUME NEW p, PoolGood(p), Entries(p) # {}
  PROVE  /\ Lowest(p) \in Entries(p)
         /\ \A tx \in Entries(p) : Lowest(p).fee <= tx.fee
<1>1. PICK o \in Seq(Transaction) : o = p.order
  BY PoolEntries
<1>2. PICK N \in Nat : N = Len(o) /\ DOMAIN o = 1 .. N
  OBVIOUS
<1>3. ASSUME NEW i \in 1 .. N PROVE o[i] \in Entries(p) /\ o[i].fee \in Nat
  <2>1. o[i] \in Transaction /\ o[i] \in Entries(p)
    BY <1>1, <1>2 DEF Entries, ToSet
  <2> QED
    BY <2>1, TransactionFields
<1>4. PICK f : f = [i \in 1 .. N |-> o[i].fee]
  OBVIOUS
<1>5. 1 .. N # {} /\ \A i \in 1 .. N : f[i] \in Nat
  <2>1. 1 .. N # {}
    BY <1>1, <1>2 DEF Entries, ToSet
  <2> QED
    BY <1>3, <1>4, <2>1
<1>6. PICK m \in 1 .. N : \A j \in 1 .. N : f[m] <= f[j]
  BY <1>5, Least
<1>7. PICK S : S = {i \in 1 .. N : f[i] = f[m]}
  OBVIOUS
<1>8. PICK g : g = [i \in 1 .. N |-> i]
  OBVIOUS
<1>9. S # {} /\ \A i \in S : g[i] \in Nat
  <2>1. m \in S /\ S \subseteq 1 .. N
    BY <1>7
  <2> QED
    BY <1>8, <2>1
<1>10. PICK k \in S : \A j \in S : g[k] <= g[j]
  BY <1>9, Least
<1>11. k \in 1 .. N /\ \A j \in 1 .. N : f[k] < f[j] \/ (f[k] = f[j] /\ k <= j)
  <2>1. k \in 1 .. N /\ f[k] = f[m]
    BY <1>7
  <2>2. ASSUME NEW j \in 1 .. N PROVE f[k] < f[j] \/ (f[k] = f[j] /\ k <= j)
    <3>1. CASE j \in S
      BY <1>7, <1>8, <1>10, <2>1, <3>1
    <3>2. CASE j \notin S
      <4>1. f[j] # f[m] /\ f[m] <= f[j] /\ f[j] \in Nat /\ f[m] \in Nat
        BY <1>5, <1>6, <1>7, <3>2
      <4>2. f[m] < f[j]
        BY <4>1
      <4>3. f[k] = f[m]
        BY <2>1
      <4>4. PICK a \in Nat : a = f[k]
        BY <4>1, <4>3
      <4>5. PICK b \in Nat : b = f[j]
        BY <4>1
      <4>6. a < b
        BY <4>2, <4>3, <4>4, <4>5
      <4> QED
        BY <4>4, <4>5, <4>6
    <3> QED
      BY <3>1, <3>2
  <2> QED
    BY <2>1, <2>2
<1>12. PICK first : first = CHOOSE i \in 1 .. Len(p.order) : \A j \in 1 .. Len(p.order) :
                               \/ p.order[i].fee < p.order[j].fee
                               \/ p.order[i].fee = p.order[j].fee /\ i <= j
  OBVIOUS
<1>13. \E i \in 1 .. N : \A j \in 1 .. N :
         o[i].fee < o[j].fee \/ (o[i].fee = o[j].fee /\ i <= j)
  BY <1>4, <1>11
<1>14. first \in 1 .. N /\ \A j \in 1 .. N :
         o[first].fee < o[j].fee \/ (o[first].fee = o[j].fee /\ first <= j)
  <2>1. \E i \in 1 .. Len(p.order) : \A j \in 1 .. Len(p.order) :
          \/ p.order[i].fee < p.order[j].fee
          \/ p.order[i].fee = p.order[j].fee /\ i <= j
    BY <1>1, <1>2, <1>13
  <2>2. first \in 1 .. Len(p.order) /\ \A j \in 1 .. Len(p.order) :
          \/ p.order[first].fee < p.order[j].fee
          \/ p.order[first].fee = p.order[j].fee /\ first <= j
    BY <1>12, <2>1
  <2>3. Len(p.order) = N /\ p.order = o
    BY <1>1, <1>2
  <2> QED
    BY <2>2, <2>3
<1>15. Lowest(p) = o[first]
  <2>1. Lowest(p) = p.order[first]
    BY <1>12 DEF Lowest
  <2> QED
    BY <1>1, <2>1
<1>16. \A j \in 1 .. N : o[first].fee <= o[j].fee
  BY <1>3, <1>14
<1>17. \A tx \in Entries(p) : \E j \in 1 .. N : tx = o[j]
  BY <1>1, <1>2 DEF Entries, ToSet
<1> QED
  BY <1>3, <1>14, <1>15, <1>16, <1>17

(* The transaction that occupies a slot. *)
LEMMA RivalIsEntry ==
  ASSUME NEW p, PoolGood(p), NEW tx \in Transaction, Rival(p, tx) # NoTx
  PROVE  /\ Rival(p, tx) \in Entries(p) /\ Rival(p, tx).sender = tx.sender
         /\ Slot(Rival(p, tx)) = Slot(tx)
<1>1. Slot(tx) \in Account \X Nonce
  BY TransactionFields
<1>2. PICK t \in Entries(p) : Slot(t) = Slot(tx)
  BY <1>1 DEF Rival, PoolGood
<1>3. Rival(p, tx) = t
  BY <1>2 DEF Rival, PoolGood
<1>4. t.sender = tx.sender
  BY <1>2 DEF Slot
<1> QED
  BY <1>2, <1>3, <1>4

(* What add() does: nothing, or the newcomer enters and whoever leaves for *)
(* it paid less.  The limits hold afterwards.                              *)
AddEffect(p, q, tx) ==
  \/ Entries(q) = Entries(p)
  \/ /\ tx \in Entries(q) \ Entries(p)
     /\ Entries(q) \subseteq Entries(p) \cup {tx}
     /\ \A t \in Entries(p) \ Entries(q) : t.fee < tx.fee

(* Inserting for a sender who has room. *)
LEMMA InsertWithin ==
  ASSUME NEW p, NEW q, NEW tx \in Transaction, NEW c, PoolGood(p), PoolGood(q),
         tx \notin Entries(p), Entries(q) = Entries(p) \cup {tx},
         {c.maxSize, c.maxPerSender} \subseteq Nat,
         Len(p.order) < c.maxSize,
         \A a \in Account : SenderCount(p, a) <= c.maxPerSender,
         SenderCount(p, tx.sender) < c.maxPerSender
  PROVE  PoolWithin(q, c)
<1>1. Cardinality(Entries(q)) = Cardinality(Entries(p)) + 1
  <2>1. IsFiniteSet(Entries(p))
    BY PoolEntries
  <2>2. Cardinality(Entries(p) \cup {tx}) = Cardinality(Entries(p)) + 1
    BY <2>1, FS_AddElement
  <2> QED
    BY <2>2
<1>2. Len(q.order) <= c.maxSize
  <2>1. /\ Cardinality(Entries(p)) = Len(p.order) /\ Len(p.order) \in Nat
        /\ Cardinality(Entries(q)) = Len(q.order) /\ Len(q.order) \in Nat
    BY PoolEntries
  <2>2. Len(q.order) = Len(p.order) + 1
    BY <1>1, <2>1
  <2> QED
    BY <2>1, <2>2
<1>3. ASSUME NEW a \in Account PROVE SenderCount(q, a) <= c.maxPerSender
  <2>1. PICK before : before = {t \in Entries(p) : t.sender = a}
    OBVIOUS
  <2>2. PICK after : after = {t \in Entries(q) : t.sender = a}
    OBVIOUS
  <2>3. IsFiniteSet(before) /\ Cardinality(before) \in Nat
    <3>1. before \subseteq Entries(p)
      BY <2>1
    <3> QED
      BY <3>1, PoolEntries, FS_Subset, FS_CardinalityType
  <2>4. CASE a = tx.sender
    <3>1. after = before \cup {tx} /\ tx \notin before
      BY <2>1, <2>2, <2>4
    <3>2. Cardinality(after) = Cardinality(before) + 1
      <4>1. tx \notin before
        BY <3>1
      <4>2. Cardinality(before \cup {tx}) = Cardinality(before) + 1
        BY <2>3, <4>1, FS_AddElement
      <4> QED
        BY <3>1, <4>2
    <3> QED
      BY <2>1, <2>2, <2>3, <2>4, <3>2 DEF SenderCount
  <2>5. CASE a # tx.sender
    <3>1. after = before
      BY <2>1, <2>2, <2>5
    <3> QED
      BY <2>1, <2>2, <3>1 DEF SenderCount
  <2> QED
    BY <2>4, <2>5
<1> QED
  BY <1>2, <1>3 DEF PoolWithin

LEMMA AddGood ==
  ASSUME NEW p, NEW tx \in Transaction, NEW c, PoolGood(p), PoolWithin(p, c), ValidPolicy(c)
  PROVE  /\ PoolGood(Add(p, tx, c)) /\ PoolWithin(Add(p, tx, c), c)
         /\ AddEffect(p, Add(p, tx, c), tx)
<1>1. PICK n : n = Add(p, tx, c)
  OBVIOUS
<1>2. PICK q : q = IF Rival(p, tx) = NoTx THEN p ELSE Discard(p, Rival(p, tx))
  OBVIOUS
<1>3. n = IF Refused(p, tx, c) THEN p
          ELSE IF Len(q.order) < c.maxSize THEN Insert(q, tx)
          ELSE IF Lowest(q).fee >= tx.fee THEN q
          ELSE Insert(Discard(q, Lowest(q)), tx)
  BY <1>1, <1>2 DEF Add
<1>4. CASE Refused(p, tx, c)
  BY <1>1, <1>3, <1>4 DEF AddEffect
<1>5. CASE ~Refused(p, tx, c)
  <2>1. /\ {c.maxSize, c.maxPerSender} \subseteq Nat /\ c.maxSize # 0
        /\ tx.fee \in Nat /\ tx.sender \in Account
    BY TransactionFields DEF ValidPolicy
  <2>2. tx \notin Entries(p)
    BY <1>5 DEF Refused
  <2>3. /\ PoolGood(q) /\ tx \notin Entries(q) /\ q.slots[Slot(tx)] = NoTx
        /\ Len(q.order) <= c.maxSize
        /\ \A a \in Account : SenderCount(q, a) <= c.maxPerSender
        /\ SenderCount(q, tx.sender) < c.maxPerSender
        /\ Entries(q) \subseteq Entries(p)
        /\ \A t \in Entries(p) \ Entries(q) : t.fee < tx.fee
        /\ Entries(q) # Entries(p) => Len(q.order) < c.maxSize
    <3>1. CASE Rival(p, tx) = NoTx
      <4>1. q = p
        BY <1>2, <3>1
      <4>2. SenderCount(p, tx.sender) < c.maxPerSender
        <5>1. ~ (SenderCount(p, tx.sender) >= c.maxPerSender)
          BY <1>5, <3>1 DEF Refused
        <5>2. SenderCount(p, tx.sender) \in Nat
          BY SenderCountBound
        <5> QED
          BY <2>1, <5>1, <5>2
      <4> QED
        BY <2>2, <3>1, <4>1, <4>2 DEF PoolWithin, Rival
    <3>2. CASE Rival(p, tx) # NoTx
      <4>1. PICK r : r = Rival(p, tx)
        OBVIOUS
      <4>2. /\ r \in Entries(p) /\ r.sender = tx.sender /\ Slot(r) = Slot(tx)
            /\ r \in Transaction /\ r.fee \in Nat
        BY <3>2, <4>1, RivalIsEntry, PoolEntries, TransactionFields
      <4>3. PoolGood(q) /\ Entries(q) = Entries(p) \ {r}
        BY <1>2, <3>2, <4>1, <4>2, DiscardGood
      <4>4. r.fee < tx.fee
        <5>1. c.rbf /\ ~ (tx.fee < r.fee + c.bump)
          BY <1>5, <3>2, <4>1 DEF Refused
        <5>2. c.bump \in Nat \ {0}
          BY <5>1 DEF ValidPolicy
        <5> QED
          BY <2>1, <4>2, <5>1, <5>2
      <4>5. q.slots[Slot(tx)] = NoTx
        <5>1. \A t \in Entries(q) : Slot(t) # Slot(tx)
          BY <4>2, <4>3 DEF PoolGood
        <5>2. Slot(tx) \in Account \X Nonce
          BY TransactionFields
        <5> QED
          BY <4>3, <5>1, <5>2 DEF PoolGood
      <4>6. Len(q.order) < c.maxSize
        <5>1. Cardinality(Entries(p) \ {r}) = Cardinality(Entries(p)) - 1
          BY <4>2, PoolEntries, FS_RemoveElement
        <5>2. Cardinality(Entries(q)) = Cardinality(Entries(p)) - 1
          BY <4>3, <5>1
        <5>3. /\ Cardinality(Entries(p)) = Len(p.order) /\ Len(p.order) \in Nat
              /\ Cardinality(Entries(q)) = Len(q.order) /\ Len(q.order) \in Nat
          BY <4>3, PoolEntries
        <5>4. Len(q.order) = Len(p.order) - 1
          BY <5>2, <5>3
        <5> QED
          BY <2>1, <5>3, <5>4 DEF PoolWithin
      <4>7. ASSUME NEW a \in Account PROVE SenderCount(q, a) <= c.maxPerSender
        <5>1. Entries(q) \subseteq Entries(p)
          BY <4>3
        <5>2. PoolWithin(q, c)
          BY <2>1, <4>3, <5>1, FewerEntries
        <5> QED
          BY <5>2 DEF PoolWithin
      <4>8. SenderCount(q, tx.sender) < c.maxPerSender
        <5>1. PICK a \in Account : a = tx.sender
          BY <2>1
        <5>2. PICK before : before = {t \in Entries(p) : t.sender = a}
          OBVIOUS
        <5>3. PICK after : after = {t \in Entries(q) : t.sender = a}
          OBVIOUS
        <5>4. after = before \ {r} /\ r \in before
          BY <4>2, <4>3, <5>1, <5>2, <5>3
        <5>5. IsFiniteSet(before) /\ Cardinality(before) \in Nat
          <6>1. before \subseteq Entries(p)
            BY <5>2
          <6> QED
            BY <6>1, PoolEntries, FS_Subset, FS_CardinalityType
        <5>6. Cardinality(before \ {r}) = Cardinality(before) - 1
          <6>1. r \in before
            BY <5>4
          <6> QED
            BY <5>5, <6>1, FS_RemoveElement
        <5>7. Cardinality(after) = Cardinality(before) - 1
          BY <5>4, <5>6
        <5>8. Cardinality(before) <= c.maxPerSender
          BY <5>2 DEF PoolWithin, SenderCount
        <5>9. Cardinality(after) < c.maxPerSender
          BY <2>1, <5>5, <5>7, <5>8
        <5> QED
          BY <5>1, <5>3, <5>9 DEF SenderCount
      <4>9. \A t \in Entries(p) \ Entries(q) : t.fee < tx.fee
        BY <4>3, <4>4
      <4>10. Len(q.order) <= c.maxSize
        BY <2>1, <4>3, <4>6, PoolEntries
      <4> QED
        BY <2>2, <4>3, <4>5, <4>6, <4>7, <4>8, <4>9, <4>10
    <3> QED
      BY <3>1, <3>2
  <2>4. CASE Len(q.order) < c.maxSize
    <3>1. n = Insert(q, tx)
      BY <1>3, <1>5, <2>4
    <3>2. PoolGood(n) /\ Entries(n) = Entries(q) \cup {tx}
      BY <2>3, <3>1, InsertGood
    <3>3. PoolWithin(n, c)
      BY <2>1, <2>3, <2>4, <3>2, InsertWithin
    <3> QED
      BY <1>1, <2>2, <2>3, <3>2, <3>3 DEF AddEffect
  <2>5. CASE ~ (Len(q.order) < c.maxSize)
    <3>1. Entries(q) = Entries(p) /\ Entries(q) # {}
      <4>1. Len(q.order) \in Nat /\ Cardinality(Entries(q)) = Len(q.order)
        BY <2>3, PoolEntries
      <4>2. Len(q.order) # 0
        BY <2>1, <2>5, <4>1
      <4>3. Entries(q) # {}
        BY <4>1, <4>2, FS_EmptySet
      <4> QED
        BY <2>3, <2>5, <4>3
    <3>2. PoolWithin(q, c)
      BY <2>3 DEF PoolWithin
    <3>3. CASE Lowest(q).fee >= tx.fee
      <4>1. n = q
        BY <1>3, <1>5, <2>5, <3>3
      <4> QED
        BY <1>1, <2>3, <3>1, <3>2, <4>1 DEF AddEffect
    <3>4. CASE ~ (Lowest(q).fee >= tx.fee)
      <4>1. PICK l : l = Lowest(q)
        OBVIOUS
      <4>2. l \in Entries(q) /\ l \in Transaction /\ l.fee \in Nat
        BY <2>3, <3>1, <4>1, LowestCheapest, PoolEntries, TransactionFields
      <4>3. l.fee < tx.fee
        BY <2>1, <3>4, <4>1, <4>2
      <4>4. PICK d : d = Discard(q, l)
        OBVIOUS
      <4>5. PoolGood(d) /\ Entries(d) = Entries(q) \ {l}
        BY <2>3, <4>2, <4>4, DiscardGood
      <4>6. n = Insert(d, tx)
        BY <1>3, <1>5, <2>5, <3>4, <4>1, <4>4
      <4>7. tx \notin Entries(d) /\ Entries(d) \subseteq Entries(q)
        BY <2>3, <4>5
      <4>8. d.slots[Slot(tx)] = NoTx
        <5>1. \A t \in Entries(q) : Slot(t) # Slot(tx)
          <6>1. \A t \in Entries(q) : q.slots[Slot(t)] = t /\ t # NoTx
            BY <2>3, PoolEntries, TransactionFields DEF PoolGood
          <6> QED
            BY <2>3, <6>1
        <5>2. Slot(tx) \in Account \X Nonce
          BY TransactionFields
        <5> QED
          BY <4>5, <4>7, <5>1, <5>2 DEF PoolGood
      <4>9. PoolGood(n) /\ Entries(n) = Entries(d) \cup {tx}
        BY <4>5, <4>6, <4>7, <4>8, InsertGood
      <4>10. Len(d.order) < c.maxSize
        <5>1. Cardinality(Entries(q) \ {l}) = Cardinality(Entries(q)) - 1
          BY <2>3, <4>2, PoolEntries, FS_RemoveElement
        <5>2. Cardinality(Entries(d)) = Cardinality(Entries(q)) - 1
          BY <4>5, <5>1
        <5>3. /\ Cardinality(Entries(q)) = Len(q.order) /\ Len(q.order) \in Nat
              /\ Cardinality(Entries(d)) = Len(d.order) /\ Len(d.order) \in Nat
          BY <2>3, <4>5, PoolEntries
        <5>4. Len(d.order) = Len(q.order) - 1
          BY <5>2, <5>3
        <5> QED
          BY <2>1, <2>3, <5>3, <5>4
      <4>11. \A a \in Account : SenderCount(d, a) <= c.maxPerSender
        <5>1. PoolWithin(d, c)
          BY <2>1, <2>3, <3>2, <4>5, <4>7, FewerEntries
        <5> QED
          BY <5>1 DEF PoolWithin
      <4>12. SenderCount(d, tx.sender) < c.maxPerSender
        <5>1. /\ SenderCount(d, tx.sender) <= SenderCount(q, tx.sender)
              /\ SenderCount(q, tx.sender) \in Nat
          BY <2>3, <4>7, SenderCountBound
        <5>2. SenderCount(d, tx.sender) \in Nat
          BY <4>5, SenderCountBound
        <5> QED
          BY <2>1, <2>3, <5>1, <5>2
      <4>13. PoolWithin(n, c)
        BY <2>1, <4>5, <4>7, <4>9, <4>10, <4>11, <4>12, InsertWithin
      <4>14. \A t \in Entries(p) \ Entries(n) : t.fee < tx.fee
        BY <3>1, <4>3, <4>5, <4>9
      <4> QED
        BY <1>1, <2>2, <3>1, <4>5, <4>9, <4>13, <4>14 DEF AddEffect
    <3> QED
      BY <3>3, <3>4
  <2> QED
    BY <2>4, <2>5
<1> QED
  BY <1>4, <1>5

-----------------------------------------------------------------------------
(* reinject() adds one transaction after the other. *)
AddSteps(tr, p, txs, c) ==
  /\ tr[0] = p /\ tr[Len(txs)] = AddAll(p, txs, c)
  /\ \A i \in 1 .. Len(txs) : tr[i] = Add(tr[i - 1], txs[i], c)

LEMMA AddAllTrace ==
  ASSUME NEW p, NEW c, NEW txs \in Seq(Transaction),
         PoolGood(p), PoolWithin(p, c), ValidPolicy(c)
  PROVE  \E tr : /\ AddSteps(tr, p, txs, c)
                 /\ \A i \in 0 .. Len(txs) : PoolGood(tr[i]) /\ PoolWithin(tr[i], c)
<1>1. PICK N \in Nat : N = Len(txs)
  OBVIOUS
<1>2. PICK V : V = {q \in PoolShape : PoolGood(q) /\ PoolWithin(q, c)}
  OBVIOUS
<1>3. p \in V
  BY <1>2 DEF PoolGood
<1>4. ASSUME NEW q \in V, NEW i \in 1 .. N
      PROVE  Add(q, txs[i], c) \in V /\ AddEffect(q, Add(q, txs[i], c), txs[i])
  <2>1. txs[i] \in Transaction
    BY <1>1, ElementOfSeq
  <2>2. PICK tx \in Transaction : tx = txs[i]
    BY <2>1
  <2>3. PICK n : n = Add(q, tx, c)
    OBVIOUS
  <2>4. PoolGood(n) /\ PoolWithin(n, c) /\ AddEffect(q, n, tx)
    BY <1>2, <2>3, AddGood
  <2>5. n \in PoolShape
    BY <2>4 DEF PoolGood
  <2> QED
    BY <1>2, <2>2, <2>3, <2>4, <2>5
<1>5. PICK G : G = [v \in V \X (1 .. N) |-> Add(v[1], txs[v[2]], c)]
  OBVIOUS
<1>6. \A v \in V, i \in 1 .. N : G[<<v, i>>] = Add(v, txs[i], c) /\ G[<<v, i>>] \in V
  BY <1>4, <1>5
<1>7. PICK it : PositionRun(it, N, V, p, G)
  <2>1. \A v \in V, i \in 1 .. N : G[<<v, i>>] \in V
    BY <1>6
  <2> QED
    BY <1>3, <2>1, PositionRecursion
<1>8. it = [t \in SUBSET (1 .. N) |->
              IF t = {} THEN p ELSE Add(it[t \ {Max(t)}], txs[Max(t)], c)]
  <2>1. ASSUME NEW t \in SUBSET (1 .. N), t # {}
        PROVE  it[t] = Add(it[t \ {Max(t)}], txs[Max(t)], c)
    <3>1. Max(t) \in 1 .. N /\ t \ {Max(t)} \in SUBSET (1 .. N)
      BY <2>1, GreatestPosition
    <3> QED
      BY <1>6, <1>7, <2>1, <3>1 DEF PositionRun
  <2> QED
    BY <1>7, <2>1 DEF PositionRun
<1>9. PICK fold : fold = CHOOSE f : f = [t \in SUBSET (1 .. N) |->
              IF t = {} THEN p ELSE Add(f[t \ {Max(t)}], txs[Max(t)], c)]
  OBVIOUS
<1>10. fold = [t \in SUBSET (1 .. N) |->
              IF t = {} THEN p ELSE Add(fold[t \ {Max(t)}], txs[Max(t)], c)]
  BY <1>8, <1>9
<1>11. AddAll(p, txs, c) = fold[1 .. N]
  <2>1. DOMAIN txs = 1 .. N
    BY <1>1
  <2> QED
    BY <1>9, <2>1 DEF AddAll, FoldLeft, MapThenFoldSet
<1>12. PICK tr : tr = [n \in 0 .. N |-> fold[1 .. n]]
  OBVIOUS
<1>13. tr[0] = p
  <2>1. 1 .. 0 = {} /\ {} \in SUBSET (1 .. N)
    OBVIOUS
  <2>2. fold[{}] = p
    BY <1>10, <2>1
  <2> QED
    BY <1>12, <2>1, <2>2
<1>14. ASSUME NEW i \in 1 .. N
       PROVE  tr[i] = Add(tr[i - 1], txs[i], c)
  <2>1. PICK t \in SUBSET (1 .. N) : t = 1 .. i
    OBVIOUS
  <2>2. t # {} /\ Max(t) = i /\ t \ {Max(t)} = 1 .. (i - 1)
    BY <2>1, FirstPositions
  <2>3. fold[t] = Add(fold[t \ {Max(t)}], txs[Max(t)], c)
    BY <1>10, <2>2
  <2>4. tr[i] = fold[t] /\ tr[i - 1] = fold[1 .. (i - 1)]
    BY <1>12, <2>1
  <2> QED
    BY <2>2, <2>3, <2>4
<1>15. \A i \in 0 .. N : tr[i] \in V
  <2>1. PICK P : P = {i \in 0 .. N : tr[i] \in V}
    OBVIOUS
  <2>2. 0 \in P
    BY <1>3, <1>13, <2>1
  <2>3. ASSUME NEW i \in 1 .. N, i - 1 \in P PROVE i \in P
    BY <1>4, <1>14, <2>1, <2>3
  <2> QED
    BY <2>1, <2>2, <2>3, EveryPosition
<1>16. AddSteps(tr, p, txs, c)
  <2>1. tr[N] = AddAll(p, txs, c)
    BY <1>11, <1>12
  <2> QED
    BY <1>1, <1>13, <1>14, <2>1 DEF AddSteps
<1>17. \A i \in 0 .. N : PoolGood(tr[i]) /\ PoolWithin(tr[i], c)
  BY <1>2, <1>15
<1>18. \A i \in 0 .. Len(txs) : PoolGood(tr[i]) /\ PoolWithin(tr[i], c)
  BY <1>1, <1>17
<1> QED
  BY <1>16, <1>18

-----------------------------------------------------------------------------
(* The fee policy.  Sorting by fee permutes: every rank is taken.          *)
LEMMA RankedMembers ==
  ASSUME NEW X, NEW s \in Seq(X), \A x \in X : x.fee \in Int
  PROVE  /\ Ranked(s) \in Seq(X) /\ Len(Ranked(s)) = Len(s)
         /\ ToSet(Ranked(s)) \subseteq ToSet(s)
<1>1. PICK N \in Nat : N = Len(s) /\ DOMAIN s = 1 .. N
  OBVIOUS
<1>2. PICK fee : fee = [i \in 1 .. N |-> s[i].fee]
  OBVIOUS
<1>3. \A i \in 1 .. N : fee[i] \in Int /\ fee[i] = s[i].fee /\ s[i] \in X
  <2>1. \A i \in 1 .. N : s[i] \in X
    BY <1>1, ElementOfSeq
  <2> QED
    BY <1>2, <2>1
<1>4. PICK A : A = [i \in 1 .. N |->
                      {j \in 1 .. N : fee[j] > fee[i] \/ (fee[j] = fee[i] /\ j < i)}]
  OBVIOUS
<1>5. PICK rank : rank = [i \in 1 .. N |-> Cardinality(A[i]) + 1]
  OBVIOUS
<1>6. IsFiniteSet(1 .. N) /\ Cardinality(1 .. N) = N
  <2>1. IsFiniteSet(1 .. N) /\ Cardinality(1 .. N) = IF 1 > N THEN 0 ELSE N - 1 + 1
    BY FS_Interval
  <2> QED
    BY <2>1
<1>7. ASSUME NEW i \in 1 .. N
      PROVE  IsFiniteSet(A[i]) /\ Cardinality(A[i]) \in Nat /\ rank[i] \in 1 .. N
  <2>1. A[i] \subseteq (1 .. N) \ {i}
    BY <1>3, <1>4
  <2>2. IsFiniteSet((1 .. N) \ {i}) /\ Cardinality((1 .. N) \ {i}) = N - 1
    BY <1>6, FS_RemoveElement
  <2>3. IsFiniteSet(A[i]) /\ Cardinality(A[i]) <= N - 1
    BY <2>1, <2>2, FS_Subset
  <2>4. Cardinality(A[i]) \in Nat
    BY <2>3, FS_CardinalityType
  <2> QED
    BY <1>5, <2>3, <2>4
<1>8. ASSUME NEW i \in 1 .. N, NEW k \in 1 .. N, i \in A[k]
      PROVE  rank[i] < rank[k]
  <2>1. fee[i] > fee[k] \/ (fee[i] = fee[k] /\ i < k)
    BY <1>4, <1>8
  <2>2. A[i] \subseteq A[k] \ {i}
    BY <1>3, <1>4, <2>1
  <2>3. Cardinality(A[k] \ {i}) = Cardinality(A[k]) - 1 /\ IsFiniteSet(A[k] \ {i})
    BY <1>7, <1>8, FS_RemoveElement
  <2>4. Cardinality(A[i]) <= Cardinality(A[k]) - 1
    BY <2>2, <2>3, FS_Subset
  <2> QED
    BY <1>5, <1>7, <2>4
<1>9. ASSUME NEW i \in 1 .. N, NEW k \in 1 .. N, rank[i] = rank[k] PROVE i = k
  <2> SUFFICES ASSUME i # k PROVE FALSE
    OBVIOUS
  <2>1. i \in A[k] \/ k \in A[i]
    BY <1>3, <1>4
  <2>2. rank[i] < rank[k] \/ rank[k] < rank[i]
    BY <1>8, <2>1
  <2> QED
    BY <1>7, <1>9, <2>2
<1>10. rank \in [1 .. N -> 1 .. N]
  BY <1>5, <1>7
<1>11. rank \in Injection(1 .. N, 1 .. N)
  BY <1>9, <1>10 DEF Injection, IsInjective
<1>12. rank \in Surjection(1 .. N, 1 .. N)
  BY <1>6, <1>11, FS_Injection
<1>13. \A r \in 1 .. N : \E i \in 1 .. N : rank[i] = r
  BY <1>12 DEF Surjection
<1>14. PICK at : at = [r \in 1 .. N |-> CHOOSE i \in 1 .. N : rank[i] = r]
  OBVIOUS
<1>15. \A r \in 1 .. N : at[r] \in 1 .. N
  BY <1>13, <1>14
<1>16. PICK t : t = [r \in 1 .. N |-> s[at[r]]]
  OBVIOUS
<1>17. t \in Seq(X) /\ Len(t) = N /\ ToSet(t) \subseteq ToSet(s)
  <2>1. \A r \in 1 .. N : t[r] \in X
    BY <1>3, <1>15, <1>16
  <2>2. t \in [1 .. N -> X]
    BY <1>16, <2>1
  <2>3. t \in Seq(X) /\ Len(t) = N
    BY <2>2
  <2> QED
    BY <1>1, <1>15, <1>16, <2>3 DEF ToSet
<1>18. ASSUME NEW r \in 1 .. N
       PROVE  (CHOOSE i \in 1 .. N :
                 Cardinality({j \in 1 .. N : s[j].fee > s[i].fee
                                             \/ (s[j].fee = s[i].fee /\ j < i)}) + 1 = r)
                = at[r]
  <2>1. \A i \in 1 .. N :
          rank[i] = Cardinality({j \in 1 .. N : s[j].fee > s[i].fee
                                   \/ (s[j].fee = s[i].fee /\ j < i)}) + 1
    BY <1>3, <1>4, <1>5
  <2>2. at[r] = CHOOSE i \in 1 .. N : rank[i] = r
    BY <1>14
  <2> HIDE <1>14
  <2> QED
    BY <2>1, <2>2
<1>19. Ranked(s) = [r \in 1 .. Len(s) |-> s[CHOOSE i \in 1 .. Len(s) :
                 Cardinality({j \in 1 .. Len(s) : s[j].fee > s[i].fee
                                \/ (s[j].fee = s[i].fee /\ j < i)}) + 1 = r]]
  BY DEF Ranked
<1>20. Ranked(s) = [r \in 1 .. N |-> s[CHOOSE i \in 1 .. N :
                 Cardinality({j \in 1 .. N : s[j].fee > s[i].fee
                                \/ (s[j].fee = s[i].fee /\ j < i)}) + 1 = r]]
  BY <1>1, <1>19
<1>21. Ranked(s) = t
  BY <1>16, <1>18, <1>20
<1> QED
  BY <1>1, <1>17, <1>21

-----------------------------------------------------------------------------
(* Applying a block: the ledger moves one transaction at a time. *)
LedgerState == [balances : [Account -> Int], nonces : [Account -> Nat], burned : Int]

IntCharges(txs, charges) ==
  \A i \in 1 .. Len(txs) :
    charges[i].charged \in Int /\ charges[i].burned \in Int /\ charges[i].tip \in Int

TransferEffect(tx, s, c, miner, t) ==
  /\ t \in LedgerState /\ t.burned = s.burned + c.burned
  /\ t.nonces = [s.nonces EXCEPT ![tx.sender] = @ + 1]
  /\ \E debited \in [Account -> Int], credited \in [Account -> Int] :
       /\ debited = [s.balances EXCEPT ![tx.sender] = @ - tx.amount - c.charged]
       /\ credited = [debited EXCEPT ![tx.recipient] = @ + tx.amount]
       /\ t.balances = [credited EXCEPT ![miner] = @ + c.tip]

LEMMA TransferType ==
  ASSUME NEW tx \in Transaction, NEW s \in LedgerState, NEW miner \in Account, NEW c,
         c.charged \in Int, c.burned \in Int, c.tip \in Int
  PROVE  TransferEffect(tx, s, c, miner, Transfer(tx, s, c, miner))
<1>1. /\ tx.sender \in Account /\ tx.recipient \in Account /\ tx.amount \in Nat
      /\ s.balances \in [Account -> Int] /\ s.nonces \in [Account -> Nat] /\ s.burned \in Int
  BY TransactionFields DEF LedgerState
<1>2. PICK debited : debited = [s.balances EXCEPT ![tx.sender] = @ - tx.amount - c.charged]
  OBVIOUS
<1>3. debited \in [Account -> Int]
  BY <1>1, <1>2
<1>4. PICK credited : credited = [debited EXCEPT ![tx.recipient] = @ + tx.amount]
  OBVIOUS
<1>5. credited \in [Account -> Int]
  BY <1>1, <1>3, <1>4
<1>6. PICK balances : balances = [credited EXCEPT ![miner] = @ + c.tip]
  OBVIOUS
<1>7. balances \in [Account -> Int]
  BY <1>5, <1>6
<1>8. PICK nonces : nonces = [s.nonces EXCEPT ![tx.sender] = @ + 1]
  OBVIOUS
<1>9. nonces \in [Account -> Nat]
  BY <1>1, <1>8
<1>10. PICK burned \in Int : burned = s.burned + c.burned
  BY <1>1
<1>11. Transfer(tx, s, c, miner) = [balances |-> balances, nonces |-> nonces, burned |-> burned]
  BY <1>2, <1>4, <1>6, <1>8, <1>10 DEF Transfer
<1>12. Transfer(tx, s, c, miner) \in LedgerState
  BY <1>7, <1>9, <1>10, <1>11 DEF LedgerState
<1>13. /\ Transfer(tx, s, c, miner).burned = s.burned + c.burned
       /\ Transfer(tx, s, c, miner).nonces = [s.nonces EXCEPT ![tx.sender] = @ + 1]
       /\ Transfer(tx, s, c, miner).balances = [credited EXCEPT ![miner] = @ + c.tip]
  BY <1>6, <1>8, <1>10, <1>11
<1> QED
  BY <1>2, <1>3, <1>4, <1>5, <1>12, <1>13 DEF TransferEffect

ApplySteps(tr, txs, charges, s, miner) ==
  /\ tr \in [0 .. Len(txs) -> [ok : BOOLEAN, state : LedgerState]]
  /\ tr[0] = [ok |-> TRUE, state |-> s]
  /\ tr[Len(txs)] = ApplyAll(txs, charges, s, miner)
  /\ \A i \in 1 .. Len(txs) :
       tr[i] = IF tr[i - 1].ok /\ Valid(txs[i], tr[i - 1].state)
               THEN [ok |-> TRUE, state |-> Transfer(txs[i], tr[i - 1].state, charges[i], miner)]
               ELSE [ok |-> FALSE, state |-> tr[i - 1].state]

LEMMA ApplyTrace ==
  ASSUME NEW txs \in Seq(Transaction), NEW charges, IntCharges(txs, charges),
         NEW s \in LedgerState, NEW miner \in Account
  PROVE  \E tr : ApplySteps(tr, txs, charges, s, miner)
<1>1. PICK N \in Nat : N = Len(txs)
  OBVIOUS
<1>2. PICK V : V = [ok : BOOLEAN, state : LedgerState]
  OBVIOUS
<1>3. PICK base : base = [ok |-> TRUE, state |-> s]
  OBVIOUS
<1>4. base \in V
  BY <1>2, <1>3
<1>5. PICK G : G = [p \in V \X (1 .. N) |->
        IF p[1].ok /\ Valid(txs[p[2]], p[1].state)
        THEN [ok |-> TRUE, state |-> Transfer(txs[p[2]], p[1].state, charges[p[2]], miner)]
        ELSE [ok |-> FALSE, state |-> p[1].state]]
  OBVIOUS
<1>6. ASSUME NEW v \in V, NEW i \in 1 .. N
      PROVE  /\ G[<<v, i>>] =
                  IF v.ok /\ Valid(txs[i], v.state)
                  THEN [ok |-> TRUE, state |-> Transfer(txs[i], v.state, charges[i], miner)]
                  ELSE [ok |-> FALSE, state |-> v.state]
             /\ G[<<v, i>>] \in V
  <2>1. G[<<v, i>>] =
          IF v.ok /\ Valid(txs[i], v.state)
          THEN [ok |-> TRUE, state |-> Transfer(txs[i], v.state, charges[i], miner)]
          ELSE [ok |-> FALSE, state |-> v.state]
    BY <1>5
  <2>2. txs[i] \in Transaction /\ v.state \in LedgerState /\ v.ok \in BOOLEAN
    BY <1>1, <1>2, ElementOfSeq
  <2>3. charges[i].charged \in Int /\ charges[i].burned \in Int /\ charges[i].tip \in Int
    BY <1>1 DEF IntCharges
  <2>4. Transfer(txs[i], v.state, charges[i], miner) \in LedgerState
    BY <2>2, <2>3, TransferType DEF TransferEffect
  <2>5. PICK z \in LedgerState : z = Transfer(txs[i], v.state, charges[i], miner)
    BY <2>4
  <2>6. [ok |-> TRUE, state |-> z] \in V /\ [ok |-> FALSE, state |-> v.state] \in V
    BY <1>2, <2>2
  <2> QED
    BY <2>1, <2>5, <2>6
<1>7. PICK it : PositionRun(it, N, V, base, G)
  <2>1. \A v \in V, i \in 1 .. N : G[<<v, i>>] \in V
    BY <1>6
  <2> QED
    BY <1>4, <2>1, PositionRecursion
<1>8. PICK ids : ids = [i \in 1 .. N |-> i]
  OBVIOUS
<1>9. it = [t \in SUBSET (1 .. N) |->
        IF t = {} THEN base
        ELSE IF it[t \ {Max(t)}].ok /\ Valid(txs[ids[Max(t)]], it[t \ {Max(t)}].state)
             THEN [ok |-> TRUE, state |-> Transfer(txs[ids[Max(t)]], it[t \ {Max(t)}].state,
                                                   charges[ids[Max(t)]], miner)]
             ELSE [ok |-> FALSE, state |-> it[t \ {Max(t)}].state]]
  <2>1. ASSUME NEW t \in SUBSET (1 .. N), t # {}
        PROVE  it[t] =
             IF it[t \ {Max(t)}].ok /\ Valid(txs[ids[Max(t)]], it[t \ {Max(t)}].state)
             THEN [ok |-> TRUE, state |-> Transfer(txs[ids[Max(t)]], it[t \ {Max(t)}].state,
                                                   charges[ids[Max(t)]], miner)]
             ELSE [ok |-> FALSE, state |-> it[t \ {Max(t)}].state]
    <3>1. PICK m \in 1 .. N : m = Max(t)
      BY <2>1, GreatestPosition
    <3>2. PICK v \in V : v = it[t \ {m}]
      BY <1>7 DEF PositionRun
    <3>3. it[t] = G[<<v, m>>]
      BY <1>7, <2>1, <3>1, <3>2 DEF PositionRun
    <3>4. ids[m] = m
      BY <1>8
    <3>5. G[<<v, m>>] =
            IF v.ok /\ Valid(txs[m], v.state)
            THEN [ok |-> TRUE, state |-> Transfer(txs[m], v.state, charges[m], miner)]
            ELSE [ok |-> FALSE, state |-> v.state]
      BY <1>6
    <3> QED
      BY <3>1, <3>2, <3>3, <3>4, <3>5
  <2> QED
    BY <1>7, <2>1 DEF PositionRun
<1>10. PICK fold : fold = CHOOSE f : f = [t \in SUBSET (1 .. N) |->
        IF t = {} THEN base
        ELSE IF f[t \ {Max(t)}].ok /\ Valid(txs[ids[Max(t)]], f[t \ {Max(t)}].state)
             THEN [ok |-> TRUE, state |-> Transfer(txs[ids[Max(t)]], f[t \ {Max(t)}].state,
                                                   charges[ids[Max(t)]], miner)]
             ELSE [ok |-> FALSE, state |-> f[t \ {Max(t)}].state]]
  OBVIOUS
<1>11. fold = [t \in SUBSET (1 .. N) |->
        IF t = {} THEN base
        ELSE IF fold[t \ {Max(t)}].ok /\ Valid(txs[ids[Max(t)]], fold[t \ {Max(t)}].state)
             THEN [ok |-> TRUE, state |-> Transfer(txs[ids[Max(t)]], fold[t \ {Max(t)}].state,
                                                   charges[ids[Max(t)]], miner)]
             ELSE [ok |-> FALSE, state |-> fold[t \ {Max(t)}].state]]
  BY <1>9, <1>10
<1>12. ApplyAll(txs, charges, s, miner) = fold[1 .. N]
  <2>1. DOMAIN txs = 1 .. N /\ DOMAIN ids = 1 .. N /\ ids = [i \in DOMAIN txs |-> i]
    BY <1>1, <1>8
  <2> QED
    BY <1>3, <1>10, <2>1 DEF ApplyAll, FoldLeftDomain, FoldLeft, MapThenFoldSet
<1>13. PICK tr : tr = [n \in 0 .. N |-> fold[1 .. n]]
  OBVIOUS
<1>14. tr[0] = base
  <2>1. 1 .. 0 = {} /\ {} \in SUBSET (1 .. N)
    OBVIOUS
  <2>2. fold[{}] = base
    BY <1>11, <2>1
  <2> QED
    BY <1>13, <2>1, <2>2
<1>15. ASSUME NEW i \in 1 .. N
       PROVE  tr[i] = IF tr[i - 1].ok /\ Valid(txs[i], tr[i - 1].state)
               THEN [ok |-> TRUE, state |-> Transfer(txs[i], tr[i - 1].state, charges[i], miner)]
               ELSE [ok |-> FALSE, state |-> tr[i - 1].state]
  <2>1. PICK t \in SUBSET (1 .. N) : t = 1 .. i
    OBVIOUS
  <2>2. t # {} /\ Max(t) = i /\ t \ {Max(t)} = 1 .. (i - 1) /\ ids[i] = i
    BY <1>8, <2>1, FirstPositions
  <2>3. fold[t] =
        IF fold[t \ {Max(t)}].ok /\ Valid(txs[ids[Max(t)]], fold[t \ {Max(t)}].state)
             THEN [ok |-> TRUE, state |-> Transfer(txs[ids[Max(t)]], fold[t \ {Max(t)}].state,
                                                   charges[ids[Max(t)]], miner)]
             ELSE [ok |-> FALSE, state |-> fold[t \ {Max(t)}].state]
    BY <1>11, <2>2
  <2>4. tr[i] = fold[t] /\ tr[i - 1] = fold[1 .. (i - 1)]
    BY <1>13, <2>1
  <2> QED
    BY <2>2, <2>3, <2>4
<1>16. \A i \in 0 .. N : tr[i] \in V
  <2>1. PICK P : P = {i \in 0 .. N : tr[i] \in V}
    OBVIOUS
  <2>2. 0 \in P
    BY <1>4, <1>14, <2>1
  <2>3. ASSUME NEW i \in 1 .. N, i - 1 \in P PROVE i \in P
    <3>1. PICK v \in V : v = tr[i - 1]
      BY <2>1, <2>3
    <3>2. tr[i] = G[<<v, i>>]
      BY <1>6, <1>15, <3>1
    <3>3. G[<<v, i>>] \in V
      BY <1>6
    <3>4. tr[i] \in V
      BY <3>2, <3>3
    <3> QED
      BY <2>1, <3>4
  <2> QED
    BY <2>1, <2>2, <2>3, EveryPosition
<1>17. tr \in [0 .. N -> V] /\ tr[N] = ApplyAll(txs, charges, s, miner)
  BY <1>12, <1>13, <1>16
<1> QED
  BY <1>1, <1>2, <1>3, <1>14, <1>15, <1>17 DEF ApplySteps

-----------------------------------------------------------------------------
(* The transactions of a chain. *)
ChainSteps(tr, X, bs) ==
  /\ tr \in [0 .. Len(bs) -> Seq(X)]
  /\ tr[0] = <<>> /\ tr[Len(bs)] = AllTxs(bs)
  /\ \A i \in 1 .. Len(bs) : tr[i] = tr[i - 1] \o bs[i].txs

LEMMA ChainTrace ==
  ASSUME NEW X, NEW B, \A b \in B : b.txs \in Seq(X), NEW bs \in Seq(B)
  PROVE  \E tr : ChainSteps(tr, X, bs)
<1>1. PICK N \in Nat : N = Len(bs)
  OBVIOUS
<1>2. PICK V : V = Seq(X)
  OBVIOUS
<1>0. <<>> \in V
  <2>1. <<>> \in Seq(X)
    OBVIOUS
  <2> QED
    BY <1>2, <2>1
<1>3. PICK G : G = [p \in V \X (1 .. N) |-> p[1] \o bs[p[2]].txs]
  OBVIOUS
<1>4. ASSUME NEW v \in V, NEW i \in 1 .. N
      PROVE  G[<<v, i>>] = v \o bs[i].txs /\ G[<<v, i>>] \in V
  <2>1. bs[i].txs \in Seq(X) /\ v \in Seq(X)
    BY <1>1, <1>2, ElementOfSeq
  <2>2. v \o bs[i].txs \in Seq(X)
    BY <2>1, ConcatProperties
  <2> QED
    BY <1>2, <1>3, <2>2
<1>5. PICK it : PositionRun(it, N, V, <<>>, G)
  <2>1. <<>> \in V /\ \A v \in V, i \in 1 .. N : G[<<v, i>>] \in V
    BY <1>0, <1>4
  <2> QED
    BY <2>1, PositionRecursion
<1>6. it = [t \in SUBSET (1 .. N) |->
              IF t = {} THEN <<>> ELSE it[t \ {Max(t)}] \o bs[Max(t)].txs]
  <2>1. ASSUME NEW t \in SUBSET (1 .. N), t # {}
        PROVE  it[t] = it[t \ {Max(t)}] \o bs[Max(t)].txs
    <3>1. PICK m \in 1 .. N : m = Max(t)
      BY <2>1, GreatestPosition
    <3>2. PICK v \in V : v = it[t \ {m}]
      BY <1>5 DEF PositionRun
    <3>3. it[t] = G[<<v, m>>]
      BY <1>5, <2>1, <3>1, <3>2 DEF PositionRun
    <3>4. G[<<v, m>>] = v \o bs[m].txs
      BY <1>4
    <3> QED
      BY <3>1, <3>2, <3>3, <3>4
  <2> QED
    BY <1>5, <2>1 DEF PositionRun
<1>7. PICK fold : fold = CHOOSE f : f = [t \in SUBSET (1 .. N) |->
              IF t = {} THEN <<>> ELSE f[t \ {Max(t)}] \o bs[Max(t)].txs]
  OBVIOUS
<1>8. fold = [t \in SUBSET (1 .. N) |->
              IF t = {} THEN <<>> ELSE fold[t \ {Max(t)}] \o bs[Max(t)].txs]
  BY <1>6, <1>7
<1>9. AllTxs(bs) = fold[1 .. N]
  <2>1. DOMAIN bs = 1 .. N
    BY <1>1
  <2> QED
    BY <1>7, <2>1 DEF AllTxs, FoldLeft, MapThenFoldSet
<1>10. PICK tr : tr = [n \in 0 .. N |-> fold[1 .. n]]
  OBVIOUS
<1>11. tr[0] = <<>>
  <2>1. 1 .. 0 = {} /\ {} \in SUBSET (1 .. N)
    OBVIOUS
  <2>2. fold[{}] = <<>>
    BY <1>8, <2>1
  <2> QED
    BY <1>10, <2>1, <2>2
<1>12. ASSUME NEW i \in 1 .. N
       PROVE  tr[i] = tr[i - 1] \o bs[i].txs
  <2>1. PICK t \in SUBSET (1 .. N) : t = 1 .. i
    OBVIOUS
  <2>2. t # {} /\ Max(t) = i /\ t \ {Max(t)} = 1 .. (i - 1)
    BY <2>1, FirstPositions
  <2>3. fold[t] = fold[t \ {Max(t)}] \o bs[Max(t)].txs
    BY <1>8, <2>2
  <2>4. tr[i] = fold[t] /\ tr[i - 1] = fold[1 .. (i - 1)]
    BY <1>10, <2>1
  <2> QED
    BY <2>2, <2>3, <2>4
<1>13. \A i \in 0 .. N : tr[i] \in V
  <2>1. PICK P : P = {i \in 0 .. N : tr[i] \in V}
    OBVIOUS
  <2>2. 0 \in P
    BY <1>0, <1>11, <2>1
  <2>3. ASSUME NEW i \in 1 .. N, i - 1 \in P PROVE i \in P
    <3>1. PICK v \in V : v = tr[i - 1]
      BY <2>1, <2>3
    <3>2. tr[i] = G[<<v, i>>]
      BY <1>4, <1>12, <3>1
    <3>3. G[<<v, i>>] \in V
      BY <1>4
    <3>4. tr[i] \in V
      BY <3>2, <3>3
    <3> QED
      BY <2>1, <3>4
  <2> QED
    BY <2>1, <2>2, <2>3, EveryPosition
<1>14. tr \in [0 .. N -> V] /\ tr[N] = AllTxs(bs)
  BY <1>9, <1>10, <1>13
<1> QED
  BY <1>1, <1>2, <1>11, <1>12, <1>14 DEF ChainSteps

LEMMA ChainAppend ==
  ASSUME NEW X, NEW B, \A b \in B : b.txs \in Seq(X), NEW bs \in Seq(B), NEW b \in B
  PROVE  /\ AllTxs(bs) \in Seq(X)
         /\ AllTxs(Append(bs, b)) = AllTxs(bs) \o b.txs
<1>1. PICK u : u = Append(bs, b)
  OBVIOUS
<1>2. PICK N \in Nat : N = Len(bs)
  OBVIOUS
<1>3. /\ u \in Seq(B) /\ Len(u) = N + 1 /\ u[N + 1] = b
      /\ \A i \in 1 .. N : u[i] = bs[i]
  BY <1>1, <1>2
<1>4. PICK tr : ChainSteps(tr, X, bs)
  BY ChainTrace
<1>5. PICK up : ChainSteps(up, X, u)
  BY <1>3, ChainTrace
<1>6. PICK P : P = {i \in 0 .. N : up[i] = tr[i]}
  OBVIOUS
<1>7. 0 \in P
  BY <1>4, <1>5, <1>6 DEF ChainSteps
<1>8. ASSUME NEW i \in 1 .. N, i - 1 \in P PROVE i \in P
  <2>1. up[i - 1] = tr[i - 1] /\ u[i] = bs[i]
    BY <1>3, <1>6, <1>8
  <2>2. i \in 1 .. Len(bs) /\ i \in 1 .. Len(u) /\ i \in 0 .. N
    BY <1>2, <1>3
  <2>3. tr[i] = tr[i - 1] \o bs[i].txs
    BY <1>4, <2>2 DEF ChainSteps
  <2>4. up[i] = up[i - 1] \o u[i].txs
    BY <1>5, <2>2 DEF ChainSteps
  <2> QED
    BY <1>6, <2>1, <2>2, <2>3, <2>4
<1>9. \A i \in 0 .. N : i \in P
  BY <1>7, <1>8, EveryPosition
<1>10. up[N] = AllTxs(bs)
  BY <1>2, <1>4, <1>6, <1>9 DEF ChainSteps
<1>11. N + 1 \in 1 .. Len(u) /\ (N + 1) - 1 = N
  BY <1>3
<1>12. up[N + 1] = up[N] \o u[N + 1].txs
  BY <1>5, <1>11 DEF ChainSteps
<1>13. up[N + 1] = AllTxs(u)
  BY <1>3, <1>5 DEF ChainSteps
<1>14. AllTxs(bs) \in Seq(X)
  <2>1. Len(bs) \in 0 .. Len(bs)
    BY <1>2
  <2> QED
    BY <1>4, <2>1 DEF ChainSteps
<1> QED
  BY <1>1, <1>3, <1>10, <1>12, <1>13, <1>14

LEMMA ChainEmpty == AllTxs(<<>>) = <<>>
<1>1. PICK X : X = {}
  OBVIOUS
<1>2. PICK B : B = {}
  OBVIOUS
<1>3. PICK bs \in Seq(B) : bs = <<>>
  <2>1. <<>> \in Seq(B)
    OBVIOUS
  <2> QED
    BY <2>1
<1>4. \A b \in B : b.txs \in Seq(X)
  BY <1>2
<1>5. PICK tr : ChainSteps(tr, X, bs)
  BY <1>4, ChainTrace
<1> QED
  BY <1>3, <1>5 DEF ChainSteps

-----------------------------------------------------------------------------
(* The selection of a block holds pending transactions whose fee is enough. *)
GoodContext(ctx) ==
  /\ ctx.policy \in {"highest_first", "median", "eip1559"}
  /\ ctx.pricing.name \in PayloadPricings /\ ctx.pricing.rate \in Nat
  /\ ctx.maxTransactions \in Nat \ {0} /\ ctx.target \in Nat \ {0}
  /\ ctx.minBaseFee \in Nat /\ ctx.baseFee \in Nat

LEMMA SelectForBlockMembers ==
  ASSUME NEW s \in Seq(Transaction), NEW ctx, GoodContext(ctx)
  PROVE  /\ SelectForBlock(s, ctx) \in Seq(Transaction)
         /\ ToSet(SelectForBlock(s, ctx)) \subseteq ToSet(s)
         /\ \A i \in 1 .. Len(SelectForBlock(s, ctx)) :
              IsValidFee(SelectForBlock(s, ctx)[i], ctx)
<1>1. PICK fit : fit = {tx \in ToSet(s) : IsValidFee(tx, ctx)}
  OBVIOUS
<1>2. PICK o : o = Only(s, fit)
  OBVIOUS
<1>3. o \in Seq(Transaction) /\ ToSet(o) = ToSet(s) \cap fit
  BY <1>2, OnlyProperties
<1>4. PICK r : r = Ranked(o)
  OBVIOUS
<1>5. r \in Seq(Transaction) /\ ToSet(r) \subseteq ToSet(o)
  <2>1. \A x \in Transaction : x.fee \in Int
    BY TransactionFields
  <2> QED
    BY <1>3, <1>4, <2>1, RankedMembers
<1>6. PICK m : m = IF Len(r) < ctx.maxTransactions THEN Len(r) ELSE ctx.maxTransactions
  OBVIOUS
<1>7. m \in 0 .. Len(r)
  BY <1>5, <1>6 DEF GoodContext
<1>8. PICK b : b = SubSeq(r, 1, m)
  OBVIOUS
<1>9. b \in Seq(Transaction) /\ Len(b) = m /\ \A i \in 1 .. m : b[i] = r[i]
  BY <1>5, <1>7, <1>8
<1>10. \A i \in 1 .. m : b[i] \in ToSet(o)
  <2>1. \A i \in 1 .. m : r[i] \in ToSet(r)
    BY <1>5, <1>7 DEF ToSet
  <2> QED
    BY <1>5, <1>9, <2>1
<1>11. ToSet(b) \subseteq ToSet(s)
  <2>1. DOMAIN b = 1 .. m
    BY <1>9
  <2>2. ToSet(b) \subseteq ToSet(o)
    BY <1>10, <2>1 DEF ToSet
  <2> QED
    BY <1>3, <2>2
<1>12. \A i \in 1 .. Len(b) : IsValidFee(b[i], ctx)
  BY <1>1, <1>3, <1>9, <1>10
<1>13. SelectForBlock(s, ctx) = b
  BY <1>1, <1>2, <1>4, <1>6, <1>8 DEF SelectForBlock, AtMost
<1> QED
  BY <1>9, <1>11, <1>12, <1>13

LEMMA PayloadCostNatural ==
  ASSUME NEW tx \in Transaction, NEW pricing,
         pricing.name \in PayloadPricings, pricing.rate \in Nat
  PROVE  PayloadCost(tx, pricing) \in Nat
<1>1. tx.data \in Nat /\ tx.packed \in Nat /\ tx.total \in Nat
  BY TransactionAssumption
<1>2. PICK rate \in Nat : rate = pricing.rate
  OBVIOUS
<1>3. PICK data \in Nat, packed \in Nat, total \in Nat :
        data = tx.data /\ packed = tx.packed /\ total = tx.total
  BY <1>1
<1>4. \A m, n \in Nat : m * n \in Nat
  OBVIOUS
<1>5. rate * data \in Nat /\ rate * packed \in Nat /\ rate * total \in Nat
  BY <1>4
<1>6. /\ NoPricing(tx, rate) \in Nat /\ PerByte(tx, rate) \in Nat
      /\ PerCompressedByte(tx, rate) \in Nat /\ FlatPricing(tx, rate) \in Nat
      /\ AbsolutePricing(tx, rate) \in Nat /\ TotalBytes(tx, rate) \in Nat
  BY <1>3, <1>5
     DEF NoPricing, PerByte, PerCompressedByte, FlatPricing, AbsolutePricing, TotalBytes
<1> QED
  BY <1>2, <1>6 DEF PayloadCost, PayloadPricings

Charge == [charged : Nat, burned : Nat, tip : Nat]

(* What a transaction is charged, against what it bid and what it owes. *)
FairCharge(c, tx, ctx) ==
  /\ c.charged \in Nat /\ c.burned \in Nat /\ c.tip \in Nat
  /\ c.charged = c.burned + c.tip
  /\ ctx.policy # "median" =>
       c.charged = tx.fee /\ c.charged >= c.burned + PayloadCost(tx, ctx.pricing)

LEMMA MedianNatural ==
  ASSUME NEW s \in Seq(Transaction)
  PROVE  Median(s) \in Nat
<1>1. PICK n \in Nat : n = Len(s)
  OBVIOUS
<1>2. PICK mid \in Nat, odd \in 0 .. 1 :
        mid = n \div 2 /\ odd = n % 2 /\ n = 2 * mid + odd
  <2>1. n \div 2 \in Nat /\ n % 2 \in 0 .. 1
    OBVIOUS
  <2>2. n % 2 = n - 2 * (n \div 2)
    OBVIOUS
  <2> QED
    BY <2>1, <2>2
<1>3. n # 0 => (n - mid \in 1 .. n /\ (odd = 0 => n - mid + 1 \in 1 .. n))
  BY <1>2
<1>4. ASSUME NEW i \in 1 .. n PROVE s[i].fee \in Nat
  <2>1. s[i] \in Transaction
    BY <1>1, ElementOfSeq
  <2> QED
    BY <2>1, TransactionFields
<1>5. CASE n = 0
  BY <1>1, <1>5 DEF Median
<1>6. CASE n # 0 /\ n % 2 = 1
  <2>1. n - mid \in 1 .. n
    BY <1>3, <1>6
  <2>2. s[n - mid].fee \in Nat
    BY <1>4, <2>1
  <2> QED
    BY <1>1, <1>2, <1>6, <2>2 DEF Median
<1>7. CASE n # 0 /\ n % 2 # 1
  <2>1. n - mid + 1 \in 1 .. n /\ n - mid \in 1 .. n
    BY <1>2, <1>3, <1>7
  <2>2. PICK a \in Nat, b \in Nat : a = s[n - mid + 1].fee /\ b = s[n - mid].fee
    BY <1>4, <2>1
  <2>3. (a + b) \div 2 \in Nat
    OBVIOUS
  <2>4. Median(s) = (a + b) \div 2
    BY <1>1, <1>2, <1>7, <2>2 DEF Median
  <2> QED
    BY <2>3, <2>4
<1> QED
  BY <1>5, <1>6, <1>7

LEMMA ChargesFair ==
  ASSUME NEW s \in Seq(Transaction), NEW ctx, GoodContext(ctx),
         NEW i \in 1 .. Len(s), IsValidFee(s[i], ctx)
  PROVE  /\ FairCharge(Charges(s, ctx)[i], s[i], ctx)
         /\ Charges(s, ctx)[i] \in Charge
<1>1. PICK tx \in Transaction : tx = s[i]
  BY ElementOfSeq
<1>2. PICK fee \in Nat : fee = tx.fee
  BY TransactionFields
<1>3. PICK cost \in Nat : cost = PayloadCost(tx, ctx.pricing)
  BY PayloadCostNatural DEF GoodContext
<1>4. PICK base \in Nat : base = ctx.baseFee
  BY DEF GoodContext
<1>5. fee >= cost + IF ctx.policy = "eip1559" THEN base ELSE 0
  BY <1>1, <1>2, <1>3, <1>4 DEF IsValidFee, MinimumFee
<1>6. PICK c : c = Charges(s, ctx)[i]
  OBVIOUS
<1>7. CASE ctx.policy = "highest_first"
  <2>1. c = [charged |-> fee, burned |-> 0, tip |-> fee]
    BY <1>1, <1>2, <1>6, <1>7 DEF Charges
  <2> QED
    BY <1>1, <1>2, <1>3, <1>5, <1>6, <1>7, <2>1 DEF FairCharge, Charge
<1>8. CASE ctx.policy = "median"
  <2>1. PICK m \in Nat : m = Median(s)
    BY MedianNatural
  <2>2. c = [charged |-> m, burned |-> 0, tip |-> m]
    BY <1>6, <1>8, <2>1 DEF Charges
  <2> QED
    BY <1>6, <1>8, <2>2 DEF FairCharge, Charge
<1>9. CASE ctx.policy = "eip1559"
  <2>1. c = [charged |-> fee, burned |-> base, tip |-> fee - base]
    BY <1>1, <1>2, <1>4, <1>6, <1>9 DEF Charges
  <2> QED
    BY <1>1, <1>2, <1>3, <1>5, <1>6, <1>9, <2>1 DEF FairCharge, Charge
<1> QED
  BY <1>7, <1>8, <1>9 DEF GoodContext

LEMMA NextBaseFeeNatural ==
  ASSUME NEW ctx, GoodContext(ctx), NEW count \in Nat
  PROVE  NextBaseFee(count, ctx) \in Nat
<1>1. PICK base \in Nat, least \in Nat : base = ctx.baseFee /\ least = ctx.minBaseFee
  BY DEF GoodContext
<1>2. PICK target \in Nat \ {0} : target = ctx.target
  BY DEF GoodContext
<1>3. PICK more \in Int, less \in Int :
        more = base * (count - target) /\ less = base * (target - count)
  OBVIOUS
<1>4. PICK m \in Int, l \in Int : m = more \div target /\ l = less \div target
  OBVIOUS
<1>5. PICK up \in Int, down \in Int : up = m \div Denominator /\ down = l \div Denominator
  BY DEF Denominator
<1>6. PICK new \in Int : new = IF count > target THEN base + (IF up > 1 THEN up ELSE 1)
                                                 ELSE base - down
  OBVIOUS
<1>7. NextBaseFee(count, ctx) =
        IF ctx.policy # "eip1559" THEN base ELSE IF new < least THEN least ELSE new
  BY <1>1, <1>2, <1>3, <1>4, <1>5, <1>6 DEF NextBaseFee
<1> QED
  BY <1>7

-----------------------------------------------------------------------------
(* A block that applied: every transaction found the ledger ready for it. *)
BlockSteps(tr, txs, charges, s, miner) ==
  /\ tr \in [0 .. Len(txs) -> LedgerState] /\ tr[0] = s
  /\ \A i \in 1 .. Len(txs) :
       Valid(txs[i], tr[i - 1]) /\ tr[i] = Transfer(txs[i], tr[i - 1], charges[i], miner)

LEMMA AppliedBlock ==
  ASSUME NEW txs \in Seq(Transaction), NEW charges, IntCharges(txs, charges),
         NEW s \in LedgerState, NEW miner \in Account,
         ApplyAll(txs, charges, s, miner).ok
  PROVE  \E tr : /\ BlockSteps(tr, txs, charges, s, miner)
                 /\ ApplyAll(txs, charges, s, miner).state = tr[Len(txs)]
<1>1. PICK N \in Nat : N = Len(txs)
  OBVIOUS
<1>2. PICK a : ApplySteps(a, txs, charges, s, miner)
  BY ApplyTrace
<1>3. /\ a \in [0 .. N -> [ok : BOOLEAN, state : LedgerState]]
      /\ a[0] = [ok |-> TRUE, state |-> s]
      /\ a[N] = ApplyAll(txs, charges, s, miner)
  BY <1>1, <1>2 DEF ApplySteps
<1>4. \A i \in 1 .. N :
        a[i] = IF a[i - 1].ok /\ Valid(txs[i], a[i - 1].state)
               THEN [ok |-> TRUE, state |-> Transfer(txs[i], a[i - 1].state, charges[i], miner)]
               ELSE [ok |-> FALSE, state |-> a[i - 1].state]
  BY <1>1, <1>2 DEF ApplySteps
<1>5. ASSUME NEW i \in 1 .. N
      PROVE  /\ a[i].ok => a[i - 1].ok /\ Valid(txs[i], a[i - 1].state)
             /\ a[i].ok => a[i].state = Transfer(txs[i], a[i - 1].state, charges[i], miner)
  <2>1. CASE a[i - 1].ok /\ Valid(txs[i], a[i - 1].state)
    <3>1. a[i] = [ok |-> TRUE, state |-> Transfer(txs[i], a[i - 1].state, charges[i], miner)]
      BY <1>4, <2>1
    <3> QED
      BY <2>1, <3>1
  <2>2. CASE ~ (a[i - 1].ok /\ Valid(txs[i], a[i - 1].state))
    <3>1. a[i] = [ok |-> FALSE, state |-> a[i - 1].state]
      BY <1>4, <2>2
    <3> QED
      BY <3>1
  <2> QED
    BY <2>1, <2>2
<1>6. PICK P : P = {n \in 0 .. N : a[N - n].ok}
  OBVIOUS
<1>7. 0 \in P
  BY <1>3, <1>6
<1>8. ASSUME NEW n \in 1 .. N, n - 1 \in P PROVE n \in P
  <2>1. PICK i \in 1 .. N : i = N - (n - 1) /\ i - 1 = N - n
    OBVIOUS
  <2>2. a[i].ok
    BY <1>6, <1>8, <2>1
  <2>3. a[i - 1].ok
    BY <1>5, <2>2
  <2> QED
    BY <1>6, <2>1, <2>3
<1>9. \A n \in 0 .. N : n \in P
  BY <1>7, <1>8, EveryPosition
<1>10. ASSUME NEW i \in 0 .. N PROVE a[i].ok
  <2>1. N - i \in 0 .. N /\ N - (N - i) = i
    OBVIOUS
  <2> QED
    BY <1>6, <1>9, <2>1
<1>11. PICK tr : tr = [i \in 0 .. N |-> a[i].state]
  OBVIOUS
<1>12. tr \in [0 .. N -> LedgerState]
  BY <1>3, <1>11
<1>13. tr[0] = s /\ tr[N] = ApplyAll(txs, charges, s, miner).state
  BY <1>3, <1>11
<1>14. ASSUME NEW i \in 1 .. N
       PROVE  Valid(txs[i], tr[i - 1]) /\ tr[i] = Transfer(txs[i], tr[i - 1], charges[i], miner)
  <2>1. a[i].ok
    BY <1>10
  <2>2. Valid(txs[i], a[i - 1].state)
    BY <1>5, <2>1
  <2>3. a[i].state = Transfer(txs[i], a[i - 1].state, charges[i], miner)
    BY <1>5, <2>1
  <2>4. tr[i] = a[i].state /\ tr[i - 1] = a[i - 1].state
    BY <1>11
  <2> QED
    BY <2>2, <2>3, <2>4
<1>15. BlockSteps(tr, txs, charges, s, miner)
  BY <1>1, <1>12, <1>13, <1>14 DEF BlockSteps
<1> QED
  BY <1>1, <1>13, <1>15

(* One step of a block conserves value, takes the sender's next nonce, and *)
(* overdraws nobody when the charge is the bid.                            *)
LEMMA TransferConserves ==
  ASSUME NEW tx \in Transaction, NEW s \in LedgerState, NEW miner \in Account,
         NEW c, c.charged \in Int, c.burned \in Int, c.tip \in Int,
         c.charged = c.burned + c.tip
  PROVE  SumOver(Transfer(tx, s, c, miner).balances, Account)
           + Transfer(tx, s, c, miner).burned
         = SumOver(s.balances, Account) + s.burned
<1>1. /\ tx.sender \in Account /\ tx.recipient \in Account /\ tx.amount \in Nat
      /\ s.balances \in [Account -> Int] /\ s.burned \in Int /\ IsFiniteSet(Account)
  BY TransactionFields, TransactionAssumption DEF LedgerState
<1>2. PICK t : t = Transfer(tx, s, c, miner)
  OBVIOUS
<1>0. TransferEffect(tx, s, c, miner, t)
  BY <1>2, TransferType
<1>3. PICK debited \in [Account -> Int], credited \in [Account -> Int] :
        /\ debited = [s.balances EXCEPT ![tx.sender] = @ - tx.amount - c.charged]
        /\ credited = [debited EXCEPT ![tx.recipient] = @ + tx.amount]
        /\ t.balances = [credited EXCEPT ![miner] = @ + c.tip]
  BY <1>0 DEF TransferEffect
<1>4. t \in LedgerState /\ t.burned = s.burned + c.burned
  BY <1>0 DEF TransferEffect
<1>5. t.balances \in [Account -> Int] /\ t.burned \in Int
  BY <1>4 DEF LedgerState
<1>6. PICK total \in Int : total = SumOver(s.balances, Account)
  BY <1>1, SumType
<1>7. PICK total1 \in Int : total1 = SumOver(debited, Account)
  BY <1>1, SumType
<1>8. PICK total2 \in Int : total2 = SumOver(credited, Account)
  BY <1>1, SumType
<1>9. PICK total3 \in Int : total3 = SumOver(t.balances, Account)
  BY <1>1, <1>5, SumType
<1>10. total1 = total - tx.amount - c.charged
  <2>1. PICK f \in [Account -> Int] : f = s.balances
    BY <1>1
  <2>2. PICK y \in Account : y = tx.sender
    BY <1>1
  <2>3. /\ debited[y] = f[y] - tx.amount - c.charged
        /\ \A x \in Account \ {y} : debited[x] = f[x]
    BY <1>3, <2>1, <2>2
  <2>4. SumOver(debited, Account) = SumOver(f, Account) + debited[y] - f[y]
    BY <1>1, <2>3, SumChange
  <2> QED
    BY <1>1, <1>6, <1>7, <2>1, <2>3, <2>4
<1>11. total2 = total1 + tx.amount
  <2>1. PICK y \in Account : y = tx.recipient
    BY <1>1
  <2>2. /\ credited[y] = debited[y] + tx.amount
        /\ \A x \in Account \ {y} : credited[x] = debited[x]
    BY <1>3, <2>1
  <2>3. SumOver(credited, Account) = SumOver(debited, Account) + credited[y] - debited[y]
    BY <1>1, <2>2, SumChange
  <2> QED
    BY <1>1, <1>7, <1>8, <2>2, <2>3
<1>12. total3 = total2 + c.tip
  <2>1. PICK g \in [Account -> Int] : g = t.balances
    BY <1>5
  <2>2. /\ g[miner] = credited[miner] + c.tip
        /\ \A x \in Account \ {miner} : g[x] = credited[x]
    BY <1>3, <2>1
  <2>3. SumOver(g, Account) = SumOver(credited, Account) + g[miner] - credited[miner]
    BY <1>1, <2>2, SumChange
  <2> QED
    BY <1>8, <1>9, <2>1, <2>2, <2>3
<1>13. total3 + t.burned = total + s.burned
  BY <1>1, <1>4, <1>10, <1>11, <1>12
<1> QED
  BY <1>2, <1>6, <1>9, <1>13

LEMMA TransferCovered ==
  ASSUME NEW tx \in Transaction, NEW s \in LedgerState, NEW miner \in Account,
         NEW c, c.charged \in Nat, c.burned \in Nat, c.tip \in Nat, c.charged = tx.fee,
         Valid(tx, s), \A a \in Account : s.balances[a] >= 0
  PROVE  \A a \in Account : Transfer(tx, s, c, miner).balances[a] >= 0
<1>1. /\ tx.sender \in Account /\ tx.recipient \in Account /\ tx.amount \in Nat
      /\ tx.fee \in Nat /\ s.balances \in [Account -> Int]
  BY TransactionFields DEF LedgerState
<1>2. PICK t : t = Transfer(tx, s, c, miner)
  OBVIOUS
<1>0. TransferEffect(tx, s, c, miner, t)
  BY <1>2, TransferType
<1>3. PICK debited \in [Account -> Int], credited \in [Account -> Int] :
        /\ debited = [s.balances EXCEPT ![tx.sender] = @ - tx.amount - c.charged]
        /\ credited = [debited EXCEPT ![tx.recipient] = @ + tx.amount]
        /\ t.balances = [credited EXCEPT ![miner] = @ + c.tip]
  BY <1>0 DEF TransferEffect
<1>4. s.balances[tx.sender] >= tx.amount + tx.fee
  BY DEF Valid
<1>5. ASSUME NEW a \in Account PROVE debited[a] >= 0
  <2>1. debited[a] = IF a = tx.sender THEN s.balances[a] - tx.amount - c.charged
                                     ELSE s.balances[a]
    BY <1>1, <1>3
  <2>2. s.balances[a] \in Int
    BY <1>1
  <2> QED
    BY <1>1, <1>4, <2>1, <2>2
<1>6. ASSUME NEW a \in Account PROVE credited[a] >= 0
  <2>1. credited[a] = IF a = tx.recipient THEN debited[a] + tx.amount ELSE debited[a]
    BY <1>1, <1>3
  <2> QED
    BY <1>1, <1>5, <2>1
<1>7. ASSUME NEW a \in Account PROVE t.balances[a] >= 0
  <2>1. t.balances[a] = IF a = miner THEN credited[a] + c.tip ELSE credited[a]
    BY <1>3
  <2>2. credited[a] \in Int /\ credited[a] >= 0
    BY <1>3, <1>6
  <2> QED
    BY <2>1, <2>2
<1> QED
  BY <1>2, <1>7

ChainNonces(all, nonces) ==
  \A a \in Account :
    LET sent == Only(all, {tx \in Transaction : tx.sender = a})
    IN /\ \A i \in 1 .. Len(sent) : sent[i].nonce = i - 1
       /\ nonces[a] = Len(sent)

LEMMA TransferNonces ==
  ASSUME NEW tx \in Transaction, NEW s \in LedgerState, Valid(tx, s),
         NEW all \in Seq(Transaction), ChainNonces(all, s.nonces),
         NEW nonces, nonces = [s.nonces EXCEPT ![tx.sender] = @ + 1]
  PROVE  ChainNonces(Append(all, tx), nonces)
<1>1. tx.sender \in Account /\ s.nonces \in [Account -> Nat] /\ tx.nonce = s.nonces[tx.sender]
  BY TransactionFields DEF LedgerState, Valid
<1>2. PICK more : more = Append(all, tx)
  OBVIOUS
<1>3. ASSUME NEW a \in Account
      PROVE  LET sent == Only(more, {t \in Transaction : t.sender = a})
             IN /\ \A i \in 1 .. Len(sent) : sent[i].nonce = i - 1
                /\ nonces[a] = Len(sent)
  <2>1. PICK T : T = {t \in Transaction : t.sender = a}
    OBVIOUS
  <2>2. PICK old \in Seq(Transaction) : old = Only(all, T)
    BY OnlyProperties
  <2>3. PICK new : new = Only(more, T)
    OBVIOUS
  <2>4. new = IF tx \in T THEN Append(old, tx) ELSE old
    BY <1>2, <2>2, <2>3, OnlyAppend
  <2>5. (\A i \in 1 .. Len(old) : old[i].nonce = i - 1) /\ s.nonces[a] = Len(old)
    BY <2>1, <2>2 DEF ChainNonces
  <2>6. CASE tx.sender = a
    <3>1. new = Append(old, tx)
      BY <2>1, <2>4, <2>6
    <3>2. PICK n \in Nat : n = Len(old)
      OBVIOUS
    <3>3. Len(new) = n + 1 /\ new[n + 1] = tx /\ \A i \in 1 .. n : new[i] = old[i]
      BY <3>1, <3>2
    <3>4. tx.nonce = n /\ nonces[a] = n + 1
      BY <1>1, <2>5, <2>6, <3>2
    <3>5. ASSUME NEW i \in 1 .. (n + 1) PROVE new[i].nonce = i - 1
      <4>1. CASE i = n + 1
        BY <3>2, <3>3, <3>4, <4>1
      <4>2. CASE i \in 1 .. n
        BY <2>5, <3>2, <3>3, <4>2
      <4> QED
        BY <3>2, <4>1, <4>2
    <3> QED
      BY <2>1, <2>3, <3>3, <3>4, <3>5
  <2>7. CASE tx.sender # a
    <3>1. new = old
      BY <2>1, <2>4, <2>7
    <3>2. nonces[a] = s.nonces[a]
      BY <1>1, <2>7
    <3> QED
      BY <2>1, <2>3, <2>5, <3>1, <3>2
  <2> QED
    BY <2>6, <2>7
<1> QED
  BY <1>2, <1>3 DEF ChainNonces

LedgerAfter(s, end, all, ctx) ==
  /\ end \in LedgerState
  /\ s.burned >= 0 => end.burned >= 0
  /\ SumOver(end.balances, Account) + end.burned
       = SumOver(s.balances, Account) + s.burned
  /\ ctx.policy # "median" /\ (\A a \in Account : s.balances[a] >= 0)
       => \A a \in Account : end.balances[a] >= 0
  /\ ChainNonces(all, end.nonces)

LEMMA BlockLedger ==
  ASSUME NEW txs \in Seq(Transaction), NEW charges, NEW s \in LedgerState,
         NEW miner \in Account, NEW tr, BlockSteps(tr, txs, charges, s, miner),
         NEW ctx, \A i \in 1 .. Len(txs) : FairCharge(charges[i], txs[i], ctx),
         NEW all \in Seq(Transaction), ChainNonces(all, s.nonces),
         NEW end, end = tr[Len(txs)]
  PROVE  LedgerAfter(s, end, all \o txs, ctx)
<1>1. PICK N \in Nat : N = Len(txs)
  OBVIOUS
<1>2. PICK upto : upto = [i \in 0 .. N |-> all \o SubSeq(txs, 1, i)]
  OBVIOUS
<1>3. upto[0] = all /\ upto[N] = all \o txs
  <2>1. SubSeq(txs, 1, 0) = <<>> /\ SubSeq(txs, 1, N) = txs
    BY <1>1, SubSeqEmpty, SubSeqFull
  <2>2. all \o <<>> = all
    BY ConcatEmptySeq
  <2>3. upto[0] = all \o SubSeq(txs, 1, 0) /\ upto[N] = all \o SubSeq(txs, 1, N)
    BY <1>2
  <2> QED
    BY <2>1, <2>2, <2>3
<1>4. ASSUME NEW i \in 1 .. N
      PROVE  upto[i] = Append(upto[i - 1], txs[i]) /\ upto[i - 1] \in Seq(Transaction)
  <2>1. PICK u \in Seq(Transaction) : u = SubSeq(txs, 1, i - 1) /\ Len(u) = i - 1
    <3>1. \A k \in 1 .. (i - 1) : txs[k] \in Transaction
      BY <1>1, ElementOfSeq
    <3>2. SubSeq(txs, 1, i - 1) \in Seq(Transaction) /\ Len(SubSeq(txs, 1, i - 1)) = i - 1
      BY <3>1, SubSeqProperties
    <3> QED
      BY <3>2
  <2>2. txs[i] \in Transaction
    BY <1>1, ElementOfSeq
  <2>3. SubSeq(txs, 1, i) = u \o <<txs[i]>>
    <3>1. 1 \in 1 .. Len(txs) /\ i \in 1 .. Len(txs)
      BY <1>1
    <3> QED
      BY <2>1, <3>1, SubSeqRecursiveSecond
  <2>4. all \o (u \o <<txs[i]>>) = Append(all \o u, txs[i])
    <3>1. u \o <<txs[i]>> = Append(u, txs[i])
      BY <2>2, AppendIsConcat
    <3>2. all \o Append(u, txs[i]) = Append(all \o u, txs[i])
      BY <2>2, AppendInside
    <3> QED
      BY <3>1, <3>2
  <2>5. all \o u \in Seq(Transaction)
    BY ConcatProperties
  <2>6. upto[i] = all \o SubSeq(txs, 1, i) /\ upto[i - 1] = all \o SubSeq(txs, 1, i - 1)
    <3>1. i \in 0 .. N /\ i - 1 \in 0 .. N
      OBVIOUS
    <3> QED
      BY <1>2, <3>1
  <2> QED
    BY <2>1, <2>3, <2>4, <2>5, <2>6
<1>5. PICK P : P = {i \in 0 .. N :
        /\ tr[i] \in LedgerState
        /\ s.burned >= 0 => tr[i].burned >= 0
        /\ SumOver(tr[i].balances, Account) + tr[i].burned
             = SumOver(s.balances, Account) + s.burned
        /\ ctx.policy # "median" /\ (\A a \in Account : s.balances[a] >= 0)
             => \A a \in Account : tr[i].balances[a] >= 0
        /\ ChainNonces(upto[i], tr[i].nonces)}
  OBVIOUS
<1>6. 0 \in P
  <2>1. tr[0] = s
    BY DEF BlockSteps
  <2> QED
    BY <1>3, <1>5, <2>1
<1>7. ASSUME NEW i \in 1 .. N, i - 1 \in P PROVE i \in P
  <2>1. PICK b \in LedgerState : b = tr[i - 1]
    BY <1>5, <1>7
  <2>2. PICK tx \in Transaction : tx = txs[i]
    BY <1>1, ElementOfSeq
  <2>3. PICK c : c = charges[i]
    OBVIOUS
  <2>4. PICK n : n = tr[i]
    OBVIOUS
  <2>5. Valid(tx, b) /\ n = Transfer(tx, b, c, miner)
    BY <1>1, <2>1, <2>2, <2>3, <2>4 DEF BlockSteps
  <2>6. /\ c.charged \in Nat /\ c.burned \in Nat /\ c.tip \in Nat
        /\ c.charged = c.burned + c.tip
        /\ ctx.policy # "median" => c.charged = tx.fee
    BY <1>1, <2>2, <2>3 DEF FairCharge
  <2>7. c.charged \in Int /\ c.burned \in Int /\ c.tip \in Int
    BY <2>6
  <2>8. TransferEffect(tx, b, c, miner, n)
    BY <2>5, <2>7, TransferType
  <2>9. /\ n \in LedgerState /\ n.burned = b.burned + c.burned
        /\ n.nonces = [b.nonces EXCEPT ![tx.sender] = @ + 1]
    BY <2>8 DEF TransferEffect
  <2>10. b.burned \in Int
    BY DEF LedgerState
  <2>11. s.burned >= 0 => n.burned >= 0
    <3>1. s.burned >= 0 => b.burned >= 0
      BY <1>5, <1>7, <2>1
    <3> QED
      BY <2>6, <2>9, <2>10, <3>1
  <2>12. SumOver(n.balances, Account) + n.burned = SumOver(s.balances, Account) + s.burned
    <3>1. SumOver(n.balances, Account) + n.burned = SumOver(b.balances, Account) + b.burned
      BY <2>5, <2>6, <2>7, TransferConserves
    <3>2. SumOver(b.balances, Account) + b.burned = SumOver(s.balances, Account) + s.burned
      BY <1>5, <1>7, <2>1
    <3> QED
      BY <3>1, <3>2
  <2>13. ctx.policy # "median" /\ (\A a \in Account : s.balances[a] >= 0)
             => \A a \in Account : n.balances[a] >= 0
    <3> SUFFICES ASSUME ctx.policy # "median", \A a \in Account : s.balances[a] >= 0
                 PROVE  \A a \in Account : n.balances[a] >= 0
      OBVIOUS
    <3>1. \A a \in Account : b.balances[a] >= 0
      BY <1>5, <1>7, <2>1
    <3>2. c.charged = tx.fee
      BY <2>6
    <3> QED
      BY <2>5, <2>6, <3>1, <3>2, TransferCovered
  <2>14. ChainNonces(upto[i], n.nonces)
    <3>1. ChainNonces(upto[i - 1], b.nonces)
      BY <1>5, <1>7, <2>1
    <3>2. PICK before \in Seq(Transaction) : before = upto[i - 1]
      BY <1>4
    <3>3. ChainNonces(Append(before, tx), n.nonces)
      BY <2>5, <2>9, <3>1, <3>2, TransferNonces
    <3> QED
      BY <1>4, <2>2, <3>2, <3>3
  <2>15. i \in 0 .. N
    OBVIOUS
  <2> QED
    BY <1>5, <2>4, <2>9, <2>11, <2>12, <2>13, <2>14, <2>15
<1>8. \A i \in 0 .. N : i \in P
  BY <1>6, <1>7, EveryPosition
<1>9. N \in P /\ end = tr[N]
  BY <1>1, <1>8
<1> QED
  BY <1>3, <1>5, <1>9 DEF LedgerAfter

-----------------------------------------------------------------------------
(* reinject() drops a pending transaction only for one that pays more: the *)
(* replacement of a replacement pays more than both.                       *)
PaidFor(p, q) ==
  \A tx \in Entries(p) \ Entries(q) : \E t \in Entries(q) \ Entries(p) : t.fee > tx.fee

LEMMA PaidForAgain ==
  ASSUME NEW p, NEW q, NEW n, NEW x \in Transaction, PaidFor(p, q), AddEffect(q, n, x),
         PoolGood(p), PoolGood(q), PoolGood(n)
  PROVE  PaidFor(p, n)
<1>1. /\ Entries(p) \subseteq Transaction /\ Entries(q) \subseteq Transaction
      /\ Entries(n) \subseteq Transaction
  BY PoolEntries
<1>2. \A t \in Transaction : t.fee \in Nat
  BY TransactionFields
<1>3. CASE Entries(n) = Entries(q)
  BY <1>3 DEF PaidFor
<1>4. CASE /\ x \in Entries(n) \ Entries(q)
           /\ Entries(n) \subseteq Entries(q) \cup {x}
           /\ \A t \in Entries(q) \ Entries(n) : t.fee < x.fee
  <2>1. ASSUME NEW tx \in Entries(p) \ Entries(n), tx.fee < x.fee
        PROVE  \E t \in Entries(n) \ Entries(p) : t.fee > tx.fee
    <3>1. CASE x \notin Entries(p)
      BY <1>1, <1>2, <1>4, <2>1, <3>1
    <3>2. CASE x \in Entries(p)
      <4>1. PICK t \in Entries(q) \ Entries(p) : t.fee > x.fee
        BY <1>4, <3>2 DEF PaidFor
      <4>2. t \in Entries(n)
        BY <1>1, <1>2, <1>4, <4>1
      <4>3. t.fee > tx.fee
        BY <1>1, <1>2, <2>1, <4>1
      <4> QED
        BY <4>1, <4>2, <4>3
    <3> QED
      BY <3>1, <3>2
  <2>2. ASSUME NEW tx \in Entries(p) \ Entries(n)
        PROVE  \E t \in Entries(n) \ Entries(p) : t.fee > tx.fee
    <3>1. CASE tx \in Entries(q)
      BY <1>4, <2>1, <3>1
    <3>2. CASE tx \notin Entries(q)
      <4>1. PICK t \in Entries(q) \ Entries(p) : t.fee > tx.fee
        BY <3>2 DEF PaidFor
      <4>2. CASE t \in Entries(n)
        BY <4>1, <4>2
      <4>3. CASE t \notin Entries(n)
        <5>1. t.fee < x.fee
          BY <1>4, <4>1, <4>3
        <5>2. tx.fee < x.fee
          BY <1>1, <1>2, <4>1, <5>1
        <5> QED
          BY <2>1, <5>2
      <4> QED
        BY <4>2, <4>3
    <3> QED
      BY <3>1, <3>2
  <2> QED
    BY <2>2 DEF PaidFor
<1> QED
  BY <1>3, <1>4 DEF AddEffect

LEMMA AddAllGood ==
  ASSUME NEW p, NEW c, NEW txs \in Seq(Transaction),
         PoolGood(p), PoolWithin(p, c), ValidPolicy(c)
  PROVE  /\ PoolGood(AddAll(p, txs, c)) /\ PoolWithin(AddAll(p, txs, c), c)
         /\ PaidFor(p, AddAll(p, txs, c))
<1>1. PICK N \in Nat : N = Len(txs)
  OBVIOUS
<1>2. PICK tr : /\ AddSteps(tr, p, txs, c)
                /\ \A i \in 0 .. Len(txs) : PoolGood(tr[i]) /\ PoolWithin(tr[i], c)
  BY AddAllTrace
<1>3. PICK P : P = {i \in 0 .. N : PaidFor(p, tr[i])}
  OBVIOUS
<1>4. 0 \in P
  <2>1. tr[0] = p
    BY <1>2 DEF AddSteps
  <2> QED
    BY <1>3, <2>1 DEF PaidFor
<1>5. ASSUME NEW i \in 1 .. N, i - 1 \in P PROVE i \in P
  <2>1. PICK x \in Transaction : x = txs[i]
    BY <1>1, ElementOfSeq
  <2>2. PICK q : q = tr[i - 1]
    OBVIOUS
  <2>3. PICK n : n = tr[i]
    OBVIOUS
  <2>4. i \in 0 .. N /\ i - 1 \in 0 .. N
    OBVIOUS
  <2>5. PoolGood(q) /\ PoolWithin(q, c) /\ PoolGood(n)
    BY <1>1, <1>2, <2>2, <2>3, <2>4
  <2>6. n = Add(q, x, c)
    BY <1>1, <1>2, <2>1, <2>2, <2>3 DEF AddSteps
  <2>7. AddEffect(q, n, x)
    BY <2>5, <2>6, AddGood
  <2>8. PaidFor(p, q)
    BY <1>3, <1>5, <2>2
  <2>9. PaidFor(p, n)
    BY <2>5, <2>7, <2>8, PaidForAgain
  <2> QED
    BY <1>3, <2>3, <2>4, <2>9
<1>6. \A i \in 0 .. N : i \in P
  BY <1>4, <1>5, EveryPosition
<1>7. N \in 0 .. N /\ tr[N] = AddAll(p, txs, c)
  BY <1>1, <1>2 DEF AddSteps
<1>8. PaidFor(p, tr[N])
  BY <1>3, <1>6, <1>7
<1>9. PoolGood(tr[N]) /\ PoolWithin(tr[N], c)
  BY <1>1, <1>2, <1>7
<1> QED
  BY <1>7, <1>8, <1>9

-----------------------------------------------------------------------------
(* The types of the variables, with the consistency of the pool. *)
Block == [txs : Seq(Transaction), charges : Seq(Charge), miner : Miner]

Shape ==
  /\ config \in Config /\ PoolGood(pool) /\ PoolWithin(pool, config)
  /\ state \in LedgerState /\ state.burned >= 0
  /\ baseFee \in Nat /\ blocks \in Seq(Block)

LEMMA ConfigFields ==
  ASSUME NEW c \in Config
  PROVE  /\ ValidPolicy(c) /\ {c.maxSize, c.maxPerSender} \subseteq Nat
         /\ c.policy \in {"highest_first", "median", "eip1559"}
         /\ c.pricing.name \in PayloadPricings /\ c.pricing.rate \in Nat
         /\ c.maxTransactions \in Nat \ {0} /\ c.target \in Nat \ {0}
         /\ c.reward \in Nat /\ c.initialBaseFee \in Nat /\ c.minBaseFee \in Nat
         /\ Genesis \in [Account -> Nat]
<1>1. ValidConfig(c) /\ ValidPolicy(c)
  BY ConfigAssumption
<1>2. {c.maxSize, c.maxPerSender} \subseteq Nat
  BY <1>1 DEF ValidPolicy
<1>3. c.maxTransactions \in Nat \ {0} /\ c.target \in 1 .. c.maxTransactions
  BY <1>1 DEF ValidConfig
<1>4. c.target \in Nat \ {0}
  BY <1>3
<1> QED
  BY <1>1, <1>2, <1>3, <1>4 DEF ValidConfig

LEMMA ContextGood ==
  ASSUME Shape
  PROVE  /\ GoodContext(Context)
         /\ Context.policy = config.policy /\ Context.pricing = config.pricing
<1>1. config \in Config /\ baseFee \in Nat
  BY DEF Shape
<1> QED
  BY <1>1, ConfigFields DEF GoodContext, Context

LEMMA ExpireGood ==
  ASSUME Shape, NEW k \in Overdue(pool)
  PROVE  /\ PoolGood(Expire(pool, k)) /\ PoolWithin(Expire(pool, k), config)
         /\ Entries(Expire(pool, k)) \subseteq Entries(pool)
         /\ ~config.ttl => Entries(Expire(pool, k)) = Entries(pool)
<1>1. config \in Config /\ PoolGood(pool) /\ PoolWithin(pool, config)
  BY DEF Shape
<1>2. PICK T : T = {pool.order[i] : i \in 1 .. k}
  OBVIOUS
<1>3. PICK q : q = Expire(pool, k)
  OBVIOUS
<1>4. PoolGood(q) /\ Entries(q) = Entries(pool) \ T
  BY <1>1, <1>2, <1>3, DiscardAllGood DEF Expire
<1>5. PoolWithin(q, config)
  <2>1. {config.maxSize, config.maxPerSender} \subseteq Nat
    BY <1>1, ConfigFields
  <2>2. Entries(q) \subseteq Entries(pool)
    BY <1>4
  <2> QED
    BY <1>1, <1>4, <2>1, <2>2, FewerEntries
<1>6. ~config.ttl => T = {}
  BY <1>2 DEF Overdue
<1> QED
  BY <1>3, <1>4, <1>5, <1>6

-----------------------------------------------------------------------------
(* What the three operations do to a pool and a chain in shape. *)
LEMMA Submitted ==
  ASSUME Shape, NEW tx \in Transaction, Submit(tx)
  PROVE  /\ UNCHANGED <<config, state, baseFee, blocks>>
         /\ PoolGood(pool') /\ PoolWithin(pool', config)
         /\ ~config.ttl => PaidFor(pool, pool')
<1>1. UNCHANGED <<config, state, baseFee, blocks>>
  BY DEF Submit
<1>2. config \in Config /\ ValidPolicy(config)
  BY ConfigFields DEF Shape
<1>3. PICK k \in Overdue(pool) : pool' = Add(Expire(pool, k), tx, config)
  BY DEF Submit
<1>4. PICK q : q = Expire(pool, k)
  OBVIOUS
<1>5. /\ PoolGood(q) /\ PoolWithin(q, config)
      /\ ~config.ttl => Entries(q) = Entries(pool)
  BY <1>4, ExpireGood
<1>6. PICK n : n = Add(q, tx, config)
  OBVIOUS
<1>7. PoolGood(n) /\ PoolWithin(n, config) /\ AddEffect(q, n, tx)
  BY <1>2, <1>5, <1>6, AddGood
<1>8. PaidFor(q, n)
  <2>1. PaidFor(q, q)
    BY DEF PaidFor
  <2> QED
    BY <1>5, <1>7, <2>1, PaidForAgain
<1>9. ~config.ttl => PaidFor(pool, n)
  BY <1>5, <1>8 DEF PaidFor
<1> QED
  BY <1>1, <1>3, <1>4, <1>6, <1>7, <1>9

LEMMA Reinjected ==
  ASSUME Shape, NEW b \in Block, Reinject(b)
  PROVE  /\ UNCHANGED <<config, state, baseFee, blocks>>
         /\ PoolGood(pool') /\ PoolWithin(pool', config)
         /\ ~config.ttl => PaidFor(pool, pool')
<1>1. UNCHANGED <<config, state, baseFee, blocks>>
  BY DEF Reinject
<1>2. config \in Config /\ ValidPolicy(config)
  BY ConfigFields DEF Shape
<1>3. PICK k \in Overdue(pool) : pool' = AddAll(Expire(pool, k), b.txs, config)
  BY DEF Reinject
<1>4. PICK q : q = Expire(pool, k)
  OBVIOUS
<1>5. /\ PoolGood(q) /\ PoolWithin(q, config)
      /\ ~config.ttl => Entries(q) = Entries(pool)
  BY <1>4, ExpireGood
<1>6. PICK txs \in Seq(Transaction) : txs = b.txs
  BY DEF Block
<1>7. PICK n : n = AddAll(q, txs, config)
  OBVIOUS
<1>8. PoolGood(n) /\ PoolWithin(n, config) /\ PaidFor(q, n)
  BY <1>2, <1>5, <1>7, AddAllGood
<1>9. ~config.ttl => PaidFor(pool, n)
  BY <1>5, <1>8 DEF PaidFor
<1> QED
  BY <1>1, <1>3, <1>4, <1>6, <1>7, <1>8, <1>9

NewBlock(b, tr) ==
  /\ b \in Block /\ blocks' = Append(blocks, b)
  /\ BlockSteps(tr, b.txs, b.charges, state, b.miner)
  /\ state' = CreditCoinbase(tr[Len(b.txs)], b.miner, config.reward)
  /\ \A i \in 1 .. Len(b.txs) : FairCharge(b.charges[i], b.txs[i], Context)

LEMMA Produced ==
  ASSUME Shape, NEW miner \in Miner, ProduceBlock(miner)
  PROVE  /\ config' = config /\ baseFee' \in Nat
         /\ PoolGood(pool') /\ PoolWithin(pool', config)
         /\ \/ /\ UNCHANGED <<state, blocks>>
               /\ ~config.ttl => Entries(pool') = Entries(pool)
            \/ \E b, tr : /\ NewBlock(b, tr)
                          /\ ~config.ttl =>
                               Entries(pool) \ Entries(pool') \subseteq ToSet(b.txs)
<1>1. /\ config \in Config /\ state \in LedgerState /\ baseFee \in Nat
      /\ config' = config /\ miner \in Account
  BY TransactionAssumption DEF Shape, ProduceBlock
<1>2. PICK k \in Overdue(pool) :
       LET kept == Expire(pool, k)
           selected == SelectForBlock(kept.order, Context)
           charges == Charges(selected, Context)
           applied == ApplyAll(selected, charges, state, miner)
       IN \/ /\ ~applied.ok
             /\ pool' = kept
             /\ UNCHANGED <<state, baseFee, blocks>>
          \/ /\ applied.ok
             /\ pool' = DiscardAll(kept, {selected[i] : i \in 1 .. Len(selected)})
             /\ state' = CreditCoinbase(applied.state, miner, config.reward)
             /\ blocks' = Append(blocks, [txs |-> selected, charges |-> charges,
                                          miner |-> miner])
             /\ baseFee' = NextBaseFee(Len(selected), Context)
  BY DEF ProduceBlock
<1>3. PICK kept : kept = Expire(pool, k)
  OBVIOUS
<1>4. PICK ctx : ctx = Context
  OBVIOUS
<1>5. PICK selected : selected = SelectForBlock(kept.order, ctx)
  OBVIOUS
<1>6. PICK charges : charges = Charges(selected, ctx)
  OBVIOUS
<1>7. PICK applied : applied = ApplyAll(selected, charges, state, miner)
  OBVIOUS
<1>8. \/ /\ ~applied.ok
         /\ pool' = kept
         /\ UNCHANGED <<state, baseFee, blocks>>
      \/ /\ applied.ok
         /\ pool' = DiscardAll(kept, {selected[i] : i \in 1 .. Len(selected)})
         /\ state' = CreditCoinbase(applied.state, miner, config.reward)
         /\ blocks' = Append(blocks, [txs |-> selected, charges |-> charges,
                                      miner |-> miner])
         /\ baseFee' = NextBaseFee(Len(selected), ctx)
  BY <1>2, <1>3, <1>4, <1>5, <1>6, <1>7
<1>9. /\ PoolGood(kept) /\ PoolWithin(kept, config)
      /\ Entries(kept) \subseteq Entries(pool)
      /\ ~config.ttl => Entries(kept) = Entries(pool)
  BY <1>3, ExpireGood
<1>10. CASE ~applied.ok
  <2>1. pool' = kept /\ UNCHANGED <<state, baseFee, blocks>>
    BY <1>8, <1>10
  <2> QED
    BY <1>1, <1>9, <2>1
<1>11. CASE applied.ok
  <2>1. /\ pool' = DiscardAll(kept, {selected[i] : i \in 1 .. Len(selected)})
        /\ state' = CreditCoinbase(applied.state, miner, config.reward)
        /\ blocks' = Append(blocks, [txs |-> selected, charges |-> charges,
                                     miner |-> miner])
        /\ baseFee' = NextBaseFee(Len(selected), ctx)
    BY <1>8, <1>11
  <2>2. GoodContext(ctx)
    BY <1>4, ContextGood
  <2>3. kept.order \in Seq(Transaction)
    BY <1>9, PoolEntries
  <2>4. /\ selected \in Seq(Transaction)
        /\ \A i \in 1 .. Len(selected) : IsValidFee(selected[i], ctx)
    BY <1>5, <2>2, <2>3, SelectForBlockMembers
  <2>5. PICK N \in Nat : N = Len(selected)
    BY <2>4
  <2>6. \A i \in 1 .. N : FairCharge(charges[i], selected[i], ctx) /\ charges[i] \in Charge
    BY <1>6, <2>2, <2>4, <2>5, ChargesFair
  <2>7. charges \in Seq(Charge)
    <3>1. charges = [i \in 1 .. Len(selected) |->
             CASE ctx.policy = "highest_first" ->
                    [charged |-> selected[i].fee, burned |-> 0, tip |-> selected[i].fee]
               [] ctx.policy = "median" ->
                    [charged |-> Median(selected), burned |-> 0, tip |-> Median(selected)]
               [] ctx.policy = "eip1559" ->
                    [charged |-> selected[i].fee, burned |-> ctx.baseFee,
                     tip |-> selected[i].fee - ctx.baseFee]]
      BY <1>6 DEF Charges
    <3>2. charges \in [1 .. N -> Charge]
      BY <2>5, <2>6, <3>1
    <3> QED
      BY <3>2
  <2>8. PICK b : b = [txs |-> selected, charges |-> charges, miner |-> miner]
    OBVIOUS
  <2>9. b \in Block /\ b.txs = selected /\ b.charges = charges /\ b.miner = miner
    BY <2>4, <2>7, <2>8 DEF Block
  <2>10. PICK tr : /\ BlockSteps(tr, selected, charges, state, miner)
                   /\ applied.state = tr[N]
    <3>1. IntCharges(selected, charges)
      BY <2>5, <2>6 DEF IntCharges, FairCharge
    <3>2. \E tr : /\ BlockSteps(tr, selected, charges, state, miner)
                  /\ ApplyAll(selected, charges, state, miner).state = tr[Len(selected)]
      BY <1>1, <1>7, <1>11, <2>4, <3>1, AppliedBlock
    <3> QED
      BY <1>7, <2>5, <3>2
  <2>11. NewBlock(b, tr)
    BY <1>4, <2>1, <2>5, <2>6, <2>8, <2>9, <2>10 DEF NewBlock
  <2>12. PICK T : T = {selected[i] : i \in 1 .. N}
    OBVIOUS
  <2>13. PoolGood(pool') /\ Entries(pool') = Entries(kept) \ T
    BY <1>9, <2>1, <2>5, <2>12, DiscardAllGood
  <2>14. T = ToSet(b.txs)
    <3>1. DOMAIN selected = 1 .. N
      BY <2>4, <2>5
    <3> QED
      BY <2>9, <2>12, <3>1 DEF ToSet
  <2>15. PoolWithin(pool', config)
    <3>1. {config.maxSize, config.maxPerSender} \subseteq Nat
      BY <1>1, ConfigFields
    <3>2. Entries(pool') \subseteq Entries(kept)
      BY <2>13
    <3> QED
      BY <1>9, <2>13, <3>1, <3>2, FewerEntries
  <2>16. baseFee' \in Nat
    BY <2>1, <2>2, <2>5, NextBaseFeeNatural
  <2>17. ~config.ttl => Entries(pool) \ Entries(pool') \subseteq ToSet(b.txs)
    BY <1>9, <2>13, <2>14
  <2> QED
    BY <1>1, <2>11, <2>13, <2>15, <2>16, <2>17
<1> QED
  BY <1>10, <1>11

-----------------------------------------------------------------------------
(* The inductive invariant: the shape, and what each property says of it.  *)
Inv == /\ Shape
       /\ ChargesSound /\ ValueConserved /\ NoOverdraftAtBid
       /\ ChainNonces(AllTxs(blocks), state.nonces)

LEMMA CoinbaseEffect ==
  ASSUME NEW s \in LedgerState, NEW miner \in Account, NEW reward \in Nat
  PROVE  /\ CreditCoinbase(s, miner, reward) \in LedgerState
         /\ CreditCoinbase(s, miner, reward).burned = s.burned
         /\ CreditCoinbase(s, miner, reward).nonces = s.nonces
         /\ CreditCoinbase(s, miner, reward).balances =
              [s.balances EXCEPT ![miner] = @ + reward]
<1>1. PICK bal : bal = [s.balances EXCEPT ![miner] = @ + reward]
  OBVIOUS
<1>2. /\ s = [balances |-> s.balances, nonces |-> s.nonces, burned |-> s.burned]
      /\ s.balances \in [Account -> Int]
      /\ s.nonces \in [Account -> Nat] /\ s.burned \in Int
  BY DEF LedgerState
<1>3. bal \in [Account -> Int]
  BY <1>1, <1>2
<1>4. CreditCoinbase(s, miner, reward) = [s EXCEPT !.balances = bal]
  BY <1>1 DEF CreditCoinbase
<1>5. [s EXCEPT !.balances = bal] = [balances |-> bal, nonces |-> s.nonces, burned |-> s.burned]
  BY <1>2
<1>6. [balances |-> bal, nonces |-> s.nonces, burned |-> s.burned] \in LedgerState
  BY <1>2, <1>3 DEF LedgerState
<1> QED
  BY <1>1, <1>4, <1>5, <1>6

LEMMA CoinbaseConserves ==
  ASSUME NEW f \in [Account -> Int], NEW miner \in Account, NEW reward \in Nat
  PROVE  SumOver([f EXCEPT ![miner] = @ + reward], Account) = SumOver(f, Account) + reward
<1>1. PICK g \in [Account -> Int] : g = [f EXCEPT ![miner] = @ + reward]
  <2>1. [f EXCEPT ![miner] = @ + reward] \in [Account -> Int]
    <3>1. f[miner] + reward \in Int
      OBVIOUS
    <3> QED
      BY <3>1
  <2> QED
    BY <2>1
<1>2. g[miner] = f[miner] + reward
  BY <1>1
<1>3. \A x \in Account \ {miner} : g[x] = f[x]
  BY <1>1
<1>4. IsFiniteSet(Account)
  BY TransactionAssumption
<1>5. SumOver(g, Account) = SumOver(f, Account) + g[miner] - f[miner]
  BY <1>3, <1>4, SumChange
<1>6. PICK total \in Int, old \in Int, new \in Int :
        total = SumOver(f, Account) /\ old = f[miner] /\ new = g[miner]
  BY <1>4, SumType
<1> QED
  BY <1>1, <1>2, <1>5, <1>6

LEMMA InitInv == Init => Inv
<1> SUFFICES ASSUME Init PROVE Inv
  OBVIOUS
<1>1. /\ config \in Config /\ baseFee = config.initialBaseFee /\ blocks = <<>>
      /\ pool = [order |-> <<>>, slots |-> [s \in Account \X Nonce |-> NoTx]]
      /\ state = [balances |-> Genesis, nonces |-> [a \in Account |-> 0], burned |-> 0]
  BY DEF Init
<1>2. /\ config.initialBaseFee \in Nat /\ config.reward \in Nat
      /\ config.maxSize \in Nat /\ config.maxPerSender \in Nat
      /\ Genesis \in [Account -> Nat]
  BY <1>1, ConfigFields
<1>3. Entries(pool) = {} /\ pool.order = <<>>
  BY <1>1, MembersEmpty DEF Entries
<1>4. PoolGood(pool)
  <2>1. pool \in PoolShape
    <3>1. <<>> \in Seq(Transaction)
      OBVIOUS
    <3>2. [s \in Account \X Nonce |-> NoTx] \in [Account \X Nonce -> Transaction \cup {NoTx}]
      OBVIOUS
    <3> QED
      BY <1>1, <3>1, <3>2 DEF PoolShape
  <2>2. \A s \in Account \X Nonce : pool.slots[s] = NoTx
    BY <1>1
  <2>3. IsInjective(pool.order)
    BY <1>3, MembersEmpty
  <2> QED
    BY <1>3, <2>1, <2>2, <2>3 DEF PoolGood
<1>5. PoolWithin(pool, config)
  <2>1. Len(pool.order) = 0
    BY <1>3
  <2>2. ASSUME NEW a \in Account PROVE SenderCount(pool, a) = 0
    <3>1. {tx \in Entries(pool) : tx.sender = a} = {}
      BY <1>3
    <3> QED
      BY <3>1, FS_EmptySet DEF SenderCount
  <2> QED
    BY <1>2, <2>1, <2>2 DEF PoolWithin
<1>6. state \in LedgerState /\ state.burned = 0
  <2>1. Genesis \in [Account -> Int] /\ [a \in Account |-> 0] \in [Account -> Nat]
    BY <1>2
  <2> QED
    BY <1>1, <2>1 DEF LedgerState
<1>7. blocks \in Seq(Block)
  BY <1>1
<1>8. Shape
  BY <1>1, <1>2, <1>4, <1>5, <1>6, <1>7 DEF Shape
<1>9. ChargesSound
  BY <1>1, MembersEmpty DEF ChargesSound
<1>10. ValueConserved
  <2>1. PICK total \in Int : total = SumOver(Genesis, Account)
    BY <1>2, TransactionAssumption, SumType
  <2>2. PICK r \in Nat : r = config.reward
    BY <1>2
  <2>3. state.balances = Genesis /\ state.burned = 0 /\ Len(blocks) = 0
    BY <1>1
  <2>4. total + 0 = total + r * 0
    OBVIOUS
  <2> QED
    BY <2>1, <2>2, <2>3, <2>4 DEF ValueConserved
<1>11. NoOverdraftAtBid
  BY <1>1, <1>2 DEF NoOverdraftAtBid
<1>12. ChainNonces(AllTxs(blocks), state.nonces)
  <2>1. AllTxs(blocks) = <<>> /\ state.nonces = [a \in Account |-> 0]
    BY <1>1, ChainEmpty
  <2>2. ASSUME NEW a \in Account
        PROVE  LET sent == Only(<<>>, {tx \in Transaction : tx.sender = a})
               IN /\ \A i \in 1 .. Len(sent) : sent[i].nonce = i - 1
                  /\ state.nonces[a] = Len(sent)
    <3>1. Only(<<>>, {tx \in Transaction : tx.sender = a}) = <<>>
      BY OnlyEmpty
    <3>2. PICK sent : sent = Only(<<>>, {tx \in Transaction : tx.sender = a})
      OBVIOUS
    <3>3. Len(sent) = 0 /\ state.nonces[a] = 0
      BY <2>1, <3>1, <3>2
    <3>4. 1 .. Len(sent) = {}
      BY <3>3
    <3> QED
      BY <3>2, <3>3, <3>4
  <2> QED
    BY <2>1, <2>2 DEF ChainNonces
<1> QED
  BY <1>8, <1>9, <1>10, <1>11, <1>12 DEF Inv

(* A new block, on a chain and a ledger that satisfy the invariant. *)
LEMMA NewBlockInv ==
  ASSUME Inv, NEW b, NEW tr, NewBlock(b, tr), config' = config, baseFee' \in Nat,
         PoolGood(pool'), PoolWithin(pool', config)
  PROVE  Inv'
<1>1. /\ config \in Config /\ state \in LedgerState /\ state.burned >= 0
      /\ blocks \in Seq(Block) /\ ChargesSound /\ ValueConserved /\ NoOverdraftAtBid
      /\ ChainNonces(AllTxs(blocks), state.nonces)
  BY DEF Inv, Shape
<1>2. PICK txs \in Seq(Transaction), charges \in Seq(Charge), miner \in Account :
        txs = b.txs /\ charges = b.charges /\ miner = b.miner
  <2>1. b \in Block
    BY DEF NewBlock
  <2> QED
    BY <2>1, TransactionAssumption DEF Block
<1>3. PICK ctx : ctx = Context
  OBVIOUS
<1>4. ctx.policy = config.policy /\ ctx.pricing = config.pricing
  BY <1>3 DEF Context
<1>5. \A i \in 1 .. Len(txs) : FairCharge(charges[i], txs[i], ctx)
  BY <1>2, <1>3 DEF NewBlock
<1>6. BlockSteps(tr, txs, charges, state, miner)
  BY <1>2 DEF NewBlock
<1>7. PICK all \in Seq(Transaction) : /\ all = AllTxs(blocks)
                                      /\ AllTxs(blocks') = all \o txs
  <2>1. \A x \in Block : x.txs \in Seq(Transaction)
    BY DEF Block
  <2>2. b \in Block /\ blocks' = Append(blocks, b)
    BY DEF NewBlock
  <2> QED
    BY <1>1, <1>2, <2>1, <2>2, ChainAppend
<1>8. PICK end : end = tr[Len(txs)]
  OBVIOUS
<1>9. ChainNonces(all, state.nonces)
  BY <1>1, <1>7
<1>10. /\ end \in LedgerState
       /\ state.burned >= 0 => end.burned >= 0
       /\ SumOver(end.balances, Account) + end.burned
            = SumOver(state.balances, Account) + state.burned
       /\ ctx.policy # "median" /\ (\A a \in Account : state.balances[a] >= 0)
              => \A a \in Account : end.balances[a] >= 0
       /\ ChainNonces(all \o txs, end.nonces)
  <2>1. PICK s \in LedgerState : s = state
    BY <1>1
  <2>2. BlockSteps(tr, txs, charges, s, miner) /\ ChainNonces(all, s.nonces)
    BY <1>6, <1>9, <2>1
  <2>3. LedgerAfter(s, end, all \o txs, ctx)
    BY <1>5, <1>8, <2>2, BlockLedger
  <2> QED
    BY <2>1, <2>3 DEF LedgerAfter
<1>11. PICK reward \in Nat : reward = config.reward
  BY <1>1, ConfigFields
<1>12. state' = CreditCoinbase(end, miner, reward)
  BY <1>2, <1>8, <1>11 DEF NewBlock
<1>13. /\ state' \in LedgerState /\ state'.burned = end.burned /\ state'.nonces = end.nonces
       /\ state'.balances = [end.balances EXCEPT ![miner] = @ + reward]
  BY <1>10, <1>12, CoinbaseEffect
<1>14. blocks' \in Seq(Block) /\ Len(blocks') = Len(blocks) + 1
       /\ ToSet(blocks') = ToSet(blocks) \cup {b}
  <2>1. b \in Block /\ blocks' = Append(blocks, b)
    BY DEF NewBlock
  <2> QED
    BY <1>1, <2>1, AppendProperties, MembersAppend
<1>15. Shape'
  <2>1. state'.burned >= 0
    BY <1>1, <1>10, <1>13
  <2>2. config' \in Config /\ PoolWithin(pool', config')
    BY <1>1
  <2> QED
    BY <1>13, <1>14, <2>1, <2>2 DEF Shape
<1>16. ChargesSound'
  <2>1. ASSUME NEW x \in ToSet(blocks'), NEW i \in DOMAIN x.txs
        PROVE  /\ x.charges[i].burned >= 0 /\ x.charges[i].tip >= 0
               /\ x.charges[i].charged = x.charges[i].burned + x.charges[i].tip
               /\ config.policy # "median" =>
                    x.charges[i].charged
                      >= x.charges[i].burned + PayloadCost(x.txs[i], config.pricing)
    <3>1. CASE x \in ToSet(blocks)
      BY <1>1, <2>1, <3>1 DEF ChargesSound
    <3>2. CASE x = b
      <4>1. i \in 1 .. Len(txs) /\ x.txs = txs /\ x.charges = charges
        BY <1>2, <2>1, <3>2
      <4>2. FairCharge(charges[i], txs[i], ctx)
        BY <1>5, <4>1
      <4>3. /\ charges[i].burned >= 0 /\ charges[i].tip >= 0
            /\ charges[i].charged = charges[i].burned + charges[i].tip
            /\ ctx.policy # "median" =>
                 charges[i].charged >= charges[i].burned + PayloadCost(txs[i], ctx.pricing)
        BY <4>2 DEF FairCharge
      <4> QED
        BY <1>4, <4>1, <4>3
    <3> QED
      BY <1>14, <3>1, <3>2
  <2> QED
    BY <2>1 DEF ChargesSound
<1>17. ValueConserved'
  <2>1. IsFiniteSet(Account)
    BY TransactionAssumption
  <2>2. PICK f \in [Account -> Int] : f = end.balances
    BY <1>10 DEF LedgerState
  <2>3. PICK g \in [Account -> Int] : g = state'.balances
    BY <1>13 DEF LedgerState
  <2>4. g = [f EXCEPT ![miner] = @ + reward]
    BY <1>13, <2>2, <2>3
  <2>5. SumOver(g, Account) = SumOver(f, Account) + reward
    BY <2>4, CoinbaseConserves
  <2>6. PICK before \in Int : before = SumOver(f, Account)
    BY <2>1, SumType
  <2>7. SumOver(g, Account) = before + reward
    BY <2>5, <2>6
  <2>8. PICK burned \in Int : burned = end.burned
    BY <1>10 DEF LedgerState
  <2>9. PICK n \in Nat : n = Len(blocks)
    BY <1>1
  <2>10. PICK start \in Int : start = SumOver(Genesis, Account)
    <3>1. \A a \in Account : Genesis[a] \in Int
      BY <1>1, ConfigFields
    <3> QED
      BY <2>1, <3>1, SumType
  <2>11. before + burned = start + reward * n
    BY <1>1, <1>10, <1>11, <2>2, <2>6, <2>8, <2>9, <2>10 DEF ValueConserved
  <2>12. before + reward + burned = start + reward * (n + 1)
    BY <2>11
  <2> QED
    BY <1>11, <1>13, <1>14, <2>3, <2>7, <2>8, <2>9, <2>10, <2>12 DEF ValueConserved
<1>18. NoOverdraftAtBid'
  <2> SUFFICES ASSUME config.policy # "median", NEW a \in Account
               PROVE  state'.balances[a] >= 0
    BY DEF NoOverdraftAtBid
  <2>1. \A x \in Account : state.balances[x] >= 0
    BY <1>1 DEF NoOverdraftAtBid
  <2>2. end.balances[a] >= 0
    BY <1>4, <1>10, <2>1
  <2>3. end.balances \in [Account -> Int]
    BY <1>10 DEF LedgerState
  <2>4. state'.balances[a] = IF a = miner THEN end.balances[a] + reward ELSE end.balances[a]
    BY <1>13, <2>3
  <2>5. end.balances[a] \in Int
    BY <2>3
  <2> QED
    BY <2>2, <2>4, <2>5
<1>19. ChainNonces(AllTxs(blocks'), state'.nonces)
  BY <1>7, <1>10, <1>13
<1> QED
  BY <1>15, <1>16, <1>17, <1>18, <1>19 DEF Inv

(* A step that leaves chain and ledger alone. *)
LEMMA SameLedgerInv ==
  ASSUME Inv, UNCHANGED <<config, state, blocks>>, baseFee' \in Nat,
         PoolGood(pool'), PoolWithin(pool', config)
  PROVE  Inv'
<1>1. Shape'
  BY DEF Inv, Shape
<1>2. ChargesSound'
  BY DEF Inv, ChargesSound
<1>3. ValueConserved' /\ NoOverdraftAtBid'
  BY DEF Inv, ValueConserved, NoOverdraftAtBid
<1>4. ChainNonces(AllTxs(blocks'), state'.nonces)
  BY DEF Inv
<1> QED
  BY <1>1, <1>2, <1>3, <1>4 DEF Inv

LEMMA NextInv == Inv /\ [Next]_vars => Inv'
<1> SUFFICES ASSUME Inv, [Next]_vars PROVE Inv'
  OBVIOUS
<1>1. Shape /\ baseFee \in Nat /\ blocks \in Seq(Block)
  BY DEF Inv, Shape
<1>2. ASSUME NEW tx \in Transaction, Submit(tx) PROVE Inv'
  <2>1. /\ UNCHANGED <<config, state, baseFee, blocks>>
        /\ PoolGood(pool') /\ PoolWithin(pool', config)
    BY <1>1, <1>2, Submitted
  <2> QED
    BY <1>1, <2>1, SameLedgerInv
<1>3. ASSUME NEW i \in 1 .. Len(blocks), Reinject(blocks[i]) PROVE Inv'
  <2>1. blocks[i] \in Block
    BY <1>1, ElementOfSeq
  <2>2. /\ UNCHANGED <<config, state, baseFee, blocks>>
        /\ PoolGood(pool') /\ PoolWithin(pool', config)
    BY <1>1, <1>3, <2>1, Reinjected
  <2> QED
    BY <1>1, <2>2, SameLedgerInv
<1>4. ASSUME NEW miner \in Miner, ProduceBlock(miner) PROVE Inv'
  <2>1. /\ config' = config /\ baseFee' \in Nat
        /\ PoolGood(pool') /\ PoolWithin(pool', config)
        /\ UNCHANGED <<state, blocks>> \/ \E b, tr : NewBlock(b, tr)
    BY <1>1, <1>4, Produced
  <2>2. CASE UNCHANGED <<state, blocks>>
    BY <2>1, <2>2, SameLedgerInv
  <2>3. CASE \E b, tr : NewBlock(b, tr)
    <3>1. PICK b, tr : NewBlock(b, tr)
      BY <2>3
    <3> QED
      BY <2>1, <3>1, NewBlockInv
  <2> QED
    BY <2>1, <2>2, <2>3
<1>5. CASE UNCHANGED vars
  <2>1. /\ UNCHANGED <<config, state, blocks>> /\ baseFee' = baseFee /\ pool' = pool
    BY <1>5 DEF vars
  <2>2. PoolGood(pool') /\ PoolWithin(pool', config)
    BY <1>1, <2>1 DEF Shape
  <2> QED
    BY <1>1, <2>1, <2>2, SameLedgerInv
<1> QED
  BY <1>2, <1>3, <1>4, <1>5 DEF Next

LEMMA InvTypes ==
  ASSUME Inv
  PROVE  TypeOK
<1>1. /\ config \in Config /\ PoolGood(pool) /\ state \in LedgerState
      /\ state.burned >= 0 /\ baseFee \in Nat /\ blocks \in Seq(Block)
  BY DEF Inv, Shape
<1>2. /\ Entries(pool) \subseteq Transaction
      /\ Cardinality(Entries(pool)) = Len(pool.order)
  BY <1>1, PoolEntries
<1>3. pool.slots \in [Account \X Nonce -> Transaction \cup {NoTx}]
  BY <1>1 DEF PoolGood, PoolShape
<1>4. /\ state.balances \in [Account -> Int] /\ state.nonces \in [Account -> Nat]
      /\ state.burned \in Nat
  BY <1>1 DEF LedgerState
<1>5. ASSUME NEW i \in 1 .. Len(blocks)
      PROVE  ToSet(blocks[i].txs) \subseteq Transaction /\ blocks[i].miner \in Miner
  <2>1. blocks[i] \in Block
    BY <1>1, ElementOfSeq
  <2>2. PICK txs \in Seq(Transaction) : txs = blocks[i].txs
    BY <2>1 DEF Block
  <2>3. ToSet(txs) \subseteq Transaction
    BY ElementOfSeq DEF ToSet
  <2> QED
    BY <2>1, <2>2, <2>3 DEF Block
<1> QED
  BY <1>1, <1>2, <1>3, <1>4, <1>5 DEF TypeOK

LEMMA InvPool ==
  ASSUME Inv
  PROVE  PoolConsistent
<1>1. PoolGood(pool) /\ PoolWithin(pool, config)
  BY DEF Inv, Shape
<1>2. DOMAIN pool.slots = Account \X Nonce
  BY <1>1 DEF PoolGood, PoolShape
<1>3. \A tx \in Entries(pool) : pool.slots[Slot(tx)] = tx /\ tx # NoTx
  BY <1>1, PoolEntries, TransactionFields DEF PoolGood
<1>4. ASSUME NEW s \in Account \X Nonce
      PROVE  pool.slots[s] = NoTx <=> \A tx \in Entries(pool) : Slot(tx) # s
  BY <1>1, <1>3 DEF PoolGood
<1> QED
  BY <1>1, <1>2, <1>3, <1>4 DEF PoolConsistent, PoolWithin

LEMMA StepLostForMore ==
  ASSUME Inv, [Next]_vars
  PROVE  [~config.ttl => \A tx \in Entries(pool) \ Entries(pool') :
            \/ \E i \in Len(blocks) + 1 .. Len(blocks') : tx \in ToSet(blocks'[i].txs)
            \/ \E t \in Entries(pool') \ Entries(pool) : t.fee > tx.fee]_vars
<1> SUFFICES ASSUME Next, ~config.ttl, NEW tx \in Entries(pool) \ Entries(pool')
             PROVE  \/ \E i \in Len(blocks) + 1 .. Len(blocks') : tx \in ToSet(blocks'[i].txs)
                    \/ \E t \in Entries(pool') \ Entries(pool) : t.fee > tx.fee
  BY DEF vars
<1>1. Shape /\ blocks \in Seq(Block)
  BY DEF Inv, Shape
<1>2. ASSUME NEW x \in Transaction, Submit(x)
      PROVE  \E t \in Entries(pool') \ Entries(pool) : t.fee > tx.fee
  BY <1>1, <1>2, Submitted DEF PaidFor
<1>3. ASSUME NEW i \in 1 .. Len(blocks), Reinject(blocks[i])
      PROVE  \E t \in Entries(pool') \ Entries(pool) : t.fee > tx.fee
  <2>1. blocks[i] \in Block
    BY <1>1, ElementOfSeq
  <2>2. PaidFor(pool, pool')
    BY <1>1, <1>3, <2>1, Reinjected
  <2> QED
    BY <2>2 DEF PaidFor
<1>4. ASSUME NEW miner \in Miner, ProduceBlock(miner)
      PROVE  \E i \in Len(blocks) + 1 .. Len(blocks') : tx \in ToSet(blocks'[i].txs)
  <2>1. PICK b, tr : NewBlock(b, tr) /\ tx \in ToSet(b.txs)
    BY <1>1, <1>4, Produced
  <2>2. b \in Block /\ blocks' = Append(blocks, b)
    BY <2>1 DEF NewBlock
  <2>3. Len(blocks') = Len(blocks) + 1 /\ blocks'[Len(blocks) + 1] = b
    BY <1>1, <2>2
  <2>4. Len(blocks) + 1 \in Len(blocks) + 1 .. Len(blocks')
    BY <1>1, <2>3
  <2> QED
    BY <2>1, <2>3, <2>4
<1> QED
  BY <1>2, <1>3, <1>4 DEF Next

-----------------------------------------------------------------------------
(* The invariant holds, whatever the accounts, transactions, assemblies,   *)
(* allocations and number of blocks.                                       *)
THEOREM LedgerInvariant == Spec => []Inv
<1>1. Init => Inv
  BY InitInv
<1>2. Inv /\ [Next]_vars => Inv'
  BY NextInv
<1> QED
  BY <1>1, <1>2, PTL DEF Spec

(* Every variable of the node keeps its type and the pool holds no         *)
(* transaction twice (config.py Blockchain, mempool/policy.py).            *)
THEOREM BlockProductionTypes == Spec => []TypeOK
<1>1. Inv => TypeOK
  BY InvTypes
<1> QED
  BY <1>1, LedgerInvariant, PTL

(* The entries and the slot index of the pool never disagree, and no limit *)
(* of the policy is passed (mempool/policy.py add, _discard, reinject).    *)
THEOREM PoolConsistentHolds == Spec => []PoolConsistent
<1>1. Inv => PoolConsistent
  BY InvPool
<1> QED
  BY <1>1, LedgerInvariant, PTL

(* What a transaction in a block is charged is what is burned and tipped,  *)
(* no part of it negative, and it covers the data where the price is the   *)
(* bid (fees/base.py select_for_block, effective_charge).                  *)
THEOREM ChargesSoundHolds == Spec => []ChargesSound
<1>1. Inv => ChargesSound
  BY DEF Inv
<1> QED
  BY <1>1, LedgerInvariant, PTL

(* Blocks neither create nor lose value but for the reward and the burn,   *)
(* also where sender, recipient and miner are one (ledger/balance.py       *)
(* apply_tx).                                                              *)
THEOREM ValueConservedHolds == Spec => []ValueConserved
<1>1. Inv => ValueConserved
  BY DEF Inv
<1> QED
  BY <1>1, LedgerInvariant, PTL

(* Where the charge is the bid, no block overdraws an account, although    *)
(* validate() is asked before the charge is known (ledger/base.py          *)
(* apply_block).                                                           *)
THEOREM NoOverdraftAtBidHolds == Spec => []NoOverdraftAtBid
<1>1. Inv => NoOverdraftAtBid
  BY DEF Inv
<1> QED
  BY <1>1, LedgerInvariant, PTL

(* On the chain the transactions of each sender have the nonces 0, 1, 2    *)
(* and so on, and the ledger expects the next one (ledger/balance.py       *)
(* validate, apply_tx).                                                    *)
THEOREM NonceOrderHolds == Spec => []NonceOrder
<1>1. Inv => NonceOrder
  BY DEF Inv, NonceOrder, ChainNonces
<1> QED
  BY <1>1, LedgerInvariant, PTL

(* A pending transaction that cannot expire leaves the pool only into a    *)
(* block or for one that pays more (mempool/policy.py add, reinject).      *)
THEOREM LostForMoreHolds == Spec => LostForMore
<1>1. Inv /\ [Next]_vars =>
        [~config.ttl => \A tx \in Entries(pool) \ Entries(pool') :
            \/ \E i \in Len(blocks) + 1 .. Len(blocks') : tx \in ToSet(blocks'[i].txs)
            \/ \E t \in Entries(pool') \ Entries(pool) : t.fee > tx.fee]_vars
  BY StepLostForMore
<1> QED
  BY <1>1, LedgerInvariant, PTL DEF Spec, LostForMore
=============================================================================
