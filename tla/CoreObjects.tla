---------------------------- MODULE CoreObjects ----------------------------
(***************************************************************************)
(* core_objects.py: one object of a node, of any class that keeps a view   *)
(* (a dictionary) beside the records of CoreSharedObject.  Records go to   *)
(* the object's own store until the node is attached, to node.db after     *)
(* that; in front of both is a cache of the records used last.  None is    *)
(* what dict.get returns for a key that is absent; amounts start at 0.     *)
(***************************************************************************)
EXTENDS Collections

CONSTANTS CoreKey, CoreAmount,
          Digest,           \* key of a record that no view has
          CacheSize,        \* memory_cache_size
          MaxBalance        \* bound: what an account holds

VARIABLES core,             \* the object
          coreKept          \* keys written or deleted since the attachment

coreVars == <<core, coreKept>>

ASSUME CoreAssumption ==
  /\ CacheSize \in Nat \ {0} /\ MaxBalance \in Nat /\ CoreAmount \subseteq 1 .. MaxBalance
  /\ Digest \notin CoreKey

CoreClass == {"CacheObject", "Mempool", "DocumentCache", "UTXOLedger", "BalanceLedger"}
None == -1
CoreValue == {None} \cup 0 .. MaxBalance
CoreRecords == [CoreKey -> CoreValue]
CacheEntry == [key : CoreKey \cup {Digest}, value : CoreValue \ {None}]

CoreTypeOK ==
  /\ core \in [class : CoreClass, view : CoreRecords, own : CoreRecords,
               db : CoreRecords, attached : BOOLEAN,
               cache : Seq(CacheEntry)]
  /\ Len(core.cache) <= CacheSize
  /\ coreKept \subseteq CoreKey

CoreInit ==
  LET empty == [k \in CoreKey |-> None]
  IN /\ \E class \in CoreClass :
          core = [class |-> class, view |-> empty, own |-> empty, db |-> empty,
                  attached |-> FALSE, cache |-> <<>>]
     /\ coreKept = {}
-----------------------------------------------------------------------------
(* _cache_set, and _cache_get of an entry that is there: it becomes the    *)
(* newest, and the oldest goes when there are too many.                    *)
Uncached(s, k) == Only(s, {e \in ToSet(s) : e.key # k})
Cached(s, k) == \E i \in DOMAIN s : s[i].key = k

(* Faulty variant: nothing is ever evicted. *)
CacheSetUnbounded(s, k, v) == Append(Uncached(s, k), [key |-> k, value |-> v])

Trimmed(s) == IF Len(s) > CacheSize THEN Tail(s) ELSE s

CacheSet(s, k, v) == Trimmed(Append(Uncached(s, k), [key |-> k, value |-> v]))

(* _node_db_get, or the store of its own the object began with. *)
Backing(o) == IF o.attached THEN o.db ELSE o.own

(* _read_store: the value, and what reading does to the cache. *)
ReadStore(o, k) ==
  IF Cached(o.cache, k)
  THEN o.cache[CHOOSE i \in DOMAIN o.cache : o.cache[i].key = k].value
  ELSE Backing(o)[k]

Touch(o, k) ==
  IF ReadStore(o, k) = None THEN o
  ELSE [o EXCEPT !.cache = CacheSet(@, k, ReadStore(o, k))]

(* _node_db_set and _node_db_delete, when a node is attached. *)
SetBacking(o, k, v) ==
  IF o.attached THEN [o EXCEPT !.db[k] = v] ELSE [o EXCEPT !.own[k] = v]

WriteStore(o, k, v) == [SetBacking(o, k, v) EXCEPT !.cache = CacheSet(@, k, v)]

(* Faulty variant: the cache goes on answering for a deleted record. *)
DeleteBackingOnly(o, k) == SetBacking(o, k, None)

DeleteStore(o, k) == [SetBacking(o, k, None) EXCEPT !.cache = Uncached(@, k)]

(* A view and its record change together. *)
Put(o, k, v) == WriteStore([o EXCEPT !.view[k] = v], k, v)
Drop(o, k) == DeleteStore([o EXCEPT !.view[k] = None], k)
Amount(o, k) == IF o.view[k] = None THEN 0 ELSE o.view[k]

(* add_message of MerkelizedObject comes first: it writes the message to   *)
(* the store, under its digest, unless it had that message before.  Nobody *)
(* reads it there; it takes a place in the cache.                          *)
Recorded(o) == [o EXCEPT !.cache = Trimmed(Append(@, [key |-> Digest, value |-> 0]))]
Merkelized(o) == {o, Recorded(o)}
-----------------------------------------------------------------------------
CoreBecomes(o, kept) == core' = o /\ coreKept' = coreKept \cup kept

(* _attach_node: what was written before stays in the old store.  The      *)
(* cache is kept, and so is what it can still answer.                      *)
CoreAttach ==
  /\ ~core.attached
  /\ core' = [core EXCEPT !.attached = TRUE]
  /\ coreKept' = {}

CoreRead(k) == CoreBecomes(Touch(core, k), {})

(* add_message of the three caches: each has a name of its own for the key *)
(* and for removal.                                                        *)
CacheAdd(k, v) == /\ core.class = "CacheObject"
                  /\ CoreBecomes(IF v = None THEN Drop(core, k) ELSE Put(core, k, v), {k})
PoolAdd(k, v) == /\ core.class = "Mempool"
                 /\ CoreBecomes(IF v = None THEN Drop(core, k) ELSE Put(core, k, v), {k})
DocumentAdd(k, v) ==
  /\ core.class = "DocumentCache"
  /\ CoreBecomes(IF v = None THEN Drop(core, k) ELSE Put(core, k, v), {k})

(* UTXOLedger: an output can be added again, spent or not. *)
UtxoAdd(k, v) == /\ core.class = "UTXOLedger"
                 /\ v = None => core.view[k] # None
                 /\ \E o \in Merkelized(core) :
                      CoreBecomes(IF v = None THEN Drop(o, k) ELSE Put(o, k, v), {k})

(* BalanceLedger.  A transfer to oneself writes the account twice. *)
Credit(k, v) == /\ core.class = "BalanceLedger"
                /\ Amount(core, k) + v <= MaxBalance
                /\ \E o \in Merkelized(core) :
                     CoreBecomes(Put(o, k, Amount(core, k) + v), {k})
Debit(k, v) == /\ core.class = "BalanceLedger"
               /\ Amount(core, k) >= v
               /\ \E o \in Merkelized(core) :
                    CoreBecomes(Put(o, k, Amount(core, k) - v), {k})
Transferred(o, k, l, v) ==
  LET debited == [o EXCEPT !.view[k] = Amount(o, k) - v]
  IN [debited EXCEPT !.view[l] = Amount(debited, l) + v]
Transfer(k, l, v) ==
  /\ core.class = "BalanceLedger" /\ Amount(core, k) >= v
  /\ \E o \in Merkelized(core) :
       LET credited == Transferred(o, k, l, v)
       IN /\ credited.view[l] <= MaxBalance
          /\ CoreBecomes(WriteStore(WriteStore(credited, k, credited.view[k]),
                                    l, credited.view[l]), {k, l})

CoreNext ==
  \/ CoreAttach
  \/ \E k \in CoreKey :
       \/ CoreRead(k)
       \/ \E v \in CoreAmount \cup {None} :
            CacheAdd(k, v) \/ PoolAdd(k, v) \/ DocumentAdd(k, v) \/ UtxoAdd(k, v)
       \/ \E v \in CoreAmount :
            Credit(k, v) \/ Debit(k, v) \/ \E l \in CoreKey : Transfer(k, l, v)

CoreSpec == CoreInit /\ [][CoreNext]_coreVars
-----------------------------------------------------------------------------
(* Whatever was evicted, deleted or written twice, reading a record gives  *)
(* what the object's own view holds (the cache is never invalidated by     *)
(* anything but the same object).  Records from before the attachment are  *)
(* excepted: node.db does not have them.                                   *)
StoreReadsBack ==
  \A k \in coreKept : ReadStore(core, k) = core.view[k]
=============================================================================
