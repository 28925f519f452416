----------------------------- MODULE CacheStore -----------------------------
(***************************************************************************)
(* InMemoryCacheAdapter (in-memory-adapter.ts): a Map whose insertion      *)
(* order is the LRU order, and the reverse index from tags to keys.  Every *)
(* method runs to its end before anything else does.                       *)
(***************************************************************************)
EXTENDS Naturals, Sequences, FiniteSets, Orders

CONSTANTS
  Keys,
  Tags,
  MaxEntries,   \* maxEntries
  NoEntry

ASSUME StoreAssumption == MaxEntries \in Nat \ {0}

VARIABLES
  entries,    \* #entries: [value, age, tags] per key, or NoEntry
  lru,        \* its keys, oldest first
  tagIndex    \* #tagIndex: the bucket of each tag

storeVars == <<entries, lru, tagIndex>>

StoreInit ==
  /\ entries = [k \in Keys |-> NoEntry]
  /\ lru = <<>>
  /\ tagIndex = [t \in Tags |-> {}]

Present(k) == entries[k] # NoEntry
TagsOf(k)  == IF Present(k) THEN entries[k].tags ELSE {}
Without(gone) == Filtered(lru, Keys \ gone)

(* get: the entry is entries[k]; reading it makes it the newest. *)
StoreGet(k) ==
  /\ IF Present(k) THEN \E rest \in Without({k}) : lru' = Append(rest, k) ELSE lru' = lru
  /\ UNCHANGED <<entries, tagIndex>>

(* Whom a set of k pushes out. *)
Evicted(k) ==
  IF ~ Present(k) /\ Len(lru) >= MaxEntries THEN {Head(lru)} ELSE {}

FaultyStoreSet(k, entry) ==     \* an overwritten entry stays under its old tags
  /\ entries' = [j \in Keys |->
       IF j = k THEN entry ELSE IF j \in Evicted(k) THEN NoEntry ELSE entries[j]]
  /\ \E rest \in Without({k} \cup Evicted(k)) : lru' = Append(rest, k)
  /\ tagIndex' = [t \in Tags |->
       (tagIndex[t] \ Evicted(k)) \cup (IF t \in entry.tags THEN {k} ELSE {})]

(* set: unindex the old entry or the evicted one, write, index. *)
StoreSet(k, entry) ==
  /\ entries' = [j \in Keys |->
       IF j = k THEN entry ELSE IF j \in Evicted(k) THEN NoEntry ELSE entries[j]]
  /\ \E rest \in Without({k} \cup Evicted(k)) : lru' = Append(rest, k)
  /\ tagIndex' = [t \in Tags |->
       (tagIndex[t] \ ({j \in {k} \cup Evicted(k) : t \in TagsOf(j)}))
         \cup (IF t \in entry.tags THEN {k} ELSE {})]

StoreDelete(k) ==
  /\ entries' = [entries EXCEPT ![k] = NoEntry]
  /\ lru' \in Without({k})
  /\ tagIndex' = [t \in Tags |-> IF t \in TagsOf(k) THEN tagIndex[t] \ {k} ELSE tagIndex[t]]

FaultyStoreDeleteByTag(tag) ==  \* drops the bucket, keeps the entries
  /\ tagIndex' = [tagIndex EXCEPT ![tag] = {}]
  /\ UNCHANGED <<entries, lru>>

(* deleteByTag: every key of the bucket, unindexed from its other tags. *)
StoreDeleteByTag(tag) ==
  LET gone == tagIndex[tag]
  IN /\ entries' = [k \in Keys |-> IF k \in gone THEN NoEntry ELSE entries[k]]
     /\ lru' \in Without(gone)
     /\ tagIndex' = [t \in Tags |->
          IF t = tag THEN {}
          ELSE tagIndex[t] \ {k \in gone : t \in TagsOf(k)}]
-----------------------------------------------------------------------------
(* The map and its order list the same keys, each once. *)
StoreTypeOK ==
  /\ lru \in Seq(Keys)
  /\ {lru[i] : i \in DOMAIN lru} = {k \in Keys : Present(k)}
  /\ Cardinality({k \in Keys : Present(k)}) = Len(lru)
  /\ tagIndex \in [Tags -> SUBSET Keys]

(* At most maxEntries entries (in-memory-adapter.ts:15). *)
StoreBounded == Cardinality({k \in Keys : Present(k)}) <= MaxEntries

(* A key is in a tag's bucket exactly when its entry carries the tag, so that
   invalidating a tag misses no entry and leaves no dangling key
   (in-memory-adapter.ts:16).                                               *)
IndexMatchesEntries ==
  \A t \in Tags, k \in Keys : k \in tagIndex[t] <=> t \in TagsOf(k)

=============================================================================
