---------------------------- MODULE CacheEngine ----------------------------
(***************************************************************************)
(* createCacheEngine (cache-engine.ts) over the in-memory store:           *)
(* getOrCompute with its in-flight slots and background revalidations, and *)
(* the invalidations an application calls beside it.                       *)
(*                                                                         *)
(* What a loader loads is the version of the data it read.  Time is an     *)
(* entry's age: fresh, stale or expired.  One action is what runs between  *)
(* two awaits.                                                             *)
(***************************************************************************)
EXTENDS CacheStore

CONSTANTS
  Calls,         \* getOrCompute calls
  KeyOf,         \* the key of each
  TagsFor,       \* the tags of each (they may be computed per call)
  MayBypass,     \* the calls that may have maxAge = 0
  Uncacheable,   \* versions skipCacheWhen or validate keeps out of the cache
  NoCall,
  MaxVersion,    \* bound: changes of the data
  MaxCacheFaults \* bound: reads, loads and writes that fail

Versions == 1..(MaxVersion + 1)
Entries  == [value : Versions, age : {"fresh", "stale", "expired"}, tags : SUBSET Tags]

ASSUME CacheAssumption ==
  /\ KeyOf \in [Calls -> Keys]
  /\ TagsFor \in [Calls -> SUBSET Tags]
  /\ NoCall \notin Calls /\ NoEntry \notin Entries
  /\ MaxVersion \in Nat /\ MaxCacheFaults \in Nat

VARIABLES
  source,       \* the version of the data loaders read
  slot,         \* inFlight, per key: the call that claimed it, or NoCall
  pc,           \* per call
  leader,       \* per call: whose slot it awaits, or NoCall
  seen,         \* per call: the entry its read returned
  value,        \* per call: the version it loaded or returns
  refresh,      \* bgInFlight, per key: [pc, version, call]
  since,        \* history, per call: the version it may not fall behind
  floor,        \* history, per key: the version at the last quiet invalidation
  cut,          \* history, per key: was a leader's slot ever taken away?
  cacheFaults

callVars    == <<slot, pc, leader, seen, value>>
historyVars == <<since, floor, cut>>
cacheVars   == <<storeVars, source, callVars, refresh, historyVars, cacheFaults>>

Leading  == {"read", "load", "loaded", "stored", "bypass", "bypassed"}
NoRefresh == [pc |-> "idle", version |-> 0, call |-> NoCall]

CacheInit ==
  /\ StoreInit
  /\ source = 1
  /\ slot = [k \in Keys |-> NoCall]
  /\ pc = [c \in Calls |-> "idle"]
  /\ leader = [c \in Calls |-> NoCall]
  /\ seen = [c \in Calls |-> NoEntry]
  /\ value = [c \in Calls |-> 0]
  /\ refresh = [k \in Keys |-> NoRefresh]
  /\ since = [c \in Calls |-> 0]
  /\ floor = [k \in Keys |-> 0]
  /\ cut = [k \in Keys |-> FALSE]
  /\ cacheFaults = 0

Goto(c, next) == pc' = [pc EXCEPT ![c] = next]
Begin(c)      == since' = [since EXCEPT ![c] = floor[KeyOf[c]]]
Fault         == cacheFaults < MaxCacheFaults /\ cacheFaults' = cacheFaults + 1

(* getOrCompute finds a slot and awaits it. *)
Join(c) ==
  /\ pc[c] = "idle"
  /\ slot[KeyOf[c]] # NoCall
  /\ Goto(c, "joined")
  /\ leader' = [leader EXCEPT ![c] = slot[KeyOf[c]]]
  /\ Begin(c)
  /\ UNCHANGED <<storeVars, source, slot, seen, value, refresh, floor, cut, cacheFaults>>

FaultyLead(c) ==               \* reads first, claims the slot later or never
  /\ pc[c] = "idle"
  /\ slot[KeyOf[c]] = NoCall
  /\ Goto(c, "read")
  /\ seen' = [seen EXCEPT ![c] = entries[KeyOf[c]]]
  /\ StoreGet(KeyOf[c])
  /\ Begin(c)
  /\ UNCHANGED <<source, slot, leader, value, refresh, floor, cut, cacheFaults>>

(* claimAndRun: the slot is claimed before the first await. *)
Lead(c) ==
  /\ pc[c] = "idle"
  /\ slot[KeyOf[c]] = NoCall
  /\ slot' = [slot EXCEPT ![KeyOf[c]] = c]
  /\ \/ /\ c \in MayBypass
        /\ Goto(c, "bypass")
        /\ UNCHANGED <<storeVars, seen>>
     \/ /\ Goto(c, "read")
        /\ seen' = [seen EXCEPT ![c] = entries[KeyOf[c]]]
        /\ StoreGet(KeyOf[c])
  /\ Begin(c)
  /\ UNCHANGED <<source, leader, value, refresh, floor, cut, cacheFaults>>

(* The finally of claimAndRun takes the key's slot, whoever holds it by now. *)
Settle(c, outcome, version) ==
  /\ Goto(c, outcome)
  /\ value' = [value EXCEPT ![c] = version]
  /\ slot' = [slot EXCEPT ![KeyOf[c]] = NoCall]
  /\ seen' = [seen EXCEPT ![c] = NoEntry]
  /\ UNCHANGED leader

Usable(c) == seen[c] # NoEntry /\ seen[c].age # "expired"

(* A hit, or a stale hit that schedules a revalidation if none is running. *)
ReadHit(c) ==
  /\ pc[c] = "read"
  /\ Usable(c)
  /\ Settle(c, "done", seen[c].value)
  /\ IF seen[c].age = "stale" /\ refresh[KeyOf[c]].pc = "idle"
     THEN refresh' = [refresh EXCEPT ![KeyOf[c]] =
                        [pc |-> "load", version |-> 0, call |-> c]]
     ELSE UNCHANGED refresh
  /\ UNCHANGED <<storeVars, source, historyVars, cacheFaults>>

(* A miss, or a read that failed. *)
ReadMiss(c) ==
  /\ pc[c] = "read"
  /\ IF Usable(c) THEN Fault ELSE UNCHANGED cacheFaults
  /\ Goto(c, "load")
  /\ seen' = [seen EXCEPT ![c] = NoEntry]
  /\ UNCHANGED <<storeVars, source, slot, leader, value, refresh, historyVars>>

(* The loader reads the data; its answer takes as long as it takes. *)
LoaderReads(c) ==
  /\ pc[c] \in {"load", "bypass"}
  /\ Goto(c, IF pc[c] = "load" THEN "loaded" ELSE "bypassed")
  /\ value' = [value EXCEPT ![c] = source]
  /\ UNCHANGED <<storeVars, source, slot, leader, seen, refresh, historyVars, cacheFaults>>

Entry(version, c) == [value |-> version, age |-> "fresh", tags |-> TagsFor[c]]

(* skipWrite, skipCacheWhen or validate keeps the answer out of the cache. *)
AnswerKeptOut(c) ==
  /\ pc[c] = "bypassed" \/ (pc[c] = "loaded" /\ value[c] \in Uncacheable)
  /\ Settle(c, "done", value[c])
  /\ UNCHANGED <<storeVars, source, refresh, historyVars, cacheFaults>>

(* A write that fails is reported, and the answer returned all the same. *)
AnswerWritten(c) ==
  /\ pc[c] = "loaded"
  /\ value[c] \notin Uncacheable
  /\ Goto(c, "stored")
  /\ \/ StoreSet(KeyOf[c], Entry(value[c], c)) /\ UNCHANGED cacheFaults
     \/ Fault /\ UNCHANGED storeVars
  /\ UNCHANGED <<source, slot, leader, seen, value, refresh, historyVars>>

Stored(c) ==
  /\ pc[c] = "stored"
  /\ Settle(c, "done", value[c])
  /\ UNCHANGED <<storeVars, source, refresh, historyVars, cacheFaults>>

(* The loader throws, or transform does, on its answer or on the entry read. *)
LoaderFails(c) ==
  /\ pc[c] \in {"load", "loaded", "bypass", "bypassed"} \/ (pc[c] = "read" /\ Usable(c))
  /\ Fault
  /\ Settle(c, "failed", 0)
  /\ UNCHANGED <<storeVars, source, refresh, historyVars>>

FaultyJoinedSettles(c) ==      \* a leader that throws forgets rejectOuter
  /\ pc[c] = "joined"
  /\ pc[leader[c]] = "done"
  /\ Goto(c, "done")
  /\ value' = [value EXCEPT ![c] = value[leader[c]]]
  /\ leader' = [leader EXCEPT ![c] = NoCall]
  /\ UNCHANGED <<storeVars, source, slot, seen, refresh, historyVars, cacheFaults>>

(* The slot this call awaits was resolved or rejected by its leader. *)
JoinedSettles(c) ==
  /\ pc[c] = "joined"
  /\ pc[leader[c]] \in {"done", "failed"}
  /\ Goto(c, pc[leader[c]])
  /\ value' = [value EXCEPT ![c] = value[leader[c]]]
  /\ leader' = [leader EXCEPT ![c] = NoCall]
  /\ UNCHANGED <<storeVars, source, slot, seen, refresh, historyVars, cacheFaults>>

RefreshReads(k) ==
  /\ refresh[k].pc = "load"
  /\ refresh' = [refresh EXCEPT ![k].pc = "loaded", ![k].version = source]
  /\ UNCHANGED <<storeVars, source, callVars, historyVars, cacheFaults>>

(* The revalidation wrote its answer, kept it out, or failed; the key is
   released in any case.                                                   *)
RefreshEnds(k) ==
  /\ refresh[k].pc = "loaded"
  /\ refresh' = [refresh EXCEPT ![k] = NoRefresh]
  /\ \/ /\ refresh[k].version \notin Uncacheable
        /\ StoreSet(k, Entry(refresh[k].version, refresh[k].call))
        /\ UNCHANGED cacheFaults
     \/ refresh[k].version \in Uncacheable /\ UNCHANGED <<storeVars, cacheFaults>>
     \/ Fault /\ UNCHANGED storeVars
  /\ UNCHANGED <<source, callVars, historyVars>>

(* Is nothing under way for k that began before now? *)
Quiet(k) ==
  /\ \A c \in Calls : KeyOf[c] = k => pc[c] \in {"idle", "done", "failed"}
  /\ refresh[k].pc = "idle"

Raise(ks) == floor' = [k \in Keys |-> IF k \in ks /\ Quiet(k) THEN source ELSE floor[k]]

(* invalidate(key) *)
Invalidate(k) ==
  /\ slot' = [slot EXCEPT ![k] = NoCall]
  /\ StoreDelete(k)
  /\ Raise({k})
  /\ cut' = [cut EXCEPT ![k] = cut[k] \/ slot[k] # NoCall]
  /\ UNCHANGED <<source, pc, leader, seen, value, refresh, since, cacheFaults>>

(* invalidateTag(tag), and revalidatePath, whose tag is made of the path:
   the slots stay.                                                         *)
InvalidateTag(tag) ==
  /\ StoreDeleteByTag(tag)
  /\ Raise({k \in Keys : tag \in TagsOf(k)})
  /\ UNCHANGED <<source, callVars, refresh, since, cut, cacheFaults>>

DataChanges ==
  /\ source <= MaxVersion
  /\ source' = source + 1
  /\ UNCHANGED <<storeVars, callVars, refresh, historyVars, cacheFaults>>

EntryAges(k) ==
  /\ Present(k)
  /\ entries[k].age # "expired"
  /\ entries' = [entries EXCEPT ![k].age = IF @ = "fresh" THEN "stale" ELSE "expired"]
  /\ UNCHANGED <<lru, tagIndex, source, callVars, refresh, historyVars, cacheFaults>>

CallStep(c) ==
  \/ ReadHit(c) \/ ReadMiss(c)
  \/ LoaderReads(c) \/ AnswerKeptOut(c) \/ AnswerWritten(c) \/ LoaderFails(c) \/ Stored(c)
  \/ JoinedSettles(c)

CacheNext ==
  \/ \E c \in Calls : Join(c) \/ Lead(c) \/ CallStep(c)
  \/ \E k \in Keys :
       \/ RefreshReads(k) \/ RefreshEnds(k)
       \/ Invalidate(k) \/ EntryAges(k)
  \/ \E tag \in Tags : InvalidateTag(tag)
  \/ DataChanges

(* Loaders answer, which is an assumption on the application. *)
CacheSpec ==
  /\ CacheInit /\ [][CacheNext]_cacheVars
  /\ \A c \in Calls : WF_cacheVars(CallStep(c))
-----------------------------------------------------------------------------
CacheTypeOK ==
  /\ StoreTypeOK
  /\ entries \in [Keys -> Entries \cup {NoEntry}]
  /\ source \in Versions
  /\ slot \in [Keys -> Calls \cup {NoCall}]
  /\ pc \in [Calls -> Leading \cup {"idle", "joined", "done", "failed"}]
  /\ value \in [Calls -> Versions \cup {0}]
  /\ \A k \in Keys : slot[k] # NoCall => pc[slot[k]] \in Leading
  /\ cacheFaults \in 0..MaxCacheFaults

(* The in-memory store never outgrows its bound, and an invalidation by tag
   finds every entry that carries the tag and no other, through evictions,
   overwrites under other tags and failed calls (in-memory-adapter.ts:15-16). *)
StoreSound == CacheTypeOK /\ StoreBounded /\ IndexMatchesEntries

(* Concurrent misses of a key share one loader, as long as no invalidate()
   took a running leader's slot away (cache-engine.ts:119,131).             *)
SingleFlight ==
  \A k \in Keys : ~ cut[k] =>
    Cardinality({c \in Calls : KeyOf[c] = k /\ pc[c] \in Leading}) <= 1

(* A call made after an invalidation that found nothing under way for its key
   never returns data older than what that invalidation discarded, whatever
   revalidates, fails, is evicted or is read at the same time.  (While a
   loader runs the code promises no such thing: cache-engine.ts:330 calls it
   best effort.)                                                            *)
FreshAfterInvalidate ==
  \A c \in Calls : pc[c] = "done" => value[c] >= since[c]

(* Every call settles, followers of a leader that throws included. *)
CallsSettle ==
  \A c \in Calls : pc[c] \in Leading \cup {"joined"} ~> pc[c] \in {"done", "failed"}

=============================================================================
