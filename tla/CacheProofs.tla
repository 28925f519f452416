---------------------------- MODULE CacheProofs -----------------------------
(***************************************************************************)
(* Proofs about CacheEngine, for any number of keys, tags, calls, versions *)
(* of the data and faults.                                                 *)
(***************************************************************************)
EXTENDS CacheEngine, OrderProofs

Settled == {"done", "failed"}
RefreshStates == [pc : {"idle", "load", "loaded"}, version : Versions \cup {0},
                  call : Calls \cup {NoCall}]

(* What the engine keeps, but for the order of the entries. *)
EngineOK ==
  /\ entries \in [Keys -> Entries \cup {NoEntry}]
  /\ tagIndex \in [Tags -> SUBSET Keys]
  /\ source \in Versions
  /\ slot \in [Keys -> Calls \cup {NoCall}]
  /\ pc \in [Calls -> Leading \cup Settled \cup {"idle", "joined"}]
  /\ leader \in [Calls -> Calls \cup {NoCall}]
  /\ seen \in [Calls -> Entries \cup {NoEntry}]
  /\ value \in [Calls -> Versions \cup {0}]
  /\ refresh \in [Keys -> RefreshStates]
  /\ since \in [Calls -> Versions \cup {0}]
  /\ floor \in [Keys -> 0..source]
  /\ cut \in [Keys -> BOOLEAN]
  /\ cacheFaults \in 0..MaxCacheFaults

(* A slot is held by a call that leads its key, and by every one whose slot was
   never taken away. *)
SlotInv ==
  /\ \A k \in Keys : slot[k] # NoCall => KeyOf[slot[k]] = k /\ pc[slot[k]] \in Leading
  /\ \A c \in Calls : pc[c] \in Leading /\ ~ cut[KeyOf[c]] => slot[KeyOf[c]] = c

(* Until a call is settled the floor of its key stays what it was when the call
   began, for it and for the call it awaits. *)
FloorInv ==
  /\ \A c \in Calls : pc[c] \in Leading \cup {"joined"} => since[c] = floor[KeyOf[c]]
  /\ \A c \in Calls : pc[c] = "joined" =>
       /\ leader[c] \in Calls
       /\ pc[leader[c]] \in Leading \cup Settled
       /\ since[leader[c]] = since[c]

(* Nothing older than the floor is in the cache, on its way into it, or out of
   it. *)
FreshInv ==
  /\ \A k \in Keys : Present(k) => entries[k].value >= floor[k]
  /\ \A k \in Keys : refresh[k].pc = "loaded" => refresh[k].version >= floor[k]
  /\ \A c \in Calls : pc[c] = "read" /\ seen[c] # NoEntry => seen[c].value >= since[c]
  /\ \A c \in Calls : pc[c] \in {"loaded", "stored", "bypassed", "done"} => value[c] >= since[c]

(* What an entry waits to be written with. *)
WriteInv ==
  /\ \A c \in Calls : pc[c] = "loaded" => value[c] \in Versions
  /\ \A k \in Keys :
       /\ refresh[k].pc = "loaded" => refresh[k].version \in Versions
       /\ refresh[k].pc # "idle" => refresh[k].call \in Calls

IInv == EngineOK /\ IndexMatchesEntries /\ SlotInv /\ FloorInv /\ FreshInv /\ WriteInv

-----------------------------------------------------------------------------
(* The store *)

StoreFacts ==
  /\ entries \in [Keys -> Entries \cup {NoEntry}]
  /\ tagIndex \in [Tags -> SUBSET Keys]
  /\ IndexMatchesEntries

LEMMA TagsOfType ==
  ASSUME StoreFacts, NEW k \in Keys
  PROVE  TagsOf(k) \in SUBSET Tags
BY DEF StoreFacts, TagsOf, Present, Entries

LEMMA SetKeeps ==
  ASSUME StoreFacts, NEW k \in Keys, NEW entry \in Entries, StoreSet(k, entry)
  PROVE  /\ StoreFacts'
         /\ entries'[k] = entry
         /\ \A j \in Keys \ {k} : entries'[j] \in {entries[j], NoEntry}
<1> DEFINE out == Evicted(k)
<1> HIDE DEF out
<1>1. entries' = [j \in Keys |-> IF j = k THEN entry ELSE IF j \in out THEN NoEntry ELSE entries[j]]
  BY DEF StoreSet, out
<1>2. tagIndex' = [t \in Tags |->
        (tagIndex[t] \ ({j \in {k} \cup out : t \in TagsOf(j)}))
          \cup (IF t \in entry.tags THEN {k} ELSE {})]
  BY DEF StoreSet, out
<1>3. entries' \in [Keys -> Entries \cup {NoEntry}] /\ tagIndex' \in [Tags -> SUBSET Keys]
  BY <1>1, <1>2 DEF StoreFacts
<1>4. entry # NoEntry
  BY CacheAssumption
<1>5. ASSUME NEW t \in Tags, NEW j \in Keys
      PROVE  j \in tagIndex'[t] <=> t \in TagsOf(j)'
  <2>1. j \in tagIndex[t] <=> t \in TagsOf(j)
    BY DEF StoreFacts, IndexMatchesEntries
  <2>2. CASE j = k
    BY <1>1, <1>2, <1>4, <2>1, <2>2 DEF TagsOf, Present
  <2>3. CASE j # k
    <3>1. j \in tagIndex'[t] <=> j \in tagIndex[t] /\ ~ (j \in out /\ t \in TagsOf(j))
      BY <1>2, <2>3
    <3>2. TagsOf(j)' = IF j \in out THEN {} ELSE TagsOf(j)
      BY <1>1, <2>3 DEF TagsOf, Present
    <3> QED
      BY <2>1, <3>1, <3>2
  <2> QED
    BY <2>2, <2>3
<1> QED
  BY <1>1, <1>3, <1>5 DEF StoreFacts, IndexMatchesEntries

LEMMA DeleteKeeps ==
  ASSUME StoreFacts, NEW k \in Keys, StoreDelete(k)
  PROVE  /\ StoreFacts'
         /\ entries' = [entries EXCEPT ![k] = NoEntry]
<1>1. entries' = [entries EXCEPT ![k] = NoEntry]
  BY DEF StoreDelete
<1>2. tagIndex' = [t \in Tags |-> IF t \in TagsOf(k) THEN tagIndex[t] \ {k} ELSE tagIndex[t]]
  BY DEF StoreDelete
<1>3. entries' \in [Keys -> Entries \cup {NoEntry}] /\ tagIndex' \in [Tags -> SUBSET Keys]
  BY <1>1, <1>2 DEF StoreFacts
<1>4. ASSUME NEW t \in Tags, NEW j \in Keys
      PROVE  j \in tagIndex'[t] <=> t \in TagsOf(j)'
  <2>1. j \in tagIndex[t] <=> t \in TagsOf(j)
    BY DEF StoreFacts, IndexMatchesEntries
  <2>2. TagsOf(j)' = IF j = k THEN {} ELSE TagsOf(j)
    BY <1>1 DEF StoreFacts, TagsOf, Present
  <2> QED
    BY <1>2, <2>1, <2>2
<1> QED
  BY <1>1, <1>3, <1>4 DEF StoreFacts, IndexMatchesEntries

LEMMA DeleteByTagKeeps ==
  ASSUME StoreFacts, NEW tag \in Tags, StoreDeleteByTag(tag)
  PROVE  /\ StoreFacts'
         /\ \A k \in Keys : entries'[k] = IF tag \in TagsOf(k) THEN NoEntry ELSE entries[k]
<1> DEFINE gone == tagIndex[tag]
<1>1. entries' = [k \in Keys |-> IF k \in gone THEN NoEntry ELSE entries[k]]
  BY DEF StoreDeleteByTag
<1>2. tagIndex' = [t \in Tags |->
          IF t = tag THEN {} ELSE tagIndex[t] \ {k \in gone : t \in TagsOf(k)}]
  BY DEF StoreDeleteByTag
<1>3. \A k \in Keys : k \in gone <=> tag \in TagsOf(k)
  BY DEF StoreFacts, IndexMatchesEntries
<1>4. entries' \in [Keys -> Entries \cup {NoEntry}] /\ tagIndex' \in [Tags -> SUBSET Keys]
  BY <1>1, <1>2 DEF StoreFacts
<1>5. ASSUME NEW t \in Tags, NEW j \in Keys
      PROVE  j \in tagIndex'[t] <=> t \in TagsOf(j)'
  <2>1. j \in tagIndex[t] <=> t \in TagsOf(j)
    BY DEF StoreFacts, IndexMatchesEntries
  <2>2. TagsOf(j)' = IF j \in gone THEN {} ELSE TagsOf(j)
    BY <1>1 DEF TagsOf, Present
  <2> QED
    BY <1>2, <1>3, <2>1, <2>2
<1> QED
  BY <1>1, <1>3, <1>4, <1>5 DEF StoreFacts, IndexMatchesEntries

-----------------------------------------------------------------------------
(* What a write must carry. *)
Writes(k) ==
  \/ UNCHANGED <<entries, tagIndex>>
  \/ \E entry \in Entries : StoreSet(k, entry) /\ entry.value >= floor[k]

LEMMA WriteKeeps ==
  ASSUME IInv, NEW k \in Keys, Writes(k), UNCHANGED floor
  PROVE  /\ StoreFacts'
         /\ \A j \in Keys : Present(j)' => entries'[j].value >= floor'[j]
<1>1. StoreFacts
  BY DEF IInv, EngineOK, StoreFacts
<1>2. CASE UNCHANGED <<entries, tagIndex>>
  BY <1>1, <1>2 DEF StoreFacts, IndexMatchesEntries, TagsOf, Present, IInv, FreshInv
<1>3. ASSUME NEW entry \in Entries, StoreSet(k, entry), entry.value >= floor[k]
      PROVE  /\ StoreFacts'
             /\ \A j \in Keys : Present(j)' => entries'[j].value >= floor'[j]
  BY <1>1, <1>3, SetKeeps DEF Present, IInv, FreshInv
<1> QED
  BY <1>2, <1>3 DEF Writes

(* The steps of a call that was begun: it goes on, or settles. *)
LEMMA CallAdvances ==
  ASSUME IInv, NEW c \in Calls, UNCHANGED <<historyVars, source>>,
         NEW next \in Leading \cup Settled,
         pc' = [pc EXCEPT ![c] = next],
         pc[c] \in Leading \cup {"joined"},
         pc[c] = "joined" => next \in Settled,
         leader' # leader => pc[c] = "joined" /\ leader' = [leader EXCEPT ![c] = NoCall],
         IF next \in Settled /\ pc[c] \in Leading
           THEN slot' = [slot EXCEPT ![KeyOf[c]] = NoCall]
           ELSE slot' = slot
  PROVE  SlotInv' /\ FloorInv'
<1>1. FloorInv'
  BY DEF IInv, EngineOK, FloorInv, historyVars, Leading, Settled
<1>2. SlotInv'
  <2>0. KeyOf[c] \in Keys /\ cut' = cut /\ Leading \cap Settled = {} /\ "joined" \notin Leading
    BY CacheAssumption DEF historyVars, Leading, Settled
  <2>1. \A d \in Calls : pc'[d] = IF d = c THEN next ELSE pc[d]
    BY DEF IInv, EngineOK
  <2>2. ASSUME NEW k \in Keys, slot'[k] # NoCall
        PROVE  KeyOf[slot'[k]] = k /\ pc'[slot'[k]] \in Leading
    <3>1. slot'[k] = slot[k] /\ slot[k] \in Calls
      BY <2>0, <2>2 DEF IInv, EngineOK
    <3>2. KeyOf[slot[k]] = k /\ pc[slot[k]] \in Leading
      BY <2>2, <3>1 DEF IInv, SlotInv
    <3>3. slot[k] = c => next \in Leading
      BY <2>0, <2>2, <3>1, <3>2 DEF IInv, EngineOK
    <3> QED
      BY <2>1, <3>1, <3>2, <3>3
  <2>3. ASSUME NEW d \in Calls, pc'[d] \in Leading, ~ cut[KeyOf[d]]
        PROVE  slot'[KeyOf[d]] = d
    <3>1. pc[d] \in Leading /\ KeyOf[d] \in Keys
      BY <2>0, <2>1, <2>3, CacheAssumption
    <3>2. slot[KeyOf[d]] = d
      BY <2>3, <3>1 DEF IInv, SlotInv
    <3>3. CASE slot' = slot
      BY <3>2, <3>3
    <3>4. CASE slot' # slot
      <4>1. next \in Settled /\ pc[c] \in Leading /\ slot' = [slot EXCEPT ![KeyOf[c]] = NoCall]
        BY <3>4
      <4>2. d # c
        BY <2>0, <2>1, <2>3, <4>1
      <4>3. KeyOf[d] # KeyOf[c]
        BY <2>3, <3>2, <4>1, <4>2 DEF IInv, SlotInv
      <4> QED
        BY <3>1, <3>2, <4>1, <4>3 DEF IInv, EngineOK
    <3> QED
      BY <3>3, <3>4
  <2> QED
    BY <2>0, <2>2, <2>3 DEF SlotInv
<1> QED
  BY <1>1, <1>2

(* What remains to be shown of a step of a call. *)
LEMMA CallStepDone ==
  ASSUME IInv, NEW c \in Calls, UNCHANGED <<historyVars, source>>,
         SlotInv', FloorInv',
         Writes(KeyOf[c]),
         slot' \in [Keys -> Calls \cup {NoCall}],
         pc' \in [Calls -> Leading \cup Settled \cup {"idle", "joined"}],
         leader' \in [Calls -> Calls \cup {NoCall}],
         seen' \in [Calls -> Entries \cup {NoEntry}],
         value' \in [Calls -> Versions \cup {0}],
         cacheFaults' \in 0..MaxCacheFaults,
         \A d \in Calls \ {c} :
           pc'[d] = pc[d] /\ seen'[d] = seen[d] /\ value'[d] = value[d],
         pc'[c] # "read",
         pc'[c] \in {"loaded", "stored", "bypassed", "done"} => value'[c] >= since[c],
         pc'[c] = "loaded" => value'[c] \in Versions,
         \/ refresh' = refresh
         \/ refresh' = [refresh EXCEPT ![KeyOf[c]] = [pc |-> "load", version |-> 0, call |-> c]]
  PROVE  IInv'
<1>1. KeyOf[c] \in Keys
  BY CacheAssumption
<1>2. StoreFacts' /\ \A j \in Keys : Present(j)' => entries'[j].value >= floor'[j]
  BY <1>1, WriteKeeps DEF historyVars
<1>3. refresh' \in [Keys -> RefreshStates]
  BY DEF IInv, EngineOK, RefreshStates
<1>4. EngineOK'
  BY <1>2, <1>3 DEF IInv, EngineOK, StoreFacts, historyVars
<1>5. \A k \in Keys :
        /\ refresh'[k].pc = "loaded" => refresh'[k] = refresh[k]
        /\ refresh'[k].pc # "idle" => refresh'[k].call \in Calls
  BY DEF IInv, EngineOK, WriteInv
<1>6. FreshInv'
  BY <1>2, <1>5 DEF IInv, FreshInv, historyVars
<1>7. WriteInv'
  BY <1>5 DEF IInv, WriteInv
<1> QED
  BY <1>2, <1>4, <1>6, <1>7 DEF IInv, StoreFacts

LEMMA CallStepKeeps ==
  ASSUME IInv, NEW c \in Calls, CallStep(c)
  PROVE  IInv'
<1>0. KeyOf[c] \in Keys /\ NoEntry \in Entries \cup {NoEntry} /\ 0 \in Versions \cup {0}
  BY CacheAssumption
<1> USE DEF Goto
<1>1. CASE ReadHit(c)
  <2>1. pc[c] = "read" /\ seen[c] # NoEntry /\ Settle(c, "done", seen[c].value)
    BY <1>1 DEF ReadHit, Usable
  <2>2. seen[c].value \in Versions /\ seen[c].value >= since[c]
    BY <2>1 DEF IInv, EngineOK, FreshInv, Entries
  <2>3. UNCHANGED <<historyVars, source, storeVars, cacheFaults>>
    BY <1>1 DEF ReadHit
  <2>4. SlotInv' /\ FloorInv'
    BY <2>1, <2>3, CallAdvances DEF Settle, Leading, Settled
  <2>5. \/ refresh' = refresh
        \/ refresh' = [refresh EXCEPT ![KeyOf[c]] = [pc |-> "load", version |-> 0, call |-> c]]
    BY <1>1 DEF ReadHit
  <2>6. /\ slot' \in [Keys -> Calls \cup {NoCall}]
        /\ pc' \in [Calls -> Leading \cup Settled \cup {"idle", "joined"}]
        /\ leader' \in [Calls -> Calls \cup {NoCall}]
        /\ seen' \in [Calls -> Entries \cup {NoEntry}]
        /\ value' \in [Calls -> Versions \cup {0}]
    BY <2>1, <2>2 DEF Settle, IInv, EngineOK, Settled
  <2>7. /\ \A d \in Calls \ {c} :
             pc'[d] = pc[d] /\ seen'[d] = seen[d] /\ value'[d] = value[d]
        /\ pc'[c] = "done" /\ value'[c] = seen[c].value
    BY <2>1 DEF Settle, IInv, EngineOK
  <2>8. Writes(KeyOf[c]) /\ cacheFaults' \in 0..MaxCacheFaults
    BY <2>3 DEF Writes, storeVars, IInv, EngineOK
  <2> QED
    BY <2>2, <2>3, <2>4, <2>5, <2>6, <2>7, <2>8, CallStepDone
<1>2. CASE ReadMiss(c)
  <2>1. /\ pc[c] = "read" /\ pc' = [pc EXCEPT ![c] = "load"]
        /\ seen' = [seen EXCEPT ![c] = NoEntry]
        /\ UNCHANGED <<historyVars, source, entries, tagIndex, slot, leader, value, refresh>>
    BY <1>2 DEF ReadMiss, storeVars
  <2>2. SlotInv' /\ FloorInv'
    BY <2>1, CallAdvances DEF Leading, Settled
  <2>3. cacheFaults' \in 0..MaxCacheFaults
    BY <1>2, CacheAssumption DEF ReadMiss, Fault, IInv, EngineOK
  <2>4. /\ pc' \in [Calls -> Leading \cup Settled \cup {"idle", "joined"}]
        /\ seen' \in [Calls -> Entries \cup {NoEntry}]
        /\ slot' \in [Keys -> Calls \cup {NoCall}]
        /\ leader' \in [Calls -> Calls \cup {NoCall}]
        /\ value' \in [Calls -> Versions \cup {0}]
    BY <2>1 DEF IInv, EngineOK, Leading
  <2>5. /\ \A d \in Calls \ {c} :
             pc'[d] = pc[d] /\ seen'[d] = seen[d] /\ value'[d] = value[d]
        /\ pc'[c] = "load"
    BY <2>1 DEF IInv, EngineOK
  <2>6. Writes(KeyOf[c]) /\ refresh' = refresh
    BY <2>1 DEF Writes
  <2> QED
    BY <2>1, <2>2, <2>3, <2>4, <2>5, <2>6, CallStepDone
<1>3. CASE LoaderReads(c)
  <2> DEFINE next == IF pc[c] = "load" THEN "loaded" ELSE "bypassed"
  <2>1. /\ pc[c] \in {"load", "bypass"} /\ pc' = [pc EXCEPT ![c] = next]
        /\ value' = [value EXCEPT ![c] = source]
        /\ UNCHANGED <<historyVars, source, entries, tagIndex, slot, leader, seen, refresh, cacheFaults>>
    BY <1>3 DEF LoaderReads, storeVars
  <2>2. next \in {"loaded", "bypassed"}
    OBVIOUS
  <2> HIDE DEF next
  <2>3. SlotInv' /\ FloorInv'
    BY <2>1, <2>2, CallAdvances DEF Leading, Settled
  <2>4. /\ pc' \in [Calls -> Leading \cup Settled \cup {"idle", "joined"}]
        /\ seen' \in [Calls -> Entries \cup {NoEntry}]
        /\ slot' \in [Keys -> Calls \cup {NoCall}]
        /\ leader' \in [Calls -> Calls \cup {NoCall}]
        /\ value' \in [Calls -> Versions \cup {0}]
        /\ cacheFaults' \in 0..MaxCacheFaults
    BY <2>1, <2>2 DEF IInv, EngineOK, Leading
  <2>5. /\ \A d \in Calls \ {c} :
             pc'[d] = pc[d] /\ seen'[d] = seen[d] /\ value'[d] = value[d]
        /\ pc'[c] \in {"loaded", "bypassed"} /\ value'[c] = source
    BY <2>1, <2>2 DEF IInv, EngineOK
  <2>6. source >= since[c] /\ source \in Versions
    BY <1>0, <2>1, CacheAssumption DEF IInv, EngineOK, FloorInv, Leading, Versions
  <2>7. Writes(KeyOf[c]) /\ refresh' = refresh
    BY <2>1 DEF Writes
  <2> QED
    BY <2>1, <2>3, <2>4, <2>5, <2>6, <2>7, CallStepDone
<1>4. ASSUME \/ AnswerKeptOut(c) \/ Stored(c)
             \/ LoaderFails(c)
      PROVE  IInv'
  <2> DEFINE out == IF LoaderFails(c) THEN "failed" ELSE "done"
             version == IF LoaderFails(c) THEN 0 ELSE value[c]
  <2>1. /\ pc[c] \in {"bypassed", "loaded", "stored", "load", "bypass", "read"}
        /\ Settle(c, out, version)
        /\ out = "done" => version = value[c] /\ pc[c] \in {"bypassed", "loaded", "stored"}
        /\ UNCHANGED <<historyVars, source, entries, tagIndex, refresh>>
    BY <1>4 DEF AnswerKeptOut, Stored, LoaderFails, storeVars
  <2>2. out \in Settled /\ version \in Versions \cup {0}
    BY DEF Settled, IInv, EngineOK
  <2>3. cacheFaults' \in 0..MaxCacheFaults
    BY <1>4, CacheAssumption DEF AnswerKeptOut, Stored, LoaderFails, Fault, IInv, EngineOK
  <2> HIDE DEF out, version
  <2>4. SlotInv' /\ FloorInv'
    BY <2>1, <2>2, CallAdvances DEF Settle, Leading
  <2>5. /\ slot' \in [Keys -> Calls \cup {NoCall}]
        /\ pc' \in [Calls -> Leading \cup Settled \cup {"idle", "joined"}]
        /\ leader' \in [Calls -> Calls \cup {NoCall}]
        /\ seen' \in [Calls -> Entries \cup {NoEntry}]
        /\ value' \in [Calls -> Versions \cup {0}]
    BY <2>1, <2>2 DEF Settle, IInv, EngineOK
  <2>6. /\ \A d \in Calls \ {c} :
             pc'[d] = pc[d] /\ seen'[d] = seen[d] /\ value'[d] = value[d]
        /\ pc'[c] = out /\ value'[c] = version
    BY <2>1 DEF Settle, IInv, EngineOK
  <2>7. out = "done" => version >= since[c]
    BY <2>1 DEF IInv, FreshInv
  <2>8. Writes(KeyOf[c]) /\ refresh' = refresh
    BY <2>1 DEF Writes
  <2>9. out \in {"done", "failed"}
    BY <2>2 DEF Settled
  <2> QED
    BY <2>1, <2>3, <2>4, <2>5, <2>6, <2>7, <2>8, <2>9, CallStepDone
<1>5. CASE AnswerWritten(c)
  <2>1. /\ pc[c] = "loaded" /\ pc' = [pc EXCEPT ![c] = "stored"]
        /\ UNCHANGED <<historyVars, source, slot, leader, seen, value, refresh>>
    BY <1>5 DEF AnswerWritten
  <2>2. SlotInv' /\ FloorInv'
    BY <2>1, CallAdvances DEF Leading, Settled
  <2>3. value[c] \in Versions /\ value[c] >= since[c] /\ since[c] = floor[KeyOf[c]]
    BY <2>1 DEF IInv, WriteInv, FreshInv, FloorInv, Leading
  <2>4. Entry(value[c], c) \in Entries /\ Entry(value[c], c).value = value[c]
    BY <2>3, CacheAssumption DEF Entry, Entries
  <2>5. Writes(KeyOf[c]) /\ cacheFaults' \in 0..MaxCacheFaults
    BY <1>5, <2>3, <2>4, CacheAssumption DEF AnswerWritten, Writes, Fault, storeVars, IInv, EngineOK
  <2>6. /\ pc' \in [Calls -> Leading \cup Settled \cup {"idle", "joined"}]
        /\ seen' \in [Calls -> Entries \cup {NoEntry}]
        /\ slot' \in [Keys -> Calls \cup {NoCall}]
        /\ leader' \in [Calls -> Calls \cup {NoCall}]
        /\ value' \in [Calls -> Versions \cup {0}]
    BY <2>1 DEF IInv, EngineOK, Leading
  <2>7. /\ \A d \in Calls \ {c} :
             pc'[d] = pc[d] /\ seen'[d] = seen[d] /\ value'[d] = value[d]
        /\ pc'[c] = "stored" /\ value'[c] = value[c]
    BY <2>1 DEF IInv, EngineOK
  <2> QED
    BY <2>1, <2>2, <2>3, <2>5, <2>6, <2>7, CallStepDone
<1>6. CASE JoinedSettles(c)
  <2> DEFINE l == leader[c]
             out == pc[l]
  <2>1. /\ pc[c] = "joined" /\ out \in Settled
        /\ pc' = [pc EXCEPT ![c] = out]
        /\ value' = [value EXCEPT ![c] = value[l]]
        /\ leader' = [leader EXCEPT ![c] = NoCall]
        /\ UNCHANGED <<historyVars, source, entries, tagIndex, slot, seen, refresh, cacheFaults>>
    BY <1>6 DEF JoinedSettles, storeVars, Settled
  <2>2. l \in Calls /\ since[l] = since[c]
    BY <2>1 DEF IInv, FloorInv
  <2>3. out = "done" => value[l] >= since[c]
    BY <2>2 DEF IInv, FreshInv
  <2>4. value[l] \in Versions \cup {0}
    BY <2>2 DEF IInv, EngineOK
  <2> HIDE DEF l, out
  <2>5. SlotInv' /\ FloorInv'
    <3>1. slot' = slot /\ "joined" \notin Leading
      BY <2>1 DEF Leading
    <3> QED
      BY <2>1, <3>1, CallAdvances
  <2>6. /\ pc' \in [Calls -> Leading \cup Settled \cup {"idle", "joined"}]
        /\ seen' \in [Calls -> Entries \cup {NoEntry}]
        /\ slot' \in [Keys -> Calls \cup {NoCall}]
        /\ leader' \in [Calls -> Calls \cup {NoCall}]
        /\ value' \in [Calls -> Versions \cup {0}]
        /\ cacheFaults' \in 0..MaxCacheFaults
    BY <2>1, <2>4 DEF IInv, EngineOK
  <2>7. /\ \A d \in Calls \ {c} :
             pc'[d] = pc[d] /\ seen'[d] = seen[d] /\ value'[d] = value[d]
        /\ pc'[c] = out /\ value'[c] = value[l]
    BY <2>1 DEF IInv, EngineOK
  <2>8. Writes(KeyOf[c]) /\ refresh' = refresh /\ out \in {"done", "failed"}
    BY <2>1 DEF Writes, Settled
  <2> QED
    BY <2>1, <2>3, <2>5, <2>6, <2>7, <2>8, CallStepDone
<1> QED
  BY <1>1, <1>2, <1>3, <1>4, <1>5, <1>6 DEF CallStep

-----------------------------------------------------------------------------
(* A call begins. *)
LEMMA JoinKeeps ==
  ASSUME IInv, NEW c \in Calls, Join(c)
  PROVE  IInv'
<1> DEFINE k == KeyOf[c]
<1>1. /\ pc[c] = "idle" /\ slot[k] # NoCall
      /\ pc' = [pc EXCEPT ![c] = "joined"]
      /\ leader' = [leader EXCEPT ![c] = slot[k]]
      /\ since' = [since EXCEPT ![c] = floor[k]]
      /\ UNCHANGED <<entries, tagIndex, source, slot, seen, value, refresh, floor, cut, cacheFaults>>
  BY DEF Join, Goto, Begin, storeVars
<1>2. k \in Keys /\ slot[k] \in Calls /\ KeyOf[slot[k]] = k /\ pc[slot[k]] \in Leading
  BY <1>1, CacheAssumption DEF IInv, EngineOK, SlotInv
<1>3. floor[k] \in Versions \cup {0}
  BY <1>2, CacheAssumption DEF IInv, EngineOK, Versions
<1>4. EngineOK' /\ IndexMatchesEntries'
  BY <1>1, <1>2, <1>3 DEF IInv, EngineOK, IndexMatchesEntries, TagsOf, Present
<1>5. SlotInv'
  BY <1>1 DEF IInv, EngineOK, SlotInv, Leading
<1>6. FloorInv'
  BY <1>1, <1>2 DEF IInv, EngineOK, FloorInv, Leading, Settled
<1>7. FreshInv' /\ WriteInv'
  BY <1>1 DEF IInv, EngineOK, FreshInv, WriteInv, Present
<1> QED
  BY <1>4, <1>5, <1>6, <1>7 DEF IInv

LEMMA LeadKeeps ==
  ASSUME IInv, NEW c \in Calls, Lead(c)
  PROVE  IInv'
<1> DEFINE k == KeyOf[c]
<1>1. /\ pc[c] = "idle" /\ slot[k] = NoCall
      /\ slot' = [slot EXCEPT ![k] = c]
      /\ since' = [since EXCEPT ![c] = floor[k]]
      /\ UNCHANGED <<entries, tagIndex, source, leader, value, refresh, floor, cut, cacheFaults>>
      /\ \/ pc' = [pc EXCEPT ![c] = "bypass"] /\ seen' = seen
         \/ pc' = [pc EXCEPT ![c] = "read"] /\ seen' = [seen EXCEPT ![c] = entries[k]]
  BY DEF Lead, Goto, Begin, storeVars, StoreGet
<1>2. k \in Keys /\ floor[k] \in Versions \cup {0}
  BY CacheAssumption DEF IInv, EngineOK, Versions
<1>3. EngineOK' /\ IndexMatchesEntries'
  <2>1. pc' \in [Calls -> Leading \cup Settled \cup {"idle", "joined"}]
    BY <1>1 DEF IInv, EngineOK, Leading
  <2>2. seen' \in [Calls -> Entries \cup {NoEntry}]
    BY <1>1, <1>2 DEF IInv, EngineOK
  <2> QED
    BY <1>1, <1>2, <2>1, <2>2 DEF IInv, EngineOK, IndexMatchesEntries, TagsOf, Present
<1>4. pc'[c] \in {"bypass", "read"} /\ \A d \in Calls \ {c} : pc'[d] = pc[d]
  BY <1>1 DEF IInv, EngineOK
<1>5. SlotInv'
  <2>1. \A d \in Calls : pc[d] \in Leading /\ KeyOf[d] = k => cut[k]
    BY <1>1, CacheAssumption DEF IInv, SlotInv
  <2>2. \A j \in Keys : slot'[j] = IF j = k THEN c ELSE slot[j]
    BY <1>1 DEF IInv, EngineOK
  <2>3. \A j \in Keys : slot[j] # c
    BY <1>1, CacheAssumption DEF IInv, SlotInv, Leading
  <2>4. \A j \in Keys : slot'[j] # NoCall => KeyOf[slot'[j]] = j /\ pc'[slot'[j]] \in Leading
    BY <1>4, <2>2, <2>3 DEF IInv, EngineOK, SlotInv, Leading
  <2>5. \A d \in Calls : pc'[d] \in Leading /\ ~ cut'[KeyOf[d]] => slot'[KeyOf[d]] = d
    BY <1>1, <1>2, <1>4, <2>1, <2>2, CacheAssumption DEF IInv, SlotInv
  <2> QED
    BY <2>4, <2>5 DEF SlotInv
<1>6. FloorInv'
  <2>1. \A d \in Calls : pc[d] = "joined" => leader[d] # c
    BY <1>1 DEF IInv, FloorInv, Leading, Settled
  <2>2. since'[c] = floor[k] /\ \A d \in Calls \ {c} : since'[d] = since[d]
    BY <1>1 DEF IInv, EngineOK
  <2> QED
    BY <1>1, <1>4, <2>1, <2>2 DEF IInv, FloorInv
<1>7. FreshInv'
  <2>1. since'[c] = floor[k] /\ \A d \in Calls \ {c} : since'[d] = since[d] /\ seen'[d] = seen[d]
    BY <1>1 DEF IInv, EngineOK
  <2>2. pc'[c] = "read" => seen'[c] = entries[k]
    BY <1>1 DEF IInv, EngineOK
  <2>3. pc'[c] = "read" /\ seen'[c] # NoEntry => seen'[c].value >= since'[c]
    BY <1>2, <2>1, <2>2 DEF IInv, FreshInv, Present
  <2> QED
    BY <1>1, <1>4, <2>1, <2>3 DEF IInv, FreshInv, Present
<1>8. WriteInv'
  BY <1>1, <1>4 DEF IInv, WriteInv
<1> QED
  BY <1>3, <1>5, <1>6, <1>7, <1>8 DEF IInv

-----------------------------------------------------------------------------
(* Revalidations *)
LEMMA RefreshKeeps ==
  ASSUME IInv, NEW k \in Keys, RefreshReads(k) \/ RefreshEnds(k)
  PROVE  IInv'
<1>1. UNCHANGED <<source, callVars, historyVars>> /\ Writes(k) /\ cacheFaults' \in 0..MaxCacheFaults
  <2>1. CASE RefreshReads(k)
    BY <2>1 DEF RefreshReads, Writes, storeVars, IInv, EngineOK
  <2>2. CASE RefreshEnds(k)
    <3> DEFINE version == refresh[k].version
               entry == Entry(version, refresh[k].call)
    <3>1. version \in Versions /\ version >= floor[k] /\ refresh[k].call \in Calls
      BY <2>2 DEF RefreshEnds, IInv, WriteInv, FreshInv
    <3>2. entry \in Entries /\ entry.value = version
      BY <3>1, CacheAssumption DEF Entry, Entries
    <3> QED
      BY <2>2, <3>1, <3>2, CacheAssumption DEF RefreshEnds, Writes, storeVars, Fault, IInv, EngineOK
  <2> QED
    BY <2>1, <2>2
<1>2. StoreFacts' /\ \A j \in Keys : Present(j)' => entries'[j].value >= floor'[j]
  BY <1>1, WriteKeeps DEF historyVars
<1>3. /\ refresh' \in [Keys -> RefreshStates]
      /\ \A j \in Keys :
           \/ refresh'[j] = refresh[j]
           \/ refresh'[j].pc = "idle"
           \/ /\ refresh[j].pc = "load" /\ refresh'[j].version = source
              /\ refresh'[j].call = refresh[j].call
  <2>1. refresh[k] \in RefreshStates /\ source \in Versions
    BY DEF IInv, EngineOK
  <2>2. CASE RefreshReads(k)
    <3> DEFINE now == [refresh[k] EXCEPT !.pc = "loaded", !.version = source]
    <3>1. refresh[k].pc = "load" /\ refresh' = [refresh EXCEPT ![k] = now]
      BY <2>2 DEF RefreshReads
    <3>2. now \in RefreshStates /\ now.version = source /\ now.call = refresh[k].call
      BY <2>1 DEF RefreshStates
    <3> HIDE DEF now
    <3> QED
      BY <3>1, <3>2 DEF IInv, EngineOK
  <2>3. CASE RefreshEnds(k)
    <3>1. NoRefresh \in RefreshStates /\ NoRefresh.pc = "idle"
      BY DEF NoRefresh, RefreshStates
    <3> QED
      BY <2>3, <3>1 DEF RefreshEnds, IInv, EngineOK
  <2> QED
    BY <2>2, <2>3
<1>4. EngineOK' /\ IndexMatchesEntries'
  BY <1>1, <1>2, <1>3 DEF IInv, EngineOK, StoreFacts, callVars, historyVars
<1>5. SlotInv' /\ FloorInv'
  BY <1>1 DEF IInv, SlotInv, FloorInv, callVars, historyVars
<1>6. FreshInv'
  <2>1. \A j \in Keys : source >= floor[j]
    BY DEF IInv, EngineOK, Versions
  <2>2. \A j \in Keys : refresh'[j].pc = "loaded" => refresh'[j].version >= floor'[j]
    BY <1>1, <1>3, <2>1 DEF IInv, FreshInv, historyVars
  <2> QED
    BY <1>1, <1>2, <2>2 DEF IInv, FreshInv, callVars, historyVars
<1>7. WriteInv'
  <2>1. source \in Versions
    BY DEF IInv, EngineOK
  <2>2. \A j \in Keys : /\ refresh'[j].pc = "loaded" => refresh'[j].version \in Versions
                        /\ refresh'[j].pc # "idle" => refresh'[j].call \in Calls
    BY <1>3, <2>1 DEF IInv, WriteInv
  <2> QED
    BY <1>1, <2>2 DEF IInv, WriteInv, callVars
<1> QED
  BY <1>4, <1>5, <1>6, <1>7 DEF IInv

-----------------------------------------------------------------------------
(* Invalidations.  The floor of a key rises when nothing is under way for it,
   and then nothing older is left anywhere.                                *)
LEMMA InvalidationKeeps ==
  ASSUME IInv, NEW ks \in SUBSET Keys, Raise(ks),
         StoreFacts', \A k \in Keys : entries'[k] = IF k \in ks THEN NoEntry ELSE entries[k],
         UNCHANGED <<source, pc, leader, seen, value, refresh, since, cacheFaults>>,
         slot' \in [Keys -> Calls \cup {NoCall}], cut' \in [Keys -> BOOLEAN],
         SlotInv'
  PROVE  IInv'
<1>1. \A k \in Keys : floor'[k] = IF k \in ks /\ Quiet(k) THEN source ELSE floor[k]
  BY DEF Raise
<1>2. floor' \in [Keys -> 0..source]
  BY DEF Raise, IInv, EngineOK, Versions
<1>3. EngineOK' /\ IndexMatchesEntries'
  BY <1>2 DEF IInv, EngineOK, StoreFacts
<1>4. FloorInv'
  <2>1. \A c \in Calls : pc[c] \in Leading \cup {"joined"} => floor'[KeyOf[c]] = floor[KeyOf[c]]
    BY <1>1, CacheAssumption DEF Quiet, Leading
  <2> QED
    BY <2>1 DEF IInv, FloorInv
<1>5. FreshInv'
  <2>1. \A k \in Keys : Present(k)' => entries'[k].value >= floor'[k]
    BY <1>1 DEF IInv, FreshInv, Present
  <2>2. \A k \in Keys : refresh'[k].pc = "loaded" => refresh'[k].version >= floor'[k]
    BY <1>1 DEF IInv, FreshInv, Quiet
  <2> QED
    BY <2>1, <2>2 DEF IInv, FreshInv
<1>6. WriteInv'
  BY DEF IInv, WriteInv
<1> QED
  BY <1>3, <1>4, <1>5, <1>6 DEF IInv

LEMMA InvalidateKeeps ==
  ASSUME IInv, NEW k \in Keys, Invalidate(k)
  PROVE  IInv'
<1> DEFINE ks == {k}
<1>1. StoreFacts
  BY DEF IInv, EngineOK, StoreFacts
<1>2. StoreFacts' /\ \A j \in Keys : entries'[j] = IF j \in ks THEN NoEntry ELSE entries[j]
  BY <1>1, DeleteKeeps DEF Invalidate, StoreFacts
<1>3. /\ Raise(ks)
      /\ UNCHANGED <<source, pc, leader, seen, value, refresh, since, cacheFaults>>
      /\ slot' = [slot EXCEPT ![k] = NoCall]
      /\ cut' = [cut EXCEPT ![k] = cut[k] \/ slot[k] # NoCall]
  BY DEF Invalidate
<1>4. slot' \in [Keys -> Calls \cup {NoCall}] /\ cut' \in [Keys -> BOOLEAN]
  BY <1>3 DEF IInv, EngineOK
<1>5. SlotInv'
  <2>1. \A j \in Keys : slot'[j] = IF j = k THEN NoCall ELSE slot[j]
    BY <1>3 DEF IInv, EngineOK
  <2>2. \A j \in Keys : ~ cut'[j] => ~ cut[j] /\ (j = k => slot[k] = NoCall)
    BY <1>3 DEF IInv, EngineOK
  <2> QED
    BY <1>3, <2>1, <2>2, CacheAssumption DEF IInv, SlotInv
<1> HIDE DEF ks
<1>6. ks \in SUBSET Keys
  BY DEF ks
<1> QED
  BY <1>2, <1>3, <1>4, <1>5, <1>6, InvalidationKeeps

LEMMA InvalidateTagKeeps ==
  ASSUME IInv, NEW tag \in Tags, InvalidateTag(tag)
  PROVE  IInv'
<1> DEFINE ks == {k \in Keys : tag \in TagsOf(k)}
<1>1. StoreFacts
  BY DEF IInv, EngineOK, StoreFacts
<1>2. StoreFacts' /\ \A j \in Keys : entries'[j] = IF j \in ks THEN NoEntry ELSE entries[j]
  BY <1>1, DeleteByTagKeeps DEF InvalidateTag
<1>3. /\ Raise(ks)
      /\ UNCHANGED <<source, pc, leader, seen, value, refresh, since, cacheFaults, slot, cut>>
  BY DEF InvalidateTag, callVars
<1>4. slot' \in [Keys -> Calls \cup {NoCall}] /\ cut' \in [Keys -> BOOLEAN] /\ SlotInv'
  BY <1>3 DEF IInv, EngineOK, SlotInv
<1>5. ks \in SUBSET Keys
  OBVIOUS
<1> HIDE DEF ks
<1> QED
  BY <1>2, <1>3, <1>4, <1>5, InvalidationKeeps

-----------------------------------------------------------------------------
LEMMA DataChangesKeeps ==
  ASSUME IInv, DataChanges
  PROVE  IInv'
<1>1. /\ source' = source + 1 /\ source <= MaxVersion
      /\ UNCHANGED <<entries, tagIndex, callVars, refresh, historyVars, cacheFaults>>
  BY DEF DataChanges, storeVars
<1>2. source \in Nat /\ source' \in Versions /\ 0..source \subseteq 0..source'
  BY <1>1, CacheAssumption DEF IInv, EngineOK, Versions
<1>3. floor' \in [Keys -> 0..source']
  BY <1>1, <1>2 DEF IInv, EngineOK, historyVars
<1>4. EngineOK'
  BY <1>1, <1>2, <1>3 DEF IInv, EngineOK, callVars, historyVars
<1>5. IndexMatchesEntries' /\ SlotInv' /\ FloorInv' /\ FreshInv' /\ WriteInv'
  BY <1>1 DEF IInv, IndexMatchesEntries, TagsOf, Present, SlotInv, FloorInv, FreshInv, WriteInv,
     callVars, historyVars
<1> QED
  BY <1>4, <1>5 DEF IInv

LEMMA EntryAgesKeeps ==
  ASSUME IInv, NEW k \in Keys, EntryAges(k)
  PROVE  IInv'
<1> DEFINE older == [entries[k] EXCEPT !.age = IF @ = "fresh" THEN "stale" ELSE "expired"]
<1>1. /\ Present(k) /\ entries' = [entries EXCEPT ![k] = older]
      /\ UNCHANGED <<tagIndex, source, callVars, refresh, historyVars, cacheFaults>>
  BY DEF EntryAges
<1>2. entries[k] \in Entries
  BY <1>1 DEF Present, IInv, EngineOK
<1>3. older \in Entries /\ older.value = entries[k].value /\ older.tags = entries[k].tags
  BY <1>2 DEF Entries
<1> HIDE DEF older
<1>4. older # NoEntry /\ \A j \in Keys : entries'[j] = IF j = k THEN older ELSE entries[j]
  BY <1>1, <1>3, CacheAssumption DEF IInv, EngineOK
<1>5. EngineOK'
  BY <1>1, <1>3 DEF IInv, EngineOK, callVars, historyVars
<1>6. \A j \in Keys : Present(j)' = Present(j) /\ TagsOf(j)' = TagsOf(j)
  BY <1>1, <1>3, <1>4 DEF Present, TagsOf
<1>7. IndexMatchesEntries'
  BY <1>1, <1>6 DEF IInv, IndexMatchesEntries
<1>8. FreshInv'
  BY <1>1, <1>3, <1>4, <1>6 DEF IInv, FreshInv, callVars, historyVars
<1>9. SlotInv' /\ FloorInv' /\ WriteInv'
  BY <1>1 DEF IInv, SlotInv, FloorInv, WriteInv, callVars, historyVars
<1> QED
  BY <1>5, <1>7, <1>8, <1>9 DEF IInv

-----------------------------------------------------------------------------
LEMMA InitEstablishes == CacheInit => IInv
<1> SUFFICES ASSUME CacheInit PROVE IInv
  OBVIOUS
<1> USE CacheAssumption DEF CacheInit, StoreInit
<1>1. NoRefresh \in RefreshStates /\ NoRefresh.pc = "idle"
  BY DEF NoRefresh, RefreshStates
<1>2. 1 \in Versions
  BY DEF Versions
<1>3. EngineOK
  BY <1>1, <1>2 DEF EngineOK
<1>4. IndexMatchesEntries
  BY DEF IndexMatchesEntries, TagsOf, Present
<1>5. SlotInv /\ FloorInv /\ WriteInv
  BY <1>1 DEF SlotInv, FloorInv, WriteInv, Leading
<1>6. FreshInv
  BY <1>1 DEF FreshInv, Present
<1> QED
  BY <1>3, <1>4, <1>5, <1>6 DEF IInv

LEMMA NextKeeps == IInv /\ [CacheNext]_cacheVars => IInv'
<1> SUFFICES ASSUME IInv, [CacheNext]_cacheVars PROVE IInv'
  OBVIOUS
<1>1. ASSUME NEW c \in Calls, Join(c) \/ Lead(c) \/ CallStep(c) PROVE IInv'
  BY <1>1, JoinKeeps, LeadKeeps, CallStepKeeps
<1>2. ASSUME NEW k \in Keys, RefreshReads(k) \/ RefreshEnds(k) \/ Invalidate(k) \/ EntryAges(k)
      PROVE  IInv'
  BY <1>2, RefreshKeeps, InvalidateKeeps, EntryAgesKeeps
<1>3. ASSUME NEW tag \in Tags, InvalidateTag(tag) PROVE IInv'
  BY <1>3, InvalidateTagKeeps
<1>4. CASE DataChanges
  BY <1>4, DataChangesKeeps
<1>5. CASE UNCHANGED cacheVars
  BY <1>5 DEF cacheVars, storeVars, callVars, historyVars, IInv, EngineOK, IndexMatchesEntries,
     TagsOf, Present, SlotInv, FloorInv, FreshInv, WriteInv
<1> QED
  BY <1>1, <1>2, <1>3, <1>4, <1>5 DEF CacheNext

LEMMA IInvInductive == CacheSpec => []IInv
BY InitEstablishes, NextKeeps, PTL DEF CacheSpec

-----------------------------------------------------------------------------
(* The order of the entries.  A full store evicts the head of the list: that the
   head is an entry, and the only one to go, is what bounds it.            *)

PresentKeys == {k \in Keys : Present(k)}
OrderInv    == Lists(lru, PresentKeys) /\ Cardinality(PresentKeys) <= MaxEntries

LEMMA DropOrders ==
  ASSUME OrderInv, NEW gone \in SUBSET Keys, NEW rest \in Without(gone)
  PROVE  Lists(rest, PresentKeys \ gone)
<1>1. Lists(rest, PresentKeys \cap (Keys \ gone))
  BY FilterLists DEF OrderInv, Without
<1>2. PresentKeys \cap (Keys \ gone) = PresentKeys \ gone
  BY DEF PresentKeys
<1> QED
  BY <1>1, <1>2

LEMMA GetOrders ==
  ASSUME OrderInv, NEW k \in Keys, StoreGet(k)
  PROVE  OrderInv'
<1>1. UNCHANGED entries
  BY DEF StoreGet
<1>2. PresentKeys' = PresentKeys
  BY <1>1 DEF PresentKeys, Present
<1>3. CASE Present(k)
  <2>1. PICK rest \in Without({k}) : lru' = Append(rest, k)
    BY <1>3 DEF StoreGet
  <2>2. Lists(rest, PresentKeys \ {k})
    BY <2>1, DropOrders
  <2>3. Lists(lru', (PresentKeys \ {k}) \cup {k})
    BY <2>1, <2>2, AppendLists
  <2>4. (PresentKeys \ {k}) \cup {k} = PresentKeys
    BY <1>3 DEF PresentKeys
  <2>5. Lists(lru, PresentKeys)'
    BY <1>2, <2>3, <2>4 DEF Lists
  <2> QED
    BY <1>2, <2>5 DEF OrderInv
<1>4. CASE ~ Present(k)
  <2>1. lru' = lru
    BY <1>4 DEF StoreGet
  <2>2. Lists(lru, PresentKeys)'
    BY <1>2, <2>1 DEF OrderInv, Lists
  <2> QED
    BY <1>2, <2>2 DEF OrderInv
<1> QED
  BY <1>3, <1>4

LEMMA SetOrders ==
  ASSUME OrderInv, NEW k \in Keys, NEW entry \in Entries, StoreSet(k, entry)
  PROVE  OrderInv'
<1> DEFINE out  == Evicted(k)
           left == PresentKeys \ ({k} \cup out)
<1>0. entry # NoEntry
  BY CacheAssumption
<1>1. IsFiniteSet(PresentKeys) /\ Cardinality(PresentKeys) = Len(lru)
  BY ListsCount DEF OrderInv
<1>2. out = IF ~ Present(k) /\ Len(lru) >= MaxEntries THEN {Head(lru)} ELSE {}
  BY DEF Evicted
<1>3. ~ Present(k) /\ Len(lru) >= MaxEntries =>
        Head(lru) \in PresentKeys \ {k} /\ Len(lru) = MaxEntries
  <2>1. lru \in Seq(PresentKeys) /\ MaxEntries \in Nat \ {0} /\ Len(lru) <= MaxEntries
    BY <1>1, StoreAssumption DEF OrderInv, Lists
  <2>2. Len(lru) >= MaxEntries => lru # << >> /\ Len(lru) = MaxEntries
    BY <2>1
  <2>3. lru # << >> => Head(lru) \in PresentKeys
    BY <2>1
  <2> QED
    BY <2>2, <2>3 DEF PresentKeys
<1>4. out \in SUBSET Keys
  BY <1>2, <1>3 DEF PresentKeys
<1> HIDE DEF out
<1>5. PresentKeys' = left \cup {k}
  <2>1. entries' = [j \in Keys |-> IF j = k THEN entry ELSE IF j \in out THEN NoEntry ELSE entries[j]]
    BY DEF StoreSet, out
  <2> QED
    BY <1>0, <2>1 DEF PresentKeys, Present
<1>6. Lists(lru, PresentKeys)'
  <2>1. PICK rest \in Without({k} \cup out) : lru' = Append(rest, k)
    BY DEF StoreSet, out
  <2>2. ({k} \cup out) \in SUBSET Keys
    BY <1>4
  <2>3. Lists(rest, left)
    BY <2>1, <2>2, DropOrders
  <2>4. Lists(lru', left \cup {k})
    BY <2>1, <2>3, AppendLists
  <2> QED
    BY <1>5, <2>4 DEF Lists
<1>7. Cardinality(left \cup {k}) <= MaxEntries
  <2>1. Cardinality(PresentKeys) \in Nat /\ MaxEntries \in Nat /\ Cardinality(PresentKeys) <= MaxEntries
    BY <1>1, FS_CardinalityType, StoreAssumption DEF OrderInv
  <2>2. CASE Present(k)
    <3>1. left \cup {k} = PresentKeys
      BY <1>2, <2>2 DEF PresentKeys
    <3> QED
      BY <2>1, <3>1
  <2>3. CASE ~ Present(k) /\ ~ Len(lru) >= MaxEntries
    <3>1. left \cup {k} = PresentKeys \cup {k} /\ k \notin PresentKeys
      BY <1>2, <2>3 DEF PresentKeys
    <3>2. Cardinality(PresentKeys \cup {k}) = Cardinality(PresentKeys) + 1
      BY <1>1, <3>1, FS_AddElement
    <3>3. ~ Cardinality(PresentKeys) >= MaxEntries
      BY <1>1, <2>3
    <3>4. Cardinality(left \cup {k}) = Cardinality(PresentKeys) + 1
      BY <3>1, <3>2
    <3> HIDE DEF left
    <3> QED
      BY <2>1, <3>3, <3>4
  <2>4. CASE ~ Present(k) /\ Len(lru) >= MaxEntries
    <3>1. /\ left = PresentKeys \ {Head(lru)} /\ k \notin PresentKeys
          /\ Head(lru) \in PresentKeys
      BY <1>2, <1>3, <2>4 DEF PresentKeys
    <3>2. IsFiniteSet(left) /\ Cardinality(left) = Cardinality(PresentKeys) - 1
      BY <1>1, <3>1, FS_RemoveElement
    <3>3. k \notin left
      BY <3>1
    <3>4. Cardinality(left \cup {k}) = Cardinality(left) + 1
      BY <3>2, <3>3, FS_AddElement
    <3> HIDE DEF left
    <3> QED
      BY <2>1, <3>2, <3>4
  <2> QED
    BY <2>2, <2>3, <2>4
<1> QED
  BY <1>5, <1>6, <1>7 DEF OrderInv

LEMMA DropKeepsOrder ==
  ASSUME OrderInv, NEW gone \in SUBSET Keys, lru' \in Without(gone),
         entries' = [k \in Keys |-> IF k \in gone THEN NoEntry ELSE entries[k]]
  PROVE  OrderInv'
<1>1. PresentKeys' = PresentKeys \ gone
  BY DEF PresentKeys, Present
<1>2. Lists(lru', PresentKeys \ gone)
  BY DropOrders
<1>3. Lists(lru, PresentKeys)'
  BY <1>1, <1>2 DEF Lists
<1>4. IsFiniteSet(PresentKeys)
  BY ListsCount DEF OrderInv
<1>5. Cardinality(PresentKeys \ gone) <= Cardinality(PresentKeys)
      /\ IsFiniteSet(PresentKeys \ gone)
  <2>1. (PresentKeys \ gone) \in SUBSET PresentKeys
    OBVIOUS
  <2> QED
    BY <1>4, <2>1, FS_Subset
<1>6. Cardinality(PresentKeys \ gone) \in Nat /\ Cardinality(PresentKeys) \in Nat /\ MaxEntries \in Nat
  BY <1>4, <1>5, FS_CardinalityType, StoreAssumption
<1>7. Cardinality(PresentKeys) <= MaxEntries
  BY DEF OrderInv
<1>8. Cardinality(PresentKeys \ gone) <= MaxEntries
  BY <1>5, <1>6, <1>7
<1> QED
  BY <1>1, <1>3, <1>8 DEF OrderInv

LEMMA OrderKept == IInv /\ OrderInv /\ [CacheNext]_cacheVars => OrderInv'
<1> SUFFICES ASSUME IInv, OrderInv, [CacheNext]_cacheVars PROVE OrderInv'
  OBVIOUS
<1>1. CASE UNCHANGED <<entries, lru>>
  BY <1>1 DEF OrderInv, PresentKeys, Present, Lists
<1>2. ASSUME NEW c \in Calls, Lead(c) PROVE OrderInv'
  <2>1. KeyOf[c] \in Keys
    BY CacheAssumption
  <2>2. UNCHANGED storeVars \/ StoreGet(KeyOf[c])
    BY <1>2 DEF Lead
  <2> QED
    BY <1>1, <2>1, <2>2, GetOrders DEF storeVars
<1>3. ASSUME NEW c \in Calls, AnswerWritten(c) PROVE OrderInv'
  <2>1. KeyOf[c] \in Keys /\ value[c] \in Versions /\ TagsFor[c] \in SUBSET Tags
    BY <1>3, CacheAssumption DEF AnswerWritten, IInv, WriteInv
  <2>2. Entry(value[c], c) \in Entries
    BY <2>1 DEF Entry, Entries
  <2>3. UNCHANGED storeVars \/ StoreSet(KeyOf[c], Entry(value[c], c))
    BY <1>3 DEF AnswerWritten
  <2> QED
    BY <1>1, <2>1, <2>2, <2>3, SetOrders DEF storeVars
<1>4. ASSUME NEW k \in Keys, RefreshEnds(k) PROVE OrderInv'
  <2>1. refresh[k].version \in Versions /\ refresh[k].call \in Calls
    BY <1>4 DEF RefreshEnds, IInv, WriteInv
  <2>2. Entry(refresh[k].version, refresh[k].call) \in Entries
    BY <2>1, CacheAssumption DEF Entry, Entries
  <2>3. UNCHANGED storeVars \/ StoreSet(k, Entry(refresh[k].version, refresh[k].call))
    BY <1>4 DEF RefreshEnds
  <2> QED
    BY <1>1, <2>2, <2>3, SetOrders DEF storeVars
<1>5. ASSUME NEW k \in Keys, Invalidate(k) PROVE OrderInv'
  <2>1. entries' = [entries EXCEPT ![k] = NoEntry] /\ lru' \in Without({k})
    BY <1>5 DEF Invalidate, StoreDelete
  <2>2. entries' = [j \in Keys |-> IF j \in {k} THEN NoEntry ELSE entries[j]]
    BY <2>1 DEF IInv, EngineOK
  <2>3. {k} \in SUBSET Keys
    OBVIOUS
  <2> QED
    BY <2>1, <2>2, <2>3, DropKeepsOrder
<1>6. ASSUME NEW tag \in Tags, InvalidateTag(tag) PROVE OrderInv'
  <2> DEFINE gone == tagIndex[tag]
  <2>1. /\ lru' \in Without(gone)
        /\ entries' = [k \in Keys |-> IF k \in gone THEN NoEntry ELSE entries[k]]
    BY <1>6 DEF InvalidateTag, StoreDeleteByTag
  <2>2. gone \in SUBSET Keys
    BY DEF IInv, EngineOK
  <2> QED
    BY <2>1, <2>2, DropKeepsOrder
<1>7. ASSUME NEW k \in Keys, EntryAges(k) PROVE OrderInv'
  <2> DEFINE older == [entries[k] EXCEPT !.age = IF @ = "fresh" THEN "stale" ELSE "expired"]
  <2>1. Present(k) /\ entries' = [entries EXCEPT ![k] = older] /\ UNCHANGED lru
    BY <1>7 DEF EntryAges
  <2>2. entries[k] \in Entries
    BY <2>1 DEF Present, IInv, EngineOK
  <2>3. older \in Entries
    BY <2>2 DEF Entries
  <2> HIDE DEF older
  <2>4. PresentKeys' = PresentKeys
    BY <2>1, <2>3, CacheAssumption DEF PresentKeys, Present, IInv, EngineOK
  <2>5. Lists(lru, PresentKeys)'
    BY <2>1, <2>4 DEF OrderInv, Lists
  <2> QED
    BY <2>4, <2>5 DEF OrderInv
<1>8. ASSUME NEW c \in Calls,
             \/ Join(c) \/ ReadHit(c) \/ ReadMiss(c) \/ LoaderReads(c) \/ AnswerKeptOut(c)
             \/ LoaderFails(c) \/ Stored(c) \/ JoinedSettles(c)
      PROVE  UNCHANGED <<entries, lru>>
  BY <1>8 DEF Join, ReadHit, ReadMiss, LoaderReads, AnswerKeptOut, LoaderFails, Stored,
     JoinedSettles, storeVars
<1>9. ASSUME NEW k \in Keys, RefreshReads(k) PROVE UNCHANGED <<entries, lru>>
  BY <1>9 DEF RefreshReads, storeVars
<1>10. DataChanges \/ UNCHANGED cacheVars => UNCHANGED <<entries, lru>>
  BY DEF DataChanges, cacheVars, storeVars
<1> QED
  BY <1>1, <1>2, <1>3, <1>4, <1>5, <1>6, <1>7, <1>8, <1>9, <1>10 DEF CacheNext, CallStep

LEMMA OrderInitial == CacheInit => OrderInv
<1> SUFFICES ASSUME CacheInit PROVE OrderInv
  OBVIOUS
<1>1. PresentKeys = {} /\ lru = << >>
  BY DEF CacheInit, StoreInit, PresentKeys, Present
<1>2. Cardinality(PresentKeys) = 0
  BY <1>1, FS_EmptySet
<1>3. Lists(lru, PresentKeys)
  BY <1>1 DEF Lists
<1> QED
  BY <1>2, <1>3, StoreAssumption DEF OrderInv

(* The store never outgrows its bound and a tag's bucket holds exactly the keys
   whose entries carry the tag, through evictions, overwrites under other tags
   and failed calls (in-memory-adapter.ts:15-16).                          *)
THEOREM StoreStaysSound == CacheSpec => []StoreSound
<1>1. IInv /\ OrderInv => StoreSound
  <2> SUFFICES ASSUME IInv, OrderInv PROVE StoreSound
    OBVIOUS
  <2>1. lru \in Seq(PresentKeys) /\ lru \in Seq(Keys)
    BY DEF OrderInv, Lists, PresentKeys
  <2>2. {lru[i] : i \in DOMAIN lru} = PresentKeys
    BY <2>1 DEF OrderInv, Lists
  <2>3. Cardinality(PresentKeys) = Len(lru)
    BY ListsCount DEF OrderInv
  <2>4. StoreTypeOK /\ StoreBounded
    BY <2>1, <2>2, <2>3 DEF StoreTypeOK, StoreBounded, OrderInv, PresentKeys, IInv, EngineOK
  <2>5. CacheTypeOK
    BY <2>4 DEF CacheTypeOK, IInv, EngineOK, SlotInv, Settled
  <2> QED
    BY <2>4, <2>5 DEF StoreSound, IInv
<1> QED
  BY <1>1, IInvInductive, OrderInitial, OrderKept, PTL DEF CacheSpec

(* Concurrent misses of a key share one loader, for any number of callers, until
   an invalidation takes a running leader's slot (cache-engine.ts:119, 131). *)
THEOREM MissesShareALoader == CacheSpec => []SingleFlight
<1>1. IInv => SingleFlight
  <2> SUFFICES ASSUME IInv, NEW k \in Keys, ~ cut[k]
               PROVE  Cardinality({c \in Calls : KeyOf[c] = k /\ pc[c] \in Leading}) <= 1
    BY DEF SingleFlight
  <2> DEFINE leading == {c \in Calls : KeyOf[c] = k /\ pc[c] \in Leading}
  <2>1. \A c \in leading : c = slot[k]
    BY DEF IInv, SlotInv
  <2> HIDE DEF leading
  <2>2. CASE leading = {}
    BY <2>2, FS_EmptySet DEF leading
  <2>3. CASE leading # {}
    <3>1. leading = {slot[k]}
      BY <2>1, <2>3
    <3>2. Cardinality(leading) = 1
      BY <3>1, FS_Singleton
    <3> QED
      BY <3>2 DEF leading
  <2> QED
    BY <2>2, <2>3
<1> QED
  BY <1>1, IInvInductive, PTL

(* No call returns data older than what the last quiet invalidation before it
   discarded (cache-engine.ts:327-340).                                    *)
THEOREM InvalidationsLast == CacheSpec => []FreshAfterInvalidate
<1>1. IInv => FreshAfterInvalidate
  BY DEF IInv, FreshInv, FreshAfterInvalidate
<1> QED
  BY <1>1, IInvInductive, PTL

=============================================================================
