--------------------------- MODULE JobQueueProofs ---------------------------
(***************************************************************************)
(* Proofs about JobQueue, for any number of jobs, replicas, dispatches and *)
(* faults, and then about the outboxes that feed it (RequestJobs).         *)
(***************************************************************************)
EXTENDS RequestJobs, TLAPS

(* A call and the row it inserts: the row appears exactly when the INSERT
   succeeds, and a row nobody has leased yet was never dispatched. *)
CallInv ==
  \A c \in Jobs :
    /\ callPc[c] \in {"insert", "read"} => status[c] = "unborn"
    /\ callPc[c] = "open" => status[c] \in {"unborn", "pending"}
    /\ status[c] \in {"unborn", "pending", "aborted"} => attempts[c] = 0 /\ token[c] = 0

(* Tokens come from one counter; at most one worker carries each. *)
LeaseInv ==
  /\ \A j \in Jobs : token[j] <= granted
  /\ \A w \in Workers : lease[w] <= granted
  /\ \A w \in Workers : workPc[w] # "idle" => lease[w] # 0
  /\ \A w \in Workers : workPc[w] = "idle" => lease[w] = 0
  /\ \A v, w \in Workers : lease[v] = lease[w] /\ lease[v] # 0 => v = w

Settling == {"ack", "nackRead", "bury", "release"}

(* A worker about to write an outcome has recorded that very outcome. *)
ReportInv ==
  \A w \in Workers :
    /\ workPc[w] \in Settling => <<cur[w], lease[w], verdict[w]>> \in reports
    /\ workPc[w] = "ack" => verdict[w] = "ok"
    /\ workPc[w] \in {"nackRead", "bury"} => verdict[w] \in {"retry", "final"}
    /\ workPc[w] = "release" => verdict[w] = "retry"

(* What nack read is still true when it writes, if its lease is. *)
DecisionInv ==
  \A w \in Workers :
    /\ workPc[w] = "bury" /\ Held(w) =>
         verdict[w] = "final" \/ attempts[cur[w]] >= Limit[cur[w]]
    /\ workPc[w] = "release" /\ Held(w) => attempts[cur[w]] < Limit[cur[w]]

TableInv == CallInv /\ LeaseInv /\ ReportInv /\ DecisionInv /\ RetriesRemain

-----------------------------------------------------------------------------
(* The steps that touch no worker, and those that touch no enqueue call. *)
CallAction(c) == CallStep(c) \/ Commit(c) \/ Rollback(c) \/ CallFails(c)
ClockAction(j) == BecomeDue(j) \/ AbandonedLeaseExpires(j) \/ LeaseExpiresUnderHolder(j)

(* A row is inserted only by its own call. *)
LEMMA CallActionEffect ==
  ASSUME TypeOK, NEW c \in Jobs, CallAction(c)
  PROVE  /\ UNCHANGED <<attempts, lock, token, workerVars, granted, reports>>
         /\ status' = status \/ \E s \in {"pending", "live", "aborted"} :
                                  status' = [status EXCEPT ![c] = s]
         /\ due' \in [Jobs -> BOOLEAN]
         /\ callPc' \in [Jobs -> CallPcs]
         /\ round' \in [Jobs -> Nat]
         /\ result' \in [Jobs -> Jobs \cup {NoJob}]
         /\ faults' \in Nat /\ slow' = slow
<1> USE DEF CallEnds, TypeOK, CallPcs, tableVars, workerVars, ghostVars
<1>1. CASE Insert(c)
  BY <1>1 DEF Insert, RowInserted
<1>2. CASE InsertConflicts(c)
  BY <1>2 DEF InsertConflicts
<1>3. CASE ReadWinner(c)
  BY <1>3 DEF ReadWinner, Rivals
<1>4. CASE WinnerGone(c)
  BY <1>4, JobQueueAssumption DEF WinnerGone
<1>5. CASE Commit(c)
  BY <1>5 DEF Commit
<1>6. CASE Rollback(c)
  BY <1>6 DEF Rollback
<1>7. CASE CallFails(c)
  BY <1>7 DEF CallFails, RowInserted
<1> QED
  BY <1>1, <1>2, <1>3, <1>4, <1>5, <1>6, <1>7 DEF CallAction, CallStep

LEMMA ClockActionEffect ==
  ASSUME TypeOK, NEW j \in Jobs, ClockAction(j)
  PROVE  /\ UNCHANGED <<status, attempts, token, callVars, workerVars, granted, reports, faults>>
         /\ lock' = lock \/ lock' = [lock EXCEPT ![j] = "expired"]
         /\ due' \in [Jobs -> BOOLEAN]
         /\ slow' \in Nat
<1> USE DEF TypeOK, callVars, workerVars, ghostVars
<1>1. CASE BecomeDue(j)
  BY <1>1 DEF BecomeDue
<1>2. CASE AbandonedLeaseExpires(j)
  BY <1>2 DEF AbandonedLeaseExpires, LockPasses
<1>3. CASE LeaseExpiresUnderHolder(j)
  BY <1>3 DEF LeaseExpiresUnderHolder, LockPasses
<1> QED
  BY <1>1, <1>2, <1>3 DEF ClockAction

LEMMA NextCases ==
  ASSUME [Next]_vars
  PROVE  \/ \E c \in Jobs : CallAction(c)
         \/ \E j \in Jobs : ClockAction(j)
         \/ \E w \in Workers : Dequeue(w) \/ ExtendLease(w) \/ TickDies(w)
         \/ \E w \in Workers, j \in Jobs : StartHandler(w, j) \/ Refuse(w, j)
         \/ \E w \in Workers, v \in Verdicts : HandlerEnds(w, v)
         \/ \E w \in Workers : \/ Ack(w) \/ LeaseLost(w)
                               \/ NackRead(w) \/ NackBury(w) \/ NackRelease(w)
         \/ UNCHANGED vars
  BY JobQueueAssumption DEF Next, Calls, Runners, Clocks, Keyed, CallAction, CallStep,
     ClockAction, Run, Settle

-----------------------------------------------------------------------------
LEMMA TypeStep ==
  ASSUME TypeOK, [Next]_vars
  PROVE  TypeOK'
<1> USE DEF Statuses, WorkPcs, Verdicts
<1>1. ASSUME NEW c \in Jobs, CallAction(c) PROVE TypeOK'
  BY <1>1, CallActionEffect DEF TypeOK, workerVars
<1>2. ASSUME NEW j \in Jobs, ClockAction(j) PROVE TypeOK'
  BY <1>2, ClockActionEffect DEF TypeOK, callVars, workerVars
<1> USE DEF TypeOK, tableVars, callVars, workerVars, ghostVars
<1>3. ASSUME NEW w \in Workers, Dequeue(w) PROVE TypeOK'
  <2>1. PICK S \in SUBSET Eligible :
          /\ lock'     = [j \in Jobs |-> IF j \in S THEN "held" ELSE lock[j]]
          /\ attempts' = [j \in Jobs |-> IF j \in S THEN attempts[j] + 1 ELSE attempts[j]]
          /\ token'    = [j \in Jobs |-> IF j \in S THEN granted + 1 ELSE token[j]]
          /\ batch'    = [batch EXCEPT ![w] = S]
    BY <1>3 DEF Dequeue
  <2>2. S \subseteq Jobs
    BY DEF Eligible
  <2>3. lock' \in [Jobs -> {"none", "held", "expired"}] /\ attempts' \in [Jobs -> Nat]
        /\ token' \in [Jobs -> Nat]
    BY <2>1
  <2>4. batch' \in [Workers -> SUBSET Jobs]
    BY <2>1, <2>2
  <2> QED
    BY <1>3, <2>3, <2>4 DEF Dequeue
<1>4. ASSUME NEW w \in Workers, ExtendLease(w) PROVE TypeOK'
  BY <1>4 DEF ExtendLease
<1>5. ASSUME NEW w \in Workers, TickDies(w) PROVE TypeOK'
  BY <1>5 DEF TickDies
<1>6. ASSUME NEW w \in Workers, NEW j \in Jobs, StartHandler(w, j) \/ Refuse(w, j)
      PROVE TypeOK'
  <2>1. PICK pc \in {"handler", "nackRead"}, v \in Verdicts : Take(w, j, pc, v)
    BY <1>6 DEF StartHandler, Refuse
  <2>2. /\ workPc' \in [Workers -> WorkPcs] /\ verdict' \in [Workers -> Verdicts]
        /\ cur' \in [Workers -> Jobs \cup {NoJob}]
        /\ UNCHANGED <<tableVars, callVars, lease, granted, faults, slow>>
    BY <2>1 DEF Take
  <2>3. batch' \in [Workers -> SUBSET Jobs]
    BY <2>1 DEF Take
  <2>4. \A u \in Workers : cur'[u] = NoJob <=> workPc'[u] \in {"idle", "next"}
    BY <2>1, JobQueueAssumption DEF Take
  <2>5. reports' \in SUBSET (Jobs \X Nat \X Verdicts)
    <3>1. <<j, lease[w], "final">> \in Jobs \X Nat \X Verdicts
      OBVIOUS
    <3> QED
      BY <1>6, <3>1 DEF StartHandler, Refuse
  <2> QED
    BY <2>2, <2>3, <2>4, <2>5
<1>7. ASSUME NEW w \in Workers, NEW v \in Verdicts, HandlerEnds(w, v) PROVE TypeOK'
  <2>1. cur[w] \in Jobs
    BY <1>7 DEF HandlerEnds
  <2>2. <<cur[w], lease[w], v>> \in Jobs \X Nat \X Verdicts
    BY <2>1
  <2>3. reports' \in SUBSET (Jobs \X Nat \X Verdicts)
    BY <1>7, <2>2 DEF HandlerEnds
  <2>4. /\ workPc' \in [Workers -> WorkPcs] /\ verdict' \in [Workers -> Verdicts]
        /\ UNCHANGED <<tableVars, callVars, batch, cur, lease, granted, faults, slow>>
    BY <1>7 DEF HandlerEnds
  <2>5. \A u \in Workers : cur'[u] = NoJob <=> workPc'[u] \in {"idle", "next"}
    BY <1>7 DEF HandlerEnds
  <2> QED
    BY <2>3, <2>4, <2>5
<1>8. ASSUME NEW w \in Workers, NackRead(w) PROVE TypeOK'
  BY <1>8, JobQueueAssumption DEF NackRead, NackReads
<1>9. ASSUME NEW w \in Workers, Ack(w) \/ LeaseLost(w) \/ NackBury(w) \/ NackRelease(w)
      PROVE TypeOK'
  <2>1. Finished(w)
    BY <1>9 DEF Ack, LeaseLost, NackBury, NackRelease
  <2>2. /\ workPc' \in [Workers -> WorkPcs] /\ cur' \in [Workers -> Jobs \cup {NoJob}]
        /\ lease' \in [Workers -> Nat] /\ verdict' \in [Workers -> Verdicts]
        /\ UNCHANGED <<batch, callVars, ghostVars>>
    BY <2>1 DEF Finished
  <2>3. \A u \in Workers : cur'[u] = NoJob <=> workPc'[u] \in {"idle", "next"}
    BY <2>1 DEF Finished
  <2>4. /\ status' \in [Jobs -> Statuses] /\ lock' \in [Jobs -> {"none", "held", "expired"}]
        /\ token' \in [Jobs -> Nat] /\ due' \in [Jobs -> BOOLEAN] /\ attempts' = attempts
    <3>1. CASE Ack(w)
      BY <3>1 DEF Ack
    <3>2. CASE LeaseLost(w)
      BY <3>2 DEF LeaseLost
    <3>3. CASE NackBury(w)
      BY <3>3 DEF NackBury
    <3>4. CASE NackRelease(w)
      BY <3>4 DEF NackRelease
    <3> QED
      BY <1>9, <3>1, <3>2, <3>3, <3>4
  <2> QED
    BY <2>2, <2>3, <2>4
<1>10. CASE UNCHANGED vars
  BY <1>10 DEF vars
<1> QED
  BY <1>1, <1>2, <1>3, <1>4, <1>5, <1>6, <1>7, <1>8, <1>9, <1>10, NextCases

(* Every variable keeps its type: in particular a runner that is running or
   settling something is always doing it to a job. *)
THEOREM TypeCorrect == Spec => []TypeOK
<1>1. Init => TypeOK
  BY DEF Init, TypeOK, Statuses, CallPcs, WorkPcs, Verdicts
<1>2. TypeOK /\ [Next]_vars => TypeOK'
  BY TypeStep
<1> QED
  BY <1>1, <1>2, PTL DEF Spec

-----------------------------------------------------------------------------
(* The effect of the steps of one worker, for the lemmas below.            *)

SettleAction(w) == Ack(w) \/ LeaseLost(w) \/ NackBury(w) \/ NackRelease(w)

LEMMA DequeueEffect ==
  ASSUME TypeOK, NEW w \in Workers, Dequeue(w)
  PROVE  \E S \in SUBSET Jobs :
           /\ \A j \in S : status[j] = "live" /\ lock[j] # "held"
           /\ \A j \in Jobs :
                /\ token'[j] = IF j \in S THEN granted + 1 ELSE token[j]
                /\ attempts'[j] = IF j \in S THEN attempts[j] + 1 ELSE attempts[j]
           /\ lease' = [lease EXCEPT ![w] = granted + 1]
           /\ workPc[w] = "idle"
           /\ workPc' = [workPc EXCEPT ![w] = "next"]
           /\ granted' = granted + 1
           /\ UNCHANGED <<status, due, callVars, cur, verdict, reports>>
<1>0. Eligible \subseteq Jobs
  BY DEF Eligible
<1>1. PICK S \in SUBSET Jobs :
        /\ S \subseteq Eligible
        /\ attempts' = [j \in Jobs |-> IF j \in S THEN attempts[j] + 1 ELSE attempts[j]]
        /\ token'    = [j \in Jobs |-> IF j \in S THEN granted + 1 ELSE token[j]]
  BY <1>0 DEF Dequeue
<1>2. \A j \in S : status[j] = "live" /\ lock[j] # "held"
  BY <1>1 DEF Eligible
<1> WITNESS S \in SUBSET Jobs
<1> QED
  BY <1>1, <1>2 DEF Dequeue

(* A write that settles a job touches a row only while its lease holds it. *)
LEMMA SettleEffect ==
  ASSUME TypeOK, NEW w \in Workers, SettleAction(w)
  PROVE  /\ Finished(w)
         /\ workPc[w] \in Settling /\ cur[w] \in Jobs
         /\ attempts' = attempts
         /\ \A j \in Jobs : j # cur[w] => status'[j] = status[j] /\ token'[j] = token[j]
         /\ \/ status' = status /\ token' = token
            \/ /\ Held(w)
               /\ token'[cur[w]] \in {token[cur[w]], 0}
               /\ status'[cur[w]] \in {"gone", "failed"}
               /\ workPc[w] \in {"ack", "bury"}
            \/ /\ Held(w)
               /\ token'[cur[w]] = 0
               /\ status' = status
               /\ workPc[w] = "release"
<1> USE JobQueueAssumption DEF TypeOK, Settling
<1>1. CASE Ack(w)
  BY <1>1 DEF Ack
<1>2. CASE LeaseLost(w)
  BY <1>2 DEF LeaseLost, tableVars
<1>3. CASE NackBury(w)
  BY <1>3 DEF NackBury
<1>4. CASE NackRelease(w)
  BY <1>4 DEF NackRelease
<1> QED
  BY <1>1, <1>2, <1>3, <1>4 DEF SettleAction

-----------------------------------------------------------------------------
LEMMA LeaseStep ==
  ASSUME TypeOK, LeaseInv, [Next]_vars
  PROVE  LeaseInv'
<1> USE DEF LeaseInv, TypeOK
<1>1. ASSUME NEW c \in Jobs, CallAction(c) PROVE LeaseInv'
  BY <1>1, CallActionEffect DEF workerVars
<1>2. ASSUME NEW j \in Jobs, ClockAction(j) PROVE LeaseInv'
  BY <1>2, ClockActionEffect DEF workerVars
<1>3. ASSUME NEW w \in Workers, Dequeue(w) PROVE LeaseInv'
  <2>1. granted \in Nat /\ token \in [Jobs -> Nat] /\ lease \in [Workers -> Nat]
    OBVIOUS
  <2>2. granted' = granted + 1 /\ \A j \in Jobs : token'[j] \in {token[j], granted + 1}
    BY <1>3, DequeueEffect
  <2>3. /\ lease'[w] = granted + 1 /\ workPc'[w] = "next"
        /\ \A u \in Workers : u # w => lease'[u] = lease[u] /\ workPc'[u] = workPc[u]
    BY <1>3, DequeueEffect
  <2>4. \A j \in Jobs : token'[j] <= granted'
    BY <2>1, <2>2
  <2>5. \A u \in Workers : lease'[u] <= granted' /\ (u # w => lease'[u] # lease'[w])
    BY <2>1, <2>2, <2>3
  <2>6. \A u \in Workers :
          /\ workPc'[u] # "idle" => lease'[u] # 0
          /\ workPc'[u] = "idle" => lease'[u] = 0
    BY <2>1, <2>3
  <2>7. \A u, v \in Workers : lease'[u] = lease'[v] /\ lease'[u] # 0 => u = v
    BY <2>3, <2>5
  <2> QED
    BY <2>4, <2>5, <2>6, <2>7
<1>4. ASSUME NEW w \in Workers, ExtendLease(w) PROVE LeaseInv'
  BY <1>4 DEF ExtendLease, workerVars, ghostVars
<1>5. ASSUME NEW w \in Workers, TickDies(w) PROVE LeaseInv'
  BY <1>5 DEF TickDies, tableVars
<1>6. ASSUME NEW w \in Workers, NEW j \in Jobs, StartHandler(w, j) \/ Refuse(w, j)
      PROVE LeaseInv'
  BY <1>6 DEF StartHandler, Refuse, Take, tableVars
<1>7. ASSUME NEW w \in Workers, NEW v \in Verdicts, HandlerEnds(w, v) PROVE LeaseInv'
  BY <1>7 DEF HandlerEnds, tableVars
<1>8. ASSUME NEW w \in Workers, NackRead(w) PROVE LeaseInv'
  BY <1>8 DEF NackRead, NackReads, tableVars, ghostVars
<1>9. ASSUME NEW w \in Workers, SettleAction(w) PROVE LeaseInv'
  <2>1. granted' = granted /\ \A j \in Jobs : token'[j] <= token[j]
    BY <1>9, SettleEffect DEF Finished, ghostVars
  <2>2. \A u \in Workers : u # w => lease'[u] = lease[u] /\ workPc'[u] = workPc[u]
    BY <1>9, SettleEffect DEF Finished
  <2>3. \/ lease'[w] = 0 /\ workPc'[w] = "idle"
        \/ lease'[w] = lease[w] /\ workPc'[w] = "next" /\ workPc[w] # "idle"
    BY <1>9, SettleEffect DEF Finished, Settling
  <2>4. \A j \in Jobs : token'[j] <= granted'
    <3> SUFFICES ASSUME NEW j \in Jobs PROVE token'[j] <= granted'
      OBVIOUS
    <3>1. token'[j] \in Nat
      BY TypeStep
    <3> QED
      BY <2>1, <3>1
  <2> QED
    BY <2>1, <2>2, <2>3, <2>4
<1>10. CASE UNCHANGED vars
  BY <1>10 DEF vars, tableVars, workerVars, ghostVars
<1> QED
  BY <1>1, <1>2, <1>3, <1>4, <1>5, <1>6, <1>7, <1>8, <1>9, <1>10, NextCases DEF SettleAction

LEMMA CallInvStep ==
  ASSUME TypeOK, CallInv, [Next]_vars
  PROVE  CallInv'
<1> USE DEF CallInv, TypeOK
<1>1. ASSUME NEW c \in Jobs, CallAction(c) PROVE CallInv'
  <2> USE DEF CallEnds, CallPcs
  <2>0. attempts' = attempts /\ token' = token
    BY <1>1, CallActionEffect
  <2>1. CASE Insert(c)
    BY <2>0, <2>1 DEF Insert, RowInserted
  <2>2. CASE InsertConflicts(c)
    BY <2>0, <2>2 DEF InsertConflicts, tableVars
  <2>3. CASE ReadWinner(c)
    BY <2>0, <2>3 DEF ReadWinner, tableVars
  <2>4. CASE WinnerGone(c)
    BY <2>0, <2>4 DEF WinnerGone, tableVars
  <2>5. CASE Commit(c)
    BY <2>0, <2>5 DEF Commit
  <2>6. CASE Rollback(c)
    BY <2>0, <2>6 DEF Rollback
  <2>7. CASE CallFails(c)
    BY <2>0, <2>7 DEF CallFails, RowInserted, tableVars
  <2> QED
    BY <1>1, <2>1, <2>2, <2>3, <2>4, <2>5, <2>6, <2>7 DEF CallAction, CallStep
<1>2. ASSUME NEW j \in Jobs, ClockAction(j) PROVE CallInv'
  BY <1>2, ClockActionEffect DEF callVars
<1>3. ASSUME NEW w \in Workers, Dequeue(w) PROVE CallInv'
  BY <1>3, DequeueEffect DEF callVars
<1>4. ASSUME NEW w \in Workers, ExtendLease(w) PROVE CallInv'
  BY <1>4 DEF ExtendLease, callVars
<1>5. ASSUME NEW w \in Workers, TickDies(w) PROVE CallInv'
  BY <1>5 DEF TickDies, tableVars, callVars
<1>6. ASSUME NEW w \in Workers, NEW j \in Jobs, StartHandler(w, j) \/ Refuse(w, j)
      PROVE CallInv'
  BY <1>6 DEF StartHandler, Refuse, Take, tableVars, callVars
<1>7. ASSUME NEW w \in Workers, NEW v \in Verdicts, HandlerEnds(w, v) PROVE CallInv'
  BY <1>7 DEF HandlerEnds, tableVars, callVars
<1>8. ASSUME NEW w \in Workers, NackRead(w) PROVE CallInv'
  BY <1>8 DEF NackRead, NackReads, tableVars, callVars
<1>9. ASSUME NEW w \in Workers, SettleAction(w) PROVE CallInv'
  <2>1. callPc' = callPc /\ attempts' = attempts
    BY <1>9, SettleEffect DEF Finished, callVars
  <2>2. \A j \in Jobs : \/ status'[j] = status[j] /\ token'[j] \in {token[j], 0}
                        \/ status[j] = "live" /\ status'[j] \in {"gone", "failed"}
    BY <1>9, SettleEffect DEF Held
  <2> QED
    BY <2>1, <2>2
<1>10. CASE UNCHANGED vars
  BY <1>10 DEF vars, tableVars, callVars
<1> QED
  BY <1>1, <1>2, <1>3, <1>4, <1>5, <1>6, <1>7, <1>8, <1>9, <1>10, NextCases DEF SettleAction

LEMMA ReportStep ==
  ASSUME TypeOK, ReportInv, [Next]_vars
  PROVE  ReportInv'
<1> USE DEF ReportInv, TypeOK, Settling
<1>1. ASSUME NEW c \in Jobs, CallAction(c) PROVE ReportInv'
  BY <1>1, CallActionEffect DEF workerVars
<1>2. ASSUME NEW j \in Jobs, ClockAction(j) PROVE ReportInv'
  BY <1>2, ClockActionEffect DEF workerVars
<1>3. ASSUME NEW w \in Workers, Dequeue(w) PROVE ReportInv'
  <2>1. /\ lease' = [lease EXCEPT ![w] = granted + 1] /\ cur' = cur /\ verdict' = verdict
        /\ workPc' = [workPc EXCEPT ![w] = "next"] /\ reports' = reports
    BY <1>3, DequeueEffect
  <2> QED
    BY <2>1
<1>4. ASSUME NEW w \in Workers, ExtendLease(w) PROVE ReportInv'
  BY <1>4 DEF ExtendLease, workerVars, ghostVars
<1>5. ASSUME NEW w \in Workers, TickDies(w) PROVE ReportInv'
  BY <1>5 DEF TickDies
<1>6. ASSUME NEW w \in Workers, NEW j \in Jobs, StartHandler(w, j) \/ Refuse(w, j)
      PROVE ReportInv'
  BY <1>6 DEF StartHandler, Refuse, Take
<1>7. ASSUME NEW w \in Workers, NEW v \in Verdicts, HandlerEnds(w, v) PROVE ReportInv'
  BY <1>7 DEF HandlerEnds
<1>8. ASSUME NEW w \in Workers, NackRead(w) PROVE ReportInv'
  BY <1>8 DEF NackRead, NackReads, ghostVars
<1>9. ASSUME NEW w \in Workers, SettleAction(w) PROVE ReportInv'
  <2>1. Finished(w)
    BY <1>9, SettleEffect
  <2> QED
    BY <2>1 DEF Finished, ghostVars
<1>10. CASE UNCHANGED vars
  BY <1>10 DEF vars, workerVars, ghostVars
<1> QED
  BY <1>1, <1>2, <1>3, <1>4, <1>5, <1>6, <1>7, <1>8, <1>9, <1>10, NextCases DEF SettleAction

(* Nobody else's step makes a row match a lease it did not match before, or
   counts another dispatch of a row that still matches it. *)
LEMMA HeldBefore ==
  ASSUME TypeOK, CallInv, LeaseInv,
         NEW w \in Workers, workPc[w] \in Settling,
         workPc'[w] = workPc[w], cur'[w] = cur[w], lease'[w] = lease[w], Held(w)',
         \/ \E c \in Jobs : CallAction(c)
         \/ \E j \in Jobs : ClockAction(j)
         \/ \E u \in Workers : Dequeue(u)
         \/ \E u \in Workers : SettleAction(u)
  PROVE  Held(w) /\ attempts'[cur[w]] = attempts[cur[w]]
<1> DEFINE job == cur[w]
<1>0. /\ job \in Jobs /\ lease[w] # 0 /\ lease[w] \in Nat /\ lease[w] <= granted
      /\ granted \in Nat
  BY JobQueueAssumption DEF TypeOK, LeaseInv, Settling
<1>1. status'[job] = "live" /\ token'[job] = lease[w]
  BY DEF Held
<1>2. ASSUME NEW c \in Jobs, CallAction(c) PROVE status[job] = "live" /\ token[job] = lease[w]
                                                /\ attempts' = attempts
  <2>1. token' = token /\ attempts' = attempts
    BY <1>2, CallActionEffect
  <2>2. status[job] \notin {"unborn", "pending", "aborted"}
    BY <2>1, <1>0, <1>1 DEF CallInv
  <2>3. status' = status \/ job # c \/ status[job] \in {"unborn", "pending"}
    BY <1>2, <1>0 DEF CallAction, CallStep, Insert, InsertConflicts, ReadWinner, WinnerGone,
       Commit, Rollback, CallFails, RowInserted, tableVars, CallInv, TypeOK
  <2>4. job # c => status'[job] = status[job]
    BY <1>2, <1>0, CallActionEffect DEF TypeOK
  <2> QED
    BY <2>1, <2>2, <2>3, <2>4, <1>1
<1>3. ASSUME NEW j \in Jobs, ClockAction(j) PROVE status[job] = "live" /\ token[job] = lease[w]
                                                /\ attempts' = attempts
  BY <1>3, <1>1, ClockActionEffect
<1>4. ASSUME NEW u \in Workers, Dequeue(u) PROVE status[job] = "live" /\ token[job] = lease[w]
                                                /\ attempts'[job] = attempts[job]
  BY <1>4, <1>0, <1>1, DequeueEffect
<1>5. ASSUME NEW u \in Workers, SettleAction(u) PROVE status[job] = "live" /\ token[job] = lease[w]
                                                /\ attempts' = attempts
  BY <1>5, <1>0, <1>1, SettleEffect DEF Held
<1> QED
  BY <1>2, <1>3, <1>4, <1>5 DEF Held

(* Between nack's two statements nobody can change what it decided, unless the
   lease is lost, and then the second statement matches nothing. *)
LEMMA DecisionStep ==
  ASSUME TypeOK, CallInv, LeaseInv, ReportInv, DecisionInv, [Next]_vars
  PROVE  DecisionInv'
<1> SUFFICES ASSUME NEW w \in Workers, workPc'[w] \in {"bury", "release"}, Held(w)'
             PROVE  /\ workPc'[w] = "bury" =>
                         verdict'[w] = "final" \/ attempts'[cur'[w]] >= Limit[cur'[w]]
                    /\ workPc'[w] = "release" => attempts'[cur'[w]] < Limit[cur'[w]]
  BY DEF DecisionInv
<1> DEFINE Same == /\ workPc'[w] = workPc[w] /\ cur'[w] = cur[w]
                   /\ lease'[w] = lease[w] /\ verdict'[w] = verdict[w]
<1>0. ASSUME Same, Held(w), attempts'[cur[w]] = attempts[cur[w]]
      PROVE  /\ workPc'[w] = "bury" =>
                  verdict'[w] = "final" \/ attempts'[cur'[w]] >= Limit[cur'[w]]
             /\ workPc'[w] = "release" => attempts'[cur'[w]] < Limit[cur'[w]]
  BY <1>0 DEF DecisionInv
<1> USE DEF TypeOK
<1>1. CASE \E c \in Jobs : CallAction(c)
  BY <1>0, <1>1, CallActionEffect, HeldBefore DEF workerVars, Settling
<1>2. CASE \E j \in Jobs : ClockAction(j)
  BY <1>0, <1>2, ClockActionEffect, HeldBefore DEF workerVars, Settling
<1>3. CASE \E u \in Workers : Dequeue(u)
  <2>1. Same
    BY <1>3, DequeueEffect
  <2> QED
    BY <1>0, <1>3, <2>1, HeldBefore DEF Settling
<1>4. CASE \E u \in Workers : ExtendLease(u)
  BY <1>0, <1>4 DEF ExtendLease, workerVars, Held
<1>5. CASE \E u \in Workers : TickDies(u)
  BY <1>0, <1>5 DEF TickDies, tableVars, Held
<1>6. CASE \E u \in Workers, j \in Jobs : StartHandler(u, j) \/ Refuse(u, j)
  BY <1>0, <1>6 DEF StartHandler, Refuse, Take, tableVars, Held
<1>7. CASE \E u \in Workers, v \in Verdicts : HandlerEnds(u, v)
  BY <1>0, <1>7 DEF HandlerEnds, tableVars, Held
<1>8. CASE \E u \in Workers : NackRead(u)
  <2>1. PICK u \in Workers : NackRead(u)
    BY <1>8
  <2>2. CASE u # w
    BY <1>0, <2>1, <2>2 DEF NackRead, NackReads, tableVars, Held
  <2>3. CASE u = w
    BY <2>1, <2>3, JobQueueAssumption DEF NackRead, NackReads, tableVars, ReportInv
  <2> QED
    BY <2>2, <2>3
<1>9. CASE \E u \in Workers : SettleAction(u)
  <2>1. Same
    BY <1>9, SettleEffect DEF Finished
  <2> QED
    BY <1>0, <1>9, <2>1, HeldBefore DEF Settling
<1>10. CASE UNCHANGED vars
  BY <1>0, <1>10 DEF vars, tableVars, workerVars, Held
<1> QED
  BY <1>1, <1>2, <1>3, <1>4, <1>5, <1>6, <1>7, <1>8, <1>9, <1>10, NextCases DEF SettleAction

LEMMA RetriesStep ==
  ASSUME TypeOK, CallInv, LeaseInv, DecisionInv, RetriesRemain, [Next]_vars
  PROVE  RetriesRemain'
<1> USE DEF TypeOK, RetriesRemain
<1>1. ASSUME NEW c \in Jobs, CallAction(c) PROVE RetriesRemain'
  <2>1. token' = token /\ attempts' = attempts
        /\ \A j \in Jobs : j # c => status'[j] = status[j]
    BY <1>1, CallActionEffect
  <2>2. status' = status \/ status[c] \in {"unborn", "pending"}
    BY <1>1 DEF CallAction, CallStep, Insert, InsertConflicts, ReadWinner, WinnerGone,
       Commit, Rollback, CallFails, RowInserted, tableVars, CallInv
  <2> QED
    BY <2>1, <2>2 DEF CallInv
<1>2. ASSUME NEW j \in Jobs, ClockAction(j) PROVE RetriesRemain'
  BY <1>2, ClockActionEffect
<1>3. ASSUME NEW w \in Workers, Dequeue(w) PROVE RetriesRemain'
  BY <1>3, DequeueEffect
<1>4. ASSUME NEW w \in Workers, ExtendLease(w) PROVE RetriesRemain'
  BY <1>4 DEF ExtendLease
<1>5. ASSUME NEW w \in Workers, TickDies(w) PROVE RetriesRemain'
  BY <1>5 DEF TickDies, tableVars
<1>6. ASSUME NEW w \in Workers, NEW j \in Jobs, StartHandler(w, j) \/ Refuse(w, j)
      PROVE RetriesRemain'
  BY <1>6 DEF StartHandler, Refuse, Take, tableVars
<1>7. ASSUME NEW w \in Workers, NEW v \in Verdicts, HandlerEnds(w, v) PROVE RetriesRemain'
  BY <1>7 DEF HandlerEnds, tableVars
<1>8. ASSUME NEW w \in Workers, NackRead(w) PROVE RetriesRemain'
  BY <1>8 DEF NackRead, NackReads, tableVars
<1>9. ASSUME NEW w \in Workers, SettleAction(w) PROVE RetriesRemain'
  <2>1. /\ attempts' = attempts /\ cur[w] \in Jobs
        /\ \A j \in Jobs : j # cur[w] => status'[j] = status[j] /\ token'[j] = token[j]
    BY <1>9, SettleEffect
  <2>2. \/ status' = status /\ token' = token
        \/ status'[cur[w]] \in {"gone", "failed"}
        \/ attempts[cur[w]] < Limit[cur[w]]
    BY <1>9, SettleEffect DEF DecisionInv
  <2> QED
    BY <2>1, <2>2
<1>10. CASE UNCHANGED vars
  BY <1>10 DEF vars, tableVars
<1> QED
  BY <1>1, <1>2, <1>3, <1>4, <1>5, <1>6, <1>7, <1>8, <1>9, <1>10, NextCases DEF SettleAction

(* The inductive invariant the theorems below rest on. *)
IInv == TypeOK /\ TableInv

LEMMA IInvInductive == Spec => []IInv
<1>1. Init => IInv
  BY DEF Init, IInv, TypeOK, TableInv, CallInv, LeaseInv, ReportInv, DecisionInv,
     RetriesRemain, Statuses, CallPcs, WorkPcs, Verdicts, Settling
<1>2. IInv /\ [Next]_vars => IInv'
  BY TypeStep, CallInvStep, LeaseStep, ReportStep, DecisionStep, RetriesStep
     DEF IInv, TableInv
<1> QED
  BY <1>1, <1>2, PTL DEF Spec

(* A job that nack put back still has attempts left, however the two halves of
   nack interleave with expiries, re-leases, crashes and other workers. *)
THEOREM RetriesAreJustified == Spec => []RetriesRemain
<1>1. IInv => RetriesRemain
  BY DEF IInv, TableInv
<1> QED
  BY <1>1, IInvInductive, PTL

-----------------------------------------------------------------------------
(* No dequeue hands out a job whose lease has not expired: leases taken by any
   number of replicas never overlap in time. *)
THEOREM LeasesAreExclusive == Spec => NoSteal
<1> DEFINE Step == \A j \in Jobs :
       status[j] = "live" /\ lock[j] = "held" => token'[j] \in {token[j], 0}
<1>1. ASSUME IInv, [Next]_vars PROVE Step
  <2> USE <1>1 DEF IInv
  <2>1. ASSUME NEW c \in Jobs, CallAction(c) PROVE Step
    BY <2>1, CallActionEffect
  <2>2. ASSUME NEW j \in Jobs, ClockAction(j) PROVE Step
    BY <2>2, ClockActionEffect
  <2>3. ASSUME NEW w \in Workers, Dequeue(w) PROVE Step
    BY <2>3, DequeueEffect
  <2>4. ASSUME NEW w \in Workers, SettleAction(w) PROVE Step
    BY <2>4, SettleEffect
  <2>5. CASE UNCHANGED token
    BY <2>5
  <2> QED
    BY <1>1, <2>1, <2>2, <2>3, <2>4, <2>5, NextCases DEF SettleAction, ExtendLease, TickDies,
       StartHandler, Refuse, Take, HandlerEnds, NackRead, NackReads, vars, tableVars
<1>2. IInv /\ [Next]_vars => [Step]_vars
  BY <1>1
<1> QED
  BY <1>2, IInvInductive, PTL DEF Spec, NoSteal

(* A live row is settled or released only by the worker that holds its current
   lease, and only with an outcome that worker reached under that lease. *)
THEOREM WritesAreFenced == Spec => FencedWrites
<1> DEFINE Step == \A j \in Jobs :
       /\ status[j] = "live"
       /\ status'[j] # "live" \/ (token'[j] = 0 /\ token[j] # 0)
       => \E w \in Workers : cur[w] = j /\ lease[w] = token[j]
                               /\ <<j, token[j], verdict[w]>> \in reports
<1>1. ASSUME IInv, [Next]_vars PROVE Step
  <2> USE <1>1 DEF IInv, TypeOK
  <2>1. ASSUME NEW c \in Jobs, CallAction(c) PROVE Step
    <3>1. token' = token /\ \A j \in Jobs : j # c => status'[j] = status[j]
      BY <2>1, CallActionEffect
    <3>2. status' = status \/ status[c] \in {"unborn", "pending"}
      BY <2>1 DEF CallAction, CallStep, Insert, InsertConflicts, ReadWinner, WinnerGone,
         Commit, Rollback, CallFails, RowInserted, tableVars, CallInv, TableInv
    <3> QED
      BY <3>1, <3>2
  <2>2. ASSUME NEW j \in Jobs, ClockAction(j) PROVE Step
    BY <2>2, ClockActionEffect
  <2>3. ASSUME NEW w \in Workers, Dequeue(w) PROVE Step
    BY <2>3, DequeueEffect
  <2>4. ASSUME NEW w \in Workers, SettleAction(w) PROVE Step
    <3>1. /\ workPc[w] \in Settling /\ cur[w] \in Jobs
          /\ \A j \in Jobs : j # cur[w] => status'[j] = status[j] /\ token'[j] = token[j]
          /\ (status' = status /\ token' = token) \/ Held(w)
      BY <2>4, SettleEffect
    <3>2. <<cur[w], lease[w], verdict[w]>> \in reports
      BY <3>1 DEF TableInv, ReportInv
    <3> QED
      BY <3>1, <3>2 DEF Held
  <2>5. CASE UNCHANGED <<status, token>>
    BY <2>5
  <2> QED
    BY <1>1, <2>1, <2>2, <2>3, <2>4, <2>5, NextCases DEF SettleAction, ExtendLease, TickDies,
       StartHandler, Refuse, Take, HandlerEnds, NackRead, NackReads, vars, tableVars
<1>2. IInv /\ [Next]_vars => [Step]_vars
  BY <1>1
<1> QED
  BY <1>2, IInvInductive, PTL DEF Spec, FencedWrites

-----------------------------------------------------------------------------
(* What the calls were told.                                               *)

Settled(j) == status[j] \in {"live", "failed", "gone"}

(* The unique index, and what an id in a caller's hands refers to. *)
KeyInv ==
  /\ \A c, d \in Jobs :
       /\ c # d /\ Key[c] = Key[d] /\ Key[c] # NoKey
       /\ status[c] \in {"pending", "live", "failed"}
       => status[d] \notin {"pending", "live", "failed"}
  /\ \A c \in Jobs :
       /\ callPc[c] \in {"open", "done"} => result[c] \in Jobs /\ Key[result[c]] = Key[c]
       /\ callPc[c] = "done" => Settled(result[c])
       /\ callPc[c] = "open" => \/ result[c] = c /\ status[c] = "pending"
                                \/ result[c] # c /\ Settled(result[c])

LEMMA KeyStep ==
  ASSUME TypeOK, CallInv, KeyInv, [Next]_vars
  PROVE  KeyInv'
<1> USE JobQueueAssumption DEF TypeOK, KeyInv, Settled
<1>1. ASSUME NEW c \in Jobs, CallAction(c) PROVE KeyInv'
  <2> USE DEF CallEnds, CallPcs, CallInv
  <2>1. CASE Insert(c)
    BY <2>1 DEF Insert, RowInserted, Rivals, Committed
  <2>2. CASE InsertConflicts(c)
    BY <2>2 DEF InsertConflicts, tableVars
  <2>3. CASE ReadWinner(c)
    BY <2>3 DEF ReadWinner, Rivals, Committed, tableVars
  <2>4. CASE WinnerGone(c)
    BY <2>4 DEF WinnerGone, tableVars
  <2>5. CASE Commit(c)
    BY <2>5 DEF Commit
  <2>6. CASE Rollback(c)
    BY <2>6 DEF Rollback
  <2>7. CASE CallFails(c)
    BY <2>7 DEF CallFails, RowInserted, Rivals, Committed, tableVars
  <2> QED
    BY <1>1, <2>1, <2>2, <2>3, <2>4, <2>5, <2>6, <2>7 DEF CallAction, CallStep
<1>2. ASSUME UNCHANGED <<callPc, result, status>> PROVE KeyInv'
  BY <1>2
<1>3. ASSUME NEW j \in Jobs, ClockAction(j) PROVE KeyInv'
  BY <1>2, <1>3, ClockActionEffect DEF callVars
<1>4. ASSUME NEW w \in Workers, Dequeue(w) PROVE KeyInv'
  BY <1>2, <1>4, DequeueEffect DEF callVars
<1>5. ASSUME NEW w \in Workers, SettleAction(w) PROVE KeyInv'
  <2>1. callPc' = callPc /\ result' = result
    BY <1>5, SettleEffect DEF Finished, callVars
  <2>2. \A j \in Jobs : \/ status'[j] = status[j]
                        \/ status[j] = "live" /\ status'[j] \in {"gone", "failed"}
    BY <1>5, SettleEffect DEF Held
  <2> QED
    BY <2>1, <2>2
<1>6. CASE UNCHANGED vars
  BY <1>2, <1>6 DEF vars, tableVars, callVars
<1> QED
  BY <1>1, <1>2, <1>3, <1>4, <1>5, <1>6, NextCases DEF SettleAction, ExtendLease, TickDies,
     StartHandler, Refuse, Take, HandlerEnds, NackRead, NackReads, tableVars, callVars

(* Two calls on one (name, key) that were both given an id were given the same
   one, unless the first job was acked in between; no call is ever given the id
   of a row that is uncommitted or was rolled back. *)
THEOREM CallsAgree == Spec => []SameKeySameJob
<1>1. Init => KeyInv
  BY DEF Init, KeyInv
<1>2. IInv /\ KeyInv /\ [Next]_vars => KeyInv'
  BY KeyStep DEF IInv, TableInv
<1>3. IInv /\ KeyInv => SameKeySameJob
  BY DEF IInv, TypeOK, KeyInv, SameKeySameJob, Settled
<1> QED
  BY <1>1, <1>2, <1>3, IInvInductive, PTL DEF Spec

-----------------------------------------------------------------------------
(* The queue implements JobContract: every statement is one step of the
   contract or none, whatever dies between two of them.  So a job is settled
   only by an outcome its current lease reached, and kept as failed only for a
   final outcome or when its attempts are used up. *)
THEOREM QueueImplementsContract == Spec => ImplementsContract
<1> DEFINE Abstract == [Contract!Next]_(Contract!contractVars)
<1>1. Init => Contract!Init
  BY DEF Init, Contract!Init, Phase
<1>2. ASSUME IInv, [Next]_vars PROVE Abstract
  <2> USE <1>2 DEF IInv, TypeOK
  <2>1. ASSUME status' = status, UNCHANGED <<token, attempts, granted, reports>>
        PROVE  Abstract
    BY <2>1 DEF Contract!contractVars, Phase
  <2>2. ASSUME NEW c \in Jobs, CallAction(c) PROVE Abstract
    <3>1. UNCHANGED <<token, attempts, granted, reports>>
      BY <2>2, CallActionEffect
    <3>2. CASE status' = status
      BY <2>1, <3>1, <3>2
    <3>3. CASE status' = [status EXCEPT ![c] = "live"]
      <4>1. status[c] \in {"unborn", "pending"} \/ status' = status
        BY <2>2 DEF CallAction, CallStep, Insert, InsertConflicts, ReadWinner, WinnerGone,
           Commit, Rollback, CallFails, RowInserted, tableVars, CallInv, TableInv
      <4>2. CASE status[c] \in {"unborn", "pending"}
        <5>1. Phase[c] = "absent" /\ Phase' = [Phase EXCEPT ![c] = "open"]
          BY <3>3, <4>2 DEF Phase, Statuses
        <5> QED
          BY <3>1, <5>1 DEF Contract!Next, Contract!Submit
      <4> QED
        BY <4>1, <4>2, <3>2
    <3>4. CASE \E s \in {"pending", "aborted"} : status' = [status EXCEPT ![c] = s]
      <4>1. status[c] \in {"unborn", "pending"} \/ status' = status
        BY <2>2 DEF CallAction, CallStep, Insert, InsertConflicts, ReadWinner, WinnerGone,
           Commit, Rollback, CallFails, RowInserted, tableVars, CallInv, TableInv
      <4>2. CASE status[c] \in {"unborn", "pending"}
        <5>1. Phase' = Phase
          BY <3>4, <4>2 DEF Phase, Statuses
        <5> QED
          BY <3>1, <5>1 DEF Contract!contractVars
      <4> QED
        BY <4>1, <4>2, <3>2
    <3> QED
      BY <2>2, <3>2, <3>3, <3>4, CallActionEffect
  <2>3. ASSUME NEW j \in Jobs, ClockAction(j) PROVE Abstract
    BY <2>1, <2>3, ClockActionEffect
  <2>4. ASSUME NEW w \in Workers, Dequeue(w) PROVE Abstract
    <3>1. PICK S \in SUBSET Eligible :
            /\ S # {}
            /\ attempts' = [j \in Jobs |-> IF j \in S THEN attempts[j] + 1 ELSE attempts[j]]
            /\ token'    = [j \in Jobs |-> IF j \in S THEN granted + 1 ELSE token[j]]
      BY <2>4 DEF Dequeue
    <3>2. S \in SUBSET Jobs /\ \A j \in S : Phase[j] = "open"
      BY DEF Eligible, Phase
    <3>3. granted' = granted + 1 /\ reports' = reports /\ Phase' = Phase
      BY <2>4 DEF Dequeue, Phase
    <3>4. Contract!Grant(S)
      BY <3>1, <3>2, <3>3 DEF Contract!Grant
    <3> QED
      BY <3>2, <3>4 DEF Contract!Next
  <2>5. ASSUME NEW w \in Workers, NEW j \in Jobs, NEW v \in Contract!Outcomes,
               workPc[w] # "idle", reports' = reports \cup {<<j, lease[w], v>>},
               UNCHANGED <<tableVars, granted>>
        PROVE  Abstract
    <3>1. lease[w] \in 1..granted
      BY <2>5 DEF TableInv, LeaseInv
    <3>2. Contract!Report(j, lease[w], v)
      BY <2>5, <3>1 DEF Contract!Report, tableVars, Phase
    <3> QED
      BY <2>5, <3>1, <3>2 DEF Contract!Next
  <2>6. ASSUME NEW w \in Workers, NEW j \in Jobs, Refuse(w, j) PROVE Abstract
    BY <2>5, <2>6 DEF Refuse, Take, tableVars, Contract!Outcomes
  <2>7. ASSUME NEW w \in Workers, NEW v \in Verdicts, HandlerEnds(w, v) PROVE Abstract
    <3>1. cur[w] \in Jobs
      BY <2>7 DEF HandlerEnds
    <3> QED
      BY <2>5, <2>7, <3>1 DEF HandlerEnds, tableVars, Contract!Outcomes
  <2>8. ASSUME NEW w \in Workers, SettleAction(w) PROVE Abstract
    <3> DEFINE j == cur[w]
    <3>1. /\ workPc[w] \in Settling /\ j \in Jobs /\ lease[w] # 0
          /\ <<j, lease[w], verdict[w]>> \in reports
      BY <2>8, SettleEffect DEF TableInv, ReportInv, LeaseInv, Settling
    <3>2. granted' = granted /\ reports' = reports /\ attempts' = attempts
      BY <2>8, SettleEffect DEF Finished, ghostVars
    <3>3. CASE LeaseLost(w)
      BY <2>1, <3>2, <3>3 DEF LeaseLost, tableVars
    <3>4. ASSUME Held(w), NEW p \in {"done", "dead", "open"}, NEW s \in Statuses,
                 status' = [status EXCEPT ![j] = s],
                 p = CASE s = "live" -> "open" [] s = "gone" -> "done"
                       [] s = "failed" -> "dead" [] OTHER -> "absent"
          PROVE  Phase[j] = "open" /\ Phase' = [Phase EXCEPT ![j] = p]
      BY <3>1, <3>4 DEF Phase, Held
    <3>5. CASE Ack(w)
      <4>1. Phase[j] = "open" /\ Phase' = [Phase EXCEPT ![j] = "done"]
        BY <3>4, <3>5 DEF Ack, Statuses
      <4>2. Contract!Claimed(j, "ok")
        BY <3>1, <3>5 DEF Ack, Held, Contract!Claimed, TableInv, ReportInv
      <4>3. Contract!Complete(j)
        BY <3>2, <3>5, <4>1, <4>2 DEF Ack, Contract!Complete
      <4> QED
        BY <3>1, <4>3 DEF Contract!Next
    <3>6. CASE NackBury(w)
      <4>1. Phase[j] = "open" /\ Phase' = [Phase EXCEPT ![j] = "dead"]
        BY <3>4, <3>6 DEF NackBury, Statuses
      <4>2. \/ Contract!Claimed(j, "final")
            \/ Contract!Claimed(j, "retry") /\ attempts[j] >= Limit[j]
        BY <3>1, <3>6 DEF NackBury, Held, Contract!Claimed, TableInv, ReportInv, DecisionInv
      <4>3. Contract!Bury(j)
        BY <3>2, <3>6, <4>1, <4>2 DEF NackBury, Contract!Bury
      <4> QED
        BY <3>1, <4>3 DEF Contract!Next
    <3>7. CASE NackRelease(w)
      <4>1. Phase[j] = "open" /\ Phase' = Phase
        BY <3>1, <3>7 DEF NackRelease, Held, Phase
      <4>2. Contract!Claimed(j, "retry") /\ attempts[j] < Limit[j]
        BY <3>1, <3>7 DEF NackRelease, Held, Contract!Claimed, TableInv, ReportInv, DecisionInv
      <4>3. Contract!Release(j)
        BY <3>2, <3>7, <4>1, <4>2 DEF NackRelease, Contract!Release
      <4> QED
        BY <3>1, <4>3 DEF Contract!Next
    <3> QED
      BY <2>8, <3>3, <3>5, <3>6, <3>7 DEF SettleAction
  <2>9. CASE UNCHANGED <<status, token, attempts, granted, reports>>
    BY <2>1, <2>9
  <2> QED
    BY <1>2, <2>2, <2>3, <2>4, <2>6, <2>7, <2>8, <2>9, NextCases DEF SettleAction, ExtendLease,
       TickDies, StartHandler, Take, NackRead, NackReads, vars, tableVars, ghostVars
<1> QED
  BY <1>1, <1>2, IInvInductive, PTL DEF Spec, ImplementsContract, Contract!Spec

-----------------------------------------------------------------------------
(* The outbox (RequestJobs).  A row the call returned the id of is there to
   stay, or was at some time.                                              *)
Seen(j) == j \in Jobs /\ status[j] \in {"live", "failed", "gone"}

ResultInv ==
  \A c \in Jobs :
    /\ callPc[c] = "done" => Seen(result[c])
    /\ callPc[c] = "open" => Seen(result[c]) \/ (result[c] = c /\ status[c] = "pending")

(* The first k calls of r have returned, one may be in progress, and no other
   has begun. *)
FlushAt(r, k) ==
  /\ k + Len(sending[r]) <= Len(Pushes[r])
  /\ \A i \in 1..Len(sending[r]) : sending[r][i] = Pushes[r][k + i]
  /\ \A i \in 1..k : callPc[Pushes[r][i]] \in {"done", "error"}
  /\ \A i \in (k + 1)..Len(Pushes[r]) :
       callPc[Pushes[r][i]] = "insert" \/ (i = k + 1 /\ sending[r] # <<>>)

OutboxInv ==
  /\ sending \in [Requests -> Seq(Jobs)]
  /\ buffer \in [Requests -> Seq(Jobs)]
  /\ promise \in [Jobs -> {"none", "pending", "resolved", "rejected"}]
  /\ reqPc \in [Requests -> {"handling", "discarded", "flushing", "flushed", "dead"}]
  /\ \A r \in Requests :
       /\ Len(buffer[r]) <= Len(Pushes[r])
       /\ \A i \in 1..Len(buffer[r]) : buffer[r][i] = Pushes[r][i]
       /\ \E k \in Nat : FlushAt(r, k)
       /\ reqPc[r] = "handling" \/ r \notin answered => sending[r] = <<>> /\ FlushAt(r, 0)
  /\ \A c \in Jobs : promise[c] = "resolved" => callPc[c] = "done"

RequestInv == TypeOK /\ CallInv /\ ResultInv /\ OutboxInv

-----------------------------------------------------------------------------
LEMMA PushesAreCalls ==
  ASSUME NEW r \in Requests
  PROVE  /\ Len(Pushes[r]) \in Nat /\ DOMAIN Pushes[r] = 1..Len(Pushes[r])
         /\ \A i \in 1..Len(Pushes[r]) : Pushes[r][i] \in Jobs /\ Pushes[r][i] \notin TxCalls
BY RequestJobsAssumption

LEMMA PushesAreDistinct ==
  ASSUME NEW q \in Requests, NEW r \in Requests,
         NEW h \in 1..Len(Pushes[q]), NEW i \in 1..Len(Pushes[r]),
         Pushes[q][h] = Pushes[r][i]
  PROVE  q = r /\ h = i
BY RequestJobsAssumption, PushesAreCalls

(* A call that acts has not returned, and acts on its own row only. *)
LEMMA CallActionIsOwn ==
  ASSUME TypeOK, CallInv, NEW c \in Jobs, CallAction(c)
  PROVE  /\ callPc[c] \in {"insert", "read", "open"}
         /\ \A d \in Jobs \ {c} : /\ callPc'[d] = callPc[d] /\ result'[d] = result[d]
                                  /\ status'[d] = status[d]
         /\ ~ Seen(c) \/ Seen(c)'
<1> USE DEF CallEnds, TypeOK, CallInv, Seen, tableVars
<1>1. CASE Insert(c)
  BY <1>1 DEF Insert, RowInserted
<1>2. CASE InsertConflicts(c)
  BY <1>2 DEF InsertConflicts
<1>3. CASE ReadWinner(c)
  BY <1>3 DEF ReadWinner
<1>4. CASE WinnerGone(c)
  BY <1>4 DEF WinnerGone
<1>5. CASE Commit(c)
  BY <1>5 DEF Commit
<1>6. CASE Rollback(c)
  BY <1>6 DEF Rollback
<1>7. CASE CallFails(c)
  BY <1>7 DEF CallFails, RowInserted
<1> QED
  BY <1>1, <1>2, <1>3, <1>4, <1>5, <1>6, <1>7 DEF CallAction, CallStep

(* What the rest of the queue does to the calls: nothing, and a row it has
   seen does not go back. *)
LEMMA OthersLeaveCalls ==
  ASSUME TypeOK, [Next]_vars, ~ \E c \in Jobs : CallAction(c)
  PROVE  /\ UNCHANGED callVars
         /\ \A j \in Jobs : \/ status'[j] = status[j]
                            \/ status[j] = "live" /\ Seen(j)'
<1>1. ASSUME NEW j \in Jobs, ClockAction(j)
      PROVE  UNCHANGED <<callVars, status>>
  BY <1>1, ClockActionEffect
<1>2. ASSUME NEW w \in Workers, Dequeue(w) \/ ExtendLease(w) \/ TickDies(w)
      PROVE  UNCHANGED <<callVars, status>>
  BY <1>2 DEF Dequeue, ExtendLease, TickDies, tableVars
<1>3. ASSUME NEW w \in Workers, NEW j \in Jobs, StartHandler(w, j) \/ Refuse(w, j)
      PROVE  UNCHANGED <<callVars, status>>
  BY <1>3 DEF StartHandler, Refuse, Take, tableVars
<1>4. ASSUME NEW w \in Workers, NEW v \in Verdicts, HandlerEnds(w, v)
      PROVE  UNCHANGED <<callVars, status>>
  BY <1>4 DEF HandlerEnds, tableVars
<1>5. ASSUME NEW w \in Workers, NackRead(w)
      PROVE  UNCHANGED <<callVars, status>>
  BY <1>5 DEF NackRead, NackReads, tableVars
<1>6. ASSUME NEW w \in Workers, SettleAction(w)
      PROVE  /\ UNCHANGED callVars
             /\ \A j \in Jobs : \/ status'[j] = status[j]
                                \/ status[j] = "live" /\ Seen(j)'
  BY <1>6, SettleEffect DEF Finished, Held, Seen
<1>7. CASE UNCHANGED vars
  BY <1>7 DEF vars, tableVars
<1> QED
  BY <1>1, <1>2, <1>3, <1>4, <1>5, <1>6, <1>7, NextCases DEF SettleAction

LEMMA ResultStep ==
  ASSUME TypeOK, CallInv, ResultInv, [Next]_vars
  PROVE  ResultInv'
<1>1. ASSUME NEW c \in Jobs, CallAction(c)
      PROVE  ResultInv'
  <2>1. \A d \in Jobs : Seen(d) => Seen(d)'
    BY <1>1, CallActionIsOwn DEF Seen
  <2>2. ASSUME NEW d \in Jobs \ {c}
        PROVE  /\ callPc'[d] = "done" => Seen(result[d])'
               /\ callPc'[d] = "open" => Seen(result[d])' \/ (result'[d] = d /\ status'[d] = "pending")
    <3>1. callPc'[d] = callPc[d] /\ result'[d] = result[d] /\ status'[d] = status[d]
      BY <1>1, CallActionIsOwn
    <3>2. Seen(result[d]) => Seen(result[d])'
      <4>1. Seen(result[d]) => result[d] \in Jobs
        BY DEF Seen
      <4> QED
        BY <2>1, <3>1, <4>1 DEF Seen
    <3> QED
      BY <3>1, <3>2 DEF ResultInv
  <2> USE DEF CallEnds, TypeOK, Seen, ResultInv, tableVars
  <2>3. CASE Insert(c)
    BY <2>2, <2>3 DEF Insert, RowInserted
  <2>4. CASE InsertConflicts(c)
    BY <2>2, <2>4 DEF InsertConflicts
  <2>5. CASE ReadWinner(c)
    BY <2>2, <2>5 DEF ReadWinner, Rivals, Committed
  <2>6. CASE WinnerGone(c)
    BY <2>2, <2>6 DEF WinnerGone
  <2>7. CASE Commit(c)
    BY <2>2, <2>7 DEF Commit
  <2>8. CASE Rollback(c)
    BY <2>2, <2>8 DEF Rollback
  <2>9. CASE CallFails(c)
    BY <2>2, <2>9 DEF CallFails, RowInserted
  <2> QED
    BY <1>1, <2>3, <2>4, <2>5, <2>6, <2>7, <2>8, <2>9 DEF CallAction, CallStep
<1>2. CASE ~ \E c \in Jobs : CallAction(c)
  <2>1. callPc' = callPc /\ result' = result
    BY <1>2, OthersLeaveCalls DEF callVars
  <2>2. \A j \in Jobs : Seen(j) => Seen(j)'
    BY <1>2, OthersLeaveCalls DEF Seen
  <2>3. \A j \in Jobs : status[j] = "pending" => status'[j] = "pending"
    BY <1>2, OthersLeaveCalls
  <2>4. ASSUME NEW c \in Jobs, Seen(result[c])
        PROVE  Seen(result[c])'
    <3>1. result[c] \in Jobs
      BY <2>4 DEF Seen
    <3> QED
      BY <2>1, <2>2, <2>4, <3>1 DEF Seen
  <2> QED
    BY <2>1, <2>3, <2>4 DEF ResultInv
<1> QED
  BY <1>1, <1>2

(* A call in progress may act without moving the flush of any request. *)
LEMMA FlushKept ==
  ASSUME OutboxInv, NEW c \in Jobs, Begun(c), callPc[c] \in {"insert", "read", "open"},
         \A d \in Jobs \ {c} : callPc'[d] = callPc[d],
         NEW r \in Requests, NEW k \in Nat, FlushAt(r, k), sending'[r] = sending[r]
  PROVE  FlushAt(r, k)'
<1> USE PushesAreCalls
<1>1. ASSUME NEW i \in 1..k
      PROVE  callPc'[Pushes[r][i]] \in {"done", "error"}
  <2>1. i \in 1..Len(Pushes[r])
    <3>1. Len(sending[r]) \in Nat
      BY DEF OutboxInv
    <3> QED
      BY <3>1 DEF FlushAt
  <2>2. Pushes[r][i] \in Jobs /\ callPc[Pushes[r][i]] \in {"done", "error"}
    BY <2>1 DEF FlushAt
  <2> QED
    BY <2>2
<1>2. ASSUME NEW i \in (k + 1)..Len(Pushes[r]), Pushes[r][i] = c
      PROVE  i = k + 1 /\ sending[r] # <<>>
  <2>1. PICK q \in Requests : sending[q] # <<>> /\ Head(sending[q]) = c
    BY <1>2 DEF Begun
  <2>2. PICK n \in Nat : FlushAt(q, n)
    BY DEF OutboxInv
  <2>3. sending[q] \in Seq(Jobs) /\ Len(sending[q]) >= 1 /\ sending[q][1] = c
    BY <2>1 DEF OutboxInv
  <2>4. n + 1 \in 1..Len(Pushes[q]) /\ Pushes[q][n + 1] = c
    BY <2>2, <2>3 DEF FlushAt
  <2>5. q = r
    BY <1>2, <2>4, PushesAreDistinct
  <2>6. k + 1 \in 1..Len(Pushes[r]) /\ Pushes[r][k + 1] = c
    BY <2>3, <2>5 DEF FlushAt
  <2> QED
    BY <1>2, <2>1, <2>5, <2>6, PushesAreDistinct
<1>3. ASSUME NEW i \in (k + 1)..Len(Pushes[r])
      PROVE  callPc'[Pushes[r][i]] = "insert" \/ (i = k + 1 /\ sending[r] # <<>>)
  BY <1>2 DEF FlushAt
<1> QED
  BY <1>1, <1>3 DEF FlushAt

(* The call at the head has returned: the flush is one call further. *)
LEMMA FlushMoves ==
  ASSUME OutboxInv, NEW r \in Requests, NEW k \in Nat, FlushAt(r, k), sending[r] # <<>>,
         NEW c, c = Head(sending[r]), callPc'[c] \in {"done", "error"},
         \A d \in Jobs \ {c} : callPc'[d] = callPc[d],
         sending'[r] = Tail(sending[r]) \/ sending'[r] = <<>>
  PROVE  FlushAt(r, k + 1)'
<1> USE PushesAreCalls
<1>1. sending[r] \in Seq(Jobs) /\ Len(sending[r]) \in Nat /\ Len(sending[r]) >= 1
  BY DEF OutboxInv
<1>2. k + 1 \in 1..Len(Pushes[r]) /\ Pushes[r][k + 1] = c
  BY <1>1 DEF FlushAt
<1>3. \A i \in 1..Len(Pushes[r]) : i # k + 1 => Pushes[r][i] # c
  BY <1>2, PushesAreDistinct
<1>4. \A i \in 1..(k + 1) : callPc'[Pushes[r][i]] \in {"done", "error"}
  BY <1>2, <1>3 DEF FlushAt
<1>5. \A i \in (k + 2)..Len(Pushes[r]) : callPc'[Pushes[r][i]] = "insert"
  BY <1>3 DEF FlushAt
<1>6. /\ Len(sending'[r]) \in Nat /\ Len(sending'[r]) + 1 <= Len(sending[r])
      /\ \A i \in 1..Len(sending'[r]) : sending'[r][i] = sending[r][i + 1]
  <2>1. CASE sending'[r] = <<>>
    BY <1>1, <2>1
  <2>2. CASE sending'[r] = Tail(sending[r])
    <3>1. /\ Tail(sending[r]) \in Seq(Jobs) /\ Len(Tail(sending[r])) = Len(sending[r]) - 1
          /\ \A i \in 1..(Len(sending[r]) - 1) : Tail(sending[r])[i] = sending[r][i + 1]
      BY <1>1
    <3> QED
      BY <1>1, <2>2, <3>1
  <2> QED
    BY <2>1, <2>2
<1>7. \A i \in 1..Len(sending'[r]) : sending'[r][i] = Pushes[r][k + 1 + i]
  BY <1>1, <1>6 DEF FlushAt
<1>8. (k + 1) + Len(sending'[r]) <= Len(Pushes[r])
  <2> DEFINE left == Len(sending[r])
             after == Len(sending'[r])
             all == Len(Pushes[r])
  <2>1. /\ k + left <= all /\ all \in Nat /\ left \in Nat
        /\ after \in Nat /\ after + 1 <= left
    BY <1>1, <1>6 DEF FlushAt
  <2> HIDE DEF left, after, all
  <2>2. (k + 1) + after <= all
    BY <2>1
  <2> QED
    BY <2>2 DEF after, all
<1>9. (k + 1) + 1 = k + 2
  OBVIOUS
<1> QED
  BY <1>4, <1>5, <1>7, <1>8, <1>9 DEF FlushAt

(* Only the request itself moves its outbox. *)
LEMMA FlushAsBefore ==
  ASSUME NEW r \in Requests, NEW k \in Nat, FlushAt(r, k),
         sending'[r] = sending[r], callPc' = callPc
  PROVE  FlushAt(r, k)'
BY DEF FlushAt

LEMMA QueueStep ==
  ASSUME RequestInv, Queue
  PROVE  TypeOK' /\ CallInv' /\ ResultInv' /\ OutboxInv'
<1> USE DEF RequestInv
<1>1. UNCHANGED outboxVars /\ [Next]_vars
  BY JobQueueAssumption DEF Queue, Next, Calls
<1>2. TypeOK' /\ CallInv' /\ ResultInv'
  BY <1>1, TypeStep, CallInvStep, ResultStep
<1>3. \/ \E c \in Jobs : Begun(c) /\ CallAction(c)
      \/ UNCHANGED callVars
  <2>1. CASE Runners
    <3>1. ASSUME NEW w \in Workers, Dequeue(w) \/ ExtendLease(w) \/ TickDies(w)
          PROVE  UNCHANGED callVars
      BY <3>1 DEF Dequeue, ExtendLease, TickDies
    <3>2. ASSUME NEW w \in Workers, Run(w)
          PROVE  UNCHANGED callVars
      BY <3>2 DEF Run, StartHandler, Refuse, Take, HandlerEnds
    <3>3. ASSUME NEW w \in Workers, Settle(w)
          PROVE  UNCHANGED callVars
      BY <3>3 DEF Settle, Ack, LeaseLost, NackRead, NackReads, NackBury, NackRelease, Finished
    <3> QED
      BY <2>1, <3>1, <3>2, <3>3 DEF Runners
  <2>2. CASE Clocks
    BY <2>2 DEF Clocks, BecomeDue, AbandonedLeaseExpires, LeaseExpiresUnderHolder, LockPasses
  <2>3. CASE ~ Runners /\ ~ Clocks
    <3>1. \A c \in TxCalls : c \in Jobs /\ Begun(c)
      BY JobQueueAssumption DEF Begun
    <3> QED
      BY <2>3, <3>1 DEF Queue, Keyed, CallAction, CallStep
  <2> QED
    BY <2>1, <2>2, <2>3
<1>4. ASSUME NEW r \in Requests, NEW k \in Nat, FlushAt(r, k)
      PROVE  FlushAt(r, k)'
  <2>1. sending' = sending
    BY <1>1 DEF outboxVars
  <2>2. ASSUME NEW c \in Jobs, Begun(c), CallAction(c)
        PROVE  FlushAt(r, k)'
    BY <1>4, <2>1, <2>2, CallActionIsOwn, FlushKept
  <2>3. CASE UNCHANGED callVars
    BY <1>4, <2>1, <2>3, FlushAsBefore DEF callVars
  <2> QED
    BY <1>3, <2>2, <2>3
<1>5. \A c \in Jobs : callPc[c] = "done" => callPc'[c] = "done"
  BY <1>3, CallActionIsOwn DEF callVars
<1>6. /\ sending' = sending /\ buffer' = buffer /\ promise' = promise /\ reqPc' = reqPc
      /\ answered' = answered
  BY <1>1 DEF outboxVars
<1>7. ASSUME NEW r \in Requests
      PROVE  /\ \E k \in Nat : FlushAt(r, k)'
             /\ reqPc[r] = "handling" \/ r \notin answered => sending[r] = <<>> /\ FlushAt(r, 0)'
  BY <1>4 DEF OutboxInv
<1>8. OutboxInv'
  BY <1>5, <1>6, <1>7 DEF OutboxInv
<1> QED
  BY <1>2, <1>8

(* The handler's own steps, and the last one of a flush. *)
LEMMA HandlerStep ==
  ASSUME OutboxInv, NEW r \in Requests,
         Push(r) \/ Flushed(r) \/ \E ok \in BOOLEAN : Finish(r, ok)
  PROVE  OutboxInv'
<1> USE PushesAreCalls
<1>1. callPc' = callPc
  BY DEF Push, Flushed, Finish, vars, callVars
<1>2. CASE Push(r)
  <2> DEFINE c == Pushes[r][Len(buffer[r]) + 1]
  <2>1. /\ reqPc' = reqPc /\ sending' = sending /\ answered' = answered
        /\ buffer' = [buffer EXCEPT ![r] = Append(@, c)]
        /\ promise' = [promise EXCEPT ![c] = IF c \in WithId THEN "pending" ELSE @]
        /\ Len(buffer[r]) + 1 \in 1..Len(Pushes[r])
        /\ c \in Jobs
    BY <1>2 DEF Push, OutboxInv
  <2>2. /\ buffer[r] \in Seq(Jobs) /\ Len(buffer'[r]) = Len(buffer[r]) + 1
        /\ buffer'[r] \in Seq(Jobs)
        /\ \A i \in 1..Len(buffer'[r]) : buffer'[r][i] = Pushes[r][i]
    BY <2>1 DEF OutboxInv
  <2>3. buffer' \in [Requests -> Seq(Jobs)]
    BY <2>1, <2>2 DEF OutboxInv
  <2>4. \A d \in Jobs : promise'[d] = "resolved" => promise[d] = "resolved"
    BY <2>1 DEF OutboxInv
  <2>5. promise' \in [Jobs -> {"none", "pending", "resolved", "rejected"}]
    BY <2>1 DEF OutboxInv
  <2>6. ASSUME NEW q \in Requests
        PROVE  /\ Len(buffer'[q]) <= Len(Pushes[q])
               /\ \A i \in 1..Len(buffer'[q]) : buffer'[q][i] = Pushes[q][i]
    BY <2>1, <2>2 DEF OutboxInv
  <2>7. ASSUME NEW q \in Requests
        PROVE  /\ \E k \in Nat : FlushAt(q, k)'
               /\ reqPc[q] = "handling" \/ q \notin answered => sending[q] = <<>> /\ FlushAt(q, 0)'
    BY <1>1, <2>1, FlushAsBefore DEF OutboxInv
  <2> QED
    BY <1>1, <2>1, <2>3, <2>4, <2>5, <2>6, <2>7 DEF OutboxInv
<1>3. CASE Flushed(r)
  <2>1. /\ reqPc[r] = "flushing" /\ reqPc' = [reqPc EXCEPT ![r] = "flushed"]
        /\ sending' = sending /\ buffer' = buffer /\ answered' = answered /\ promise' = promise
    BY <1>3 DEF Flushed
  <2>2. ASSUME NEW q \in Requests
        PROVE  /\ \E k \in Nat : FlushAt(q, k)'
               /\ reqPc'[q] = "handling" \/ q \notin answered => sending[q] = <<>> /\ FlushAt(q, 0)'
    BY <1>1, <2>1, FlushAsBefore DEF OutboxInv
  <2>3. reqPc' \in [Requests -> {"handling", "discarded", "flushing", "flushed", "dead"}]
    BY <2>1 DEF OutboxInv
  <2> QED
    BY <1>1, <2>1, <2>2, <2>3 DEF OutboxInv
<1>4. ASSUME NEW ok \in BOOLEAN, Finish(r, ok)
      PROVE  OutboxInv'
  <2>1. /\ sending[r] = <<>> /\ FlushAt(r, 0) /\ promise' = promise
        /\ buffer' = [buffer EXCEPT ![r] = <<>>]
        /\ answered' = IF ok THEN answered \cup {r} ELSE answered
        /\ reqPc' = [reqPc EXCEPT ![r] = IF ok THEN "flushing" ELSE "discarded"]
        /\ sending' = IF ok THEN [sending EXCEPT ![r] = buffer[r]] ELSE sending
    BY <1>4 DEF Finish, OutboxInv
  <2>2. FlushAt(r, 0)'
    <3>1. sending'[r] = <<>> \/ sending'[r] = buffer[r]
      BY <2>1 DEF OutboxInv
    <3>2. /\ Len(sending'[r]) <= Len(Pushes[r]) /\ Len(sending'[r]) \in Nat
          /\ \A i \in 1..Len(sending'[r]) : sending'[r][i] = Pushes[r][i]
      BY <3>1 DEF OutboxInv
    <3>3. \A i \in 1..Len(Pushes[r]) : callPc'[Pushes[r][i]] = "insert"
      BY <1>1, <2>1 DEF FlushAt
    <3> QED
      BY <3>2, <3>3 DEF FlushAt
  <2>3. ASSUME NEW q \in Requests
        PROVE  /\ \E k \in Nat : FlushAt(q, k)'
               /\ reqPc'[q] = "handling" \/ q \notin answered' => sending'[q] = <<>> /\ FlushAt(q, 0)'
    <3>1. CASE q = r
      BY <2>1, <2>2, <3>1 DEF OutboxInv
    <3>2. CASE q # r
      <4>1. sending'[q] = sending[q] /\ reqPc'[q] = reqPc[q] /\ (q \in answered' <=> q \in answered)
        BY <2>1, <3>2 DEF OutboxInv
      <4> QED
        BY <1>1, <4>1, FlushAsBefore DEF OutboxInv
    <3> QED
      BY <3>1, <3>2
  <2>4. /\ reqPc' \in [Requests -> {"handling", "discarded", "flushing", "flushed", "dead"}]
        /\ sending' \in [Requests -> Seq(Jobs)] /\ buffer' \in [Requests -> Seq(Jobs)]
    BY <2>1 DEF OutboxInv
  <2>5. \A q \in Requests : /\ Len(buffer'[q]) <= Len(Pushes[q])
                            /\ \A i \in 1..Len(buffer'[q]) : buffer'[q][i] = Pushes[q][i]
    BY <2>1 DEF OutboxInv
  <2> QED
    BY <1>1, <2>1, <2>3, <2>4, <2>5 DEF OutboxInv
<1> QED
  BY <1>2, <1>3, <1>4

LEMMA DispatchStep ==
  ASSUME OutboxInv, NEW r \in Requests, Dispatched(r)
  PROVE  OutboxInv'
<1> DEFINE c == Head(sending[r])
<1>1. /\ sending[r] # <<>> /\ c \in Jobs /\ callPc[c] \in {"done", "error"}
      /\ promise' = [promise EXCEPT ![c] =
           IF c \notin WithId THEN @
           ELSE IF callPc[c] = "done" THEN "resolved" ELSE "rejected"]
      /\ sending' = [sending EXCEPT ![r] = Tail(@)]
      /\ reqPc' = reqPc /\ buffer' = buffer /\ answered' = answered /\ callPc' = callPc
  BY DEF Dispatched, OutboxInv, vars, callVars
<1> HIDE DEF c
<1>2. reqPc[r] # "handling" /\ r \in answered
  BY <1>1 DEF OutboxInv
<1>3. \E k \in Nat : FlushAt(r, k)'
  <2>1. PICK k \in Nat : FlushAt(r, k)
    BY DEF OutboxInv
  <2>2. sending'[r] = Tail(sending[r])
    BY <1>1 DEF OutboxInv
  <2>3. FlushAt(r, k + 1)'
    BY <1>1, <2>1, <2>2, FlushMoves DEF c
  <2> QED
    BY <2>3
<1>4. ASSUME NEW q \in Requests
      PROVE  /\ \E k \in Nat : FlushAt(q, k)'
             /\ reqPc[q] = "handling" \/ q \notin answered => sending'[q] = <<>> /\ FlushAt(q, 0)'
  <2>1. CASE q = r
    BY <1>2, <1>3, <2>1
  <2>2. CASE q # r
    <3>1. sending'[q] = sending[q]
      BY <1>1, <2>2 DEF OutboxInv
    <3> QED
      BY <1>1, <3>1, FlushAsBefore DEF OutboxInv
  <2> QED
    BY <2>1, <2>2
<1>5. sending' \in [Requests -> Seq(Jobs)]
  BY <1>1 DEF OutboxInv
<1>6. \A d \in Jobs : promise'[d] = "resolved" => callPc[d] = "done"
  BY <1>1 DEF OutboxInv
<1>7. promise' \in [Jobs -> {"none", "pending", "resolved", "rejected"}]
  BY <1>1 DEF OutboxInv
<1> QED
  BY <1>1, <1>4, <1>5, <1>6, <1>7 DEF OutboxInv

LEMMA DeathStep ==
  ASSUME RequestInv, NEW r \in Requests, RequestDies(r)
  PROVE  TypeOK' /\ CallInv' /\ ResultInv' /\ OutboxInv'
<1> USE DEF RequestInv
<1>1. /\ reqPc' = [reqPc EXCEPT ![r] = "dead"]
      /\ buffer' = [buffer EXCEPT ![r] = <<>>]
      /\ sending' = [sending EXCEPT ![r] = <<>>]
      /\ promise' = promise /\ answered' = answered
  BY DEF RequestDies
<1>2. sending'[r] = <<>> /\ reqPc'[r] # "handling" /\ buffer'[r] = <<>>
  BY <1>1 DEF OutboxInv
<1>3. /\ sending' \in [Requests -> Seq(Jobs)] /\ buffer' \in [Requests -> Seq(Jobs)]
      /\ reqPc' \in [Requests -> {"handling", "discarded", "flushing", "flushed", "dead"}]
  BY <1>1 DEF OutboxInv
<1>4. \A q \in Requests : /\ Len(buffer'[q]) <= Len(Pushes[q])
                          /\ \A i \in 1..Len(buffer'[q]) : buffer'[q][i] = Pushes[q][i]
  <2>1. \A q \in Requests \ {r} : buffer'[q] = buffer[q]
    BY <1>1 DEF OutboxInv
  <2>2. Len(buffer'[r]) <= Len(Pushes[r]) /\ \A i \in 1..Len(buffer'[r]) : buffer'[r][i] = Pushes[r][i]
    BY <1>2, PushesAreCalls
  <2>3. ASSUME NEW q \in Requests \ {r}
        PROVE  Len(buffer'[q]) <= Len(Pushes[q]) /\ \A i \in 1..Len(buffer'[q]) : buffer'[q][i] = Pushes[q][i]
    BY <2>1 DEF OutboxInv
  <2> QED
    BY <2>2, <2>3
<1>5. ASSUME /\ \A c \in Jobs : callPc[c] = "done" => callPc'[c] = "done"
             /\ \E k \in Nat : FlushAt(r, k)'
             /\ sending[r] = <<>> /\ FlushAt(r, 0) => FlushAt(r, 0)'
             /\ \A q \in Requests \ {r}, k \in Nat : FlushAt(q, k) => FlushAt(q, k)'
      PROVE  OutboxInv'
  <2>1. ASSUME NEW q \in Requests
        PROVE  /\ \E k \in Nat : FlushAt(q, k)'
               /\ reqPc'[q] = "handling" \/ q \notin answered => sending'[q] = <<>> /\ FlushAt(q, 0)'
    <3>1. CASE q = r
      BY <1>2, <1>5, <3>1 DEF OutboxInv
    <3>2. CASE q # r
      <4>1. sending'[q] = sending[q] /\ reqPc'[q] = reqPc[q]
        BY <1>1, <3>2 DEF OutboxInv
      <4>2. \A k \in Nat : FlushAt(q, k) => FlushAt(q, k)'
        BY <1>5, <3>2
      <4> QED
        BY <4>1, <4>2 DEF OutboxInv
    <3> QED
      BY <3>1, <3>2
  <2> QED
    BY <1>1, <1>3, <1>4, <1>5, <2>1 DEF OutboxInv
<1>6. PICK k \in Nat : FlushAt(r, k)
  BY DEF OutboxInv
<1>7. ASSUME NEW c \in Jobs, sending[r] # <<>>, c = Head(sending[r]), CallFails(c)
      PROVE  TypeOK' /\ CallInv' /\ ResultInv' /\ OutboxInv'
  <2>1. CallAction(c) /\ [Next]_vars /\ Begun(c)
    BY <1>7 DEF CallAction, Next, Calls, Begun
  <2>2. TypeOK' /\ CallInv' /\ ResultInv'
    BY <2>1, TypeStep, CallInvStep, ResultStep
  <2>3. callPc'[c] = "error"
    BY <1>7 DEF CallFails, CallEnds, TypeOK
  <2>4. FlushAt(r, k + 1)'
    BY <1>2, <1>6, <1>7, <2>1, <2>3, CallActionIsOwn, FlushMoves
  <2>5. ASSUME NEW q \in Requests \ {r}, NEW n \in Nat, FlushAt(q, n)
        PROVE  FlushAt(q, n)'
    <3>1. sending'[q] = sending[q]
      BY <1>1 DEF OutboxInv
    <3> QED
      BY <2>1, <2>5, <3>1, CallActionIsOwn, FlushKept
  <2>6. \A d \in Jobs : callPc[d] = "done" => callPc'[d] = "done"
    BY <2>1, CallActionIsOwn
  <2> QED
    BY <1>5, <1>7, <2>2, <2>4, <2>5, <2>6
<1>8. ASSUME sending[r] # <<>> => callPc[Head(sending[r])] \in {"done", "error"},
             faults' = faults + 1, faults < MaxFaults,
             UNCHANGED <<tableVars, callVars, workerVars, granted, reports, slow>>
      PROVE  TypeOK' /\ CallInv' /\ ResultInv' /\ OutboxInv'
  <2>1. callPc' = callPc
    BY <1>8 DEF callVars
  <2>2. TypeOK' /\ CallInv' /\ ResultInv'
    BY <1>8 DEF TypeOK, CallInv, ResultInv, Seen, tableVars, callVars, workerVars
  <2>3. \E n \in Nat : FlushAt(r, n)'
    <3>1. CASE sending[r] = <<>>
      BY <1>2, <1>6, <2>1, <3>1, FlushAsBefore
    <3>2. CASE sending[r] # <<>>
      <4>1. FlushAt(r, k + 1)'
        BY <1>2, <1>6, <1>8, <2>1, <3>2, FlushMoves
      <4> QED
        BY <4>1
    <3> QED
      BY <3>1, <3>2
  <2>4. sending[r] = <<>> /\ FlushAt(r, 0) => FlushAt(r, 0)'
    BY <1>2, <2>1, FlushAsBefore
  <2>5. ASSUME NEW q \in Requests \ {r}, NEW n \in Nat, FlushAt(q, n)
        PROVE  FlushAt(q, n)'
    <3>1. sending'[q] = sending[q]
      BY <1>1 DEF OutboxInv
    <3> QED
      BY <2>1, <2>5, <3>1, FlushAsBefore
  <2> QED
    BY <1>5, <2>1, <2>2, <2>3, <2>4, <2>5
<1> QED
  BY <1>7, <1>8 DEF RequestDies

LEMMA OutboxInit == RequestInit => RequestInv
<1> SUFFICES ASSUME RequestInit PROVE RequestInv
  OBVIOUS
<1>1. TypeOK /\ CallInv /\ ResultInv
  BY DEF RequestInit, Init, TypeOK, CallInv, ResultInv, Statuses, CallPcs, WorkPcs, Verdicts
<1>2. \A r \in Requests : sending[r] = <<>> /\ buffer[r] = <<>> /\ FlushAt(r, 0)
  BY PushesAreCalls DEF RequestInit, Init, FlushAt
<1>3. \A r \in Requests :
        Len(buffer[r]) <= Len(Pushes[r]) /\ \A i \in 1..Len(buffer[r]) : buffer[r][i] = Pushes[r][i]
  BY <1>2, PushesAreCalls
<1> QED
  BY <1>1, <1>2, <1>3 DEF RequestInit, RequestInv, OutboxInv

LEMMA RequestStep ==
  ASSUME RequestInv, [RequestNext]_requestVars
  PROVE  RequestInv'
<1>1. CASE Queue
  BY <1>1, QueueStep DEF RequestInv
<1>2. ASSUME NEW r \in Requests,
             Push(r) \/ Flushed(r) \/ Close(r) \/ Dispatched(r) \/ \E ok \in BOOLEAN : Finish(r, ok)
      PROVE  RequestInv'
  <2>1. OutboxInv'
    BY <1>2, HandlerStep, DispatchStep DEF RequestInv, Close
  <2>2. UNCHANGED vars
    BY <1>2 DEF Push, Flushed, Close, Finish, Dispatched
  <2>3. TypeOK' /\ CallInv' /\ ResultInv'
    BY <2>2, TypeStep, CallInvStep, ResultStep DEF RequestInv
  <2> QED
    BY <2>1, <2>3 DEF RequestInv
<1>3. ASSUME NEW r \in Requests, RequestDies(r)
      PROVE  RequestInv'
  BY <1>3, DeathStep DEF RequestInv
<1>4. CASE UNCHANGED requestVars
  <2>1. UNCHANGED vars /\ UNCHANGED outboxVars
    BY <1>4 DEF requestVars
  <2>2. TypeOK' /\ CallInv' /\ ResultInv'
    BY <2>1, TypeStep, CallInvStep, ResultStep DEF RequestInv
  <2>3. OutboxInv'
    <3>1. /\ sending' = sending /\ buffer' = buffer /\ promise' = promise /\ reqPc' = reqPc
          /\ answered' = answered /\ callPc' = callPc
      BY <2>1 DEF outboxVars, vars, callVars
    <3>2. ASSUME NEW r \in Requests
          PROVE  /\ \E k \in Nat : FlushAt(r, k)'
                 /\ reqPc[r] = "handling" \/ r \notin answered => sending[r] = <<>> /\ FlushAt(r, 0)'
      BY <3>1, FlushAsBefore DEF RequestInv, OutboxInv
    <3> QED
      BY <3>1, <3>2 DEF RequestInv, OutboxInv
  <2> QED
    BY <2>2, <2>3 DEF RequestInv
<1> QED
  BY <1>1, <1>2, <1>3, <1>4 DEF RequestNext

LEMMA OutboxIsHonest == RequestInv => OutboxHonest
<1> SUFFICES ASSUME RequestInv, NEW r \in Requests, NEW i \in DOMAIN Pushes[r]
             PROVE  LET c == Pushes[r][i]
                    IN  /\ status[c] # "unborn" => r \in answered
                        /\ callPc[c] # "insert" =>
                             \A h \in 1..(i - 1) : callPc[Pushes[r][h]] \in {"done", "error"}
                        /\ promise[c] = "resolved" => status[result[c]] \in {"live", "failed", "gone"}
  BY DEF OutboxHonest
<1> DEFINE c == Pushes[r][i]
<1>1. i \in 1..Len(Pushes[r]) /\ c \in Jobs /\ Len(Pushes[r]) \in Nat
  BY PushesAreCalls
<1>2. r \notin answered => callPc[c] = "insert"
  BY <1>1 DEF RequestInv, OutboxInv, FlushAt
<1>3. status[c] # "unborn" => r \in answered
  BY <1>1, <1>2 DEF RequestInv, CallInv
<1>4. ASSUME callPc[c] # "insert", NEW h \in 1..(i - 1)
      PROVE  callPc[Pushes[r][h]] \in {"done", "error"}
  <2>1. PICK k \in Nat : FlushAt(r, k)
    BY DEF RequestInv, OutboxInv
  <2>2. i <= k + 1
    BY <1>1, <1>4, <2>1 DEF FlushAt
  <2>3. h \in 1..k
    BY <1>1, <2>2
  <2> QED
    BY <2>1, <2>3 DEF FlushAt
<1>5. promise[c] = "resolved" => Seen(result[c])
  BY <1>1 DEF RequestInv, OutboxInv, ResultInv
<1> QED
  BY <1>3, <1>4, <1>5 DEF Seen

(* What a request enqueues exists only if it was answered with success, in the
   order of its pushes, and an id it hands out is that of a committed job, for
   any number of requests over any state of the queue (outbox.ts:17-60). *)
THEOREM OutboxesAreHonest == RequestSpec => []OutboxHonest
<1>1. RequestInit => RequestInv
  BY OutboxInit
<1>2. RequestInv /\ [RequestNext]_requestVars => RequestInv'
  BY RequestStep
<1>3. RequestInv => OutboxHonest
  BY OutboxIsHonest
<1> QED
  BY <1>1, <1>2, <1>3, PTL DEF RequestSpec

=============================================================================
