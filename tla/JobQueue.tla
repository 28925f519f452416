------------------------------ MODULE JobQueue ------------------------------
(***************************************************************************)
(* The durable job queue: PostgresJobBackend (job-backend-postgres.ts),    *)
(* the enqueue calls that race on it, and the job runners of several       *)
(* replicas (job-runner.ts) that lease, run and settle its rows.           *)
(*                                                                         *)
(* Grain: one action is one SQL statement (each is one autocommit          *)
(* transaction) or one turn of a runner between two awaits.                *)
(*                                                                         *)
(* A row is named after the enqueue call that inserts it: a call inserts   *)
(* at most one row, under an id nobody else can draw.  Clocks are replaced *)
(* by two facts per row, "locked_until has passed" and "available_at has   *)
(* come", that become true by actions of their own.  A lease token is the  *)
(* number of the dequeue statement that wrote it: randomId() is drawn once *)
(* per statement, for the whole batch.                                     *)
(*                                                                         *)
(* A definition named Faulty... is a plausible bug in the one after it: a  *)
(* property is worth stating here when such a bug breaks it.               *)
(***************************************************************************)
EXTENDS Naturals, FiniteSets

CONSTANTS
  Jobs,        \* enqueue calls, and the rows they insert
  Key,         \* per call: its (name, idempotencyKey), NoKey without one
  NoKey,
  TxCalls,     \* the calls made inside a transaction of their caller
  Limit,       \* per job: maxAttempts of its definition
  Workers,     \* one runner loop per replica
  Runnable,    \* per worker: jobs whose definition it has and accepts the input
  BatchSize,
  MaxRounds,   \* MAX_ENQUEUE_ROUNDS
  NoJob,
  MaxFaults,   \* bound: statements that fail and processes that die
  MaxSlow      \* bound: leases that expire while their holder is at work

ASSUME JobQueueAssumption ==
  /\ NoJob \notin Jobs
  /\ TxCalls \subseteq Jobs
  /\ Limit \in [Jobs -> Nat \ {0}]
  /\ Runnable \in [Workers -> SUBSET Jobs]
  /\ BatchSize \in Nat \ {0}
  /\ MaxRounds \in Nat \ {0}

VARIABLES
  \* the table
  status,    \* no row yet, uncommitted, live, failed_at set, deleted, rolled back
  attempts,
  lock,      \* locked_until: none, held (in the future), expired
  due,       \* available_at <= NOW()
  token,     \* lease_token, 0 for NULL; a deleted row keeps its last one here
  \* the enqueue calls
  callPc,
  round,
  result,    \* the jobId the call returned
  \* the workers
  workPc,
  batch,     \* leases of this tick not started yet
  cur,       \* the job being run or settled
  lease,     \* the token its leases carry
  verdict,   \* what runOne is about to write
  \* bookkeeping
  granted,   \* dequeue statements that leased something: the token source
  reports,   \* history: <<job, token, verdict>> reached by a runner
  faults, slow

tableVars  == <<status, attempts, lock, due, token>>
callVars   == <<callPc, round, result>>
workerVars == <<workPc, batch, cur, lease, verdict>>
ghostVars  == <<granted, reports, faults, slow>>
vars == <<tableVars, callVars, workerVars, ghostVars>>

Statuses == {"unborn", "pending", "live", "failed", "gone", "aborted"}
CallPcs  == {"insert", "read", "open", "done", "error"}
WorkPcs  == {"idle", "next", "handler", "ack", "nackRead", "bury", "release"}
Verdicts == {"none", "ok", "retry", "final"}

Init ==
  /\ status   = [j \in Jobs |-> "unborn"]
  /\ attempts = [j \in Jobs |-> 0]
  /\ lock     = [j \in Jobs |-> "none"]
  /\ due      = [j \in Jobs |-> FALSE]
  /\ token    = [j \in Jobs |-> 0]
  /\ callPc   = [j \in Jobs |-> "insert"]
  /\ round    = [j \in Jobs |-> 0]
  /\ result   = [j \in Jobs |-> NoJob]
  /\ workPc   = [w \in Workers |-> "idle"]
  /\ batch    = [w \in Workers |-> {}]
  /\ cur      = [w \in Workers |-> NoJob]
  /\ lease    = [w \in Workers |-> 0]
  /\ verdict  = [w \in Workers |-> "none"]
  /\ granted = 0 /\ reports = {} /\ faults = 0 /\ slow = 0

-----------------------------------------------------------------------------
(* enqueue and enqueueInTransaction                                        *)

Committed(j) == status[j] \in {"live", "failed"}

Keyed == {c \in Jobs : Key[c] # NoKey}

FaultyRivalsIgnoreFailed(c) ==   \* the index covers only rows still to run
  {d \in Jobs \ {c} : Key[c] # NoKey /\ Key[d] = Key[c] /\ status[d] \in {"pending", "live"}}

(* The other rows the unique index on (name, idempotency_key) holds. *)
Rivals(c) ==
  {d \in Jobs \ {c} :
     /\ Key[c] # NoKey
     /\ Key[d] = Key[c]
     /\ Committed(d) \/ status[d] = "pending"}

CallEnds(c, pc, id) ==
  /\ callPc' = [callPc EXCEPT ![c] = pc]
  /\ result' = [result EXCEPT ![c] = id]
  /\ round'  = round

(* The row becomes visible, in the caller's transaction only if it has one;
   delaySeconds decides whether it is due at once. *)
RowInserted(c) ==
  /\ Rivals(c) = {}
  /\ status' = [status EXCEPT ![c] = IF c \in TxCalls THEN "pending" ELSE "live"]
  /\ \E now \in BOOLEAN : due' = [due EXCEPT ![c] = now]
  /\ UNCHANGED <<attempts, lock, token>>

Insert(c) ==
  /\ callPc[c] = "insert"
  /\ RowInserted(c)
  /\ CallEnds(c, IF c \in TxCalls THEN "open" ELSE "done", c)
  /\ UNCHANGED <<workerVars, ghostVars>>

(* ON CONFLICT DO NOTHING.  A rival that is still uncommitted makes the
   statement wait for its transaction, so only a committed one conflicts. *)
InsertConflicts(c) ==
  /\ callPc[c] = "insert"
  /\ \E d \in Rivals(c) : Committed(d)
  /\ callPc' = [callPc EXCEPT ![c] = "read"]
  /\ UNCHANGED <<round, result, tableVars, workerVars, ghostVars>>

(* The loser reads the winner's id. *)
ReadWinner(c) ==
  /\ callPc[c] = "read"
  /\ \E d \in Rivals(c) :
       /\ Committed(d)
       /\ CallEnds(c, IF c \in TxCalls THEN "open" ELSE "done", d)
  /\ UNCHANGED <<tableVars, workerVars, ghostVars>>

FaultyWinnerGone(c) ==           \* while (true), and a SELECT blind to failed rows
  /\ callPc[c] = "read"
  /\ \A d \in Rivals(c) : status[d] # "live"
  /\ callPc' = [callPc EXCEPT ![c] = "insert"]
  /\ UNCHANGED <<round, result, tableVars, workerVars, ghostVars>>

(* The winner was acked in between: insert again, or give up. *)
WinnerGone(c) ==
  /\ callPc[c] = "read"
  /\ \A d \in Rivals(c) : ~ Committed(d)
  /\ IF round[c] + 1 < MaxRounds
       THEN /\ callPc' = [callPc EXCEPT ![c] = "insert"]
            /\ round'  = [round EXCEPT ![c] = @ + 1]
            /\ result' = result
       ELSE CallEnds(c, "error", NoJob)
  /\ UNCHANGED <<tableVars, workerVars, ghostVars>>

(* The caller's COMMIT and ROLLBACK, in its code around enqueueInTransaction. *)
Commit(c) ==
  /\ callPc[c] = "open"
  /\ status' = [status EXCEPT ![c] = IF @ = "pending" THEN "live" ELSE @]
  /\ CallEnds(c, "done", result[c])
  /\ UNCHANGED <<attempts, lock, due, token, workerVars, ghostVars>>

Rollback(c) ==
  /\ callPc[c] = "open"
  /\ status' = [status EXCEPT ![c] = IF @ = "pending" THEN "aborted" ELSE @]
  /\ CallEnds(c, "error", NoJob)
  /\ UNCHANGED <<attempts, lock, due, token, workerVars, ghostVars>>

(* A statement of the call fails, or its answer is lost after it took effect. *)
CallFails(c) ==
  /\ faults < MaxFaults
  /\ callPc[c] \in {"insert", "read"}
  /\ faults' = faults + 1
  /\ \/ UNCHANGED tableVars
     \/ callPc[c] = "insert" /\ c \notin TxCalls /\ RowInserted(c)
  /\ CallEnds(c, "error", NoJob)
  /\ UNCHANGED <<workerVars, granted, reports, slow>>

-----------------------------------------------------------------------------
(* one tick of a runner                                                    *)

FaultyEligibleLocked ==          \* locked_until is not looked at
  {j \in Jobs : status[j] = "live" /\ due[j]}

FaultyEligibleNeverAgain ==      \* only rows that were never locked
  {j \in Jobs : status[j] = "live" /\ lock[j] = "none" /\ due[j]}

Eligible ==
  {j \in Jobs : status[j] = "live" /\ lock[j] # "held" /\ due[j]}

(* One UPDATE claims and marks the batch.  Which eligible rows it takes is
   left open: SKIP LOCKED passes over rows a concurrent statement holds, and
   the rows come back in no particular order. *)
Dequeue(w) ==
  /\ workPc[w] = "idle"
  /\ \E S \in SUBSET Eligible :
       /\ S # {}
       /\ Cardinality(S) <= BatchSize
       /\ lock'     = [j \in Jobs |-> IF j \in S THEN "held" ELSE lock[j]]
       /\ attempts' = [j \in Jobs |-> IF j \in S THEN attempts[j] + 1 ELSE attempts[j]]
       /\ token'    = [j \in Jobs |-> IF j \in S THEN granted + 1 ELSE token[j]]
       /\ batch'    = [batch EXCEPT ![w] = S]
  /\ granted' = granted + 1
  /\ lease'   = [lease EXCEPT ![w] = granted + 1]
  /\ workPc'  = [workPc EXCEPT ![w] = "next"]
  /\ UNCHANGED <<status, due, callVars, cur, verdict, reports, faults, slow>>

(* runOne takes the next lease of the batch. *)
Take(w, j, pc, v) ==
  /\ workPc[w] = "next"
  /\ j \in batch[w]
  /\ batch'   = [batch EXCEPT ![w] = @ \ {j}]
  /\ cur'     = [cur EXCEPT ![w] = j]
  /\ workPc'  = [workPc EXCEPT ![w] = pc]
  /\ verdict' = [verdict EXCEPT ![w] = v]
  /\ UNCHANGED <<tableVars, callVars, lease, granted, faults, slow>>

StartHandler(w, j) ==
  /\ j \in Runnable[w]
  /\ Take(w, j, "handler", "none")
  /\ UNCHANGED reports

(* No definition of that name here, or its schema rejects the input. *)
Refuse(w, j) ==
  /\ j \notin Runnable[w]
  /\ Take(w, j, "nackRead", "final")
  /\ reports' = reports \cup {<<j, lease[w], "final">>}

(* The handler is done: returned, threw, or threw NonRetryableError. *)
HandlerEnds(w, v) ==
  /\ workPc[w] = "handler"
  /\ v \in {"ok", "retry", "final"}
  /\ verdict' = [verdict EXCEPT ![w] = v]
  /\ workPc'  = [workPc EXCEPT ![w] = IF v = "ok" THEN "ack" ELSE "nackRead"]
  /\ reports' = reports \cup {<<cur[w], lease[w], v>>}
  /\ UNCHANGED <<tableVars, callVars, batch, cur, lease, granted, faults, slow>>

FaultyHeldById(w) == status[cur[w]] = "live"   \* WHERE id = $1

(* The row predicate of every write that settles a job. *)
Held(w) == status[cur[w]] = "live" /\ token[cur[w]] = lease[w]

(* ctx.extendLease: an expired lease nobody took over can still be extended. *)
ExtendLease(w) ==
  /\ workPc[w] = "handler"
  /\ Held(w)
  /\ lock' = [lock EXCEPT ![cur[w]] = "held"]
  /\ UNCHANGED <<status, attempts, due, token, callVars, workerVars, ghostVars>>

(* finish returned: the next lease, or the end of the tick. *)
Finished(w) ==
  /\ workPc'  = [workPc EXCEPT ![w] = IF batch[w] = {} THEN "idle" ELSE "next"]
  /\ cur'     = [cur EXCEPT ![w] = NoJob]
  /\ lease'   = [lease EXCEPT ![w] = IF batch[w] = {} THEN 0 ELSE @]
  /\ verdict' = [verdict EXCEPT ![w] = "none"]
  /\ UNCHANGED <<batch, callVars, ghostVars>>

Ack(w) ==
  /\ workPc[w] = "ack"
  /\ Held(w)
  /\ status' = [status EXCEPT ![cur[w]] = "gone"]
  /\ Finished(w)
  /\ UNCHANGED <<attempts, lock, due, token>>

(* The statement matched no row: JobLeaseLostError, which finish swallows. *)
LeaseLost(w) ==
  /\ workPc[w] \in {"ack", "nackRead", "bury", "release"}
  /\ ~ Held(w)
  /\ Finished(w)
  /\ UNCHANGED tableVars

NackReads(w, final) ==
  /\ workPc[w] = "nackRead"
  /\ Held(w)
  /\ workPc' = [workPc EXCEPT ![w] = IF final THEN "bury" ELSE "release"]
  /\ UNCHANGED <<tableVars, callVars, batch, cur, lease, verdict, ghostVars>>

FaultyNackReadOffByOne(w) ==
  NackReads(w, verdict[w] = "final" \/ attempts[cur[w]] > Limit[cur[w]])

FaultyNackReadRetriesAll(w) ==   \* nonRetryable is not looked at
  NackReads(w, attempts[cur[w]] >= Limit[cur[w]])

(* nack reads attempts, then writes: two statements, both fenced. *)
NackRead(w) ==
  NackReads(w, verdict[w] = "final" \/ attempts[cur[w]] >= Limit[cur[w]])

NackBury(w) ==
  /\ workPc[w] = "bury"
  /\ Held(w)
  /\ status' = [status EXCEPT ![cur[w]] = "failed"]
  /\ lock'   = [lock EXCEPT ![cur[w]] = "none"]
  /\ token'  = [token EXCEPT ![cur[w]] = 0]
  /\ Finished(w)
  /\ UNCHANGED <<attempts, due>>

NackRelease(w) ==
  /\ workPc[w] = "release"
  /\ Held(w)
  /\ lock'  = [lock EXCEPT ![cur[w]] = "none"]
  /\ token' = [token EXCEPT ![cur[w]] = 0]
  /\ \E now \in BOOLEAN : due' = [due EXCEPT ![cur[w]] = now]
  /\ Finished(w)
  /\ UNCHANGED <<status, attempts>>

(* The tick ends before its time: the process dies, or a statement fails and
   the error leaves tick().  The rest of the batch stays leased in the table.
   A statement whose answer is lost is that statement followed by this. *)
TickDies(w) ==
  /\ faults < MaxFaults
  /\ workPc[w] # "idle"
  /\ faults'  = faults + 1
  /\ workPc'  = [workPc EXCEPT ![w] = "idle"]
  /\ batch'   = [batch EXCEPT ![w] = {}]
  /\ cur'     = [cur EXCEPT ![w] = NoJob]
  /\ lease'   = [lease EXCEPT ![w] = 0]
  /\ verdict' = [verdict EXCEPT ![w] = "none"]
  /\ UNCHANGED <<tableVars, callVars, granted, reports, slow>>

-----------------------------------------------------------------------------
(* the database clock                                                      *)

BecomeDue(j) ==
  /\ status[j] = "live" /\ ~ due[j]
  /\ due' = [due EXCEPT ![j] = TRUE]
  /\ UNCHANGED <<status, attempts, lock, token, callVars, workerVars, ghostVars>>

AtWork(w, j) == lease[w] = token[j] /\ (cur[w] = j \/ j \in batch[w])

LockPasses(j) ==
  /\ status[j] = "live" /\ lock[j] = "held"
  /\ lock' = [lock EXCEPT ![j] = "expired"]
  /\ UNCHANGED <<status, attempts, due, token, callVars, workerVars,
                 granted, reports, faults>>

(* Nobody works under the lease any more. *)
AbandonedLeaseExpires(j) ==
  /\ \A w \in Workers : ~ AtWork(w, j)
  /\ LockPasses(j)
  /\ slow' = slow

(* The holder, or the jobs before this one in its batch, took too long. *)
LeaseExpiresUnderHolder(j) ==
  /\ slow < MaxSlow
  /\ \E w \in Workers : AtWork(w, j)
  /\ LockPasses(j)
  /\ slow' = slow + 1

-----------------------------------------------------------------------------
CallStep(c) == Insert(c) \/ InsertConflicts(c) \/ ReadWinner(c) \/ WinnerGone(c)

Run(w) == \/ \E j \in Jobs : StartHandler(w, j) \/ Refuse(w, j)
          \/ \E v \in Verdicts : HandlerEnds(w, v)

Settle(w) == Ack(w) \/ LeaseLost(w) \/ NackRead(w) \/ NackBury(w) \/ NackRelease(w)

Calls ==
  \/ \E c \in Jobs    : Insert(c) \/ CallFails(c)
  \/ \E c \in Keyed   : InsertConflicts(c) \/ ReadWinner(c) \/ WinnerGone(c)
  \/ \E c \in TxCalls : Commit(c) \/ Rollback(c)

Runners ==
  \E w \in Workers : Dequeue(w) \/ Run(w) \/ ExtendLease(w) \/ Settle(w) \/ TickDies(w)

Clocks ==
  \E j \in Jobs : BecomeDue(j) \/ AbandonedLeaseExpires(j) \/ LeaseExpiresUnderHolder(j)

Next == Calls \/ Runners \/ Clocks

Spec == Init /\ [][Next]_vars

(* The poll loop keeps ticking, handlers come to an end and clocks advance. *)
QueueFairness ==
  /\ \A w \in Workers : WF_vars(Dequeue(w)) /\ WF_vars(Run(w)) /\ WF_vars(Settle(w))
  /\ \A j \in Jobs : WF_vars(BecomeDue(j)) /\ WF_vars(AbandonedLeaseExpires(j))

(* Statements answer and transactions are closed.  Nothing forces a fault. *)
CallFairness ==
  \A c \in Jobs : WF_vars(CallStep(c)) /\ WF_vars(Commit(c) \/ Rollback(c))

FairSpec == Spec /\ QueueFairness /\ CallFairness

-----------------------------------------------------------------------------
TypeOK ==
  /\ status   \in [Jobs -> Statuses]
  /\ attempts \in [Jobs -> Nat]
  /\ lock     \in [Jobs -> {"none", "held", "expired"}]
  /\ due      \in [Jobs -> BOOLEAN]
  /\ token    \in [Jobs -> Nat]
  /\ callPc   \in [Jobs -> CallPcs]
  /\ round    \in [Jobs -> Nat]
  /\ result   \in [Jobs -> Jobs \cup {NoJob}]
  /\ workPc   \in [Workers -> WorkPcs]
  /\ batch    \in [Workers -> SUBSET Jobs]
  /\ cur      \in [Workers -> Jobs \cup {NoJob}]
  /\ \A w \in Workers : cur[w] = NoJob <=> workPc[w] \in {"idle", "next"}
  /\ lease    \in [Workers -> Nat]
  /\ verdict  \in [Workers -> Verdicts]
  /\ granted  \in Nat
  /\ reports  \in SUBSET (Jobs \X Nat \X Verdicts)
  /\ faults   \in Nat
  /\ slow     \in Nat

(* A job that nack put back has attempts left.  nack decides that from a
   SELECT and writes it in a later UPDATE; if the row could be dispatched in
   between, a job would go round once more than its definition allows. *)
RetriesRemain ==
  \A j \in Jobs :
    status[j] = "live" /\ token[j] = 0 /\ attempts[j] > 0 => attempts[j] < Limit[j]

(* Two calls on one (name, key) that were both given an id were given the
   same job, unless the window closed: one of the two rows was acked.  In
   particular a racing call never returns an uncommitted or rolled back id. *)
SameKeySameJob ==
  \A c, d \in Jobs :
    callPc[c] = "done" /\ callPc[d] = "done" =>
      /\ status[result[c]] \in {"live", "failed", "gone"}
      /\ \/ Key[c] = NoKey \/ Key[d] # Key[c] \/ result[c] = result[d]
         \/ "gone" \in {status[result[c]], status[result[d]]}

(* A lease that has not expired is never taken over: its token is only ever
   cleared, by a nack. *)
NoSteal ==
  [][\A j \in Jobs :
       status[j] = "live" /\ lock[j] = "held" => token'[j] \in {token[j], 0}]_vars

(* A live row is settled, released or extended only by the worker that holds
   its current lease: a late ack or nack of an earlier holder, or the second
   half of a nack whose lease was lost after its first half, changes nothing. *)
FencedWrites ==
  [][\A j \in Jobs :
       /\ status[j] = "live"
       /\ status'[j] # "live" \/ (token'[j] = 0 /\ token[j] # 0)
       => \E w \in Workers : cur[w] = j /\ lease[w] = token[j]
                               /\ <<j, token[j], verdict[w]>> \in reports]_vars

(* Every committed job is acknowledged or kept as failed in the end, whatever
   finite number of crashes, failed statements and slow handlers it meets. *)
JobsSettle == \A j \in Jobs : status[j] = "live" ~> status[j] \in {"gone", "failed"}

(* The queue with its statements, crashes and clocks implements the contract. *)
Phase == [j \in Jobs |-> CASE status[j] = "live"   -> "open"
                           [] status[j] = "gone"   -> "done"
                           [] status[j] = "failed" -> "dead"
                           [] OTHER                -> "absent"]

Contract == INSTANCE JobContract WITH phase <- Phase, owner <- token, tries <- attempts

ImplementsContract == Contract!Spec

=============================================================================
