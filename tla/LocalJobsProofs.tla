-------------------------- MODULE LocalJobsProofs ---------------------------
(***************************************************************************)
(* Proofs about LocalJobs: the worker's loop over the in-memory backend,    *)
(* for any number of jobs, runners, start() and stop() calls.              *)
(***************************************************************************)
EXTENDS LocalJobs, OrderProofs

Active(k) == loopPc[k] \in {"tick", "wait", "woken"}

(* The loop the closure holds is the only one that polls; a stop() in progress
   awaits it, and while it polls for a stopped worker there is one. *)
LoopInv ==
  /\ running \in BOOLEAN
  /\ loop \in Loops \cup {0} /\ wake \in Loops \cup {0}
  /\ loopPc \in [Loops -> {"none", "tick", "wait", "woken", "exited"}]
  /\ stopPc \in [Stops -> {"idle", "waiting", "done"}]
  /\ awaited \in [Stops -> Loops \cup {0}]
  /\ \A k \in Loops : Active(k) => loop = k
  /\ wake # 0 => loopPc[wake] = "wait"
  /\ \A s \in Stops : stopPc[s] = "waiting" =>
       ~ running /\ \A k \in Loops : Active(k) => awaited[s] = k
  /\ (\E k \in Loops : Active(k)) /\ ~ running => \E s \in Stops : stopPc[s] = "waiting"

(* A runner has leases only in its tick, and a run of the loop ticks only
   where the loop awaits it. *)
HandInv ==
  /\ run = [r \in Runners |-> [ticking |-> run[r].ticking, leases |-> run[r].leases,
                               outcome |-> run[r].outcome]]
  /\ \A r \in Runners : run[r].ticking \in BOOLEAN
  /\ \A r \in Runners : ~ run[r].ticking => run[r] = Idle
  /\ \A k \in Loops : run[k].ticking => loopPc[k] = "tick"

IInv == LoopInv /\ HandInv

-----------------------------------------------------------------------------
LEMMA LoopsAreRunners ==
  /\ Loops \subseteq Runners /\ Others \subseteq Runners
  /\ 0 \notin Loops /\ Loops \subseteq Nat
  /\ \A r \in Others : r \notin Loops
BY LocalAssumption, JobWorkerAssumption DEF Loops

LEMMA InitHolds == LocalInit => IInv
<1> SUFFICES ASSUME LocalInit PROVE IInv
  OBVIOUS
<1>1. LoopInv
  BY DEF LocalInit, WorkerInit, LoopInv, Active
<1>2. HandInv
  BY LoopsAreRunners DEF LocalInit, MemoryInit, HandInv, Idle
<1> QED
  BY <1>1, <1>2 DEF IInv

(* What the steps of a runner leave of `run`: only Dequeue begins a tick, only
   TickReturns ends one. *)
LEMMA RunnerKeepsTicks ==
  ASSUME HandInv, NEW r \in Runners, RunnerStep(r)
  PROVE  /\ run' = [q \in Runners |-> [ticking |-> run[q].ticking, leases |-> run'[q].leases,
                                       outcome |-> run'[q].outcome]]
         /\ \A q \in Runners : ~ run[q].ticking => run'[q] = run[q]
<1>1. ASSUME NEW o \in Outcomes, Ends(r, o)
      PROVE  /\ run' = [run EXCEPT ![r].outcome = o] /\ run[r].ticking
  BY <1>1 DEF Ends, Working, HandInv, Idle
<1>2. CASE Extend(r)
  <2>1. run' = run
    BY <1>2 DEF Extend
  <2> QED
    BY <2>1 DEF HandInv
<1>3. ASSUME Settle(r)
      PROVE  /\ run' = [run EXCEPT ![r].leases = Tail(@), ![r].outcome = "none"]
             /\ run[r].ticking
  BY <1>3 DEF Settle, HandInv, Idle
<1> QED
  BY <1>1, <1>2, <1>3 DEF RunnerStep, HandInv

(* A dequeue begins a tick of r and touches no other runner. *)
LEMMA DequeueBegins ==
  ASSUME HandInv, NEW r \in Runners, Dequeue(r)
  PROVE  /\ ~ run[r].ticking
         /\ run' = [q \in Runners |-> [ticking |-> run'[q].ticking, leases |-> run'[q].leases,
                                       outcome |-> run'[q].outcome]]
         /\ run'[r].ticking = TRUE
         /\ \A q \in Runners \ {r} : run'[q] = run[q]
<1>1. PICK at \in Ascending(Picked) :
        run' = [run EXCEPT ![r] =
                  [ticking |-> TRUE, outcome |-> "none",
                   leases |-> [i \in DOMAIN at |-> LeaseOf(pending[at[i]])]]]
  BY DEF Dequeue
<1> DEFINE leased == [i \in DOMAIN at |-> LeaseOf(pending[at[i]])]
<1>2. ~ run[r].ticking /\ run' = [run EXCEPT ![r] = [ticking |-> TRUE, outcome |-> "none", leases |-> leased]]
  BY <1>1 DEF Dequeue
<1> HIDE DEF leased
<1> QED
  BY <1>2 DEF HandInv

LEMMA ReturnIdles ==
  ASSUME HandInv, NEW r \in Runners, TickReturns(r)
  PROVE  run' = [run EXCEPT ![r] = Idle] /\ run[r].ticking
BY DEF TickReturns, TickOver, HandInv

-----------------------------------------------------------------------------
(* The steps of the loop's own variables keep LoopInv. *)
LEMMA StartKeeps ==
  ASSUME LoopInv, Start, AwaitStops
  PROVE  LoopInv'
<1> USE LoopsAreRunners
<1>1. PICK k \in Loops : loopPc[k] = "none" /\ loopPc' = [loopPc EXCEPT ![k] = "tick"] /\ loop' = k
  BY DEF Start
<1>2. ~ running /\ running' = TRUE /\ wake' = wake /\ stopPc' = stopPc /\ awaited' = awaited
  BY DEF Start
<1>3. \A s \in Stops : stopPc[s] # "waiting"
  BY DEF Start
<1>4. \A i \in Loops : ~ Active(i)
  BY <1>2, <1>3 DEF LoopInv
<1>5. \A i \in Loops : Active(i)' => i = k
  BY <1>1, <1>4 DEF Active, LoopInv
<1>6. wake = 0
  BY <1>4 DEF LoopInv, Active
<1> QED
  BY <1>1, <1>2, <1>3, <1>5, <1>6 DEF LoopInv

LEMMA StopKeeps ==
  ASSUME LoopInv, NEW s \in Stops, Stop(s)
  PROVE  LoopInv'
<1> USE LoopsAreRunners
<1>1. /\ running' = FALSE /\ wake' = 0 /\ loop' = loop
      /\ loopPc' = IF wake = 0 THEN loopPc ELSE [loopPc EXCEPT ![wake] = "woken"]
      /\ stopPc' = [stopPc EXCEPT ![s] = "waiting"] /\ awaited' = [awaited EXCEPT ![s] = loop]
  BY DEF Stop
<1>2. \A k \in Loops : Active(k)' <=> Active(k)
  BY <1>1 DEF LoopInv, Active
<1>3. /\ loopPc' \in [Loops -> {"none", "tick", "wait", "woken", "exited"}]
      /\ stopPc' \in [Stops -> {"idle", "waiting", "done"}]
      /\ awaited' \in [Stops -> Loops \cup {0}]
  BY <1>1 DEF LoopInv
<1>4. ASSUME NEW q \in Stops, stopPc'[q] = "waiting", NEW k \in Loops, Active(k)
      PROVE  awaited'[q] = k
  <2>1. loop = k
    BY <1>4 DEF LoopInv
  <2>2. CASE q = s
    BY <1>1, <2>1, <2>2 DEF LoopInv
  <2>3. CASE q # s
    BY <1>1, <1>4, <2>3 DEF LoopInv
  <2> QED
    BY <2>2, <2>3
<1>5. stopPc'[s] = "waiting"
  BY <1>1 DEF LoopInv
<1> QED
  BY <1>1, <1>2, <1>3, <1>4, <1>5 DEF LoopInv

LEMMA StopResolvesKeeps ==
  ASSUME LoopInv, NEW s \in Stops, StopResolves(s)
  PROVE  LoopInv'
<1> USE LoopsAreRunners
<1>1. /\ stopPc[s] = "waiting" /\ loop' = 0
      /\ awaited[s] # 0 => loopPc[awaited[s]] = "exited"
      /\ stopPc' = [stopPc EXCEPT ![s] = "done"]
      /\ running' = running /\ wake' = wake /\ loopPc' = loopPc /\ awaited' = awaited
  BY DEF StopResolves
<1>2. \A k \in Loops : ~ Active(k)
  BY <1>1 DEF LoopInv, Active
<1>3. \A k \in Loops : ~ Active(k)'
  BY <1>1, <1>2 DEF Active
<1> QED
  BY <1>1, <1>2, <1>3 DEF LoopInv

LEMMA LoopStepKeeps ==
  ASSUME LoopInv, NEW k \in Loops, LoopStep(k)
  PROVE  LoopInv'
<1> USE LoopsAreRunners
<1>1. /\ running' = running /\ loop' = loop /\ stopPc' = stopPc /\ awaited' = awaited
      /\ Active(k)
  BY DEF LoopStep, TickLeased, TickIdles, WaitOver, Resume, Active
<1>2. PICK pc \in {"tick", "wait", "woken", "exited"} :
        /\ loopPc' = [loopPc EXCEPT ![k] = pc]
        /\ pc = "exited" => ~ running
        /\ wake' = IF pc = "wait" THEN k ELSE IF pc = "woken" THEN 0 ELSE wake
        /\ pc \in {"tick", "exited"} => loopPc[k] # "wait"
  BY DEF LoopStep, TickLeased, TickIdles, WaitOver, Resume, Around
<1>3. /\ loopPc' \in [Loops -> {"none", "tick", "wait", "woken", "exited"}]
      /\ wake' \in Loops \cup {0}
  BY <1>2 DEF LoopInv
<1>4. \A i \in Loops : Active(i)' => Active(i)
  BY <1>1, <1>2 DEF Active, LoopInv
<1>5. wake' # 0 => loopPc'[wake'] = "wait"
  BY <1>2 DEF LoopInv
<1> QED
  BY <1>1, <1>3, <1>4, <1>5 DEF LoopInv

LEMMA LoopStutters ==
  ASSUME LoopInv, UNCHANGED workerVars
  PROVE  LoopInv'
BY DEF LoopInv, workerVars, Active

-----------------------------------------------------------------------------
(* What keeps HandInv when a runner moves: each loop that ticks is where it
   awaits its tick, whatever happened to the others. *)
LEMMA CallsKeepTicks ==
  ASSUME LoopInv, NEW k \in Loops, loopPc[k] = "tick",
         Start \/ \E s \in Stops : Stop(s) \/ StopResolves(s)
  PROVE  loopPc'[k] = "tick"
<1> USE LoopsAreRunners
<1>1. CASE Start
  BY <1>1 DEF Start, LoopInv
<1>2. ASSUME NEW s \in Stops, Stop(s)
      PROVE  loopPc'[k] = "tick"
  BY <1>2 DEF Stop, LoopInv
<1>3. ASSUME NEW s \in Stops, StopResolves(s)
      PROVE  loopPc'[k] = "tick"
  BY <1>3 DEF StopResolves
<1> QED
  BY <1>1, <1>2, <1>3

LEMMA HandKept ==
  ASSUME IInv, LocalNext
  PROVE  HandInv'
<1> USE LoopsAreRunners DEF IInv
<1>1. CASE WorkerCalled
  <2>1. run' = run
    BY <1>1 DEF WorkerCalled, memoryVars
  <2>2. \A k \in Loops : run'[k].ticking => loopPc'[k] = "tick"
    BY <1>1, <2>1, CallsKeepTicks DEF WorkerCalled, HandInv
  <2> QED
    BY <2>1, <2>2 DEF HandInv
<1>2. ASSUME NEW k \in Loops, LoopPolls(k)
      PROVE  HandInv'
  <2>1. Dequeue(k) /\ loopPc[k] = "tick" /\ loopPc' = loopPc
    BY <1>2 DEF LoopPolls, workerVars
  <2> QED
    BY <2>1, DequeueBegins DEF HandInv
<1>3. ASSUME NEW k \in Loops, LoopIdles(k)
      PROVE  HandInv'
  BY <1>3 DEF LoopIdles, TickIdles, memoryVars, HandInv, LoopInv
<1>4. ASSUME NEW k \in Loops, LoopReturns(k)
      PROVE  HandInv'
  <2>1. run' = [run EXCEPT ![k] = Idle]
    BY <1>4, ReturnIdles DEF LoopReturns
  <2>2. \A i \in Loops \ {k} : loopPc'[i] = loopPc[i]
    BY <1>4 DEF LoopReturns, TickLeased, Around, LoopInv
  <2> QED
    BY <2>1, <2>2 DEF HandInv, Idle
<1>5. ASSUME NEW k \in Loops, LoopWakes(k)
      PROVE  HandInv'
  BY <1>5 DEF LoopWakes, WaitOver, Resume, Around, memoryVars, HandInv, LoopInv
<1>6. ASSUME NEW r \in Others, OtherTicks(r)
      PROVE  HandInv'
  <2>1. loopPc' = loopPc /\ r \notin Loops /\ r \in Runners
    BY <1>6 DEF OtherTicks, workerVars
  <2>2. CASE Dequeue(r)
    BY <2>1, <2>2, DequeueBegins DEF HandInv
  <2>3. CASE TickReturns(r)
    <3>1. run' = [run EXCEPT ![r] = Idle]
      BY <2>1, <2>3, ReturnIdles
    <3> QED
      BY <2>1, <3>1 DEF HandInv, Idle
  <2> QED
    BY <1>6, <2>2, <2>3 DEF OtherTicks
<1>7. CASE JobsMove
  <2>1. loopPc' = loopPc
    BY <1>7 DEF JobsMove, workerVars
  <2>2. CASE BackendStep
    <3>1. run' = run
      BY <2>2 DEF BackendStep, Enqueue, BecomesDue, LockExpires, WindowEnds
    <3> QED
      BY <2>1, <3>1 DEF HandInv
  <2>3. ASSUME NEW r \in Runners, RunnerStep(r)
        PROVE  HandInv'
    <3>1. /\ run' = [q \in Runners |-> [ticking |-> run[q].ticking, leases |-> run'[q].leases,
                                       outcome |-> run'[q].outcome]]
          /\ \A q \in Runners : ~ run[q].ticking => run'[q] = run[q]
      BY <2>3, RunnerKeepsTicks
    <3>2. \A q \in Runners : run'[q].ticking = run[q].ticking
      BY <3>1
    <3> QED
      BY <2>1, <3>1, <3>2 DEF HandInv
  <2> QED
    BY <1>7, <2>2, <2>3 DEF JobsMove
<1> QED
  BY <1>1, <1>2, <1>3, <1>4, <1>5, <1>6, <1>7, LocalAssumption DEF LocalNext, LoopRuns

LEMMA LoopKept ==
  ASSUME IInv, LocalNext, AwaitStops
  PROVE  LoopInv'
<1> USE DEF IInv
<1>1. CASE WorkerCalled
  BY <1>1, StartKeeps, StopKeeps, StopResolvesKeeps DEF WorkerCalled
<1>2. ASSUME NEW k \in Loops, LoopRuns(k)
      PROVE  LoopInv'
  <2>1. LoopStep(k) \/ UNCHANGED workerVars
    BY <1>2 DEF LoopRuns, LoopPolls, LoopIdles, LoopReturns, LoopWakes, LoopStep
  <2> QED
    BY <2>1, LoopStepKeeps, LoopStutters
<1>3. CASE JobsMove \/ \E r \in Others : OtherTicks(r)
  BY <1>3, LoopStutters DEF JobsMove, OtherTicks
<1> QED
  BY <1>1, <1>2, <1>3 DEF LocalNext

LEMMA StepHolds ==
  ASSUME IInv, [LocalNext]_localVars, AwaitStops
  PROVE  IInv'
<1>1. CASE LocalNext
  BY <1>1, HandKept, LoopKept DEF IInv
<1>2. CASE UNCHANGED localVars
  BY <1>2 DEF IInv, LoopInv, HandInv, Active, localVars, workerVars, memoryVars, Idle
<1> QED
  BY <1>1, <1>2

LEMMA InHand == IInv => WorkerInHand
<1> SUFFICES ASSUME IInv PROVE WorkerInHand
  OBVIOUS
<1>1. OneLoop
  BY DEF IInv, LoopInv, OneLoop, Active
<1>2. ASSUME ~ running, \A s \in Stops : stopPc[s] # "waiting", NEW k \in Loops
      PROVE  loopPc[k] \in {"none", "exited"} /\ run[k].leases = <<>>
  <2>1. ~ Active(k)
    BY <1>2 DEF IInv, LoopInv
  <2>2. loopPc[k] \in {"none", "exited"}
    BY <2>1 DEF Active, IInv, LoopInv
  <2>3. ~ run[k].ticking
    BY <2>2 DEF IInv, HandInv
  <2> QED
    BY <2>2, <2>3, LoopsAreRunners DEF IInv, HandInv, Idle
<1> QED
  BY <1>1, <1>2 DEF WorkerInHand, HandlersQuiet

(* An application that awaits its stop() before it starts the worker again has
   one loop at a time, and once it has stopped nothing of it is running, for
   any number of start() and stop() calls (job-worker.ts:60-128). *)
THEOREM WorkersStayInHand ==
  ASSUME AwaitStops
  PROVE  LocalSpec => []WorkerInHand
<1>1. LocalInit => IInv
  BY InitHolds
<1>2. IInv /\ [LocalNext]_localVars => IInv'
  BY StepHolds
<1>3. IInv => WorkerInHand
  BY InHand
<1> QED
  BY <1>1, <1>2, <1>3, PTL DEF LocalSpec

-----------------------------------------------------------------------------
JobStates ==
  [due : BOOLEAN, lock : {"none", "held", "expired"}, token : Nat, attempts : Nat]
RunStates ==
  [ticking : BOOLEAN, leases : Seq(Jobs \X Nat), outcome : Outcomes \cup {"none"}]

(* The map lists open jobs, each once; a job's token is that of its last lease
   or none; a runner's leases were all granted, and what it is about to settle
   was reported. *)
MemoryInv ==
  /\ pending \in Seq(Jobs)
  /\ job \in [Jobs -> JobStates]
  /\ phase \in [Jobs -> {"absent", "open", "done", "dead", "dropped"}]
  /\ run \in [Runners -> RunStates]
  /\ \A i \in 1..Len(pending) : phase[pending[i]] = "open"
  /\ \A h, i \in 1..Len(pending) : pending[h] = pending[i] => h = i
  /\ \A j \in Jobs : job[j].token \in {0, job[j].attempts}
  /\ \A j \in Jobs : phase[j] = "absent" => job[j].attempts = 0
  /\ \A r \in Runners : \A i \in 1..Len(run[r].leases) :
       run[r].leases[i][2] \in 1..job[run[r].leases[i][1]].attempts
  /\ \A r \in Runners : run[r].outcome # "none" =>
       run[r].leases # <<>> /\ <<Current(r)[1], Current(r)[2], run[r].outcome>> \in reports

-----------------------------------------------------------------------------
LEMMA MemoryCases ==
  ASSUME [LocalNext]_localVars
  PROVE  \/ \E j \in Jobs : Enqueue(j) \/ BecomesDue(j) \/ LockExpires(j)
         \/ \E k \in Keys : WindowEnds(k)
         \/ \E r \in Runners : Dequeue(r) \/ TickReturns(r) \/ Extend(r) \/ Settle(r)
         \/ \E r \in Runners, o \in Outcomes : Ends(r, o)
         \/ UNCHANGED memoryVars
<1> USE LoopsAreRunners
<1>1. CASE WorkerCalled
  BY <1>1 DEF WorkerCalled
<1>2. ASSUME NEW k \in Loops, LoopRuns(k)
      PROVE  UNCHANGED memoryVars \/ Dequeue(k) \/ TickReturns(k)
  BY <1>2 DEF LoopRuns, LoopPolls, LoopIdles, LoopReturns, LoopWakes
<1>3. ASSUME NEW r \in Others, OtherTicks(r)
      PROVE  Dequeue(r) \/ TickReturns(r)
  BY <1>3 DEF OtherTicks
<1>4. CASE JobsMove
  BY <1>4 DEF JobsMove, BackendStep, RunnerStep
<1>5. CASE UNCHANGED localVars
  BY <1>5 DEF localVars
<1> QED
  BY <1>1, <1>2, <1>3, <1>4, <1>5 DEF LocalNext

LEMMA MemoryInitHolds == LocalInit => MemoryInv
BY DEF LocalInit, MemoryInit, MemoryInv, JobStates, RunStates, Fresh, Idle

(* What a full map gives up is its oldest job. *)
LEMMA KeptIsRest ==
  ASSUME MemoryInv
  PROVE  /\ Kept \in Seq(Jobs)
         /\ \A i \in 1..Len(Kept) : \E h \in 1..Len(pending) :
              Kept[i] = pending[h] /\ ~ Evicted(Kept[i])
         /\ \A h, i \in 1..Len(Kept) : Kept[h] = Kept[i] => h = i
         /\ \A j \in Jobs : Evicted(j) => phase[j] = "open"
<1>1. /\ pending \in Seq(Jobs) /\ Len(pending) \in Nat
      /\ \A h, i \in 1..Len(pending) : pending[h] = pending[i] => h = i
      /\ \A i \in 1..Len(pending) : phase[pending[i]] = "open"
  BY DEF MemoryInv
<1>2. CASE Overflowing
  <2>1. Len(pending) >= 1
    BY <1>1, <1>2, MemoryAssumption DEF Overflowing
  <2>2. /\ Kept = Tail(pending) /\ Len(Kept) = Len(pending) - 1 /\ Kept \in Seq(Jobs)
        /\ Head(pending) = pending[1]
        /\ \A i \in 1..(Len(pending) - 1) : Kept[i] = pending[i + 1]
    BY <1>1, <1>2, <2>1 DEF Kept
  <2>3. ASSUME NEW i \in 1..Len(Kept)
        PROVE  \E h \in 1..Len(pending) : Kept[i] = pending[h] /\ ~ Evicted(Kept[i])
    <3>1. i + 1 \in 1..Len(pending) /\ Kept[i] = pending[i + 1] /\ 1 \in 1..Len(pending)
      BY <1>1, <2>1, <2>2
    <3>2. pending[i + 1] # pending[1]
      BY <1>1, <3>1
    <3> QED
      BY <2>2, <3>1, <3>2 DEF Evicted
  <2>4. \A h, i \in 1..Len(Kept) : Kept[h] = Kept[i] => h = i
    BY <1>1, <2>2
  <2>5. \A j \in Jobs : Evicted(j) => phase[j] = "open"
    BY <1>1, <2>1, <2>2 DEF Evicted
  <2> QED
    BY <2>2, <2>3, <2>4, <2>5
<1>3. CASE ~ Overflowing
  BY <1>1, <1>3 DEF Kept, Evicted
<1> QED
  BY <1>2, <1>3

LEMMA EnqueueKeeps ==
  ASSUME MemoryInv, NEW j \in Jobs, Enqueue(j)
  PROVE  MemoryInv'
<1>1. job' = job /\ run' = run /\ reports' = reports /\ phase[j] = "absent"
  BY DEF Enqueue
<1>2. PhaseAfterEviction \in [Jobs -> {"absent", "open", "done", "dead", "dropped"}]
  BY DEF PhaseAfterEviction, MemoryInv
<1>3. \A i \in Jobs : PhaseAfterEviction[i] = IF Evicted(i) THEN "dropped" ELSE phase[i]
  BY DEF PhaseAfterEviction
<1>4. /\ Kept \in Seq(Jobs) /\ Len(Kept) \in Nat
      /\ \A i \in 1..Len(Kept) : Kept[i] \in Jobs /\ PhaseAfterEviction[Kept[i]] = "open" /\ Kept[i] # j
  BY <1>1, <1>3, KeptIsRest DEF MemoryInv
<1>5. \A h, i \in 1..Len(Kept) : Kept[h] = Kept[i] => h = i
  BY KeptIsRest
<1>6. \A i \in Jobs : PhaseAfterEviction[i] = "absent" => phase[i] = "absent"
  BY <1>3
<1> HIDE DEF Kept, PhaseAfterEviction
<1>7. /\ pending' \in Seq(Jobs)
      /\ phase' \in [Jobs -> {"absent", "open", "done", "dead", "dropped"}]
      /\ \A i \in 1..Len(pending') : phase'[pending'[i]] = "open"
      /\ \A h, i \in 1..Len(pending') : pending'[h] = pending'[i] => h = i
      /\ \A i \in Jobs : phase'[i] = "absent" => phase[i] = "absent"
  <2>1. CASE pending' = Kept /\ phase' = PhaseAfterEviction
    BY <1>2, <1>4, <1>5, <1>6, <2>1
  <2>2. CASE pending' = Append(Kept, j) /\ phase' = [PhaseAfterEviction EXCEPT ![j] = "open"]
    <3>1. /\ pending' \in Seq(Jobs) /\ Len(pending') = Len(Kept) + 1
          /\ \A i \in 1..Len(Kept) : pending'[i] = Kept[i]
          /\ pending'[Len(Kept) + 1] = j
      BY <1>4, <2>2
    <3>2. /\ phase' \in [Jobs -> {"absent", "open", "done", "dead", "dropped"}]
          /\ phase'[j] = "open" /\ \A i \in Jobs \ {j} : phase'[i] = PhaseAfterEviction[i]
      BY <1>2, <2>2
    <3> HIDE <2>2
    <3>3. \A i \in 1..Len(pending') : phase'[pending'[i]] = "open"
      BY <1>4, <3>1, <3>2
    <3>4. \A h, i \in 1..Len(pending') : pending'[h] = pending'[i] => h = i
      BY <1>4, <1>5, <3>1
    <3>5. \A i \in Jobs : phase'[i] = "absent" => phase[i] = "absent"
      BY <1>6, <3>2
    <3> QED
      BY <3>1, <3>2, <3>3, <3>4, <3>5
  <2> QED
    BY <2>1, <2>2 DEF Enqueue
<1> QED
  BY <1>1, <1>7 DEF MemoryInv, Current

(* The lease a runner is at. *)
LEMMA CurrentIsFirst ==
  ASSUME MemoryInv, NEW r \in Runners, run[r].leases # <<>>
  PROVE  /\ run[r] \in RunStates
         /\ run[r].leases \in Seq(Jobs \X Nat) /\ Len(run[r].leases) >= 1
         /\ Current(r) = run[r].leases[1]
         /\ Current(r)[1] \in Jobs /\ Current(r)[2] \in Nat
         /\ Current(r)[2] \in 1..job[Current(r)[1]].attempts
<1>1. run[r] \in RunStates
  BY DEF MemoryInv
<1>2. run[r].leases \in Seq(Jobs \X Nat)
  BY <1>1 DEF RunStates
<1> DEFINE L == run[r].leases
<1> HIDE DEF L
<1>3. L \in Seq(Jobs \X Nat) /\ L # <<>>
  BY <1>2 DEF L
<1>4. Len(L) >= 1 /\ Head(L) = L[1] /\ L[1] \in Jobs \X Nat
  BY <1>3
<1>5. L[1][1] \in Jobs /\ L[1][2] \in Nat
  BY <1>4
<1>6. L[1][2] \in 1..job[L[1][1]].attempts
  <2>1. 1 \in 1..Len(L)
    BY <1>3, <1>4
  <2> QED
    BY <2>1 DEF MemoryInv, L
<1> QED
  BY <1>1, <1>3, <1>4, <1>5, <1>6 DEF Current, L

(* The steps that touch a job's deadlines, or end or begin nothing. *)
LEMMA ClocksKeep ==
  ASSUME MemoryInv,
         \/ \E j \in Jobs : BecomesDue(j) \/ LockExpires(j)
         \/ \E k \in Keys : WindowEnds(k)
         \/ \E r \in Runners : Extend(r)
         \/ UNCHANGED memoryVars
  PROVE  /\ MemoryInv'
         /\ UNCHANGED <<phase, reports>>
         /\ \A j \in Jobs : job'[j].token = job[j].token /\ job'[j].attempts = job[j].attempts
<1>1. UNCHANGED <<pending, run, phase, reports>>
  BY DEF BecomesDue, LockExpires, WindowEnds, Extend, memoryVars
<1>2. ASSUME NEW r \in Runners, Extend(r)
      PROVE  \E j \in Jobs : job' = [job EXCEPT ![j].lock = "held"]
  BY <1>2, CurrentIsFirst DEF Extend, Working
<1>3. /\ job' \in [Jobs -> JobStates]
      /\ \A j \in Jobs : job'[j].token = job[j].token /\ job'[j].attempts = job[j].attempts
  <2>1. \/ job' = job
        \/ \E j \in Jobs : \/ job' = [job EXCEPT ![j].lock = "held"]
                           \/ job' = [job EXCEPT ![j].lock = "expired"]
                           \/ job' = [job EXCEPT ![j].due = TRUE]
    BY <1>2 DEF BecomesDue, LockExpires, WindowEnds, memoryVars
  <2>2. job \in [Jobs -> JobStates]
    BY DEF MemoryInv
  <2>3. ASSUME NEW j \in Jobs, NEW new \in JobStates, job' = [job EXCEPT ![j] = new],
               new.token = job[j].token, new.attempts = job[j].attempts
        PROVE  /\ job' \in [Jobs -> JobStates]
               /\ \A i \in Jobs : job'[i].token = job[i].token /\ job'[i].attempts = job[i].attempts
    BY <2>2, <2>3
  <2>4. ASSUME NEW j \in Jobs
        PROVE  /\ [job[j] EXCEPT !.lock = "held"] \in JobStates
               /\ [job[j] EXCEPT !.lock = "expired"] \in JobStates
               /\ [job[j] EXCEPT !.due = TRUE] \in JobStates
    BY <2>2 DEF JobStates
  <2>5. ASSUME NEW j \in Jobs, NEW new \in JobStates, job' = [job EXCEPT ![j] = new],
               \/ new = [job[j] EXCEPT !.lock = "held"]
               \/ new = [job[j] EXCEPT !.lock = "expired"]
               \/ new = [job[j] EXCEPT !.due = TRUE]
        PROVE  new.token = job[j].token /\ new.attempts = job[j].attempts
    BY <2>2, <2>5 DEF JobStates
  <2> QED
    BY <2>1, <2>2, <2>3, <2>4, <2>5
<1>4. \A r \in Runners : \A i \in 1..Len(run[r].leases) : run[r].leases[i][1] \in Jobs
  BY DEF MemoryInv, RunStates
<1> QED
  BY <1>1, <1>3, <1>4 DEF MemoryInv, Current

(* A dequeue hands every job it picks to a lease of its own. *)
LEMMA DequeueGrants ==
  ASSUME MemoryInv, NEW r \in Runners, Dequeue(r)
  PROVE  /\ UNCHANGED <<pending, phase, reports>>
         /\ job' \in [Jobs -> JobStates]
         /\ \A j \in Jobs :
              \/ job'[j] = job[j]
              \/ /\ phase[j] = "open"
                 /\ job'[j].attempts = job[j].attempts + 1
                 /\ job'[j].token = job[j].attempts + 1
         /\ run' \in [Runners -> RunStates]
         /\ \A q \in Runners \ {r} : run'[q] = run[q]
         /\ run'[r].outcome = "none"
         /\ \A i \in 1..Len(run'[r].leases) :
              /\ run'[r].leases[i][1] \in Jobs
              /\ run'[r].leases[i][2] = job'[run'[r].leases[i][1]].attempts
              /\ run'[r].leases[i][2] >= 1
<1>1. PICK at \in Ascending(Picked) :
        run' = [run EXCEPT ![r] =
                  [ticking |-> TRUE, outcome |-> "none",
                   leases |-> [i \in DOMAIN at |-> LeaseOf(pending[at[i]])]]]
  BY DEF Dequeue
<1>2. /\ Picked \in SUBSET (1..Len(pending)) /\ Len(pending) \in Nat /\ Picked \subseteq Nat
      /\ \A i \in Picked : pending[i] \in Jobs /\ phase[pending[i]] = "open"
  BY DEF Picked, MemoryInv
<1>3. IsFiniteSet(Picked)
  <2>1. IsFiniteSet(1..Len(pending))
    BY <1>2, FS_Interval
  <2> QED
    BY <1>2, <2>1, FS_Subset
<1> DEFINE c == Cardinality(Picked)
<1>4. c \in Nat /\ at \in [1..c -> Picked]
  BY <1>2, <1>3, AscendingVisits
<1> HIDE DEF c
<1>5. \A j \in Jobs : job[j] \in JobStates /\ job[j].attempts \in Nat
  BY DEF MemoryInv, JobStates
<1>6. job' = Leased
  BY DEF Dequeue
<1>7. ASSUME NEW j \in Jobs
      PROVE  /\ job'[j] \in JobStates
             /\ (\E i \in Picked : pending[i] = j) =>
                  job'[j].attempts = job[j].attempts + 1 /\ job'[j].token = job[j].attempts + 1
             /\ ~ (\E i \in Picked : pending[i] = j) => job'[j] = job[j]
  <2>1. CASE \E i \in Picked : pending[i] = j
    <3>1. job'[j] = [job[j] EXCEPT !.lock = "held", !.attempts = @ + 1, !.token = job[j].attempts + 1]
      BY <1>6, <2>1 DEF Leased
    <3>2. job[j] \in JobStates
      BY <1>5
    <3>3. /\ job'[j] \in JobStates /\ job'[j].attempts = job[j].attempts + 1
          /\ job'[j].token = job[j].attempts + 1
      <4> DEFINE e == job[j]
                 n == job[j].attempts + 1
      <4>1. job'[j] = [[[e EXCEPT !.lock = "held"] EXCEPT !.attempts = n] EXCEPT !.token = n]
        BY <3>1
      <4>2. n \in Nat /\ n = job[j].attempts + 1
        BY <1>5
      <4> HIDE DEF n
      <4> QED
        BY <3>2, <4>1, <4>2 DEF JobStates
    <3> QED
      BY <2>1, <3>3
  <2>2. CASE ~ \E i \in Picked : pending[i] = j
    BY <1>5, <1>6, <2>2 DEF Leased
  <2> QED
    BY <2>1, <2>2
<1>8. job' \in [Jobs -> JobStates]
  <2>1. job' = [j \in Jobs |-> job'[j]]
    BY <1>6 DEF Leased
  <2> QED
    BY <1>7, <2>1
<1> DEFINE leased == [i \in DOMAIN at |-> LeaseOf(pending[at[i]])]
<1>9. leased \in [1..c -> Jobs \X Nat]
  <2>1. DOMAIN at = 1..c
    BY <1>4
  <2>2. ASSUME NEW i \in 1..c
        PROVE  LeaseOf(pending[at[i]]) \in Jobs \X Nat
    <3>1. at[i] \in Picked
      BY <1>4
    <3>2. pending[at[i]] \in Jobs
      BY <1>2, <3>1
    <3>3. job[pending[at[i]]].attempts \in Nat
      BY <1>5, <3>2
    <3> QED
      BY <3>2, <3>3 DEF LeaseOf
  <2> QED
    BY <2>1, <2>2
<1>10. \A i \in 1..c : leased[i] = <<pending[at[i]], job[pending[at[i]]].attempts + 1>>
  BY <1>4 DEF LeaseOf
<1> HIDE DEF leased
<1>11. run' = [run EXCEPT ![r] = [ticking |-> TRUE, outcome |-> "none", leases |-> leased]]
  BY <1>1 DEF leased
<1>12. leased \in Seq(Jobs \X Nat) /\ Len(leased) = c
  BY <1>4, <1>9
<1>13. /\ run' \in [Runners -> RunStates] /\ \A q \in Runners \ {r} : run'[q] = run[q]
       /\ run'[r].outcome = "none" /\ run'[r].leases = leased
  BY <1>11, <1>12 DEF MemoryInv, RunStates
<1>14. ASSUME NEW i \in 1..c
       PROVE  /\ leased[i][1] \in Jobs
              /\ leased[i][2] = job'[leased[i][1]].attempts /\ leased[i][2] >= 1
  <2>1. at[i] \in Picked /\ pending[at[i]] \in Jobs
    BY <1>2, <1>4
  <2>2. leased[i][1] = pending[at[i]] /\ leased[i][2] = job[pending[at[i]]].attempts + 1
    BY <1>10
  <2> QED
    BY <1>5, <1>7, <2>1, <2>2
<1>15. UNCHANGED <<pending, phase, reports>>
  BY DEF Dequeue
<1> QED
  BY <1>2, <1>7, <1>8, <1>12, <1>13, <1>14, <1>15

(* The leases of a runner stay within what was granted, as attempts only grow. *)
LEMMA DequeueKeeps ==
  ASSUME MemoryInv, NEW r \in Runners, Dequeue(r)
  PROVE  MemoryInv'
<1>1. /\ UNCHANGED <<pending, phase, reports>>
      /\ job' \in [Jobs -> JobStates] /\ run' \in [Runners -> RunStates]
  BY DequeueGrants
<1>2. \A j \in Jobs : /\ job[j].attempts \in Nat /\ job[j].token \in Nat
                      /\ job'[j].attempts \in Nat /\ job'[j].token \in Nat
  BY <1>1 DEF MemoryInv, JobStates
<1>3. ASSUME NEW j \in Jobs
      PROVE  /\ job'[j].token \in {0, job'[j].attempts}
             /\ job[j].attempts <= job'[j].attempts
             /\ phase[j] = "absent" => job'[j].attempts = 0
  BY <1>2, DequeueGrants DEF MemoryInv
<1>4. ASSUME NEW q \in Runners, NEW i \in 1..Len(run'[q].leases)
      PROVE  run'[q].leases[i][2] \in 1..job'[run'[q].leases[i][1]].attempts
  <2>1. CASE q = r
    <3>1. /\ run'[q].leases[i][1] \in Jobs
          /\ run'[q].leases[i][2] = job'[run'[q].leases[i][1]].attempts
          /\ run'[q].leases[i][2] >= 1
      BY <2>1, DequeueGrants
    <3> QED
      BY <1>2, <3>1
  <2>2. CASE q # r
    <3>1. run'[q] = run[q]
      BY <2>2, DequeueGrants
    <3>2. run[q].leases[i][1] \in Jobs /\ i \in 1..Len(run[q].leases)
      BY <3>1 DEF MemoryInv, RunStates
    <3>3. run[q].leases[i][2] \in 1..job[run[q].leases[i][1]].attempts
      BY <3>2 DEF MemoryInv
    <3> QED
      BY <1>2, <1>3, <3>1, <3>2, <3>3
  <2> QED
    BY <2>1, <2>2
<1>5. ASSUME NEW q \in Runners, run'[q].outcome # "none"
      PROVE  run'[q] = run[q]
  BY <1>5, DequeueGrants
<1>6. ASSUME NEW q \in Runners, run'[q].outcome # "none"
      PROVE  /\ run'[q].leases # <<>>
             /\ <<Current(q)[1]', Current(q)[2]', run'[q].outcome>> \in reports'
  BY <1>1, <1>5, <1>6 DEF MemoryInv, Current
<1> QED
  BY <1>1, <1>3, <1>4, <1>6 DEF MemoryInv

(* What a handler reports is about a lease its runner holds. *)
LEMMA EndsReports ==
  ASSUME MemoryInv, NEW r \in Runners, NEW o \in Outcomes, Ends(r, o)
  PROVE  /\ MemoryInv'
         /\ UNCHANGED <<phase, job>>
         /\ \E j \in Jobs, t \in Nat :
              t \in 1..job[j].attempts /\ reports' = reports \cup {<<j, t, o>>}
<1>1. /\ run[r].leases # <<>> /\ UNCHANGED <<pending, phase, job>>
      /\ run' = [run EXCEPT ![r].outcome = o]
      /\ reports' = reports \cup {<<Current(r)[1], Current(r)[2], o>>}
  BY DEF Ends, Working
<1>2. /\ Current(r)[1] \in Jobs /\ Current(r)[2] \in Nat
      /\ Current(r)[2] \in 1..job[Current(r)[1]].attempts
  BY <1>1, CurrentIsFirst
<1>3. /\ run' \in [Runners -> RunStates]
      /\ \A q \in Runners : run'[q].leases = run[q].leases /\ Current(q)' = Current(q)
      /\ run'[r].outcome = o /\ \A q \in Runners \ {r} : run'[q].outcome = run[q].outcome
  <2>1. run \in [Runners -> RunStates] /\ run[r] \in RunStates
    BY DEF MemoryInv
  <2>2. [run[r] EXCEPT !.outcome = o] \in RunStates
    BY <2>1 DEF RunStates
  <2>3. run' \in [Runners -> RunStates] /\ \A q \in Runners \ {r} : run'[q] = run[q]
    BY <1>1, <2>1, <2>2
  <2>4. run'[r].leases = run[r].leases /\ run'[r].outcome = o
    BY <1>1, <2>1 DEF RunStates
  <2> QED
    BY <2>3, <2>4 DEF Current
<1>4. ASSUME NEW q \in Runners, run'[q].outcome # "none"
      PROVE  /\ run'[q].leases # <<>>
             /\ <<Current(q)[1]', Current(q)[2]', run'[q].outcome>> \in reports'
  <2>1. CASE q = r
    BY <1>1, <1>3, <2>1
  <2>2. CASE q # r
    BY <1>1, <1>3, <1>4, <2>2 DEF MemoryInv
  <2> QED
    BY <2>1, <2>2
<1>5. MemoryInv'
  BY <1>1, <1>3, <1>4 DEF MemoryInv
<1> QED
  BY <1>1, <1>2, <1>5

LEMMA ReturnsKeep ==
  ASSUME MemoryInv, NEW r \in Runners, TickReturns(r)
  PROVE  MemoryInv'
<1>1. UNCHANGED <<pending, phase, job, reports>> /\ run' = [run EXCEPT ![r] = Idle]
  BY DEF TickReturns
<1>2. Idle \in RunStates /\ Idle.outcome = "none" /\ Len(Idle.leases) = 0
  BY DEF Idle, RunStates
<1>3. /\ run' \in [Runners -> RunStates] /\ run'[r] = Idle
      /\ \A q \in Runners \ {r} : run'[q] = run[q]
  BY <1>1, <1>2 DEF MemoryInv
<1> QED
  BY <1>1, <1>2, <1>3 DEF MemoryInv, Current

-----------------------------------------------------------------------------
(* How the lease at the head of a runner's batch is settled. *)
Done(j)     == Leaves(j, "done")
Dead(j)     == Leaves(j, "dead")
Released(j) ==
  /\ job' = [job EXCEPT ![j].lock = "none", ![j].token = 0]
  /\ UNCHANGED <<pending, phase>>

(* The outcome o was reported under the lease that holds j. *)
Claims(j, o) == phase[j] = "open" /\ job[j].token # 0 /\ <<j, job[j].token, o>> \in reports

LEMMA SettleCases ==
  ASSUME MemoryInv, NEW r \in Runners, Settle(r)
  PROVE  \/ UNCHANGED <<pending, job, phase>>
         \/ \E j \in Jobs : Claims(j, "ok") /\ Done(j)
         \/ \E j \in Jobs : /\ \/ Claims(j, "final")
                               \/ Claims(j, "retry") /\ job[j].attempts >= Limit[j]
                            /\ Dead(j)
         \/ \E j \in Jobs : Claims(j, "retry") /\ job[j].attempts < Limit[j] /\ Released(j)
<1> DEFINE j == Current(r)[1]
           o == run[r].outcome
<1>1. /\ o # "none" /\ run[r].leases # <<>> /\ <<j, Current(r)[2], o>> \in reports
      /\ run[r] \in RunStates
  BY CurrentIsFirst DEF Settle, MemoryInv
<1>2. /\ j \in Jobs /\ Current(r)[2] \in 1..job[j].attempts
      /\ o \in {"ok", "retry", "final"}
  BY <1>1, CurrentIsFirst DEF RunStates, Outcomes
<1>3. job[j].attempts \in Nat /\ Limit[j] \in Nat
  BY <1>2, MemoryAssumption DEF MemoryInv, JobStates
<1>4. Holds(j, Current(r)[2]) => Claims(j, o)
  BY <1>1, <1>2, <1>3 DEF Holds, Claims
<1>5. CASE ~ Holds(j, Current(r)[2])
  BY <1>5 DEF Settle
<1>6. CASE Holds(j, Current(r)[2])
  <2>1. IF o = "ok" THEN Leaves(j, "done") ELSE Nack(j, o)
    BY <1>6 DEF Settle
  <2>2. CASE o = "ok"
    BY <1>2, <1>4, <1>6, <2>1, <2>2 DEF Done
  <2>3. CASE o \in {"retry", "final"} /\ (o = "final" \/ job[j].attempts >= Limit[j])
    BY <1>2, <1>4, <1>6, <2>1, <2>3 DEF Nack, Dead
  <2>4. CASE o = "retry" /\ ~ job[j].attempts >= Limit[j]
    BY <1>2, <1>3, <1>4, <1>6, <2>1, <2>4 DEF Nack, Released
  <2> QED
    BY <1>2, <2>2, <2>3, <2>4
<1> QED
  BY <1>5, <1>6

(* A job that leaves the map is not listed there any more. *)
LEMMA LeavesKeeps ==
  ASSUME MemoryInv, NEW j \in Jobs, NEW as \in {"done", "dead"}, Leaves(j, as)
  PROVE  /\ pending' \in Seq(Jobs) /\ job' = job
         /\ phase' = [phase EXCEPT ![j] = as]
         /\ \A i \in 1..Len(pending') : phase'[pending'[i]] = "open"
         /\ \A h, i \in 1..Len(pending') : pending'[h] = pending'[i] => h = i
<1>1. PICK i \in DOMAIN pending : pending[i] = j /\ pending' = RemoveAt(pending, i)
  BY DEF Leaves
<1>2. phase' = [phase EXCEPT ![j] = as] /\ job' = job
  BY DEF Leaves
<1>3. /\ pending \in Seq(Jobs) /\ i \in 1..Len(pending)
      /\ \A h, k \in 1..Len(pending) : pending[h] = pending[k] => h = k
      /\ \A k \in 1..Len(pending) : pending[k] \in Jobs /\ phase[pending[k]] = "open"
  BY DEF MemoryInv
<1>4. /\ RemoveAt(pending, i) \in Seq(Jobs)
      /\ \A k \in 1..Len(RemoveAt(pending, i)) :
           /\ RemoveAt(pending, i)[k] # pending[i]
           /\ \E h \in 1..Len(pending) : RemoveAt(pending, i)[k] = pending[h]
      /\ \A h, k \in 1..Len(RemoveAt(pending, i)) :
           RemoveAt(pending, i)[h] = RemoveAt(pending, i)[k] => h = k
  BY <1>3, RemoveAtLeaves, RemoveAtTakesOne
<1>5. ASSUME NEW k \in 1..Len(pending')
      PROVE  phase'[pending'[k]] = "open"
  <2>1. pending'[k] # j /\ \E h \in 1..Len(pending) : pending'[k] = pending[h]
    BY <1>1, <1>4
  <2>2. pending'[k] \in Jobs /\ phase[pending'[k]] = "open"
    BY <1>3, <2>1
  <2> QED
    BY <1>2, <2>1, <2>2 DEF MemoryInv
<1> QED
  BY <1>1, <1>2, <1>4, <1>5

LEMMA SettleKeeps ==
  ASSUME MemoryInv, NEW r \in Runners, Settle(r)
  PROVE  MemoryInv'
<1>1. /\ run' = [run EXCEPT ![r].leases = Tail(@), ![r].outcome = "none"]
      /\ reports' = reports /\ run[r].leases # <<>>
  BY DEF Settle, MemoryInv
<1>2. run[r] \in RunStates /\ run[r].leases \in Seq(Jobs \X Nat)
  BY <1>1, CurrentIsFirst
<1> DEFINE rest == Tail(run[r].leases)
<1>3. /\ rest \in Seq(Jobs \X Nat)
      /\ \A i \in 1..Len(rest) : /\ i + 1 \in 1..Len(run[r].leases)
                                 /\ rest[i] = run[r].leases[i + 1]
  <2> DEFINE L == run[r].leases
  <2>1. L \in Seq(Jobs \X Nat) /\ L # <<>>
    BY <1>1, <1>2
  <2> HIDE DEF L
  <2>2. /\ Tail(L) \in Seq(Jobs \X Nat) /\ Len(Tail(L)) = Len(L) - 1
        /\ \A i \in 1..(Len(L) - 1) : Tail(L)[i] = L[i + 1]
    BY <2>1
  <2>3. \A i \in 1..Len(Tail(L)) : i + 1 \in 1..Len(L) /\ Tail(L)[i] = L[i + 1]
    BY <2>1, <2>2
  <2> QED
    BY <2>2, <2>3 DEF L
<1> HIDE DEF rest
<1>4. /\ run' \in [Runners -> RunStates] /\ \A q \in Runners \ {r} : run'[q] = run[q]
      /\ run'[r].leases = rest /\ run'[r].outcome = "none"
  <2>1. run' = [run EXCEPT ![r] = [[run[r] EXCEPT !.leases = rest] EXCEPT !.outcome = "none"]]
    BY <1>1 DEF rest
  <2>2. [[run[r] EXCEPT !.leases = rest] EXCEPT !.outcome = "none"] =
          [ticking |-> run[r].ticking, leases |-> rest, outcome |-> "none"]
    <3>1. PICK a \in BOOLEAN, b \in Seq(Jobs \X Nat), c \in Outcomes \cup {"none"} :
            run[r] = [ticking |-> a, leases |-> b, outcome |-> c]
      BY <1>2 DEF RunStates
    <3>2. [run[r] EXCEPT !.leases = rest] = [ticking |-> a, leases |-> rest, outcome |-> c]
      BY <3>1
    <3>3. [[ticking |-> a, leases |-> rest, outcome |-> c] EXCEPT !.outcome = "none"]
            = [ticking |-> a, leases |-> rest, outcome |-> "none"]
      OBVIOUS
    <3>4. run[r].ticking = a
      BY <3>1
    <3> QED
      BY <3>2, <3>3, <3>4
  <2>3. [ticking |-> run[r].ticking, leases |-> rest, outcome |-> "none"] \in RunStates
    BY <1>2, <1>3 DEF RunStates
  <2> QED
    BY <2>1, <2>2, <2>3 DEF MemoryInv
<1> DEFINE MapFine ==
             /\ pending' \in Seq(Jobs)
             /\ job' \in [Jobs -> JobStates]
             /\ phase' \in [Jobs -> {"absent", "open", "done", "dead", "dropped"}]
             /\ \A i \in 1..Len(pending') : phase'[pending'[i]] = "open"
             /\ \A h, i \in 1..Len(pending') : pending'[h] = pending'[i] => h = i
             /\ \A j \in Jobs : /\ job'[j].attempts = job[j].attempts
                                /\ job'[j].token \in {0, job'[j].attempts}
                                /\ phase'[j] = "absent" => phase[j] = "absent"
<1>5. MapFine
  <2>1. CASE UNCHANGED <<pending, job, phase>>
    BY <2>1 DEF MemoryInv
  <2>2. ASSUME NEW j \in Jobs, NEW as \in {"done", "dead"}, Leaves(j, as)
        PROVE  MapFine
    <3>1. /\ phase' \in [Jobs -> {"absent", "open", "done", "dead", "dropped"}]
          /\ \A i \in Jobs : phase'[i] = "absent" => phase[i] = "absent"
      <4>1. phase' = [phase EXCEPT ![j] = as]
        BY <2>2 DEF Leaves
      <4> QED
        BY <4>1 DEF MemoryInv
    <3>2. /\ job' = job /\ pending' \in Seq(Jobs)
          /\ \A i \in 1..Len(pending') : phase'[pending'[i]] = "open"
          /\ \A h, i \in 1..Len(pending') : pending'[h] = pending'[i] => h = i
      BY <2>2, LeavesKeeps
    <3> QED
      BY <3>1, <3>2 DEF MemoryInv
  <2>3. ASSUME NEW j \in Jobs, Released(j)
        PROVE  MapFine
    <3>1. job \in [Jobs -> JobStates] /\ job[j] \in JobStates
      BY DEF MemoryInv
    <3>2. job' = [job EXCEPT ![j] = [[job[j] EXCEPT !.lock = "none"] EXCEPT !.token = 0]]
      BY <2>3 DEF Released
    <3> DEFINE new == [[job[j] EXCEPT !.lock = "none"] EXCEPT !.token = 0]
    <3>3. new \in JobStates /\ new.attempts = job[j].attempts /\ new.token = 0
      BY <3>1 DEF JobStates
    <3> HIDE DEF new
    <3>4. /\ job' \in [Jobs -> JobStates] /\ job'[j] = new
          /\ \A i \in Jobs \ {j} : job'[i] = job[i]
      BY <3>1, <3>2, <3>3 DEF new
    <3> QED
      BY <2>3, <3>3, <3>4 DEF Released, MemoryInv
  <2> QED
    BY <2>1, <2>2, <2>3, SettleCases DEF Done, Dead
<1>6. ASSUME NEW q \in Runners, NEW i \in 1..Len(run'[q].leases)
      PROVE  run'[q].leases[i][2] \in 1..job'[run'[q].leases[i][1]].attempts
  <2>1. PICK k \in 1..Len(run[q].leases) : run'[q].leases[i] = run[q].leases[k]
    BY <1>3, <1>4
  <2>2. run[q].leases[k][1] \in Jobs
    BY DEF MemoryInv, RunStates
  <2> QED
    BY <1>5, <2>1, <2>2 DEF MemoryInv
<1>7. ASSUME NEW q \in Runners, run'[q].outcome # "none"
      PROVE  /\ run'[q].leases # <<>>
             /\ <<Current(q)[1]', Current(q)[2]', run'[q].outcome>> \in reports'
  BY <1>1, <1>4, <1>7 DEF MemoryInv, Current
<1> QED
  BY <1>4, <1>5, <1>6, <1>7 DEF MemoryInv

LEMMA MemoryStep ==
  ASSUME MemoryInv, [LocalNext]_localVars
  PROVE  MemoryInv'
BY MemoryCases, EnqueueKeeps, ClocksKeep, DequeueKeeps, EndsReports, SettleKeeps, ReturnsKeep

-----------------------------------------------------------------------------
(* The contract of one job, action by action. *)
Same(j) ==
  /\ phase'[j] = phase[j]
  /\ job'[j].token = job[j].token /\ job'[j].attempts = job[j].attempts
  /\ {report \in reports' : report[1] = j} = {report \in reports : report[1] = j}

LEMMA SameStutters ==
  ASSUME NEW j \in Jobs, Same(j)
  PROVE  UNCHANGED Contract(j)!contractVars
BY DEF Same, Contract!contractVars

LEMMA Submits ==
  ASSUME NEW j \in Jobs, phase[j] = "absent", phase'[j] = "open",
         job[j].token = 0, job' = job, reports' = reports
  PROVE  Contract(j)!Next
<1>1. Contract(j)!Submit(j)
  BY DEF Contract!Submit
<1> QED
  BY <1>1 DEF Contract!Next

LEMMA Grants ==
  ASSUME NEW j \in Jobs, phase[j] = "open", phase'[j] = "open", reports' = reports,
         job'[j].attempts = job[j].attempts + 1, job'[j].token = job[j].attempts + 1
  PROVE  Contract(j)!Next
<1>1. Contract(j)!Grant({j})
  BY DEF Contract!Grant
<1> QED
  BY <1>1 DEF Contract!Next

LEMMA Reports ==
  ASSUME NEW j \in Jobs, NEW t \in 1..job[j].attempts, NEW o \in Outcomes,
         phase' = phase, job' = job, reports' = reports \cup {<<j, t, o>>}
  PROVE  Contract(j)!Next
<1>1. Contract(j)!Report(j, t, o)
  BY DEF Contract!Report
<1>2. o \in Contract(j)!Outcomes
  BY DEF Outcomes, Contract!Outcomes
<1> QED
  BY <1>1, <1>2 DEF Contract!Next

LEMMA Settles ==
  ASSUME NEW j \in Jobs, reports' = reports, job'[j].attempts = job[j].attempts,
         \/ Claims(j, "ok") /\ phase'[j] = "done" /\ job'[j].token = job[j].token
         \/ /\ Claims(j, "final") \/ (Claims(j, "retry") /\ job[j].attempts >= Limit[j])
            /\ phase'[j] = "dead"
         \/ /\ Claims(j, "retry") /\ job[j].attempts < Limit[j]
            /\ phase'[j] = "open" /\ job'[j].token = 0
  PROVE  Contract(j)!Next
<1>1. \A o \in Outcomes : Claims(j, o) => Contract(j)!Claimed(j, o) /\ phase[j] = "open"
  BY DEF Claims, Contract!Claimed
<1>2. CASE Claims(j, "ok") /\ phase'[j] = "done" /\ job'[j].token = job[j].token
  <2>1. Contract(j)!Complete(j)
    BY <1>1, <1>2 DEF Contract!Complete, Outcomes
  <2> QED
    BY <2>1 DEF Contract!Next
<1>3. CASE /\ Claims(j, "final") \/ (Claims(j, "retry") /\ job[j].attempts >= Limit[j])
           /\ phase'[j] = "dead"
  <2>1. Contract(j)!Bury(j)
    BY <1>1, <1>3 DEF Contract!Bury, Outcomes
  <2> QED
    BY <2>1 DEF Contract!Next
<1>4. CASE /\ Claims(j, "retry") /\ job[j].attempts < Limit[j]
           /\ phase'[j] = "open" /\ job'[j].token = 0
  <2>1. Contract(j)!Release(j)
    BY <1>1, <1>4 DEF Contract!Release, Outcomes
  <2> QED
    BY <2>1 DEF Contract!Next
<1> QED
  BY <1>2, <1>3, <1>4

LEMMA StepKeepsContract ==
  ASSUME MemoryInv, [LocalNext]_localVars, NEW j \in Jobs
  PROVE  \/ Contract(j)!Next
         \/ Displaced(j)
         \/ UNCHANGED Contract(j)!contractVars
<1>1. phase \in [Jobs -> {"absent", "open", "done", "dead", "dropped"}]
  BY DEF MemoryInv
<1>2. ASSUME NEW i \in Jobs, Enqueue(i)
      PROVE  Contract(j)!Next \/ Displaced(j) \/ Same(j)
  <2>1. job' = job /\ reports' = reports /\ phase[i] = "absent"
    BY <1>2 DEF Enqueue
  <2>2. phase' = PhaseAfterEviction \/ phase' = [PhaseAfterEviction EXCEPT ![i] = "open"]
    BY <1>2 DEF Enqueue
  <2>3. Evicted(j) => phase[j] = "open"
    BY KeptIsRest
  <2>4. CASE Evicted(j)
    <3>1. phase'[j] = "dropped"
      BY <2>1, <2>2, <2>3, <2>4 DEF PhaseAfterEviction
    <3> QED
      BY <2>1, <2>4, <3>1 DEF Displaced
  <2>5. CASE ~ Evicted(j) /\ phase'[j] = phase[j]
    BY <2>1, <2>5 DEF Same
  <2>6. CASE ~ Evicted(j) /\ phase'[j] # phase[j]
    <3>1. phase[j] = "absent" /\ phase'[j] = "open"
      BY <2>1, <2>2, <2>6 DEF PhaseAfterEviction
    <3>2. job[j].token = 0
      BY <3>1 DEF MemoryInv
    <3> QED
      BY <2>1, <3>1, <3>2, Submits
  <2> QED
    BY <2>4, <2>5, <2>6
<1>3. ASSUME \/ \E i \in Jobs : BecomesDue(i) \/ LockExpires(i)
             \/ \E k \in Keys : WindowEnds(k)
             \/ \E r \in Runners : Extend(r)
             \/ UNCHANGED memoryVars
      PROVE  Same(j)
  BY <1>3, ClocksKeep DEF Same
<1>4. ASSUME NEW r \in Runners, Dequeue(r)
      PROVE  Contract(j)!Next \/ Same(j)
  <2>1. /\ phase' = phase /\ reports' = reports
        /\ \/ job'[j] = job[j]
           \/ /\ phase[j] = "open"
              /\ job'[j].attempts = job[j].attempts + 1
              /\ job'[j].token = job[j].attempts + 1
    BY <1>4, DequeueGrants
  <2> QED
    BY <2>1, Grants DEF Same
<1>5. ASSUME NEW r \in Runners, TickReturns(r)
      PROVE  Same(j)
  BY <1>5 DEF TickReturns, Same
<1>6. ASSUME NEW r \in Runners, NEW o \in Outcomes, Ends(r, o)
      PROVE  Contract(j)!Next \/ Same(j)
  <2>1. PICK i \in Jobs, t \in Nat :
          t \in 1..job[i].attempts /\ reports' = reports \cup {<<i, t, o>>}
    BY <1>6, EndsReports
  <2>2. phase' = phase /\ job' = job
    BY <1>6, EndsReports
  <2>3. CASE i = j
    BY <2>1, <2>2, <2>3, Reports
  <2>4. CASE i # j
    BY <2>1, <2>2, <2>4 DEF Same
  <2> QED
    BY <2>3, <2>4
<1>7. ASSUME NEW r \in Runners, Settle(r)
      PROVE  Contract(j)!Next \/ Same(j)
  <2>1. reports' = reports
    BY <1>7 DEF Settle
  <2>2. CASE UNCHANGED <<pending, job, phase>>
    BY <2>1, <2>2 DEF Same
  <2>3. ASSUME NEW i \in Jobs, Claims(i, "ok"), Done(i)
        PROVE  Contract(j)!Next \/ Same(j)
    <3>1. phase' = [phase EXCEPT ![i] = "done"] /\ job' = job
      BY <2>3 DEF Done, Leaves
    <3>2. CASE i = j
      BY <1>1, <2>1, <2>3, <3>1, <3>2, Settles
    <3>3. CASE i # j
      BY <1>1, <2>1, <3>1, <3>3 DEF Same
    <3> QED
      BY <3>2, <3>3
  <2>4. ASSUME NEW i \in Jobs, Dead(i),
               Claims(i, "final") \/ (Claims(i, "retry") /\ job[i].attempts >= Limit[i])
        PROVE  Contract(j)!Next \/ Same(j)
    <3>1. phase' = [phase EXCEPT ![i] = "dead"] /\ job' = job
      BY <2>4 DEF Dead, Leaves
    <3>2. CASE i = j
      BY <1>1, <2>1, <2>4, <3>1, <3>2, Settles
    <3>3. CASE i # j
      BY <1>1, <2>1, <3>1, <3>3 DEF Same
    <3> QED
      BY <3>2, <3>3
  <2>5. ASSUME NEW i \in Jobs, Claims(i, "retry"), job[i].attempts < Limit[i], Released(i)
        PROVE  Contract(j)!Next \/ Same(j)
    <3>1. phase' = phase /\ phase[i] = "open"
      BY <2>5 DEF Released, Claims
    <3>2. /\ job'[i].token = 0 /\ job'[i].attempts = job[i].attempts
          /\ i # j => job'[j] = job[j]
      BY <2>5 DEF Released, MemoryInv, JobStates
    <3>3. CASE i = j
      BY <2>1, <2>5, <3>1, <3>2, <3>3, Settles
    <3>4. CASE i # j
      BY <2>1, <3>1, <3>2, <3>4 DEF Same
    <3> QED
      BY <3>3, <3>4
  <2> QED
    BY <1>7, <2>2, <2>3, <2>4, <2>5, SettleCases
<1> QED
  BY <1>2, <1>3, <1>4, <1>5, <1>6, <1>7, MemoryCases, SameStutters

(* The memory backend keeps the contract of a job backend for every job,
   except that a full map gives up its oldest, under any interleaving of any
   number of runners (job-backend-memory.ts:76-253).                       *)
THEOREM MemoryKeepsContract == LocalSpec => KeepsContract
<1>1. LocalInit => MemoryInv
  BY MemoryInitHolds
<1>2. MemoryInv /\ [LocalNext]_localVars => MemoryInv'
  BY MemoryStep
<1>3. MemoryInv /\ [LocalNext]_localVars =>
        [\A j \in Jobs : \/ Contract(j)!Next
                         \/ Displaced(j)
                         \/ UNCHANGED Contract(j)!contractVars]_localVars
  BY StepKeepsContract
<1> QED
  BY <1>1, <1>2, <1>3, PTL DEF LocalSpec, KeepsContract

=============================================================================
