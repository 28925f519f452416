--------------------------- MODULE MemoryBackend ---------------------------
(***************************************************************************)
(* InMemoryJobBackend (job-backend-memory.ts) and the JobRunner that works *)
(* on it (job-runner.ts).  Both run in one process: a backend method runs  *)
(* to its end in one turn, so it is one action, and what interleaves is    *)
(* several runners between their awaits.                                   *)
(*                                                                         *)
(* A lease token is the attempt it was drawn for, which tells the leases   *)
(* of one job apart; a deadline is the fact that it has passed, brought    *)
(* about by an action of its own.                                          *)
(***************************************************************************)
EXTENDS Integers, SequencesExt, Orders

CONSTANTS
  Jobs,         \* the enqueue calls that may be made, one job id each
  Key,          \* per call: its name and idempotency key, or NoKey
  NoKey,
  Delayed,      \* the calls with a delay
  Limit,        \* per job: maxAttempts of its definition
  MaxPending,   \* the backend's maxPending
  Batch,        \* batchSize of a tick
  Runners,      \* whoever calls tick()
  MaxExpiries   \* bound: locks that expire while they are held

ASSUME MemoryAssumption ==
  /\ MaxPending \in Nat \ {0}
  /\ Batch \in Nat \ {0}
  /\ Limit \in [Jobs -> Nat \ {0}]
  /\ Delayed \subseteq Jobs

VARIABLES
  pending,     \* #pending: the ids in insertion order
  job,         \* per id: its entry
  windows,     \* #idempotency: the keys whose window has not passed
  expiries,    \* locks that expired so far
  run,         \* per runner: what its tick in progress is at
  phase,       \* history: what has become of each call's job
  reports      \* history: how handlers ended, <<job, token, outcome>>

memoryVars == <<pending, job, windows, expiries, run, phase, reports>>

Keys == {Key[j] : j \in Jobs} \ {NoKey}

Fresh(j) == [due |-> j \notin Delayed, lock |-> "none", token |-> 0, attempts |-> 0]
Idle == [ticking |-> FALSE, leases |-> <<>>, outcome |-> "none"]

MemoryInit ==
  /\ pending = <<>>
  /\ job = [j \in Jobs |-> Fresh(j)]
  /\ windows = {}
  /\ expiries = 0
  /\ run = [r \in Runners |-> Idle]
  /\ phase = [j \in Jobs |-> "absent"]
  /\ reports = {}

(* The map is full: its oldest entry goes, whatever state it is in. *)
Overflowing == Len(pending) >= MaxPending
Kept == IF Overflowing THEN Tail(pending) ELSE pending
Evicted(j) == Overflowing /\ j = Head(pending)
PhaseAfterEviction == [j \in Jobs |-> IF Evicted(j) THEN "dropped" ELSE phase[j]]

(* enqueue(): the eviction comes before the look for a duplicate. *)
Enqueue(j) ==
  /\ phase[j] = "absent"
  /\ IF Key[j] \in windows
     THEN /\ pending' = Kept
          /\ phase' = PhaseAfterEviction
          /\ windows' = windows
     ELSE /\ pending' = Append(Kept, j)
          /\ phase' = [PhaseAfterEviction EXCEPT ![j] = "open"]
          /\ windows' = windows \cup ({Key[j]} \ {NoKey})
  /\ UNCHANGED <<job, expiries, run, reports>>

(* Deadlines that pass: a delay, a dedup window, a lock. *)
BecomesDue(j) ==
  /\ phase[j] = "open" /\ ~ job[j].due
  /\ job' = [job EXCEPT ![j].due = TRUE]
  /\ UNCHANGED <<pending, windows, expiries, run, phase, reports>>

WindowEnds(k) ==
  /\ k \in windows
  /\ windows' = windows \ {k}
  /\ UNCHANGED <<pending, job, expiries, run, phase, reports>>

LockExpires(j) ==
  /\ phase[j] = "open" /\ job[j].lock = "held"
  /\ expiries < MaxExpiries
  /\ expiries' = expiries + 1
  /\ job' = [job EXCEPT ![j].lock = "expired"]
  /\ UNCHANGED <<pending, windows, run, phase, reports>>

Leasable(j) == job[j].lock # "held" /\ job[j].due

(* The positions of the next batch: the oldest jobs that can be leased. *)
Picked ==
  {i \in DOMAIN pending :
     /\ Leasable(pending[i])
     /\ Cardinality({h \in 1..(i - 1) : Leasable(pending[h])}) < Batch}

Leased ==
  [j \in Jobs |->
     IF \E i \in Picked : pending[i] = j
     THEN [job[j] EXCEPT !.lock = "held", !.attempts = @ + 1, !.token = job[j].attempts + 1]
     ELSE job[j]]

LeaseOf(j) == <<j, job[j].attempts + 1>>

(* tick() of r: the dequeue, which leases a batch ... *)
Dequeue(r) ==
  /\ ~ run[r].ticking
  /\ Picked # {}
  /\ job' = Leased
  /\ \E at \in Ascending(Picked) :
       run' = [run EXCEPT ![r] =
                 [ticking |-> TRUE, outcome |-> "none",
                  leases |-> [i \in DOMAIN at |-> LeaseOf(pending[at[i]])]]]
  /\ UNCHANGED <<pending, windows, expiries, phase, reports>>

(* ... and its leases, handled one after the other. *)
Working(r) == run[r].leases # <<>> /\ run[r].outcome = "none"
Current(r) == Head(run[r].leases)

(* The handler of the first lease returns ("ok"), throws ("retry") or throws
   a NonRetryableError; or there was no definition for the job, or its input
   did not parse, and no handler ran ("final").                            *)
Ends(r, outcome) ==
  /\ Working(r)
  /\ run' = [run EXCEPT ![r].outcome = outcome]
  /\ reports' = reports \cup {<<Current(r)[1], Current(r)[2], outcome>>}
  /\ UNCHANGED <<pending, job, windows, expiries, phase>>

(* #assertHeld: the job is there and the token is that of its last lease. *)
FaultyHolds(j, token) == phase[j] = "open"   \* no fence
Holds(j, token) == phase[j] = "open" /\ job[j].token = token

(* ctx.extendLease(): a new deadline, even after the old one has passed. *)
Extend(r) ==
  /\ Working(r)
  /\ Holds(Current(r)[1], Current(r)[2])
  /\ job[Current(r)[1]].lock = "expired"
  /\ job' = [job EXCEPT ![Current(r)[1]].lock = "held"]
  /\ UNCHANGED <<pending, windows, expiries, run, phase, reports>>

Leaves(j, as) ==
  /\ \E i \in DOMAIN pending : pending[i] = j /\ pending' = RemoveAt(pending, i)
  /\ phase' = [phase EXCEPT ![j] = as]
  /\ job' = job

(* nack(): the job is dropped for good, or released for any runner. *)
Nack(j, outcome) ==
  IF outcome = "final" \/ job[j].attempts >= Limit[j]
  THEN Leaves(j, "dead")
  ELSE /\ job' = [job EXCEPT ![j].lock = "none", ![j].token = 0]
       /\ UNCHANGED <<pending, phase>>

(* finish(): the ack or nack of the lease, refused when the lease is lost;
   the runner logs the refusal and goes on to its next lease.              *)
Settle(r) ==
  /\ run[r].outcome # "none"
  /\ run' = [run EXCEPT ![r].leases = Tail(@), ![r].outcome = "none"]
  /\ LET j == Current(r)[1] IN
       IF Holds(j, Current(r)[2])
       THEN IF run[r].outcome = "ok" THEN Leaves(j, "done") ELSE Nack(j, run[r].outcome)
       ELSE UNCHANGED <<pending, job, phase>>
  /\ UNCHANGED <<windows, expiries, reports>>

TickOver(r) == run[r].ticking /\ run[r].leases = <<>>

(* tick() returns. *)
TickReturns(r) ==
  /\ TickOver(r)
  /\ run' = [run EXCEPT ![r] = Idle]
  /\ UNCHANGED <<pending, job, windows, expiries, phase, reports>>

Outcomes == {"ok", "retry", "final"}

RunnerStep(r) == (\E o \in Outcomes : Ends(r, o)) \/ Extend(r) \/ Settle(r)

BackendStep ==
  \/ \E j \in Jobs : Enqueue(j) \/ BecomesDue(j) \/ LockExpires(j)
  \/ \E k \in Keys : WindowEnds(k)

(* Every deadline passes and every handler ends, if only because its signal
   aborts it: that it heeds the signal is an assumption on the application. *)
MemoryFairness ==
  /\ \A j \in Jobs : WF_memoryVars(BecomesDue(j) \/ LockExpires(j))
  /\ \A r \in Runners : WF_memoryVars((\E o \in Outcomes : Ends(r, o)) \/ Settle(r))

=============================================================================
