# TheoKit: TLA+ specifications and proofs

These modules specify the parts of TheoKit whose correctness depends on the
order of events: the durable and the in-memory job queue, the worker that polls
them and the outbox that feeds them, the cron scheduler and its lock, the
shutdown of a process, the cache engine, the runs of agents that are streamed,
replayed and continued, the approvals and questions that hold tool calls up, the
rate limiters, and the two collectors of session transcripts. TLC checks each on
small instances; TLAPS proves the safety properties of all of them for every
instance.

Source paths below are relative to `src/packages/theo/src/`, unless they begin
with `packages/`.

## 1. Inventory

TheoKit is a web framework in TypeScript. One Node process per replica; inside
it everything runs on one event loop, so a step is what runs between two
awaits, and two steps interleave only at awaits, timers and callbacks. Replicas
meet in a Postgres database, where a step is one SQL statement.

| Component | State | Operations | What is hard | What makes it correct |
|---|---|---|---|---|
| Durable job queue (`server/jobs/job-backend-postgres.ts`, `job-runner.ts`) | one row per job: attempts, `locked_until`, `available_at`, `lease_token`, `failed_at`; a unique index on (name, key) | enqueue, enqueueInTransaction, dequeue, ack, nack, extendLease; the runner's tick | replicas race, leases expire under their holder, nack is two statements, processes die in a batch, transactions roll back | leases are exclusive, late outcomes change nothing, retries are counted, one job per key, every job is settled |
| Job worker (`job-worker.ts`) | `running`, `loop`, `wake` | start, stop, the loop | stop during a tick or a wait, start during a stop | one loop; stop() waits for the tick and always resolves |
| Cron scheduler and lock (`server/cron/`) | per cron: timer, in-flight flag, controller; a table of taken ticks | start, stop, timer, acquire, handler | replicas race for a tick, timers fire early or late, statements fail, handlers outlive ticks | once per tick, no overlap, no outcome ends the cron |
| Process lifecycle (`cli/commands/start/`) | stage of boot and shutdown | boot, first signal, the stages | handlers that never return, timeouts | ordered teardown, the process exits |
| Cache engine and store (`cache/`) | in-flight slots, background revalidations; an LRU map and its tag index | getOrCompute, invalidate, invalidateTag, get, set, delete | misses share loaders, revalidation races invalidation, loaders fail | single flight, bound, index, no resurrected data, every call settles |
| Agent runs and threads (`server/agent/`) | frames and listeners per run; active run, queue and waiters per thread | append, end, attach, reconnect, post a follow-up, subscribe, cancel | subscribers join and leave at any frame, a run ends as a follow-up arrives, idle timers | gapless replay, one run at a time, follow-ups in order, no leaked listener |
| Memory job backend (`server/jobs/job-backend-memory.ts`) | a map of jobs in insertion order, a map of deduplication windows | enqueue, dequeue, ack, nack, extendLease | several runners, locks that expire under them, a full map that evicts its oldest job | each job settled once, by its last lease, unless displaced |
| Outbox and queue client (`server/jobs/outbox.ts`, `queue-client.ts`, `server/http/attach-job-queue.ts`) | a buffer per request, promises of job ids | enqueue, enqueueWithId, enqueueInTransaction, flush, discard | flush after the response, entries that fail, the process dies | no job of a failed request, every entry attempted, no id of a job that does not exist |
| Approval registry (`server/agent/approval-registry.ts`, `approve-agent.ts`, `list-approvals-handler.ts`, `packages/agents/src/bridge/hitl-plugin.ts`) | pending approvals, their owners and timers | register, resolve, list, timeout | the timer, the owner and others settle it, with an await between the check and the decision | decided once, by somebody entitled to, and only that one is told so |
| Ask bridge, question ledger (`packages/agents/src/ask/`) | questions by thread and by id, listeners; the cards open and settled on a surface | ask, answer, abandon, setListener; ingest, settle, findNext, pruneBefore | answers in flight, screens come and go, listings older than decisions | a question is settled by its own answer; dismissed cards stay dismissed |
| Rate limiter and login throttle (`server/rate-limit/`, `server/auth/auth-throttle.ts`) | windows per key in a bounded map | incr, get, reset, sweep; check and record | windows slide, the sweep and the bound drop entries, logins overlap | no two budgets within a window; who waited is served; bounded guesses |
| Sessions (`packages/agents/src/session/`) | transcripts, pointer, leases and registry entries of a project | the retention sweep, deleteSession, persistSessionId | sessions are resumed, and the registry fails or is silent, in the middle of a deletion | nothing live is deleted, no registry entry without its transcript |
| Agent loop, handoff (`packages/agents/src/`) | conversations of an external SDK | run a turn, resume, hand off | cancellation | depends on the SDK |
| Route cache (`cache/define-cached-route.ts`) | in-flight map per route | handle, revalidate | lookup before the claim | single flight |
| Realtime channels, plugin runners, cost tracking, services, storage manager, the rest of auth | small maps, child processes, cryptography | | | |
| Router, adapters, Vite plugin, devtools, HTTP decorators, presenter, CLI, scaffolding, desktop and terminal packages | none, or build-time | | | |

How they interact: `startBackgroundWork` starts the scheduler and the worker;
the worker calls `JobRunner.tick`, which calls the backend; a route's
`ctx.queue` pushes into an outbox that is flushed to the backend once the
response is out; a gated tool call of an agent registers an approval that the
approve endpoint, or its timer, settles; limiters and throttle share one kind
of store; the sweep and deleteSession ask the SDK's agent registry before they
unlink; `installGracefulShutdown` stops both, evicts agents and closes
the pools the backend uses. `mountAgent` opens a pulled run, the thread routes
a pumped one; both write the run cache, which the reconnect and thread streams
read. `PROJECT.json` lists every component with its status, and every hazard
with its line and the properties that cover it.

## 2. Modules

| Module | Models |
|---|---|
| `JobContract` | what any job backend promises: submit, grant, report, complete, release, bury |
| `JobQueue` | the Postgres backend, racing enqueue calls, runners of several replicas |
| `RequestJobs` | extends `JobQueue`: the outbox of a request, its flush, the queue client |
| `JobQueueProofs` | theorems about `JobQueue` and `RequestJobs` |
| `JobWorker` | the polling loop, start() and stop() |
| `MemoryBackend` | the in-memory backend and the runners on it |
| `LocalJobs` | composes `JobWorker` and `MemoryBackend`; a second implementation of `JobContract` |
| `LocalJobsProofs` | theorems about `LocalJobs` |
| `CronScheduler` | the schedulers of the replicas, and their lock |
| `Shutdown` | extends `JobWorker` and `CronScheduler`: boot and shutdown of one process |
| `ProcessProofs` | theorems about `CronScheduler` and `Shutdown` |
| `CacheStore` | the in-memory LRU store with its tag index |
| `CacheEngine` | extends `CacheStore`: slots, loaders, revalidation, invalidation |
| `CacheProofs` | theorems about `CacheEngine` |
| `RunCache` | the frames of runs, attach and reconnect, the pulled response of a POST |
| `Threads` | extends `RunCache`: registry, dispatcher, the stream of a thread |
| `ThreadsProofs` | theorems about `Threads` |
| `RateLimitStore` | the in-memory store of counting windows |
| `RateLimits` | extends `RateLimitStore`: limiters, login throttle, sweep |
| `LimitsProofs` | theorems about `RateLimits` |
| `Sessions` | transcripts, pointer, leases, registry; the sweep and deleteSession |
| `Approvals` | the approval registry, its endpoint and listing, the ledgers of surfaces |
| `AskBridge` | questions on threads, screens, answers in flight |
| `HumanGates` | composes `Approvals` and `AskBridge`: the tool calls they hold up |
| `AgentProofs` | theorems about `HumanGates` and `Sessions` |
| `Orders` | walking a map or a list in order, filtering a list |
| `OrderProofs` | lemmas on what a filter, a removal and an append leave of a list |
| `MC...` | instances of the above for TLC |

A definition named `Faulty...` is a plausible bug in the definition after it. It
is used by no specification; it documents, and lets one try, what each property
catches.

**Orders.** Several components keep a Map or an array that is filtered. The
library's filter is recursive, and the prover cannot reason about what a
recursive operator returns, so `Filtered` says what the result is instead: the
kept positions, ascending. It is a set with one member, and an action takes that
member (`order' \in Filtered(...)`).

**JobQueue.** A row is named after the call that inserts it. `status` folds the
row's existence, its visibility (a pending row is uncommitted) and `failed_at`;
`lock` and `due` are the two comparisons the dequeue statement makes with the
clock, and become true by `LockPasses` and `BecomeDue`; `token` is
`lease_token`, numbered by the dequeue statement that drew it. `Insert`,
`InsertConflicts`, `ReadWinner`, `WinnerGone` are the loop of `#insertJob`;
`Commit` and `Rollback` are the caller's. `Dequeue` is one UPDATE and takes any
set of eligible rows up to the batch size. `StartHandler`, `Refuse`,
`HandlerEnds` are `runOne`; `Ack`, `NackRead`, `NackBury`, `NackRelease`,
`ExtendLease` are the fenced statements, and `LeaseLost` any of them that
matched no row. `TickDies` is a crash or a failed statement; a lost answer is
the statement followed by `TickDies`. `reports` is a history of the outcomes
handlers reached, used by properties only.

The runner always passes a lease token, so the unfenced form of ack and nack
is not modelled. Nor is the migration, the `idempotency` lookup and `ping`,
which change no job. Names, inputs, errors and trace parents are data no
property tells apart.

**RequestJobs.** A request's calls are enqueue calls of `JobQueue` that begin
when its flush reaches them; a call made with enqueueInTransaction begins
whenever its handler wants. `Finish` is the response's `finish` event with a
status below 400 or not, `Close` a connection that closed first; both discard by
emptying the buffer. `Dispatched` is the dispatcher's return, which settles the
promise of enqueueWithId, and the next turn of the flush. `RequestDies` loses
the buffer and what is left of the flush, with the statement in progress done or
not.

**JobWorker.** One pc per run of the loop (a worker may have several over its
life) and per stop() call; `awaited` is the promise a stop() took hold of.
`wake` names the wait it would cut short. Failed and empty ticks differ only in
how long they wait.

**MemoryBackend, LocalJobs.** Every backend method runs in one turn and is one
action; runners interleave between their awaits. A deadline (a delay, a lock, a
deduplication window) passes by an action. A lease token is the attempt it was
drawn for, or 0 when the job was released. `Ends` is a handler's end, or the
refusal of a lease without definition or with invalid input; `Settle` the fenced
ack or nack. In `LocalJobs` a run of the worker's loop is a runner, so that what
a tick leased decides how the loop goes on, and `Others` are runners beside it.
Which id a deduplicated enqueue returns is not modelled. `Picked` is the walk of
a dequeue through the map: the first eligible jobs, up to the batch.

**CronScheduler.** One cron, since crons share nothing. A chain is one start()'s
timer, acquire, handler, timer; after stop() and start() an old chain whose
acquire() was pending goes on beside the new one, as in the code, and
`state.timer` remembers only one of them. `now` is the time; a tick is the
multiple of `Period` it is scheduled for; `Armed` is setTimeout, which keeps no
delay above `MaxDelay` and may fire `Jitter` early. The retention of lock rows
is in the same unit, and nothing ties it to the period or to `MaxLate`, as
nothing does in the code: `RowsOutlive` names what the lock would need, and what
`EveryTickRunsOnce` assumes.

**Shutdown.** `phase` is the stage of the process. Everything the worker and the
scheduler do goes on underneath at every stage. A later signal changes nothing
and is left out. `ClientOut` is the one place where a stage waits for a handler:
pg's `Pool.end()` waits for the clients that are checked out, by the handlers of
jobs, of crons, which the shutdown tells to stop and does not await, and of
requests (`Serve`), which the server takes until it is closed, last. `holding`
is which of the application's handlers work with a client in hand.

**CacheEngine.** A loaded value is the version of the data its loader read. An
entry's age is fresh, stale or expired. `Settle` is the finally of
`claimAndRun`, which deletes the key's slot whoever owns it. `floor` and `since`
are histories: the version at the last invalidation that found nothing under way
for a key, and what a call made later may not fall behind. The engine's public
`tryReadCached` and `set`, which only the route cache calls, are left out with
it.

**RunCache, Threads.** A frame is its sequence number. A client's `got` is what
it was sent of the run it follows, and the length of it its Last-Event-ID.
`Turn` is what happens between two awaits when a run ends and another begins:
listeners are told, the registry's waiters attach to the new run. A pumped run
belongs to the thread; a pulled run is that of a plain POST, driven by its
reader.

**RateLimitStore, RateLimits.** `Incremented` is `incrSync`; the clock is a
number that moves between calls. `Ask` is a request that is counted and
answered: the limiters of `rate-limit.ts` and `rate-limit-durable.ts` decide on
the sliding count (`Sliders`), that of `rate-limit-per-route.ts` on the count of
the window. The fractions of the sliding count are multiplied out. `served` and
`wrong` are histories: pairs of the time of a request and its number in its
window, cut off where no property looks and begun anew when the store drops the
window of their key. No two requests of a key make the same pair, as a window
that begins later begins at another time. Addresses and routes on the one hand,
and hashes of credentials on the other, are never the same key. Of the per-route
limiter, whose window does not slide, only `WaiterServed` speaks.

**Sessions.** `recency` is the order `listSessions` gives; the protected
sessions are computed from it, the pointer and the leases. The sweep is planned
and applied in two steps and waits for the registry per candidate; `ask` is a
removal in progress, `late` one that outlasted its bound and may happen
afterwards. Either collector may be given no `removeFromRegistry`, and a
registry may resolve without a word (`SaysNothing`): the transcript then goes
and nobody knows of the entry. deleteSession's second look (`DeleteLooks`) and
its rmSync (`DeleteUnlinks`) are two actions, as agent processes run in between;
so are the sweep's look and each of its rmSyncs, which may fail (`Discard`). A
look at protection, which is several reads of the disk without an await, is
modelled as one step. Opening and closing sessions,
and the registry, are the SDK's, and appear as the code here uses them.
`excused` and `overtaken` are histories: the sessions whose entry may outlive
their transcript, because they were opened under a removal that had dropped it,
or were collected without the registry's report; and the sessions opened while
somebody who would not look again was about to take them (`Doomed`).

**Approvals, AskBridge, HumanGates.** An approval, and a question, is its
number, since ids are fresh UUIDs. `Admit` is the owner check of the approve
endpoint, before the body is read, and `Resolve` what follows it. A listing is
computed by `Poll` and reaches the ledger by `Ingest`, whatever happened in
between. An answer to a question is on its way (`typed`) until the bridge gets
it. A screen that attaches again is another screen. A question that no call
waits for any more is in `left`: the listener of the screen threw when it was
shown (`Ask`, second case), or the question tool gave up after its own timeout
(`GiveUp`). What a decision or an answer says is left out, and so is the
cancellation of a run that waits at a gate. `HumanGates` adds the tool calls:
`Pause`, `Proceed` and `AskUser`.

## 3. Runs

| Run | Instance | Shows |
|---|---|---|
| `JobQueueLeases` | 2 jobs (2 and 1 attempts), 2 replicas, one a deploy behind; one fault, one lease expiring at work | `RetriesRemain`, `NoSteal`, `FencedWrites`, `ImplementsContract`, `JobsSettle` |
| `JobQueueEnqueue` | a request that buffers 2 jobs on one key, a transaction on the same key, 1 worker, one fault | `SameKeySameJob`, `OutboxHonest`, `CallsReturn`, `FlushCompletes` |
| `WorkerStop` | 2 starts, 1 stop, room for 1 job, 2 enqueues on one key, a second runner, one expired lock | `WorkerInHand`, `StopsReturn`, `KeepsContract`, `JobsSettle` |
| `CronTicks` | 2 replicas, ticks at 2 and 4, 3 starts, one fault | `TickRunsOnce`, `NoOverlap`, `ChainAlive`, `TakenTickRuns`, `NotEarly` |
| `ShutdownOrder` | one process; job and cron handlers that may run for ever, with or without a pool client, and requests that take one | `DrainedBeforeClose`, `CronsStopFirst`, `ExitsAfterSignal` |
| `CacheCalls` | 3 calls, 2 keys, 2 tags, room for 1 entry, one change of the data, one fault | `StoreSound`, `SingleFlight`, `FreshAfterInvalidate`, `CallsSettle` |
| `ThreadRuns` | 3 follow-ups, 1 POST, 2 clients | `ReplayFaithful`, `OneAtATime`, `NoLeak`, `FollowUpsRun` |
| `RateLimit` | 2 callers, 2 overlapping logins, room for 2 of 3 windows, 7 instants | `NoDoubleBurst`, `GuessBound`, `WaiterServed` |
| `SessionDeletes` | 2 sessions, one without a readable id, the sweep and one deletion | `EntriesHaveTranscripts`, `LiveLostUnseen`, `SomethingToContinue`, `SweepsEnd` |
| `HumanGates` | 2 parallel calls on a thread, 2 pauses, 1 surface, 1 bystander, 2 screens | `OneDecision`, `CardsStayDismissed`, `AskHonest`, `GatesOpen` |
| `CronMonthly` | 2 replicas, a period longer than `MaxDelay` and than the retention | violates `TickRunsOnce` |
| `SessionSweep` | 2 sessions, the sweep | violates `LeaseProtects` |

To check one: `tlc -config JobQueueLeases.cfg MCJobQueue.tla`. Deadlock is
checked where the system never stops (`HumanGates`, `SessionDeletes`); the
others may come to rest: a drained queue, a stopped worker, an exited process,
clients that stay away, a clock at its bound. The liveness properties say what
must have happened by then.

The last two runs are disagreements between the code and what it says of
itself; each is a finding in `PROJECT.json`, with the line that says otherwise.
In `CronMonthly` one replica runs its tick and arms the next, which is further
away than a timer can wait: the timer fires at once, the replica takes the next
tick weeks early, and its DELETE, which counts the retention from that tick,
drops the row of the one that has just run; the other replica, a moment late for
that one, inserts it again and runs it a second time. In
`SessionSweep` a session is resumed while the sweep waits for the registry: the
sweep read protection before it waited, and unlinks the transcript under the new
lease. deleteSession reads it again after the same wait, and `LiveLostUnseen`
says that it loses a live session only to the moment between that look and the
rmSync.

**Bounds, and why they are enough.** `MaxFaults`, `MaxCronFaults`,
`MaxCacheFaults`: one fault at any point; a second would hit a state that is
reached without the first, since a fault leaves nothing behind but leased rows,
taken ticks or a missing entry. `MaxSlow`: one lease that expires under its
holder is what it takes for two workers to hold one job; leases nobody works
under expire without bound. `MaxRounds` = 2 makes the enqueue loop go round and
give up. `MaxLoops`, `MaxStarts`: a start after a stop, which is awaited, and,
of the schedulers, a third one while the second is being stopped. `Horizon`
covers two ticks, so that a late request for the first meets the retention of
the second, which in `CronTicks` is just long enough (`RowsOutlive`: lateness
and jitter are 1, the retention is 2) and in `CronMonthly` is not. `MaxVersion`:
one change of the data is enough to tell old from new. `MaxEntries` = 1 makes
the second key evict the first. `MaxPosts` = 3: one run and two queued
follow-ups, whose order can go wrong. `MaxFrames`: two frames for one run, so
that a client can have missed one, both or none, and as few as possible
elsewhere. `MaxPending` = 1 makes the second job evict the first; the map then
never holds two jobs, so that a job behind another one in the map is in no run
(with two places the instance is beyond TLC's reach): `JobsSettle` of
`WorkerStop` is about one job at a time, `MaxExpiries` = 1 puts a second runner
on a job whose first still works, and one batch of one suffices for that.
`WindowMs` = 3 with `Budget` = 3 and `MaxTime` = 7 give two boundaries, every
weight a carried count can have (all, two thirds, one third, nothing), and a
caller that waits two windows out; `MaxCount` allows refused requests to be
counted. `KeepLast` = 1, the floor of the policy, and two sessions: one to keep,
one to collect. `MaxPauses`, `MaxApprovals`, `MaxQuestions` = 2: a second
question after an abandoned one, a second card behind the first, an approval
beside a question; the bystander answers once, which is enough to lose a race.
The proofs of section 4 lift all of these bounds for the safety properties; for
the liveness properties they stand.

**Fairness.** A step of an enqueue call, a runner, a loop, a loader or a stage
of the shutdown is weakly fair: it is a continuation of a promise that will be
settled, or a timer, and the event loop runs it. That handlers, loaders and
agents end is an assumption on the application, made where the code makes it
(`JobQueue`, `JobWorker`, `CacheEngine`, `Threads`) and not where it defends
itself against the opposite (`Shutdown`, where only the stages are fair; that
the calls they make into the SDK, the adapters and the telemetry return is
assumed). A flush goes on when its call returns, but nothing makes a handler
answer. The runners of the memory backend are fair as those of the durable one,
and its deadlines pass. The timers of approvals are the process's and fire; no
human decides or answers, and questions are promised nothing, since the only
timer on one is the question tool's, whose code is not here (`GatesOpen` speaks
of gated calls). The sweep's own steps are fair, and the timer on its wait for
the registry, which is on unless a caller asks for an infinite one; the
registry's answer is not. The rate limiter is given no fairness. A caller's
transaction is closed. Database clocks advance. Nothing forces a fault, a start,
a post, a subscription, an invalidation or a change of the data.

## 4. Proofs

TLAPS checks every theorem below for all values of the constants that satisfy
the assumptions of the modules, which name what the code or its callers
guarantee. Where a theorem needs more, it says so in its statement.

| Theorem | States | In |
|---|---|---|
| `TypeCorrect` | `TypeOK` | `JobQueueProofs` |
| `RetriesAreJustified` | `RetriesRemain` | |
| `LeasesAreExclusive` | `NoSteal` | |
| `WritesAreFenced` | `FencedWrites` | |
| `CallsAgree` | `SameKeySameJob` | |
| `QueueImplementsContract` | `ImplementsContract` | |
| `OutboxesAreHonest` | `OutboxHonest` | |
| `WorkersStayInHand` | `WorkerInHand`, if `AwaitStops` | `LocalJobsProofs` |
| `MemoryKeepsContract` | `KeepsContract` | |
| `EveryTickRunsOnce` | `TickRunsOnce`, if `RowsOutlive` | `ProcessProofs` |
| `HandlersDoNotOverlap` | `NoOverlap` | |
| `CronsGoOn` | `ChainAlive` | |
| `TakenTicksRun` | `TakenTickRuns` | |
| `HandlersAreNotEarly` | `NotEarly`, if `Period <= MaxDelay` | |
| `PoolsCloseAfterJobs` | `DrainedBeforeClose` | |
| `SignalStopsCrons` | `CronsStopFirst` | |
| `StoreStaysSound` | `StoreSound` | `CacheProofs` |
| `MissesShareALoader` | `SingleFlight` | |
| `InvalidationsLast` | `FreshAfterInvalidate` | |
| `ThreadsRunInOrder` | `OneAtATime` | `ThreadsProofs` |
| `ListenersDoNotLeak` | `NoLeak` | |
| `ReplaysAreFaithful` | `ReplayFaithful` | |
| `BurstsAreSingle` | `NoDoubleBurst` | `LimitsProofs` |
| `GuessesAreBounded` | `GuessBound` | |
| `WaitersAreServed` | `WaiterServed` | |
| `DecisionsAreHonest` | `OneDecision` | `AgentProofs` |
| `DismissedCardsStay` | `CardsStayDismissed` | |
| `QuestionsAreHonest` | `AskHonest` | |
| `EntriesKeepTranscripts` | `EntriesHaveTranscripts` | |
| `DeletionsSpareTheLive` | `LiveLostUnseen` | |
| `ProjectsKeepASession` | `SomethingToContinue` | |

Each rests on an inductive invariant, a conjunction of named parts, and on one
lemma per action that says the action keeps it. What the parts are for:

**The job queue.** `nack` reads the attempts of a row in one statement and acts
on them in the next, so `RetriesRemain` is not inductive. What makes it true is
the lease token: if the second statement still finds the token, nobody dequeued
the row in between, and the attempts are what was read (`DecisionInv`). That
needs tokens to be unique to one worker (`LeaseInv`: they come from one counter,
and no two workers carry the same), and it needs to know which states a row can
be in before it is first leased (`CallInv`). `ReportInv` ties what a worker is
about to write to an outcome its handler reached; with it `FencedWrites` and the
refinement follow, as each statement that settles a row is a claim of the
current lease. `KeyInv` adds that two committed rows never share a key, which
`CallsAgree` needs. `QueueImplementsContract` maps statuses to phases and tokens
to owners: a dequeue is a grant, a handler's end a report, an ack a completion,
a nack a release or a burial, a commit a submission; all other steps, crashes
and clocks included, stutter.

**The outbox.** `OutboxHonest` says which calls a failed request may not have
begun. Inductive is where its flush is (`FlushAt`): of the request's pushes the
first ones have returned, at most one is in the queue's hands, and the others
have not begun. `RequestJobsAssumption` says that no push is another's, which
is how rows are named.

**The worker and the memory backend.** `LoopInv`: the loop the closure holds is
the only one that polls, a stop() in progress awaits it, and while it polls for
a stopped worker there is such a stop(). This is where `AwaitStops` enters;
without it the second start() makes a second loop. `HandInv`: leases exist in a
tick only. `MemoryInv`, for the refinement: the map lists open jobs, each once;
a job's token is that of its last lease or none; every lease a runner carries
was granted, and what it is about to settle was reported.

**Crons and shutdown.** `TickRunsOnce` fails if the lock row of a tick is
deleted while a timer that is late may still ask for it. `WindowInv` bounds how
far a chain's tick is from the present, and `LockInv` says that a tick that may
still be asked for and has no row is held by nobody and did not run. The theorem
takes `RowsOutlive` as its hypothesis: rows are kept as long as a timer can be
late, plus the time a tick can be taken early, which is the jitter of a timer
(`DueInv`), or a whole period where the timer cannot wait so long. The code does
not guarantee it, and `CronMonthly` is an instance without it. `RunInv` and
`TimerInv` carry `NoOverlap` and `ChainAlive` across stop() and start().
`DueInv` also gives `NotEarly` to periods that fit a timer. For the shutdown,
`SoleInv` and `AbortInv` follow the one chain of the process and the handler it
can abort, `LoopInv` the one loop and the stop() that awaits it, and `PhaseInv`
how far the process has come.

**The cache.** `SlotInv` relates slots and leaders: a slot is held by a call
that leads its key, and by every leader whose slot no invalidation took.
`FloorInv` says that the floor of a key stays where it was while a call for it
is unsettled, for the call and for the leader it awaits; `FreshInv`, that
nothing older than the floor is in the cache, on its way in, or on its way out.
`StoreSound` needs `IndexMatchesEntries` and that the order of the map lists the
keys with an entry, each once, whence its length is their number.

**Runs and threads.** `QueueInv`: the follow-ups that have a run are the oldest,
each its own, and the queue holds the others. `RunsInv` and `ClientInv` say what
a client holds of the run it follows at every stage of the run, so that neither
attaching nor a frame makes a gap.

**Rate limits.** A count bounds what a window admitted, but an interval of a
window's length touches two windows. `SlidersInv` splits the requests in view
into those the current window counts and those before (`Newer`, `Older`): either
has at most a budget, and the newer at most a budget less one when there are
older ones, because the share of the old window that is still in view, times its
count, is more than nothing (`AdmittedFits`). That those further back are out of
view follows from where a window is anchored (`Timely`, `OutOfSight`).
`TryingInv` bounds the sum of the wrong passwords counted and the logins that
are being verified, which is what checks that overtake records cannot exceed;
`AnswersInv` says that a window began no later than its caller last asked.
Eviction and the sweep drop a window at any time; the histories forget with it.

**Approvals and questions.** `DecisionInv`: an answer that was admitted is,
while the approval is pending, still by somebody entitled to it, and the one
that was told that it decided is the verdict. `LedgerInv`: a surface remembers
every card it decided until it is rewound past it. `BridgeInv`: a thread, its
question and the call that waits for it know each other, unless the call has
gone on without its question (`left`), which the thread and the bridge then
keep. Which card is shown first is a minimum; that it exists is `LeastElement`.

**Sessions.** `DroppedInv` says that a removal that was reported left no entry
unless the session was opened since; with it the unlink that follows leaves no
entry alone that is not `excused`. `DoomInv` says that whoever will unlink a
session without looking again, the sweep or a deletion past its second look,
spares the most recent one, and the ones under a lease, unless a session was
opened under such a one. It is what a look establishes (`ProtectedSpared`), what
opening a session records in `overtaken`, and what both `LiveLostUnseen` and
`SomethingToContinue` follow from: the last transcript of a project is its most
recent one.

**Assumptions.** Beside those named above: limits, budgets, periods and lengths
are positive; a job's limit is a number; who calls and what is called are
different things (`SessionsAssumption`, `LimitsAssumption`,
`ApprovalsAssumption`, the members of `JobQueueAssumption` about `NoJob`);
attempts and pumped runs that are in progress at once are finitely many; the
worker's runs of its loop are runners that nobody else is.

**Only model-checked:** liveness (`JobsSettle`, `CallsReturn`, `FlushCompletes`,
`StopsReturn`, `ExitsAfterSignal`, `CallsSettle`, `FollowUpsRun`, `SweepsEnd`,
`GatesOpen`), which rests on fairness and so on `ENABLED`, beyond the prover;
and the two violations, each a counterexample on an instance.

## 5. Not modelled

Durations, beyond the order in which timers fire; in particular how long a
stop() waits. Hazards seen in the code and left without a property are in
`PROJECT.json` with a note. The components without state of their own, those
that generate code or wrap an external tool, and those around the agent SDK,
whose code is not in the repository, are listed there with the reason. Of the
sessions, a forced deletion (which skips every guard), the forking of a
transcript and the liveness oracle are left out.

Known limits of the code, seen while modelling and described here because the
models follow the code rather than the hope:

- Only nack compares attempts with `maxAttempts`; a job that kills its worker is
  leased again without limit (`job-backend-postgres.ts:332`,
  `job-types.ts:50`).
- The memory backend answers a duplicate with the id of a job that may have been
  evicted since (`job-backend-memory.ts:104`), and a duplicate evicts a job
  although it adds none.
- A handler of a job, a cron or a request that never returns with a pool client in
  hand keeps the process up: the forced exit is armed after the wait for the
  pools (`graceful-shutdown.ts:80`, `:108`), although
  `storage-manager.ts:176-178` says that a 25 s timer is around the whole
  sequence. `ExitsAfterSignal` excepts it.
- A cron whose next tick is more than 24.8 days away runs early, and under a lock
  can run a tick twice: the finding of `CronMonthly`.
  `retentionDays` is 7 for every schedule unless told otherwise
  (`cron-lock.ts:52`).
- A replica whose DELETE fails, or whose INSERT took effect and lost its answer,
  gives up a tick that nobody else can take (`cron-lock.ts:90`); `TakenTickRuns`
  excepts it.
- stop() of a scheduler while the lock is being asked aborts nobody, and the
  handler starts afterwards; with concurrency `allow` it aborts only the latest
  handler (`cron-runtime-node.ts:71`, `:148`). `CronsStopFirst` excepts both.
- The timer on a stream's wait for a run is not cleared when the run comes, and
  cuts the stream off (`handle-thread-routes.ts:180`).
- A POST cancelled while its first chunk is awaited leaves a cached run that
  nothing ends (`durable-ui-message-stream-response.ts:165`).
- The stream of a thread takes a Last-Event-ID of an earlier run at its word
  (`handle-thread-routes.ts:116`).
- start() of a worker before a stop() has resolved leaves two loops
  (`job-worker.ts:82`). The framework never calls it so, and the models assume
  callers that await stop() (`AwaitStops`).
- stop() of a worker whose tick leases nothing waits the whole interval or
  backoff that begins after it (`job-worker.ts:67`).
- The per-route limiter decides on the count of the window alone, so it admits
  two budgets around a boundary (`rate-limit-per-route.ts:246`);
  `NoDoubleBurst` speaks of the others. Eviction from a full store forgets what
  a caller used, and unlocks a login.
- A lockout ends `lockoutMs` after the first wrong password, not the last
  (`auth-throttle.ts:82-84`).
- The sweep's option documents that without a bound it waits for the registry
  indefinitely (`transcript-gc.ts:347-349`); the helper it calls applies 30 s.
- A session that is resumed under the sweep is not only taken itself. While it is
  the most recent one, another that was protected as such can be deleted; and the
  sweep goes by the protection it read, so that it may take every session of the
  project (`transcript-gc.ts:374`, `session-lifecycle.ts:247-250`).
  `SomethingToContinue` excepts that case, and that of a session opened between a
  deletion's second look and its rmSync, and only those.
- Without `removeFromRegistry`, or when the registry resolves without a word (as
  `Agent.delete` does), a collected session keeps its registry entry
  (`transcript-gc.ts:286`, `:333-336`; `session-lifecycle.ts:301-306`,
  `:408-410`). `EntriesHaveTranscripts` excepts those sessions.
- Between deleteSession's second look at protection and its rmSync
  (`session-lifecycle.ts:449`, `:459`) another process can take the lease of the
  session that is unlinked. `LiveLostUnseen` excepts that moment.
- A screen that detaches without abandoning leaves its question pending, and the
  thread taken, until something abandons it (`ask-bridge.ts:211`). So do a
  listener that throws when it is shown the question (`ask-bridge.ts:180`, after
  `:176-177`), and the question tool's own timeout (`ask-bridge.ts:11`), of which
  the bridge is not told: the next question on the thread is refused until then.

## 6. Plan

Done, the most consequential first: the job queue with its contract and proofs,
the worker, the scheduler, the shutdown over both, the cache, the runs and
threads; then the outbox over the queue, the memory backend under the worker as
a second implementation of the contract, the rate limiters, the sessions, the
approvals and questions; then the proofs of every safety and action property
above.

1. More proofs: abstract specifications of the cache (a register that is
   invalidated), of the cron lock and of the thread queue, with the detailed ones
   shown to implement them; what rests on the type invariants alone.
2. More of the system: the single flight of the route cache over `CacheStore`,
   the realtime channels, the run budget of the agent loop, the liveness oracle
   of sessions.
