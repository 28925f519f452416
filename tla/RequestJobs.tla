---------------------------- MODULE RequestJobs ----------------------------
(***************************************************************************)
(* ctx.queue: what a request handler enqueues is kept in an outbox and     *)
(* reaches the backend after the response went out (queue-client.ts,       *)
(* outbox.ts, attach-job-queue.ts), here over the durable queue.           *)
(*                                                                         *)
(* An outbox holds calls of JobQueue that have not begun.  Flushing it     *)
(* makes them one after the other; the calls in TxCalls are made with      *)
(* enqueueInTransaction, which goes past the outbox.                       *)
(***************************************************************************)
EXTENDS JobQueue, Sequences, SequencesExt

CONSTANTS
  Requests,
  Pushes,      \* per request: the calls its handler buffers, in order
  WithId       \* the calls made with enqueueWithId

(* Each push is a call of its own. *)
ASSUME RequestJobsAssumption ==
  /\ Pushes \in [Requests -> Seq(Jobs \ TxCalls)]
  /\ \A q, r \in Requests : \A h \in DOMAIN Pushes[q], i \in DOMAIN Pushes[r] :
       Pushes[q][h] = Pushes[r][i] => q = r /\ h = i
  /\ WithId \subseteq Jobs

VARIABLES
  reqPc,     \* handling, discarded, flushing, flushed, dead with its process
  buffer,    \* the outbox
  sending,   \* `entries` of the flush in progress
  promise,   \* per call: what became of the promise of enqueueWithId
  answered   \* history: the requests whose response went out with success

outboxVars == <<reqPc, buffer, sending, promise, answered>>
requestVars == <<vars, outboxVars>>

RequestInit ==
  /\ Init
  /\ reqPc   = [r \in Requests |-> "handling"]
  /\ buffer  = [r \in Requests |-> <<>>]
  /\ sending = [r \in Requests |-> <<>>]
  /\ promise = [c \in Jobs |-> "none"]
  /\ answered = {}

(* enqueue and enqueueWithId touch the buffer only. *)
Push(r) ==
  /\ reqPc[r] = "handling"
  /\ Len(buffer[r]) < Len(Pushes[r])
  /\ LET c == Pushes[r][Len(buffer[r]) + 1]
     IN  /\ buffer'  = [buffer EXCEPT ![r] = Append(@, c)]
         /\ promise' = [promise EXCEPT ![c] = IF c \in WithId THEN "pending" ELSE @]
  /\ UNCHANGED <<reqPc, sending, answered, vars>>

FaultyFinish(r, ok) ==           \* the status is not looked at
  /\ reqPc[r] = "handling"
  /\ buffer'   = [buffer EXCEPT ![r] = <<>>]
  /\ answered' = IF ok THEN answered \cup {r} ELSE answered
  /\ reqPc'    = [reqPc EXCEPT ![r] = "flushing"]
  /\ sending'  = [sending EXCEPT ![r] = buffer[r]]
  /\ UNCHANGED <<promise, vars>>

(* The response is out.  A status of 400 or more discards the outbox; flush
   takes the buffer and goes through what it held. *)
Finish(r, ok) ==
  /\ reqPc[r] = "handling"
  /\ buffer'   = [buffer EXCEPT ![r] = <<>>]
  /\ answered' = IF ok THEN answered \cup {r} ELSE answered
  /\ IF ok
       THEN /\ reqPc'   = [reqPc EXCEPT ![r] = "flushing"]
            /\ sending' = [sending EXCEPT ![r] = buffer[r]]
       ELSE /\ reqPc'   = [reqPc EXCEPT ![r] = "discarded"]
            /\ sending' = sending
  /\ UNCHANGED <<promise, vars>>

(* The connection closes before the response finished. *)
Close(r) == Finish(r, FALSE)

(* The calls in progress: those at the head of a flush, and those that go
   past the outbox. *)
Begun(c) ==
  \/ c \in TxCalls
  \/ \E r \in Requests : sending[r] # <<>> /\ Head(sending[r]) = c

(* Everything the queue does; a call that has not begun does nothing. *)
Queue ==
  \/ \E c \in Jobs :
       \/ Begun(c) /\ Insert(c) /\ UNCHANGED outboxVars
       \/ Begun(c) /\ CallFails(c) /\ UNCHANGED outboxVars
  \/ \E c \in Keyed :
       \/ Begun(c) /\ InsertConflicts(c) /\ UNCHANGED outboxVars
       \/ Begun(c) /\ ReadWinner(c) /\ UNCHANGED outboxVars
       \/ Begun(c) /\ WinnerGone(c) /\ UNCHANGED outboxVars
  \/ \E c \in TxCalls :
       \/ Commit(c) /\ UNCHANGED outboxVars
       \/ Rollback(c) /\ UNCHANGED outboxVars
  \/ (Runners \/ Clocks) /\ UNCHANGED outboxVars

FaultyDispatched(r) ==           \* no try/catch around the dispatcher
  /\ sending[r] # <<>>
  /\ LET c == Head(sending[r])
     IN  /\ callPc[c] \in {"done", "error"}
         /\ promise' = [promise EXCEPT ![c] =
              IF c \notin WithId THEN @
              ELSE IF callPc[c] = "done" THEN "resolved" ELSE "rejected"]
         /\ sending' = [sending EXCEPT ![r] = IF callPc[c] = "error" THEN <<>> ELSE Tail(@)]
  /\ UNCHANGED <<reqPc, buffer, answered, vars>>

(* The call at the head returned: its promise settles with it, and the flush
   goes on whether it failed or not. *)
Dispatched(r) ==
  /\ sending[r] # <<>>
  /\ LET c == Head(sending[r])
     IN  /\ callPc[c] \in {"done", "error"}
         /\ promise' = [promise EXCEPT ![c] =
              IF c \notin WithId THEN @
              ELSE IF callPc[c] = "done" THEN "resolved" ELSE "rejected"]
         /\ sending' = [sending EXCEPT ![r] = Tail(@)]
  /\ UNCHANGED <<reqPc, buffer, answered, vars>>

Flushed(r) ==
  /\ reqPc[r] = "flushing"
  /\ sending[r] = <<>>
  /\ reqPc' = [reqPc EXCEPT ![r] = "flushed"]
  /\ UNCHANGED <<buffer, sending, promise, answered, vars>>

(* The process that serves the request dies: nothing of an outbox is kept,
   and the statement in progress may have taken effect. *)
RequestDies(r) ==
  /\ reqPc[r] \in {"handling", "flushing"}
  /\ reqPc'   = [reqPc EXCEPT ![r] = "dead"]
  /\ buffer'  = [buffer EXCEPT ![r] = <<>>]
  /\ sending' = [sending EXCEPT ![r] = <<>>]
  /\ \/ \E c \in Jobs : sending[r] # <<>> /\ c = Head(sending[r]) /\ CallFails(c)
     \/ /\ sending[r] # <<>> => callPc[Head(sending[r])] \in {"done", "error"}
        /\ faults < MaxFaults
        /\ faults' = faults + 1
        /\ UNCHANGED <<tableVars, callVars, workerVars, granted, reports, slow>>
  /\ UNCHANGED <<promise, answered>>

RequestNext ==
  \/ Queue
  \/ \E r \in Requests :
       \/ Push(r) \/ Close(r) \/ Dispatched(r) \/ Flushed(r) \/ RequestDies(r)
       \/ \E ok \in BOOLEAN : Finish(r, ok)

(* A flush goes on as its calls return; nothing forces a handler to answer. *)
RequestFairness ==
  /\ QueueFairness
  /\ \A c \in Jobs :
       /\ WF_requestVars(Begun(c) /\ CallStep(c) /\ UNCHANGED outboxVars)
       /\ WF_requestVars((Commit(c) \/ Rollback(c)) /\ UNCHANGED outboxVars)
  /\ \A r \in Requests : WF_requestVars(Dispatched(r) \/ Flushed(r))

RequestSpec == RequestInit /\ [][RequestNext]_requestVars /\ RequestFairness

-----------------------------------------------------------------------------
(* A job a handler buffered exists only if the response went out with a
   success status (outbox.ts:17: a handler that throws dispatches nothing),
   the entries are enqueued in the order they were pushed, and an id that
   enqueueWithId hands out is that of a committed job. *)
OutboxHonest ==
  \A r \in Requests : \A i \in DOMAIN Pushes[r] :
    LET c == Pushes[r][i]
    IN  /\ status[c] # "unborn" => r \in answered
        /\ callPc[c] # "insert" =>
             \A h \in 1..(i - 1) : callPc[Pushes[r][h]] \in {"done", "error"}
        /\ promise[c] = "resolved" => status[result[c]] \in {"live", "failed", "gone"}

(* Every enqueue call that has begun returns, including one waiting on a
   rival transaction and one whose conflicting row keeps disappearing. *)
CallsReturn == \A c \in Jobs : Begun(c) ~> callPc[c] \in {"done", "error"}

(* A flush attempts every entry, whichever of them fails, and settles every
   promise it owes (outbox.ts:46), unless the process dies. *)
FlushCompletes ==
  \A r \in Requests : \A i \in DOMAIN Pushes[r] :
    LET c == Pushes[r][i]
    IN  Contains(sending[r], c) ~>
          \/ reqPc[r] = "dead"
          \/ /\ callPc[c] \in {"done", "error"}
             /\ c \in WithId => promise[c] \in {"resolved", "rejected"}

=============================================================================
