------------------------------ MODULE Threads ------------------------------
(***************************************************************************)
(* The follow-ups of one conversation thread: the registry of its active   *)
(* run (thread-run-registry.ts), the dispatcher that pumps its runs into   *)
(* the cache (thread-dispatcher.ts), and the stream of the thread, which   *)
(* waits for the next run when there is none (handle-thread-routes.ts).    *)
(*                                                                         *)
(* Threads share nothing but the cache, whose runs are their own.  A       *)
(* client sends no Last-Event-ID to the stream of a thread.                *)
(***************************************************************************)
EXTENDS RunCache, FiniteSets

CONSTANTS
  MaxPosts   \* bound: follow-ups, numbered in the order of their 202s

ASSUME ThreadsAssumption ==
  /\ IsFiniteSet(Pumped) /\ Pumped = 1..Cardinality(Pumped)
  /\ Pumped \cap Pulled = {}
  /\ NoRun \notin Runs
  /\ MaxPosts \in 0..Cardinality(Pumped)

NoPost == 0

VARIABLES
  active,    \* activeRunId of the thread, or NoRun
  queue,     \* follow-ups to dispatch when it ends
  waiters,   \* clients to attach when the next run starts
  idleTimer, \* clients whose stream still has its idle timer
  prompt,    \* per run: the follow-up it answers
  accepted   \* history: how many follow-ups were accepted

threadVars == <<active, queue, waiters, idleTimer, prompt, accepted>>
vars == <<runVars, threadVars>>

Init ==
  /\ RunInit
  /\ active = NoRun
  /\ queue = <<>>
  /\ waiters = {}
  /\ idleTimer = {}
  /\ prompt = [r \in Pumped |-> NoPost]
  /\ accepted = 0

Minted  == {r \in Pumped : prompt[r] # NoPost}
NextRun == Cardinality(Minted) + 1           \* mintRunId
Told(ended) == UNION {listeners[r] : r \in ended}

(* One turn in which the runs in `ended` end and those in `started` begin, are
   made known to the waiters and get attached by them.                       *)
Turn(ended, started) ==
  LET joining == IF started = {} THEN {} ELSE waiters
  IN /\ buffer' = [r \in Runs |->
          IF r \in ended THEN "ended" ELSE IF r \in started THEN "live" ELSE buffer[r]]
     /\ listeners' = [r \in Runs |->
          IF r \in ended THEN {} ELSE IF r \in started THEN joining ELSE listeners[r]]
     /\ clientPc' = [c \in Clients |->
          IF c \in joining THEN "attached"
          ELSE IF c \in Told(ended) THEN "done" ELSE clientPc[c]]
     /\ following' = [c \in Clients |-> IF c \in joining THEN NextRun ELSE following[c]]
     /\ got' = [c \in Clients |-> IF c \in joining THEN <<>> ELSE got[c]]
     /\ waiters' = waiters \ joining
     /\ idleTimer' = idleTimer \ Told(ended)
     /\ UNCHANGED <<frames, pullVars>>

(* startAndPump, perhaps in the turn that ends the run before. *)
StartAndPump(ended, p) ==
  /\ Turn(ended, {NextRun})
  /\ active' = NextRun
  /\ prompt' = [prompt EXCEPT ![NextRun] = p]

(* postThreadFollowUp *)
Post ==
  /\ accepted < MaxPosts
  /\ accepted' = accepted + 1
  /\ IF active # NoRun
     THEN /\ queue' = Append(queue, accepted + 1)
          /\ UNCHANGED <<runVars, active, waiters, idleTimer, prompt>>
     ELSE /\ StartAndPump({}, accepted + 1)
          /\ UNCHANGED queue

Pumping(r) == r \in Minted /\ buffer[r] = "live"

PumpAppends(r) ==
  /\ Pumping(r)
  /\ frames[r] < MaxFrames[r]
  /\ Append1(r)
  /\ UNCHANGED <<pullVars, threadVars>>

FaultyPumpEnds(r) ==             \* a continuation waits for the next post
  /\ Pumping(r)
  /\ Turn({r}, {})
  /\ active' = NoRun
  /\ UNCHANGED <<queue, prompt, accepted>>

FaultyPumpEndsNewest(r) ==       \* queue.pop()
  /\ Pumping(r)
  /\ IF queue = <<>>
     THEN Turn({r}, {}) /\ active' = NoRun /\ UNCHANGED <<queue, prompt>>
     ELSE /\ StartAndPump({r}, queue[Len(queue)])
          /\ queue' = SubSeq(queue, 1, Len(queue) - 1)
  /\ UNCHANGED accepted

(* The chunks are exhausted, or threw: cache.end, endRun and the dispatch of
   the follow-up it hands back, in one turn.                                 *)
PumpEnds(r) ==
  /\ Pumping(r)
  /\ IF active # r
     THEN Turn({r}, {}) /\ UNCHANGED <<active, queue, prompt>>
     ELSE IF queue = <<>>
     THEN Turn({r}, {}) /\ active' = NoRun /\ UNCHANGED <<queue, prompt>>
     ELSE StartAndPump({r}, Head(queue)) /\ queue' = Tail(queue)
  /\ UNCHANGED accepted

-----------------------------------------------------------------------------
Silent(c) == clientPc[c] \notin {"waiting", "attached"}

(* GET .../threads/<id>/stream while a run is active. *)
SubscribeActive(c) ==
  /\ Silent(c)
  /\ active # NoRun
  /\ Attach(c, active, <<>>, [i \in 1..frames[active] |-> i - 1])
  /\ UNCHANGED threadVars

(* The same while none is: wait for one, for idleWaitMs at most. *)
SubscribeIdle(c) ==
  /\ Silent(c)
  /\ active = NoRun
  /\ clientPc' = [clientPc EXCEPT ![c] = "waiting"]
  /\ waiters' = waiters \cup {c}
  /\ idleTimer' = idleTimer \cup {c}
  /\ UNCHANGED <<buffer, frames, listeners, following, got, pullVars,
                 active, queue, prompt, accepted>>

FaultyIdleTimeout(c) ==          \* closes the stream, keeps its waiter
  /\ c \in idleTimer
  /\ Leave(c, "cut")
  /\ idleTimer' = idleTimer \ {c}
  /\ UNCHANGED <<active, waiters, queue, prompt, accepted>>

(* The timer, which an attached run does not clear: [DONE], and the end. *)
IdleTimeout(c) ==
  /\ c \in idleTimer
  /\ Leave(c, "cut")
  /\ idleTimer' = idleTimer \ {c}
  /\ waiters' = waiters \ {c}
  /\ UNCHANGED <<active, queue, prompt, accepted>>

(* The client of a stream goes away. *)
Aborts(c) ==
  /\ ~ Silent(c)
  /\ Leave(c, "off")
  /\ idleTimer' = idleTimer \ {c}
  /\ waiters' = waiters \ {c}
  /\ UNCHANGED <<active, queue, prompt, accepted>>

Next ==
  \/ Post
  \/ \E r \in Pumped : PumpAppends(r) \/ PumpEnds(r)
  \/ \E c \in Clients :
       SubscribeActive(c) \/ SubscribeIdle(c) \/ IdleTimeout(c) \/ Aborts(c)
  \/ /\ \/ \E r \in Runs : Evict(r)
        \/ \E r \in Pulled : PulledStep(r)
        \/ \E c \in Clients, r \in Runs : Reconnect(c, r)
     /\ UNCHANGED threadVars

(* Timers fire; that a run ends is an assumption on the agent. *)
Spec ==
  /\ Init /\ [][Next]_vars
  /\ \A r \in Pumped : WF_vars(PumpEnds(r))
  /\ \A c \in Clients : WF_vars(IdleTimeout(c))
-----------------------------------------------------------------------------
(* A thread runs one agent turn at a time: a run that still streams is the
   active one (thread-run-registry.ts:28-32).                               *)
OneRun == \A r \in Pumped : buffer[r] = "live" <=> active = r

(* Every accepted follow-up is dispatched once, in the order of the posts, or
   waits behind a run that will hand it on (thread-dispatcher.ts:9-13).     *)
InOrder ==
  /\ [r \in 1..Cardinality(Minted) |-> prompt[r]] \o queue = [i \in 1..accepted |-> i]
  /\ queue # <<>> => active # NoRun

(* A thread's follow-ups run one at a time, in the order they were accepted. *)
OneAtATime == OneRun /\ InOrder

(* The registry waits for exactly the streams that wait for it, and the cache
   tells exactly those attached: no listener outlives its stream
   (handle-thread-routes.ts:173-175).                                       *)
NoLeak ==
  /\ waiters = {c \in Clients : clientPc[c] = "waiting"}
  /\ \A r \in Runs :
       listeners[r] = {c \in Clients : clientPc[c] = "attached" /\ following[c] = r}

(* Every accepted follow-up gets its run, and the run an end. *)
FollowUpsRun ==
  \A p \in 1..MaxPosts :
    p <= accepted ~> \E r \in Minted : prompt[r] = p /\ buffer[r] \in {"ended", "evicted"}

=============================================================================
