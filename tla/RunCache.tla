------------------------------ MODULE RunCache ------------------------------
(***************************************************************************)
(* The frames of agent runs (run-event-cache.ts), the clients that attach  *)
(* to them (handle-agent-run-reconnect.ts), and the runs that are pulled   *)
(* by the response of a plain POST (durable-ui-message-stream-response.ts).*)
(*                                                                         *)
(* A frame is its sequence number.  A listener hears of a frame in the     *)
(* same turn that appends it, and its stream is never full, so a client    *)
(* holds what its listener was told.                                       *)
(***************************************************************************)
EXTENDS Naturals, Sequences

CONSTANTS
  Pumped,      \* ids of the runs of threads, in the order they are minted
  Pulled,      \* ids of the runs of plain POSTs
  Clients,
  NoRun,
  MaxFrames    \* bound, per run: how many frames it yields

Runs == Pumped \cup Pulled

VARIABLES
  buffer,      \* per run: none, live, ended, evicted
  frames,      \* per run: how many frames its buffer holds
  listeners,   \* per run: the clients that follow it
  clientPc,    \* off, waiting for a run of the thread, attached, done (its run ended), cut
  following,   \* per client: the run it has frames of
  got,         \* per client: the sequence numbers it received of that run
  pull,        \* per pulled run: none, ready, pending in iterator.next(), over, or
               \* gone: over, and its reader had cancelled it
  finished     \* per pulled run: `finished` of its response

clientVars == <<clientPc, following, got>>
pullVars   == <<pull, finished>>
runVars    == <<buffer, frames, listeners, clientVars, pullVars>>

RunInit ==
  /\ buffer    = [r \in Runs |-> "none"]
  /\ frames    = [r \in Runs |-> 0]
  /\ listeners = [r \in Runs |-> {}]
  /\ clientPc  = [c \in Clients |-> "off"]
  /\ following = [c \in Clients |-> NoRun]
  /\ got       = [c \in Clients |-> <<>>]
  /\ pull      = [r \in Pulled |-> "none"]
  /\ finished  = [r \in Pulled |-> FALSE]

Cached(r) == buffer[r] \in {"live", "ended"}

(* append: getOrCreate, push, and onFrame of every listener. *)
Append1(r) ==
  LET seq == IF Cached(r) THEN frames[r] ELSE 0
  IN /\ buffer' = [buffer EXCEPT ![r] = IF Cached(r) THEN @ ELSE "live"]
     /\ frames' = [frames EXCEPT ![r] = seq + 1]
     /\ got' = [c \in Clients |-> IF c \in listeners[r] THEN Append(got[c], seq) ELSE got[c]]
     /\ UNCHANGED <<listeners, clientPc, following>>

(* end: only a live run can end, and its listeners are told so and forgotten. *)
End(r) ==
  /\ buffer' = [buffer EXCEPT ![r] = IF @ = "live" THEN "ended" ELSE @]
  /\ clientPc' = [c \in Clients |-> IF c \in listeners[r] THEN "done" ELSE clientPc[c]]
  /\ listeners' = [listeners EXCEPT ![r] = {}]
  /\ UNCHANGED <<frames, following, got>>

(* The timer end() armed. *)
Evict(r) ==
  /\ buffer[r] = "ended"
  /\ buffer' = [buffer EXCEPT ![r] = "evicted"]
  /\ UNCHANGED <<frames, listeners, clientVars, pullVars>>

Following(c, r) == IF following[c] = r THEN got[c] ELSE <<>>

FaultyMissed(c, r) ==            \* seq >= afterSeq
  LET from == Len(Following(c, r))
      n    == frames[r] - from
  IN IF from > 0 THEN [i \in 1..(n + 1) |-> from - 2 + i] ELSE [i \in 1..n |-> i - 1]

(* The frames after the client's Last-Event-ID, which is the last one it got. *)
Missed(c, r) ==
  LET from == Len(Following(c, r))
  IN [i \in 1..(frames[r] - from) |-> from + i - 1]

(* attach: the replay and the subscription are one turn. *)
Attach(c, r, already, replay) ==
  /\ Cached(r)
  /\ clientPc' = [clientPc EXCEPT ![c] = IF buffer[r] = "live" THEN "attached" ELSE "done"]
  /\ following' = [following EXCEPT ![c] = r]
  /\ got' = [got EXCEPT ![c] = already \o replay]
  /\ listeners' = [listeners EXCEPT ![r] = IF buffer[r] = "live" THEN @ \cup {c} ELSE @]
  /\ UNCHANGED <<buffer, frames, pullVars>>

(* GET .../runs/<runId>/stream, with the Last-Event-ID of what it already has. *)
Reconnect(c, r) ==
  /\ clientPc[c] \notin {"waiting", "attached"}
  /\ Attach(c, r, Following(c, r), Missed(c, r))

(* The request is aborted: the listener is detached, the stream closed. *)
Leave(c, pc) ==
  /\ clientPc' = [clientPc EXCEPT ![c] = pc]
  /\ listeners' = [r \in Runs |-> listeners[r] \ {c}]
  /\ UNCHANGED <<buffer, frames, following, got, pullVars>>

-----------------------------------------------------------------------------
(* durableUiMessageStreamResponse: the run of a plain POST                  *)

Opens(r) ==
  /\ pull[r] = "none"
  /\ pull' = [pull EXCEPT ![r] = "ready"]
  /\ UNCHANGED <<buffer, frames, listeners, clientVars, finished>>

(* pull(), up to its await. *)
Asks(r) ==
  /\ pull[r] = "ready"
  /\ pull' = [pull EXCEPT ![r] = "pending"]
  /\ UNCHANGED <<buffer, frames, listeners, clientVars, finished>>

(* A chunk arrived.  Nothing looks at `finished` again before the append; the
   enqueue on a stream that was cancelled then throws.                       *)
Yields(r) ==
  /\ pull[r] = "pending"
  /\ frames[r] < MaxFrames[r]
  /\ Append1(r)
  /\ pull' = [pull EXCEPT ![r] = IF finished[r] THEN "gone" ELSE "ready"]
  /\ UNCHANGED finished

(* The source is exhausted, or throws: finish(), once. *)
Finishes(r) ==
  /\ pull[r] = "pending"
  /\ pull' = [pull EXCEPT ![r] = IF finished[r] THEN "gone" ELSE "over"]
  /\ finished' = [finished EXCEPT ![r] = TRUE]
  /\ IF finished[r]
     THEN UNCHANGED <<buffer, frames, listeners, clientVars>>
     ELSE End(r)

(* cancel(): the reader of the POST went away. *)
Cancels(r) ==
  /\ pull[r] \in {"ready", "pending"}
  /\ ~ finished[r]
  /\ finished' = [finished EXCEPT ![r] = TRUE]
  /\ pull' = [pull EXCEPT ![r] = IF @ = "ready" THEN "gone" ELSE @]
  /\ End(r)

PulledStep(r) == Opens(r) \/ Asks(r) \/ Yields(r) \/ Finishes(r) \/ Cancels(r)
-----------------------------------------------------------------------------
(* The reader of the POST went away, perhaps while a chunk was under way; that
   chunk then goes to a run that had ended, or was never begun.              *)
Cancelled(r) == r \in Pulled /\ finished[r] /\ pull[r] \in {"pending", "gone"}

(* A client never misses a frame, and never sees one twice, over any number of
   disconnects and reconnects: while it is attached it has exactly the frames
   appended so far (run-event-cache.ts:53-57).                               *)
Gapless ==
  \A c \in Clients :
    /\ got[c] = [i \in 1..Len(got[c]) |-> i - 1]
    /\ clientPc[c] = "attached" /\ ~ Cancelled(following[c]) =>
         Len(got[c]) = frames[following[c]]

(* `ended` means that the replay is complete (run-event-cache.ts:30): the end
   of a run reaches a client after every frame of it.                        *)
DoneMeansAll ==
  \A c \in Clients : clientPc[c] = "done" /\ ~ Cancelled(following[c]) =>
    buffer[following[c]] \in {"ended", "evicted"} /\ Len(got[c]) = frames[following[c]]

(* What a client has been shown is the run, from its first frame on, without
   gap or repetition, and all of it when the client was told so.             *)
ReplayFaithful == Gapless /\ DoneMeansAll

=============================================================================
