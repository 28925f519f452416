------------------------------ MODULE Sessions -----------------------------
(***************************************************************************)
(* The sessions of one project on disk (packages/agents/src/session):      *)
(* their transcripts, the pointer to the one to resume, the agent registry *)
(* beside them, and the two that delete: the retention sweep               *)
(* (gc/transcript-gc.ts) and deleteSession (session-lifecycle.ts).         *)
(*                                                                         *)
(* Agent processes open and close sessions at any time.  Leases and the    *)
(* registry are the SDK's, and appear as the code here uses them.  A       *)
(* deletion that is forced skips every guard and is not modelled.          *)
(***************************************************************************)
EXTENDS Integers, SequencesExt, Orders

CONSTANTS
  Sessions,
  Unreadable,   \* those whose first record cannot be read, so without an id
  NoSession,
  Deleters,     \* callers of deleteSession
  Sweeper,      \* the sweep, as a caller of the registry
  KeepLast      \* the policy's keepLast

ASSUME SessionsAssumption ==
  /\ Unreadable \subseteq Sessions
  /\ KeepLast \in Nat \ {0}
  /\ Sweeper \notin Deleters

VARIABLES
  recency,    \* the sessions with a transcript, most recently written first
  old,        \* those older than maxAgeDays
  writers,    \* sessions under a writer lease
  pointer,    \* the resumable pointer
  registry,   \* sessions with a registry entry
  sweep,      \* stage of the sweep, its candidates left, its view of protection
  ask,        \* per asker: its session, the removal's state, the second look
  late,       \* sessions whose removal timed out and may still happen
  excused,    \* history: sessions whose entry may outlive their transcript
  overtaken   \* history: sessions opened when someone would take them unseen

sessionVars ==
  <<recency, old, writers, pointer, registry, sweep, ask, late, excused, overtaken>>

Askers == Deleters \cup {Sweeper}
Transcripts == ToSet(recency)
NotAsking == [session |-> NoSession, state |-> "none", looked |-> FALSE]
NoSweep == [stage |-> "idle", todo |-> <<>>, guarded |-> {}, asks |-> FALSE]

SessionsInit ==
  /\ recency = <<>>
  /\ old = {}
  /\ writers = {}
  /\ pointer = NoSession
  /\ registry = {}
  /\ sweep = NoSweep
  /\ ask = [a \in Askers |-> NotAsking]
  /\ late = {}
  /\ excused = {}
  /\ overtaken = {}

(* protectedTranscriptPaths(): pointer, most recent, writer leases. *)
Protected ==
  Transcripts \cap (writers \cup {pointer} \cup (IF recency = <<>> THEN {} ELSE {Head(recency)}))

-----------------------------------------------------------------------------
(* Who will unlink s without another look at its protection: the sweep, and a
   deletion between its second look and its rmSync.                         *)
Swept(s)  == sweep.stage = "applying" /\ Contains(sweep.todo, s) /\ s \notin sweep.guarded
Clear(d)  == ask[d].looked
Doomed(s) == Swept(s) \/ \E d \in Deleters : Clear(d) /\ ask[d].session = s

(* The history begins anew when nobody is left who would take a session. *)
OvertakenKept == overtaken' = IF \E s \in Sessions : Doomed(s)' THEN overtaken ELSE {}

(* Between the removal of s's entry and its unlink. *)
Unlisted(s) == \E a \in Askers : ask[a].session = s /\ ask[a].state = "dropped"

(* A process begins or resumes a session: it takes the lease, writes to the
   transcript and registers the agent.                                     *)
Open(s) ==
  /\ s \notin writers
  /\ writers' = writers \cup {s}
  /\ \E rest \in Filtered(recency, Sessions \ {s}) : recency' = <<s>> \o rest
  /\ old' = old \ {s}
  /\ registry' = registry \cup {s}
  /\ excused' = IF Unlisted(s) THEN excused \cup {s} ELSE excused \ {s}
  /\ overtaken' = IF Doomed(s) THEN overtaken \cup {s} ELSE overtaken \ {s}
  /\ UNCHANGED <<pointer, sweep, ask, late>>

Close(s) ==
  /\ s \in writers
  /\ writers' = writers \ {s}
  /\ UNCHANGED <<recency, old, pointer, registry, sweep, ask, late, excused, overtaken>>

(* persistSessionId() *)
Persist(s) ==
  /\ s \in writers
  /\ pointer' = s
  /\ UNCHANGED <<recency, old, writers, registry, sweep, ask, late, excused, overtaken>>

Ages(s) ==
  /\ s \in Transcripts \ old
  /\ old' = old \cup {s}
  /\ UNCHANGED <<recency, writers, pointer, registry, sweep, ask, late, excused, overtaken>>

-----------------------------------------------------------------------------
Unlink(s) ==
  /\ recency' \in Filtered(recency, Sessions \ {s})
  /\ old' = old \ {s}

(* rmSync, which may fail, and whether the registry had reported the removal. *)
Discard(s, reported) ==
  \/ /\ Unlink(s)
     /\ excused' = IF reported THEN excused ELSE excused \cup ({s} \cap registry)
  \/ UNCHANGED <<recency, old, excused>>

(* planTranscriptGC(): beyond keepLast, older than maxAgeDays, unprotected. *)
Collectable(s) == s \in old \ Protected

Plan ==
  /\ sweep.stage = "idle"
  /\ \E candidates \in Filtered(SubSeq(recency, KeepLast + 1, Len(recency)),
                                {s \in Sessions : Collectable(s)}) :
       /\ candidates # <<>>
       /\ sweep' = [NoSweep EXCEPT !.stage = "planned", !.todo = candidates]
  /\ UNCHANGED <<recency, old, writers, pointer, registry, ask, late, excused, overtaken>>

Applies(asks, guarded) ==
  /\ sweep.stage = "planned"
  /\ sweep' = [sweep EXCEPT !.stage = "applying", !.guarded = guarded, !.asks = asks]
  /\ UNCHANGED <<recency, old, writers, pointer, registry, ask, late, excused, overtaken>>

FaultyApply(asks) == Applies(asks, {})       \* the plan is trusted

(* runTranscriptGC(), with removeFromRegistry or without: protection is read
   again, once.                                                             *)
Apply(asks) == Applies(asks, Protected \cap ToSet(sweep.todo))

Applying == sweep.stage = "applying" /\ ask[Sweeper] = NotAsking
Candidate == Head(sweep.todo)
NextCandidate ==
  sweep' = IF Tail(sweep.todo) = <<>> THEN NoSweep ELSE [sweep EXCEPT !.todo = Tail(@)]

Spare ==
  /\ Applying
  /\ Candidate \in sweep.guarded
  /\ NextCandidate
  /\ UNCHANGED <<recency, old, writers, pointer, registry, ask, late, excused>>
  /\ OvertakenKept

(* Without an id there is no entry to name, and without removeFromRegistry
   nobody to ask: the transcript goes alone.                                *)
CollectUnasked ==
  /\ Applying
  /\ Candidate \notin sweep.guarded
  /\ Candidate \in Unreadable \/ ~ sweep.asks
  /\ Discard(Candidate, FALSE)
  /\ NextCandidate
  /\ UNCHANGED <<writers, pointer, registry, ask, late>>
  /\ OvertakenKept

Asks(a, s) == ask' = [ask EXCEPT ![a] = [NotAsking EXCEPT !.session = s, !.state = "asked"]]

SweepAsks ==
  /\ Applying
  /\ Candidate \notin sweep.guarded \cup Unreadable
  /\ sweep.asks
  /\ Asks(Sweeper, Candidate)
  /\ UNCHANGED <<recency, old, writers, pointer, registry, sweep, late, excused, overtaken>>

FaultySweepGoesOn ==             \* a failure is tried again, without end
  /\ ask[Sweeper].state \in {"dropped", "unheard", "failed"}
  /\ IF ask[Sweeper].state = "failed"
     THEN UNCHANGED <<recency, old, excused, sweep>>
     ELSE Discard(Candidate, ask[Sweeper].state = "dropped") /\ NextCandidate
  /\ ask' = [ask EXCEPT ![Sweeper] = NotAsking]
  /\ UNCHANGED <<writers, pointer, registry, late>>
  /\ OvertakenKept

(* After the registry's answer; its failure keeps the transcript. *)
SweepGoesOn ==
  /\ ask[Sweeper].state \in {"dropped", "unheard", "failed"}
  /\ IF ask[Sweeper].state = "failed"
     THEN UNCHANGED <<recency, old, excused>>
     ELSE Discard(Candidate, ask[Sweeper].state = "dropped")
  /\ NextCandidate
  /\ ask' = [ask EXCEPT ![Sweeper] = NotAsking]
  /\ UNCHANGED <<writers, pointer, registry, late>>
  /\ OvertakenKept

-----------------------------------------------------------------------------
(* deleteSession(s), refused at once when s is protected; with
   removeFromRegistry or without.                                           *)
Delete(d, s) ==
  /\ ask[d] = NotAsking
  /\ s \in Transcripts \ Protected
  /\ \/ Asks(d, s)
     \/ ask' = [ask EXCEPT ![d] = [NotAsking EXCEPT !.session = s, !.state = "unheard"]]
  /\ UNCHANGED <<recency, old, writers, pointer, registry, sweep, late, excused, overtaken>>

Answered(d) == ask[d].state \in {"dropped", "unheard"} /\ ~ Clear(d)

FaultyDeleteLooks(d) ==          \* the protection read before the await is trusted
  /\ Answered(d)
  /\ ask' = [ask EXCEPT ![d].looked = TRUE]
  /\ UNCHANGED <<recency, old, writers, pointer, registry, sweep, late, excused, overtaken>>

(* The registry answered: protection is read again, which may refuse ... *)
DeleteLooks(d) ==
  /\ Answered(d)
  /\ ask' = IF ask[d].session \in Protected
            THEN [ask EXCEPT ![d] = NotAsking]
            ELSE [ask EXCEPT ![d].looked = TRUE]
  /\ UNCHANGED <<recency, old, writers, pointer, registry, sweep, late, excused, overtaken>>

(* ... and the transcript is unlinked: other processes run in between. *)
DeleteUnlinks(d) ==
  /\ Clear(d)
  /\ Discard(ask[d].session, ask[d].state = "dropped")
  /\ ask' = [ask EXCEPT ![d] = NotAsking]
  /\ UNCHANGED <<writers, pointer, registry, sweep, late>>
  /\ OvertakenKept

(* The registry failed: the transcript is left alone. *)
DeleteFails(d) ==
  /\ ask[d].state = "failed"
  /\ ask' = [ask EXCEPT ![d] = NotAsking]
  /\ UNCHANGED <<recency, old, writers, pointer, registry, sweep, late, excused, overtaken>>

-----------------------------------------------------------------------------
Unlist(s) ==
  /\ registry' = registry \ {s}
  /\ excused' = excused \ {s}

(* awaitRegistryRemoval(): the removal happens, fails, resolves without a word
   and without effect, or outlasts its bound and may then happen behind the
   caller's back.                                                           *)
Becomes(a, state) ==
  /\ ask[a].state = "asked"
  /\ ask' = [ask EXCEPT ![a].state = state]
  /\ UNCHANGED <<recency, old, writers, pointer, sweep, overtaken>>

Drops(a) ==
  /\ Becomes(a, "dropped")
  /\ Unlist(ask[a].session)
  /\ UNCHANGED late

Fails(a) == Becomes(a, "failed") /\ UNCHANGED <<registry, late, excused>>

SaysNothing(a) == Becomes(a, "unheard") /\ UNCHANGED <<registry, late, excused>>

FaultyTimesOut(a) ==             \* taken for an answer
  /\ Becomes(a, "dropped")
  /\ late' = late \cup {ask[a].session}
  /\ UNCHANGED <<registry, excused>>

TimesOut(a) ==
  /\ Becomes(a, "failed")
  /\ late' = late \cup {ask[a].session}
  /\ UNCHANGED <<registry, excused>>

DropsLate(s) ==
  /\ s \in late
  /\ late' = late \ {s}
  /\ Unlist(s)
  /\ UNCHANGED <<recency, old, writers, pointer, sweep, ask, overtaken>>

SweepStep ==
  \/ \E asks \in BOOLEAN : Apply(asks)
  \/ Spare \/ CollectUnasked \/ SweepAsks \/ SweepGoesOn

DeleteStep(d) == DeleteLooks(d) \/ DeleteUnlinks(d) \/ DeleteFails(d)

SessionsNext ==
  \/ \E s \in Sessions : Open(s) \/ Close(s) \/ Persist(s) \/ Ages(s) \/ DropsLate(s)
  \/ Plan \/ SweepStep
  \/ \E d \in Deleters : DeleteStep(d) \/ \E s \in Sessions : Delete(d, s)
  \/ \E a \in Askers : Drops(a) \/ Fails(a) \/ SaysNothing(a) \/ TimesOut(a)

(* The sweep's own steps, and its timer: not the registry's answer. *)
SessionsFairness == WF_sessionVars(SweepStep) /\ WF_sessionVars(TimesOut(Sweeper))

SessionsSpec == SessionsInit /\ [][SessionsNext]_sessionVars /\ SessionsFairness

-----------------------------------------------------------------------------
(* A session under a writer lease loses its transcript only to one who looked
   before it was resumed: deleteSession looks again after the registry's
   answer, so that a resume during its await is seen (session-lifecycle.ts:
   434-439), and what is left is the moment before its rmSync; the sweep does
   not, and whatever is resumed after its one look (transcript-gc.ts:357) may
   be taken.                                                                *)
LiveLostUnseen ==
  [][\A s \in Transcripts \cap writers : Contains(recency', s) \/ s \in overtaken]_sessionVars

(* EC-3: an entry without its transcript is repaired by nothing, so whatever
   fails, times out or overlaps, none is left behind, save that of a session
   opened under a removal that had already dropped its entry, or collected
   without the registry's report: its id cannot be read, no removeFromRegistry
   was given (transcript-gc.ts:333-336), or the registry resolved without a word
   (session-lifecycle.ts:301-306,400-405).                                  *)
EntriesHaveTranscripts == registry \subseteq Transcripts \cup excused

(* Whoever deletes what, a project that has sessions keeps one to continue;
   except when a session was resumed that somebody under way was about to take,
   who may then take the most recent one, and others those behind it
   (session-lifecycle.ts:247-250).                                         *)
SomethingToContinue ==
  [][recency # <<>> /\ recency' = <<>> => overtaken # {}]_sessionVars

(* A registry that never answers does not hang the sweep
   (registry-remover.ts:12-18).                                            *)
SweepsEnd == sweep.stage = "applying" ~> sweep.stage = "idle"

(* An active writer lease protects its transcript, whatever the policy says
   (transcript-gc.ts:33).                                                  *)
LeaseProtects == [][\A s \in Transcripts \cap writers : Contains(recency', s)]_sessionVars

=============================================================================
