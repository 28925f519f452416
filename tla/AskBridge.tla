----------------------------- MODULE AskBridge -----------------------------
(***************************************************************************)
(* createAskBridge() (packages/agents/src/ask/ask-bridge.ts): tool calls    *)
(* that ask on a thread, the screens that show the questions, and the      *)
(* answers on their way back.  A screen is attached once: another          *)
(* attachment of it is another screen.                                     *)
(***************************************************************************)
EXTENDS Integers, FiniteSets

CONSTANTS
  Calls,         \* tool calls in flight, parallel ones included
  Threads,
  ThreadOf,      \* the thread of each call
  Screens,
  NoScreen,
  MaxQuestions   \* bound on the questions asked

ASSUME AskAssumption ==
  /\ ThreadOf \in [Calls -> Threads]
  /\ NoScreen \notin Screens
  /\ MaxQuestions \in Nat

Questions == 1..MaxQuestions
NoQuestion == 0

VARIABLES
  asked,      \* number of questions asked so far
  byThread,   \* pendingByThread
  byId,       \* pendingById, as the thread of each pending question
  waiting,    \* the question each call awaits
  reply,      \* what settled each question: an answer, given to some question
  listener,   \* the screen attached to each thread
  card,       \* the question each screen shows
  typed,      \* answers on their way to the bridge, by their question
  left        \* history: pending questions that no call waits for any more

askVars == <<asked, byThread, byId, waiting, reply, listener, card, typed, left>>

AskInit ==
  /\ asked = 0
  /\ byThread = [t \in Threads |-> NoQuestion]
  /\ byId = {}
  /\ waiting = [k \in Calls |-> NoQuestion]
  /\ reply = [q \in Questions |-> NoQuestion]
  /\ listener = [t \in Threads |-> NoScreen]
  /\ card = [u \in Screens |-> NoQuestion]
  /\ typed = {}
  /\ left = {}

-----------------------------------------------------------------------------
(* ask(), where it does not reject at once: the thread has no question
   pending, and a screen.  Both maps are set before the screen is notified, and
   stay so when its listener throws, and the call with it.                 *)
Ask(k) ==
  LET t == ThreadOf[k]  q == asked + 1 IN
  /\ asked < MaxQuestions
  /\ byThread[t] = NoQuestion /\ listener[t] # NoScreen
  /\ asked' = q
  /\ byThread' = [byThread EXCEPT ![t] = q]
  /\ byId' = byId \cup {<<q, t>>}
  /\ \/ /\ waiting' = [waiting EXCEPT ![k] = q]
        /\ card' = [card EXCEPT ![listener[t]] = q]
        /\ UNCHANGED left
     \/ /\ left' = left \cup {q}
        /\ UNCHANGED <<waiting, card>>
  /\ UNCHANGED <<reply, listener, typed>>

(* The question tool's own timeout: the bridge is not told. *)
GiveUp(k) ==
  /\ waiting[k] # NoQuestion
  /\ waiting' = [waiting EXCEPT ![k] = NoQuestion]
  /\ left' = left \cup {waiting[k]}
  /\ UNCHANGED <<asked, byThread, byId, reply, listener, card, typed>>

(* The promise of q settles, and the call that awaits it goes on. *)
Settled(q) == [k \in Calls |-> IF waiting[k] = q THEN NoQuestion ELSE waiting[k]]

Forget(q, t) ==
  /\ byThread' = [byThread EXCEPT ![t] = NoQuestion]
  /\ byId' = byId \ {<<q, t>>}
  /\ left' = left \ {q}

FaultyAnswer(t, q) ==            \* by the thread, not by the question
  /\ q \in typed
  /\ typed' = typed \ {q}
  /\ IF byThread[t] # NoQuestion
     THEN /\ Forget(byThread[t], t)
          /\ reply' = [reply EXCEPT ![byThread[t]] = q]
          /\ waiting' = Settled(byThread[t])
     ELSE UNCHANGED <<byThread, byId, left, reply, waiting>>
  /\ UNCHANGED <<asked, listener, card>>

(* answer(): a late one finds no question, and is refused. *)
AnswerQuestion(t, q) ==
  /\ q \in typed
  /\ typed' = typed \ {q}
  /\ IF <<q, t>> \in byId
     THEN Forget(q, t) /\ reply' = [reply EXCEPT ![q] = q] /\ waiting' = Settled(q)
     ELSE UNCHANGED <<byThread, byId, left, reply, waiting>>
  /\ UNCHANGED <<asked, listener, card>>

(* abandon(): the run was cancelled, or the user closed the card; onAbandon
   clears the screen that is attached.                                     *)
Abandon(t) ==
  LET q == byThread[t] IN
  /\ q # NoQuestion
  /\ Forget(q, t)
  /\ waiting' = Settled(q)
  /\ card' = IF listener[t] = NoScreen THEN card ELSE [card EXCEPT ![listener[t]] = NoQuestion]
  /\ UNCHANGED <<asked, reply, listener, typed>>

-----------------------------------------------------------------------------
(* setListener() on a free thread; on another it throws. *)
Attach(u, t) ==
  /\ listener[t] = NoScreen
  /\ listener' = [listener EXCEPT ![t] = u]
  /\ UNCHANGED <<asked, byThread, byId, waiting, reply, card, typed, left>>

(* The disposer of u, whoever holds the slot by now. *)
Dispose(u, t) ==
  /\ listener' = [listener EXCEPT ![t] = IF @ = u THEN NoScreen ELSE @]
  /\ card' = [card EXCEPT ![u] = NoQuestion]
  /\ UNCHANGED <<asked, byThread, byId, waiting, reply, typed, left>>

(* The user answers the card, which closes. *)
Type(u) ==
  /\ card[u] # NoQuestion
  /\ typed' = typed \cup {card[u]}
  /\ card' = [card EXCEPT ![u] = NoQuestion]
  /\ UNCHANGED <<asked, byThread, byId, waiting, reply, listener, left>>

AskNext ==
  \/ \E t \in Threads :
       \/ Abandon(t)
       \/ \E q \in Questions : AnswerQuestion(t, q)
       \/ \E u \in Screens : Attach(u, t) \/ Dispose(u, t)
  \/ \E u \in Screens : Type(u)
  \/ \E k \in Calls : GiveUp(k)

-----------------------------------------------------------------------------
(* A call waits only for a question that can still be answered and abandoned:
   no turn hangs on a settled one.  A thread is taken only by a question that an
   answer or abandon() can settle and exactly one call waits for; or none, once
   the question tool has timed out (ask-bridge.ts:11) or the screen's listener
   threw (ask-bridge.ts:180), and then it refuses the next question until one of
   the two comes (ask-bridge.ts:89-95, 102-107).                           *)
Answerable ==
  /\ \A k \in Calls :
       waiting[k] # NoQuestion =>
         /\ <<waiting[k], ThreadOf[k]>> \in byId
         /\ byThread[ThreadOf[k]] = waiting[k]
  /\ \A t \in Threads :
       byThread[t] # NoQuestion =>
         /\ <<byThread[t], t>> \in byId
         /\ Cardinality({k \in Calls : ThreadOf[k] = t /\ waiting[k] = byThread[t]}) =
              IF byThread[t] \in left THEN 0 ELSE 1
  /\ \A p \in byId : byThread[p[2]] = p[1]

(* No question is settled by the answer to another one, asked earlier on its
   thread and abandoned while the answer was on its way (ask-bridge.ts:176). *)
AnsweredAsAsked == \A q \in Questions : reply[q] \in {NoQuestion, q}

AskHonest == Answerable /\ AnsweredAsAsked

=============================================================================
