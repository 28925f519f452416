---------------------------- MODULE AgentProofs ----------------------------
(***************************************************************************)
(* Proofs about HumanGates, for any number of calls, threads, surfaces,    *)
(* screens, approvals and questions, and about Sessions, for any number of *)
(* sessions and deleters.                                                  *)
(***************************************************************************)
EXTENDS HumanGates, Sessions, OrderProofs

-----------------------------------------------------------------------------
(* The approvals                                                           *)

Subjects == {OwnerOfRun[k] : k \in Calls}

(* Nobody knows of an approval that was not raised. *)
ApprovalsOK ==
  /\ owner \in Seq(Subjects) /\ Len(owner) <= MaxApprovals
  /\ pending \subseteq 1..Len(owner)
  /\ DOMAIN verdict = Approvals
  /\ answer \in [Clients -> [Approvals -> {"none", "sent", "admitted", "forbidden",
                                           "resolved", "not_pending"}]]
  /\ \A c \in Clients, a \in Approvals : answer[c][a] # "none" => a <= Len(owner)
  /\ open \in [Surfaces -> SUBSET (1..Len(owner))]
  /\ settled \in [Surfaces -> SUBSET (1..Len(owner))]
  /\ pruned \in [Surfaces -> Nat]
  /\ DOMAIN listing = Surfaces
  /\ \A s \in Surfaces : listing[s] = Nothing \/ listing[s] \subseteq 1..Len(owner)

(* What an answer was admitted for is still what it will settle. *)
DecisionInv ==
  \A c \in Clients, a \in Approvals :
    /\ answer[c][a] = "admitted" /\ a \in pending => owner[a] \in {NoOne, SubjectOf[c]}
    /\ answer[c][a] = "resolved" =>
         a \notin pending /\ verdict[a] = c /\ owner[a] \in {NoOne, SubjectOf[c]}

(* The ledger remembers every card its user decided, or was rewound past it. *)
LedgerInv ==
  \A s \in Surfaces :
    /\ open[s] \cap settled[s] = {}
    /\ \A a \in Approvals : answer[s][a] # "none" => a \in settled[s] \/ a < pruned[s]

ApprovalsInv == ApprovalsOK /\ DecisionInv /\ LedgerInv

-----------------------------------------------------------------------------
(* The questions                                                           *)

AskOK ==
  /\ asked \in 0..MaxQuestions
  /\ byThread \in [Threads -> 0..asked]
  /\ byId \subseteq (1..asked) \X Threads
  /\ waiting \in [Calls -> 0..asked]
  /\ reply \in [Questions -> 0..MaxQuestions]
  /\ listener \in [Threads -> Screens \cup {NoScreen}]
  /\ card \in [Screens -> 0..asked]
  /\ typed \subseteq 1..asked
  /\ left \subseteq 1..asked

(* A thread, its question and the one call that waits for it, if one does, know
   each other.                                                              *)
BridgeInv ==
  /\ \A k \in Calls : waiting[k] # NoQuestion =>
       /\ byThread[ThreadOf[k]] = waiting[k]
       /\ <<waiting[k], ThreadOf[k]>> \in byId
  /\ \A t \in Threads : byThread[t] # NoQuestion =>
       /\ <<byThread[t], t>> \in byId
       /\ byThread[t] \in left \/ \E k \in Calls : ThreadOf[k] = t /\ waiting[k] = byThread[t]
  /\ \A s, t \in Threads : byThread[s] # NoQuestion /\ byThread[s] = byThread[t] => s = t
  /\ \A k \in Calls : waiting[k] \notin left
  /\ \A j, k \in Calls : waiting[j] # NoQuestion /\ waiting[j] = waiting[k] => j = k
  /\ \A p \in byId : byThread[p[2]] = p[1]

AskInv == AskOK /\ BridgeInv /\ AnsweredAsAsked

GatesInv == ApprovalsInv /\ AskInv

-----------------------------------------------------------------------------
(* The principle of the least number, for sets of numbers. *)
LEMMA LeastElement ==
  ASSUME NEW S \in SUBSET Nat, S # {}
  PROVE  \E n \in S : \A m \in S : n <= m
<1> DEFINE Less == OpToRel(<, Nat)
<1>1. IsWellFoundedOn(Less, Nat)
  BY NatLessThanWellFounded
<1>2. \A m, n \in Nat : <<m, n>> \in Less <=> m < n
  BY DEF OpToRel
<1> HIDE DEF Less
<1>3. PICK n \in S : \A m \in S : ~ (<<m, n>> \in Less)
  BY <1>1, WFMin
<1>4. \A m \in S : m \in Nat /\ n \in Nat /\ ~ (m < n)
  BY <1>2, <1>3
<1>5. \A m \in S : n <= m
  BY <1>4
<1> QED
  BY <1>5

(* Decide takes a card of the ledger. *)
LEMMA MinIsMember ==
  ASSUME NEW S \in SUBSET Nat, S # {}
  PROVE  Min(S) \in S
  BY LeastElement DEF Min

-----------------------------------------------------------------------------
LEMMA RegisterKeepsApprovals ==
  ASSUME ApprovalsInv, NEW k \in Calls, Register(OwnerOfRun[k])
  PROVE  ApprovalsInv'
<1> DEFINE who == OwnerOfRun[k]
<1> USE ApprovalsAssumption DEF ApprovalsInv, ApprovalsOK, Approvals
<1>1. /\ owner' \in Seq(Subjects) /\ Len(owner') = Len(owner) + 1
      /\ \A a \in 1..Len(owner) : owner'[a] = owner[a]
  BY DEF Register, Subjects
<1>2. ApprovalsOK'
  <2>1. Len(owner) \in Nat /\ 1..Len(owner) \subseteq 1..Len(owner')
    BY <1>1
  <2>2. Len(owner') <= MaxApprovals
    BY <1>1, <2>1 DEF Register
  <2>3. pending' \subseteq 1..Len(owner')
    <3>1. Len(owner) + 1 \in 1..Len(owner')
      BY <1>1, <2>1
    <3> QED
      BY <2>1, <3>1 DEF Register
  <2>4. open' \in [Surfaces -> SUBSET (1..Len(owner'))]
        /\ settled' \in [Surfaces -> SUBSET (1..Len(owner'))]
    BY <2>1 DEF Register, ledgerVars
  <2>5. \A c \in Clients, a \in Approvals : answer'[c][a] # "none" => a <= Len(owner')
    BY <1>1, <2>1 DEF Register
  <2> QED
    BY <1>1, <2>1, <2>2, <2>3, <2>4, <2>5 DEF Register, ledgerVars
<1>3. DecisionInv'
  BY <1>1 DEF Register, DecisionInv
<1>4. LedgerInv'
  BY DEF Register, LedgerInv, ledgerVars
<1> QED
  BY <1>2, <1>3, <1>4

LEMMA ApprovalsStep ==
  ASSUME ApprovalsInv, ApprovalsNext
  PROVE  ApprovalsInv'
<1> USE ApprovalsAssumption DEF ApprovalsInv, ApprovalsOK, Approvals, Clients
<1>1. ASSUME NEW a \in Approvals, Expires(a) PROVE ApprovalsInv'
  <2>1. ApprovalsOK'
    BY <1>1 DEF Expires, Settle, ledgerVars
  <2>2. DecisionInv'
    BY <1>1 DEF Expires, Settle, DecisionInv
  <2>3. LedgerInv'
    BY <1>1 DEF Expires, LedgerInv, ledgerVars
  <2> QED
    BY <2>1, <2>2, <2>3
<1>2. ASSUME NEW a \in Approvals, NEW c \in Clients, Admit(c, a) PROVE ApprovalsInv'
  <2>1. ApprovalsOK'
    BY <1>2 DEF Admit, Answer, ledgerVars
  <2>2. DecisionInv'
    BY <1>2 DEF Admit, Answer, OwnerOf, DecisionInv
  <2>3. LedgerInv'
    BY <1>2 DEF Admit, Answer, LedgerInv, ledgerVars
  <2> QED
    BY <2>1, <2>2, <2>3
<1>3. ASSUME NEW a \in Approvals, NEW c \in Clients, Resolve(c, a) PROVE ApprovalsInv'
  <2>1. answer[c][a] = "admitted" /\ UNCHANGED <<owner, ledgerVars>>
    BY <1>3 DEF Resolve
  <2>2. CASE a \in pending
    <3>1. Settle(a, c) /\ Answer(c, a, "resolved")
      BY <1>3, <2>2 DEF Resolve
    <3>2. ApprovalsOK'
      BY <2>1, <3>1 DEF Settle, Answer, ledgerVars
    <3>3. DecisionInv'
      BY <2>1, <2>2, <3>1 DEF Settle, Answer, DecisionInv
    <3>4. LedgerInv'
      BY <2>1, <3>1 DEF Answer, LedgerInv, ledgerVars
    <3> QED
      BY <3>2, <3>3, <3>4
  <2>3. CASE a \notin pending
    <3>1. Answer(c, a, "not_pending") /\ UNCHANGED <<pending, verdict>>
      BY <1>3, <2>3 DEF Resolve
    <3>2. ApprovalsOK'
      BY <2>1, <3>1 DEF Answer, ledgerVars
    <3>3. DecisionInv'
      BY <2>1, <3>1 DEF Answer, DecisionInv
    <3>4. LedgerInv'
      BY <2>1, <3>1 DEF Answer, LedgerInv, ledgerVars
    <3> QED
      BY <3>2, <3>3, <3>4
  <2> QED
    BY <2>2, <2>3
<1>4. ASSUME NEW a \in Approvals, NEW b \in Bystanders, Interject(b, a) PROVE ApprovalsInv'
  <2>1. ApprovalsOK'
    BY <1>4 DEF Interject, Answer, ledgerVars
  <2>2. DecisionInv'
    BY <1>4 DEF Interject, Answer, DecisionInv
  <2>3. LedgerInv'
    BY <1>4 DEF Interject, Answer, LedgerInv, ledgerVars
  <2> QED
    BY <2>1, <2>2, <2>3
<1>5. ASSUME NEW a \in Approvals, NEW s \in Surfaces, Prune(s, a) PROVE ApprovalsInv'
  <2>1. ApprovalsOK'
    BY <1>5 DEF Prune
  <2>2. DecisionInv'
    BY <1>5 DEF Prune, DecisionInv
  <2>3. LedgerInv'
    BY <1>5 DEF Prune, LedgerInv
  <2> QED
    BY <2>1, <2>2, <2>3
<1>6. ASSUME NEW s \in Surfaces, Poll(s) PROVE ApprovalsInv'
  <2>1. ApprovalsOK'
    BY <1>6 DEF Poll
  <2>2. DecisionInv'
    BY <1>6 DEF Poll, DecisionInv
  <2>3. LedgerInv'
    BY <1>6 DEF Poll, LedgerInv
  <2> QED
    BY <2>1, <2>2, <2>3
<1>7. ASSUME NEW s \in Surfaces, Ingest(s) PROVE ApprovalsInv'
  <2>1. ApprovalsOK'
    BY <1>7 DEF Ingest
  <2>2. DecisionInv'
    BY <1>7 DEF Ingest, DecisionInv
  <2>3. LedgerInv'
    BY <1>7 DEF Ingest, LedgerInv
  <2> QED
    BY <2>1, <2>2, <2>3
<1>8. ASSUME NEW s \in Surfaces, Decide(s) PROVE ApprovalsInv'
  <2> DEFINE a == Min(open[s])
  <2>0. a \in open[s]
    <3>1. open[s] \in SUBSET Nat /\ open[s] # {}
      BY <1>8 DEF Decide
    <3> QED
      BY <3>1, MinIsMember
  <2> HIDE DEF a
  <2>1. /\ open' = [open EXCEPT ![s] = @ \ {a}]
        /\ settled' = [settled EXCEPT ![s] = @ \cup {a}]
        /\ Answer(s, a, "sent")
    BY <1>8 DEF Decide, a
  <2>2. a \in Approvals /\ a <= Len(owner) /\ UNCHANGED <<owner, pending, verdict, pruned, listing>>
    BY <1>8, <2>0 DEF Decide
  <2>3. ApprovalsOK'
    BY <2>0, <2>1, <2>2 DEF Answer
  <2>4. DecisionInv'
    BY <2>0, <2>1, <2>2 DEF Answer, DecisionInv
  <2>5. LedgerInv'
    BY <2>0, <2>1, <2>2 DEF Answer, LedgerInv
  <2> QED
    BY <2>3, <2>4, <2>5
<1> QED
  BY <1>1, <1>2, <1>3, <1>4, <1>5, <1>6, <1>7, <1>8 DEF ApprovalsNext

-----------------------------------------------------------------------------
(* The call that waits for a pending question, and no other, goes on. *)
LEMMA ForgetKeepsBridge ==
  ASSUME AskInv, NEW t \in Threads, NEW q, q # NoQuestion, byThread[t] = q,
         Forget(q, t), waiting' = Settled(q)
  PROVE  BridgeInv'
<1> USE AskAssumption DEF AskInv, AskOK, NoQuestion
<1>1. \A j \in Calls : waiting'[j] = IF waiting[j] = q THEN 0 ELSE waiting[j]
  BY DEF Settled
<1>2. ASSUME NEW j \in Calls, waiting'[j] # 0
      PROVE  waiting[j] # 0 /\ waiting'[j] = waiting[j] /\ waiting[j] # q /\ ThreadOf[j] # t
  <2>1. waiting[j] # 0 /\ waiting'[j] = waiting[j] /\ waiting[j] # q
    BY <1>1, <1>2
  <2>2. byThread[ThreadOf[j]] = waiting[j]
    BY <2>1 DEF BridgeInv
  <2> QED
    BY <2>1, <2>2
<1>3. /\ \A i \in Threads : byThread'[i] = IF i = t THEN 0 ELSE byThread[i]
      /\ byId' = byId \ {<<q, t>>} /\ left' = left \ {q}
  BY DEF Forget
<1>4. ASSUME NEW i \in Threads, byThread'[i] # 0
      PROVE  i # t /\ byThread'[i] = byThread[i] /\ byThread[i] # 0 /\ byThread[i] # q
  <2>1. i # t /\ byThread'[i] = byThread[i] /\ byThread[i] # 0
    BY <1>3, <1>4
  <2> QED
    BY <2>1 DEF BridgeInv
<1>5. \A p \in byId' : p \in byId /\ p[2] \in Threads /\ p[2] # t
  BY <1>3 DEF BridgeInv
<1>6. \A k \in Calls : waiting'[k] # 0 =>
        byThread'[ThreadOf[k]] = waiting'[k] /\ <<waiting'[k], ThreadOf[k]>> \in byId'
  <2> SUFFICES ASSUME NEW k \in Calls, waiting'[k] # 0
               PROVE  byThread'[ThreadOf[k]] = waiting'[k] /\ <<waiting'[k], ThreadOf[k]>> \in byId'
    OBVIOUS
  <2>1. waiting[k] # 0 /\ waiting'[k] = waiting[k] /\ waiting[k] # q /\ ThreadOf[k] # t
    BY <1>2
  <2>2. byThread[ThreadOf[k]] = waiting[k] /\ <<waiting[k], ThreadOf[k]>> \in byId
    BY <2>1 DEF BridgeInv
  <2> QED
    BY <1>3, <2>1, <2>2
<1>7. \A i \in Threads : byThread'[i] # 0 =>
        /\ <<byThread'[i], i>> \in byId'
        /\ byThread'[i] \in left' \/ \E k \in Calls : ThreadOf[k] = i /\ waiting'[k] = byThread'[i]
  <2> SUFFICES ASSUME NEW i \in Threads, byThread'[i] # 0
               PROVE  /\ <<byThread'[i], i>> \in byId'
                      /\ byThread'[i] \in left'
                           \/ \E k \in Calls : ThreadOf[k] = i /\ waiting'[k] = byThread'[i]
    OBVIOUS
  <2>1. i # t /\ byThread'[i] = byThread[i] /\ byThread[i] # 0 /\ byThread[i] # q
    BY <1>4
  <2>2. /\ <<byThread[i], i>> \in byId
        /\ byThread[i] \in left \/ \E k \in Calls : ThreadOf[k] = i /\ waiting[k] = byThread[i]
    BY <2>1 DEF BridgeInv
  <2> QED
    BY <1>1, <1>3, <2>1, <2>2
<1>8. \A s, i \in Threads : byThread'[s] # 0 /\ byThread'[s] = byThread'[i] => s = i
  BY <1>4 DEF BridgeInv
<1>9. /\ \A k \in Calls : waiting'[k] \notin left'
      /\ \A j, k \in Calls : waiting'[j] # 0 /\ waiting'[j] = waiting'[k] => j = k
  BY <1>1, <1>2, <1>3 DEF BridgeInv
<1>10. \A p \in byId' : byThread'[p[2]] = p[1]
  BY <1>3, <1>5 DEF BridgeInv
<1> QED
  BY <1>6, <1>7, <1>8, <1>9, <1>10 DEF BridgeInv

LEMMA BridgeUnchanged ==
  BridgeInv /\ AnsweredAsAsked /\ UNCHANGED <<byThread, byId, waiting, reply, left>>
    => BridgeInv' /\ AnsweredAsAsked'
BY DEF BridgeInv, AnsweredAsAsked

LEMMA AskStep ==
  ASSUME AskInv, AskNext
  PROVE  AskInv'
<1> USE AskAssumption DEF AskInv, AskOK, AnsweredAsAsked, Questions, NoQuestion
<1>1. ASSUME NEW t \in Threads, Abandon(t) PROVE AskInv'
  <2>1. BridgeInv'
    BY <1>1, ForgetKeepsBridge DEF Abandon
  <2>2. card' \in [Screens -> 0..asked]
    BY <1>1 DEF Abandon
  <2>3. waiting' \in [Calls -> 0..asked]
    BY <1>1 DEF Abandon, Settled
  <2>4. byThread' \in [Threads -> 0..asked] /\ byId' \subseteq byId /\ left' \subseteq left
    BY <1>1 DEF Abandon, Forget
  <2>5. AskOK' /\ AnsweredAsAsked'
    BY <1>1, <2>2, <2>3, <2>4 DEF Abandon
  <2> QED
    BY <2>1, <2>5
<1>2. ASSUME NEW t \in Threads, NEW q \in Questions, AnswerQuestion(t, q) PROVE AskInv'
  <2>1. CASE <<q, t>> \in byId
    <3>1. /\ Forget(q, t) /\ reply' = [reply EXCEPT ![q] = q] /\ waiting' = Settled(q)
          /\ typed' = typed \ {q} /\ UNCHANGED <<asked, listener, card>>
      BY <1>2, <2>1 DEF AnswerQuestion
    <3>2. byThread[t] = q
      BY <2>1 DEF BridgeInv
    <3>3. BridgeInv'
      BY <3>1, <3>2, ForgetKeepsBridge
    <3>4. AskOK' /\ AnsweredAsAsked'
      BY <3>1 DEF Forget, Settled
    <3> QED
      BY <3>3, <3>4
  <2>2. CASE <<q, t>> \notin byId
    BY <1>2, <2>2 DEF AnswerQuestion, BridgeInv
  <2> QED
    BY <2>1, <2>2
<1>3. ASSUME NEW t \in Threads, NEW u \in Screens, Attach(u, t) \/ Dispose(u, t) PROVE AskInv'
  <2>1. /\ UNCHANGED <<asked, byThread, byId, waiting, reply, typed, left>>
        /\ card' = card \/ card' = [card EXCEPT ![u] = 0]
    BY <1>3 DEF Attach, Dispose
  <2>3. listener' \in [Threads -> Screens \cup {NoScreen}]
    BY <1>3 DEF Attach, Dispose
  <2>4. card' \in [Screens -> 0..asked]
    <3>1. 0 \in 0..asked
      OBVIOUS
    <3> QED
      BY <2>1, <3>1
  <2>5. AskOK'
    BY <2>1, <2>3, <2>4
  <2>2. BridgeInv' /\ AnsweredAsAsked'
    BY <2>1, BridgeUnchanged
  <2> QED
    BY <2>5, <2>2
<1>4. ASSUME NEW u \in Screens, Type(u) PROVE AskInv'
  <2>0. UNCHANGED <<asked, byThread, byId, waiting, reply, listener, left>>
    BY <1>4 DEF Type
  <2>3. card[u] \in 1..asked /\ typed' = typed \cup {card[u]}
    BY <1>4 DEF Type
  <2>4. card' \in [Screens -> 0..asked]
    BY <1>4 DEF Type
  <2>5. typed' \subseteq 1..asked
    BY <2>3
  <2>1. AskOK'
    BY <2>0, <2>4, <2>5
  <2>2. BridgeInv' /\ AnsweredAsAsked'
    BY <2>0, BridgeUnchanged
  <2> QED
    BY <2>1, <2>2
<1>5. ASSUME NEW k \in Calls, GiveUp(k) PROVE AskInv'
  <2>1. /\ waiting[k] # 0 /\ waiting' = [waiting EXCEPT ![k] = 0]
        /\ left' = left \cup {waiting[k]}
        /\ UNCHANGED <<asked, byThread, byId, reply, listener, card, typed>>
    BY <1>5 DEF GiveUp
  <2>2. waiting[k] \in 1..asked /\ \A j \in Calls : waiting'[j] = IF j = k THEN 0 ELSE waiting[j]
    BY <2>1
  <2>3. waiting' \in [Calls -> 0..asked] /\ left' \subseteq 1..asked
    <3>1. 0 \in 0..asked
      OBVIOUS
    <3>2. waiting' \in [Calls -> 0..asked]
      BY <2>1, <3>1
    <3>3. left' \subseteq 1..asked
      BY <2>1, <2>2
    <3> QED
      BY <3>2, <3>3
  <2>4. AskOK' /\ AnsweredAsAsked'
    BY <2>1, <2>3
  <2>5. \A t \in Threads : byThread[t] # 0 =>
          byThread[t] \in left' \/ \E j \in Calls : ThreadOf[j] = t /\ waiting'[j] = byThread[t]
    BY <2>1, <2>2 DEF BridgeInv
  <2>6. /\ \A j \in Calls : waiting'[j] \notin left'
        /\ \A i, j \in Calls : waiting'[i] # 0 /\ waiting'[i] = waiting'[j] => i = j
        /\ \A j \in Calls : waiting'[j] # 0 => waiting'[j] = waiting[j]
    BY <2>1, <2>2 DEF BridgeInv
  <2>7. BridgeInv'
    BY <2>1, <2>5, <2>6 DEF BridgeInv
  <2> QED
    BY <2>4, <2>7
<1> QED
  BY <1>1, <1>2, <1>3, <1>4, <1>5 DEF AskNext

(* The question tool, called by a call that waits for nothing. *)
LEMMA AskKeepsAsk ==
  ASSUME AskInv, NEW k \in Calls, waiting[k] = NoQuestion, Ask(k)
  PROVE  AskInv'
<1> USE AskAssumption DEF AskInv, AskOK, AnsweredAsAsked, Questions, NoQuestion
<1> DEFINE t == ThreadOf[k]
           q == asked + 1
<1>0. t \in Threads /\ q \in Nat /\ q <= MaxQuestions
  <2>1. t \in Threads
    OBVIOUS
  <2>2. asked \in Nat /\ asked < MaxQuestions
    BY DEF Ask
  <2> QED
    BY <2>1, <2>2
<1>1. /\ byThread[t] = 0 /\ asked' = q
      /\ byThread' = [byThread EXCEPT ![t] = q]
      /\ byId' = byId \cup {<<q, t>>}
      /\ UNCHANGED <<reply, listener, typed>>
  BY DEF Ask
<1>2. /\ card' = card \/ card' = [card EXCEPT ![listener[t]] = q]
      /\ listener[t] \in Screens
      /\ \/ waiting' = [waiting EXCEPT ![k] = q] /\ left' = left
         \/ waiting' = waiting /\ left' = left \cup {q}
  BY DEF Ask
<1>3. q \notin 0..asked /\ 0..asked \subseteq 0..q /\ q \in 1..q /\ 1..asked \subseteq 1..q
  BY <1>0
<1>4. card' \in [Screens -> 0..q] /\ waiting' \in [Calls -> 0..q] /\ left' \subseteq 1..q
  <2>1. q \in 0..q
    BY <1>3
  <2>2. card \in [Screens -> 0..q] /\ waiting \in [Calls -> 0..q]
    BY <1>3
  <2>3. card' \in [Screens -> 0..q]
    BY <1>2, <2>1, <2>2
  <2>4. waiting' \in [Calls -> 0..q]
    <3>1. CASE waiting' = waiting
      BY <2>2, <3>1
    <3>2. CASE waiting' = [waiting EXCEPT ![k] = q]
      BY <2>1, <2>2, <3>2
    <3> QED
      BY <1>2, <3>1, <3>2
  <2>5. left' \subseteq 1..q
    BY <1>2, <1>3
  <2> QED
    BY <2>3, <2>4, <2>5
<1>5. byThread' \in [Threads -> 0..q] /\ byId' \subseteq (1..q) \X Threads /\ typed' \subseteq 1..q
  BY <1>0, <1>1, <1>3
<1>6. AskOK' /\ AnsweredAsAsked'
  BY <1>0, <1>1, <1>4, <1>5
<1>7. ASSUME NEW j \in Calls, waiting[j] # 0 PROVE ThreadOf[j] # t /\ waiting[j] # q
  <2>1. byThread[ThreadOf[j]] = waiting[j]
    BY <1>7 DEF BridgeInv
  <2>2. waiting[j] \in 0..asked
    OBVIOUS
  <2> QED
    BY <1>1, <1>3, <1>7, <2>1, <2>2
<1>8. \A p \in byId : p[2] # t /\ p[2] \in Threads
  BY <1>1 DEF BridgeInv
<1>9. \A i \in Threads : byThread'[i] = IF i = t THEN q ELSE byThread[i]
  BY <1>0, <1>1
<1>10. \A i \in Threads : byThread[i] # q
  BY <1>3
<1>11. \A j \in Calls : waiting'[j] = waiting[j] \/ (j = k /\ waiting'[j] = q /\ left' = left)
  BY <1>2
<1>12. \A j \in Calls : waiting'[j] # 0 =>
         byThread'[ThreadOf[j]] = waiting'[j] /\ <<waiting'[j], ThreadOf[j]>> \in byId'
  BY <1>1, <1>7, <1>9, <1>11 DEF BridgeInv
<1>13. \A i \in Threads : byThread'[i] # 0 =>
         /\ <<byThread'[i], i>> \in byId'
         /\ byThread'[i] \in left' \/ \E j \in Calls : ThreadOf[j] = i /\ waiting'[j] = byThread'[i]
  <2>1. q \in left' \/ waiting'[k] = q
    BY <1>2
  <2>2. \A j \in Calls : waiting[j] # 0 => waiting'[j] = waiting[j]
    BY <1>2
  <2>3. ASSUME NEW i \in Threads, i # t, byThread[i] # 0
        PROVE  /\ <<byThread[i], i>> \in byId
               /\ byThread[i] \in left' \/ \E j \in Calls : ThreadOf[j] = i /\ waiting'[j] = byThread[i]
    <3>1. /\ <<byThread[i], i>> \in byId
          /\ byThread[i] \in left \/ \E j \in Calls : ThreadOf[j] = i /\ waiting[j] = byThread[i]
      BY <2>3 DEF BridgeInv
    <3> QED
      BY <1>2, <2>2, <2>3, <3>1
  <2> QED
    BY <1>1, <1>9, <2>1, <2>3
<1>14. \A s, i \in Threads : byThread'[s] # 0 /\ byThread'[s] = byThread'[i] => s = i
  BY <1>9, <1>10 DEF BridgeInv
<1>15. \A j \in Calls : waiting'[j] \notin left'
  <2>1. q \notin left /\ \A j \in Calls : waiting[j] # q
    BY <1>3
  <2>2. \A j \in Calls : waiting[j] \notin left
    BY DEF BridgeInv
  <2>3. CASE waiting' = [waiting EXCEPT ![k] = q] /\ left' = left
    BY <2>1, <2>2, <2>3
  <2>4. CASE waiting' = waiting /\ left' = left \cup {q}
    BY <2>1, <2>2, <2>4
  <2> QED
    BY <1>2, <2>3, <2>4
<1>16. \A i, j \in Calls : waiting'[i] # 0 /\ waiting'[i] = waiting'[j] => i = j
  BY <1>7, <1>11 DEF BridgeInv
<1>17. \A p \in byId' : byThread'[p[2]] = p[1]
  BY <1>0, <1>1, <1>8, <1>9 DEF BridgeInv
<1>18. BridgeInv'
  BY <1>12, <1>13, <1>14, <1>15, <1>16, <1>17 DEF BridgeInv
<1> QED
  BY <1>6, <1>18

-----------------------------------------------------------------------------
LEMMA UnchangedApprovals == ApprovalsInv /\ UNCHANGED approvalVars => ApprovalsInv'
  BY DEF approvalVars, ApprovalsInv, ApprovalsOK, DecisionInv, LedgerInv

LEMMA UnchangedAsk == AskInv /\ UNCHANGED askVars => AskInv'
  BY DEF askVars, AskInv, AskOK, BridgeInv, AnsweredAsAsked

LEMMA GatesAlways == GatesSpec => []GatesInv
<1>1. GatesInit => GatesInv
  <2> SUFFICES ASSUME GatesInit PROVE GatesInv
    OBVIOUS
  <2>1. ApprovalsInv
    <3> USE ApprovalsAssumption DEF GatesInit, ApprovalsInit, Approvals
    <3>1. owner \in Seq(Subjects) /\ Len(owner) = 0 /\ DOMAIN verdict = 1..MaxApprovals
      OBVIOUS
    <3>2. ApprovalsOK
      BY <3>1 DEF ApprovalsOK
    <3>3. \A c \in Clients, a \in Approvals : answer[c][a] = "none"
      OBVIOUS
    <3>4. DecisionInv
      BY <3>3 DEF DecisionInv
    <3>5. \A s \in Surfaces : open[s] = {} /\ s \in Clients
      BY DEF Clients
    <3>6. LedgerInv
      BY <3>3, <3>5 DEF LedgerInv
    <3> QED
      BY <3>2, <3>4, <3>6 DEF ApprovalsInv
  <2>2. AskInv
    BY AskAssumption DEF GatesInit, AskInit, AskInv, AskOK, BridgeInv, AnsweredAsAsked,
       NoQuestion, Questions
  <2> QED
    BY <2>1, <2>2 DEF GatesInv
<1>2. GatesInv /\ [GatesNext]_gateVars => GatesInv'
  <2> SUFFICES ASSUME GatesInv, [GatesNext]_gateVars PROVE GatesInv'
    OBVIOUS
  <2> USE DEF GatesInv
  <2>1. ASSUME NEW k \in Calls, Pause(k) PROVE GatesInv'
    <3>1. ApprovalsInv'
      BY <2>1, RegisterKeepsApprovals DEF Pause
    <3>2. AskInv'
      BY <2>1, UnchangedAsk DEF Pause
    <3> QED
      BY <3>1, <3>2
  <2>2. ASSUME NEW k \in Calls, AskUser(k) PROVE GatesInv'
    <3>1. AskInv'
      BY <2>2, AskKeepsAsk DEF AskUser, MayPause
    <3>2. ApprovalsInv'
      BY <2>2, UnchangedApprovals DEF AskUser
    <3> QED
      BY <3>1, <3>2
  <2>3. CASE ApprovalsNext /\ UNCHANGED <<askVars, gate>>
    BY <2>3, ApprovalsStep, UnchangedAsk
  <2>4. CASE AskNext /\ UNCHANGED <<approvalVars, gate>>
    BY <2>4, AskStep, UnchangedApprovals
  <2>5. CASE UNCHANGED <<approvalVars, askVars>>
    BY <2>5, UnchangedAsk, UnchangedApprovals
  <2> QED
    BY <2>1, <2>2, <2>3, <2>4, <2>5 DEF GatesNext, Proceed, gateVars
<1> QED
  BY <1>1, <1>2, PTL DEF GatesSpec

(* An answer that is told it resolved an approval did, and was entitled to;
   for any number of clients that answer at any time (approve-agent.ts). *)
THEOREM DecisionsAreHonest == GatesSpec => []OneDecision
<1>1. GatesInv => OneDecision
  BY DEF GatesInv, ApprovalsInv, DecisionInv, OneDecision
<1> QED
  BY <1>1, GatesAlways, PTL

(* No listing, however late, brings a dismissed card back (pending-ledger.ts). *)
THEOREM DismissedCardsStay == GatesSpec => []CardsStayDismissed
<1>1. GatesInv => CardsStayDismissed
  BY ApprovalsAssumption DEF GatesInv, ApprovalsInv, ApprovalsOK, LedgerInv, CardsStayDismissed,
     Approvals
<1> QED
  BY <1>1, GatesAlways, PTL

(* Every call that waits on a question can be answered and abandoned, every
   thread that is taken is taken by exactly one such call, and no answer settles
   a question but its own (ask-bridge.ts). *)
THEOREM QuestionsAreHonest == GatesSpec => []AskHonest
<1>1. GatesInv => AskHonest
  <2> SUFFICES ASSUME GatesInv PROVE Answerable
    BY DEF AskHonest, GatesInv, AskInv
  <2> USE DEF GatesInv, AskInv, NoQuestion
  <2>1. ASSUME NEW t \in Threads, byThread[t] # NoQuestion
        PROVE  Cardinality({k \in Calls : ThreadOf[k] = t /\ waiting[k] = byThread[t]})
                 = IF byThread[t] \in left THEN 0 ELSE 1
    <3> DEFINE W == {k \in Calls : ThreadOf[k] = t /\ waiting[k] = byThread[t]}
    <3>1. CASE byThread[t] \in left
      <4>1. W = {}
        BY <3>1 DEF BridgeInv
      <4> QED
        BY <3>1, <4>1, FS_EmptySet
    <3>2. CASE byThread[t] \notin left
      <4>1. PICK k \in Calls : ThreadOf[k] = t /\ waiting[k] = byThread[t]
        BY <2>1, <3>2 DEF BridgeInv
      <4>2. W = {k}
        BY <2>1, <4>1 DEF BridgeInv
      <4> QED
        BY <3>2, <4>2, FS_Singleton
    <3> QED
      BY <3>1, <3>2
  <2>2. \A t \in Threads : byThread[t] # NoQuestion => <<byThread[t], t>> \in byId
    BY DEF BridgeInv
  <2>3. /\ \A k \in Calls : waiting[k] # NoQuestion =>
             <<waiting[k], ThreadOf[k]>> \in byId /\ byThread[ThreadOf[k]] = waiting[k]
        /\ \A p \in byId : byThread[p[2]] = p[1]
    BY DEF BridgeInv
  <2> QED
    BY <2>1, <2>2, <2>3 DEF Answerable
<1> QED
  BY <1>1, GatesAlways, PTL

-----------------------------------------------------------------------------
(* The sessions                                                            *)

Removals == {"none", "asked", "dropped", "unheard", "failed"}
AskRecords == [session : Sessions \cup {NoSession}, state : Removals, looked : BOOLEAN]
SweepRecords == [stage : {"idle", "planned", "applying"}, todo : Seq(Sessions),
                 guarded : SUBSET Sessions, asks : BOOLEAN]

SessionsOK ==
  /\ recency \in Seq(Sessions)
  /\ writers \in SUBSET Sessions
  /\ registry \in SUBSET Sessions
  /\ late \in SUBSET Sessions
  /\ excused \in SUBSET Sessions
  /\ overtaken \in SUBSET Sessions
  /\ sweep \in SweepRecords
  /\ sweep.stage # "idle" => sweep.todo # <<>>
  /\ ask \in [Askers -> AskRecords]

(* What a caller waits for: the sweep, for its first candidate. *)
RemovalsInv ==
  /\ \A a \in Askers : ask[a].state # "none" => ask[a].session \in Sessions
  /\ \A a \in Askers : ask[a].looked => ask[a].state \in {"dropped", "unheard"}
  /\ ask[Sweeper].state # "none" =>
       /\ sweep.stage = "applying"
       /\ ask[Sweeper].session = Head(sweep.todo)
       /\ Head(sweep.todo) \notin sweep.guarded

(* A removal that was reported left no entry, but for a session opened since. *)
DroppedInv ==
  \A a \in Askers : ask[a].state = "dropped" /\ ask[a].session \in registry =>
    ask[a].session \in excused

(* Who will unlink a session without another look spares the most recent one and
   those that are held, unless a session was opened under such a one.       *)
DoomInv ==
  /\ overtaken = {} /\ recency # <<>> => ~ Doomed(Head(recency))
  /\ \A s \in Transcripts \cap writers : Doomed(s) => s \in overtaken

SessionsInv == SessionsOK /\ RemovalsInv /\ DroppedInv /\ DoomInv /\ EntriesHaveTranscripts

-----------------------------------------------------------------------------
LEMMA TranscriptsAre ==
  ASSUME SessionsOK
  PROVE  Transcripts = {recency[i] : i \in 1..Len(recency)} /\ Transcripts \subseteq Sessions
BY DEF SessionsOK, Transcripts, ToSet

LEMMA UnlinkLeaves ==
  ASSUME SessionsOK, NEW s \in Sessions, Unlink(s)
  PROVE  /\ recency' \in Seq(Sessions)
         /\ Transcripts' = Transcripts \ {s}
         /\ recency # <<>> /\ Head(recency) # s => recency' # <<>> /\ Head(recency') = Head(recency)
<1>1. recency' \in Filtered(recency, Sessions \ {s}) /\ recency \in Seq(Sessions)
  BY DEF Unlink, SessionsOK
<1>2. /\ recency' \in Seq(Sessions)
      /\ \A k \in 1..Len(recency') :
           recency'[k] \in Sessions \ {s} /\ \E i \in 1..Len(recency) : recency'[k] = recency[i]
      /\ \A i \in 1..Len(recency) :
           recency[i] \in Sessions \ {s} => \E k \in 1..Len(recency') : recency'[k] = recency[i]
  BY <1>1, FilterKeeps
<1>3. Transcripts' = Transcripts \ {s}
  <2>1. Transcripts = {recency[i] : i \in 1..Len(recency)}
    BY <1>1 DEF Transcripts, ToSet
  <2>2. Transcripts' = {recency'[i] : i \in 1..Len(recency')}
    <3>1. DOMAIN recency' = 1..Len(recency')
      BY <1>2
    <3> QED
      BY <3>1 DEF Transcripts, ToSet
  <2>3. \A i \in 1..Len(recency) : recency[i] \in Sessions
    BY <1>1
  <2>4. ASSUME NEW x \in Transcripts' PROVE x \in Transcripts \ {s}
    <3>1. PICK k \in 1..Len(recency') : x = recency'[k]
      BY <2>2, <2>4
    <3> QED
      BY <1>2, <2>1, <3>1
  <2>5. ASSUME NEW x \in Transcripts \ {s} PROVE x \in Transcripts'
    <3>1. PICK i \in 1..Len(recency) : x = recency[i]
      BY <2>1, <2>5
    <3>2. recency[i] \in Sessions \ {s}
      BY <2>3, <2>5, <3>1
    <3> QED
      BY <1>2, <2>2, <3>1, <3>2
  <2> QED
    BY <2>4, <2>5
<1>4. ASSUME recency # <<>>, Head(recency) # s
      PROVE  recency' # <<>> /\ Head(recency') = Head(recency)
  <2>1. Head(recency) = recency[1] /\ recency[1] \in Sessions \ {s}
    BY <1>1, <1>4
  <2> QED
    BY <1>1, <1>4, <2>1, FilterKeepsFirst
<1> QED
  BY <1>2, <1>3, <1>4

LEMMA OpenLeads ==
  ASSUME SessionsOK, NEW s \in Sessions, Open(s)
  PROVE  /\ recency' \in Seq(Sessions) /\ recency' # <<>> /\ Head(recency') = s
         /\ Transcripts' = Transcripts \cup {s}
<1>1. PICK rest \in Filtered(recency, Sessions \ {s}) : recency' = <<s>> \o rest
  BY DEF Open
<1>2. recency \in Seq(Sessions)
  BY DEF SessionsOK
<1>3. /\ rest \in Seq(Sessions)
      /\ \A k \in 1..Len(rest) :
           rest[k] \in Sessions \ {s} /\ \E i \in 1..Len(recency) : rest[k] = recency[i]
      /\ \A i \in 1..Len(recency) :
           recency[i] \in Sessions \ {s} => \E k \in 1..Len(rest) : rest[k] = recency[i]
  BY <1>2, FilterKeeps
<1>4. /\ recency' \in Seq(Sessions) /\ Len(recency') = Len(rest) + 1 /\ Len(rest) \in Nat
      /\ recency'[1] = s
      /\ \A k \in 1..Len(rest) : recency'[k + 1] = rest[k]
  BY <1>1, <1>3
<1>5. recency' # <<>> /\ Head(recency') = s
  BY <1>4
<1>6. Transcripts' = Transcripts \cup {s}
  <2>1. Transcripts = {recency[i] : i \in 1..Len(recency)}
    BY <1>2 DEF Transcripts, ToSet
  <2>2. Transcripts' = {recency'[i] : i \in 1..Len(recency')}
    BY <1>4 DEF Transcripts, ToSet
  <2>3. \A i \in 1..Len(recency) : recency[i] \in Sessions
    BY <1>2
  <2>4. ASSUME NEW x \in Transcripts' PROVE x \in Transcripts \cup {s}
    <3>1. PICK i \in 1..Len(recency') : x = recency'[i]
      BY <2>2, <2>4
    <3>2. CASE i = 1
      BY <1>4, <3>1, <3>2
    <3>3. CASE i # 1
      <4>1. i - 1 \in 1..Len(rest) /\ (i - 1) + 1 = i
        BY <1>4, <3>1, <3>3
      <4>2. x = rest[i - 1]
        BY <1>4, <3>1, <4>1
      <4> QED
        BY <1>3, <2>1, <4>1, <4>2
    <3> QED
      BY <3>2, <3>3
  <2>5. ASSUME NEW x \in Transcripts \cup {s} PROVE x \in Transcripts'
    <3>1. CASE x = s
      <4>1. 1 \in 1..Len(recency')
        BY <1>4
      <4> QED
        BY <1>4, <2>2, <3>1, <4>1
    <3>2. CASE x # s
      <4>1. PICK i \in 1..Len(recency) : x = recency[i]
        BY <2>1, <2>5, <3>2
      <4>2. PICK k \in 1..Len(rest) : rest[k] = x
        BY <1>3, <2>3, <3>2, <4>1
      <4>3. k + 1 \in 1..Len(recency') /\ recency'[k + 1] = x
        BY <1>4, <4>2
      <4> QED
        BY <2>2, <4>3
    <3> QED
      BY <3>1, <3>2
  <2> QED
    BY <2>4, <2>5
<1> QED
  BY <1>4, <1>5, <1>6

LEMMA SeqHead ==
  ASSUME NEW T, NEW q \in Seq(T), q # <<>>
  PROVE  1 \in 1..Len(q) /\ Head(q) = q[1] /\ Head(q) \in T
OBVIOUS

LEMMA MostRecentIsThere ==
  ASSUME SessionsOK, recency # <<>>
  PROVE  Head(recency) \in Transcripts /\ Head(recency) \in Sessions
<1>1. recency \in Seq(Sessions)
  BY DEF SessionsOK
<1>2. 1 \in 1..Len(recency) /\ Head(recency) = recency[1] /\ Head(recency) \in Sessions
  BY <1>1, SeqHead
<1> QED
  BY <1>2, TranscriptsAre

LEMMA ContainsIs ==
  ASSUME NEW T, NEW q \in Seq(T), NEW s
  PROVE  Contains(q, s) <=> s \in ToSet(q)
BY DEF Contains, ToSet

LEMMA AskChanges ==
  ASSUME SessionsOK, NEW a \in Askers, NEW r \in AskRecords, ask' = [ask EXCEPT ![a] = r]
  PROVE  /\ ask' \in [Askers -> AskRecords]
         /\ ask'[a] = r
         /\ \A b \in Askers : b # a => ask'[b] = ask[b]
BY DEF SessionsOK

LEMMA IdleAsker ==
  NotAsking \in AskRecords /\ NotAsking.state = "none" /\ NotAsking.looked = FALSE
BY DEF NotAsking, AskRecords, Removals

(* The first candidate, and going on to the next. *)
LEMMA FirstCandidate ==
  ASSUME SessionsOK, sweep.stage = "applying"
  PROVE  Candidate \in Sessions /\ Contains(sweep.todo, Candidate)
<1> DEFINE q == sweep.todo
<1>1. q \in Seq(Sessions) /\ q # <<>>
  BY DEF SessionsOK, SweepRecords
<1> HIDE DEF q
<1>2. Head(q) \in Sessions /\ Contains(q, Head(q))
  BY <1>1, SeqHead DEF Contains
<1> QED
  BY <1>2 DEF Candidate, q

LEMMA CandidateDone ==
  ASSUME SessionsOK, sweep.stage = "applying", NextCandidate
  PROVE  /\ sweep' \in SweepRecords
         /\ sweep'.stage # "idle" => sweep'.todo # <<>>
         /\ \A s \in Sessions : Swept(s)' => Swept(s)
<1> DEFINE q == sweep.todo
<1>1. q \in Seq(Sessions) /\ q # <<>>
  BY DEF SessionsOK, SweepRecords
<1>2. sweep' = IF Tail(q) = <<>> THEN NoSweep ELSE [sweep EXCEPT !.todo = Tail(q)]
  BY DEF NextCandidate
<1> HIDE DEF q
<1>3. /\ Tail(q) \in Seq(Sessions)
      /\ \A i \in 1..Len(Tail(q)) : i + 1 \in 1..Len(q) /\ Tail(q)[i] = q[i + 1]
  BY <1>1
<1>4. \A s : Contains(Tail(q), s) => Contains(q, s)
  BY <1>3 DEF Contains
<1>5. CASE Tail(q) = <<>>
  <2>1. sweep' = NoSweep
    BY <1>2, <1>5
  <2>2. NoSweep \in SweepRecords /\ NoSweep.stage = "idle"
    BY DEF NoSweep, SweepRecords
  <2> QED
    BY <2>1, <2>2 DEF Swept
<1>6. CASE Tail(q) # <<>>
  <2>1. sweep' = [sweep EXCEPT !.todo = Tail(q)]
    BY <1>2, <1>6
  <2>2. /\ sweep' \in SweepRecords /\ sweep'.todo = Tail(q)
        /\ sweep'.stage = sweep.stage /\ sweep'.guarded = sweep.guarded
    BY <1>3, <2>1 DEF SessionsOK, SweepRecords
  <2> QED
    BY <1>4, <1>6, <2>2 DEF Swept, q
<1> QED
  BY <1>5, <1>6

-----------------------------------------------------------------------------
(* Steps that doom no session that is protected. *)
LEMMA ProtectedSpared ==
  ASSUME SessionsOK, DoomInv, UNCHANGED <<recency, writers, overtaken>>,
         \A s \in Sessions : Doomed(s)' => Doomed(s) \/ s \notin Protected
  PROVE  DoomInv'
<1>1. Transcripts' = Transcripts /\ Transcripts \subseteq Sessions
  BY TranscriptsAre DEF Transcripts
<1>2. recency # <<>> => Head(recency) \in Protected /\ Head(recency) \in Sessions
  <2>1. recency # <<>> => Head(recency) \in Transcripts /\ Head(recency) \in Sessions
    BY MostRecentIsThere
  <2> QED
    BY <2>1 DEF Protected
<1>3. Transcripts \cap writers \subseteq Protected
  BY DEF Protected
<1>4. overtaken' = {} /\ recency' # <<>> => ~ Doomed(Head(recency))'
  BY <1>2 DEF DoomInv
<1>5. \A s \in Transcripts \cap writers : Doomed(s)' => s \in overtaken
  BY <1>1, <1>3 DEF DoomInv
<1> QED
  BY <1>1, <1>4, <1>5 DEF DoomInv

(* Steps after which fewer are doomed, some perhaps taken. *)
LEMMA FewerDoomed ==
  ASSUME SessionsOK, recency' \in Seq(Sessions), DoomInv,
         Transcripts' \subseteq Transcripts, writers' = writers,
         \A s \in Sessions : Doomed(s)' => Doomed(s),
         overtaken = {} /\ recency' # <<>> => recency # <<>> /\ Head(recency') = Head(recency),
         OvertakenKept
  PROVE  DoomInv'
<1>1. Transcripts \subseteq Sessions
  BY TranscriptsAre
<1>2. recency' # <<>> => Head(recency') \in Sessions
  BY SeqHead
<1>3. CASE \E s \in Sessions : Doomed(s)'
  <2>1. overtaken' = overtaken
    BY <1>3 DEF OvertakenKept
  <2>2. ASSUME NEW s \in Sessions, overtaken = {}, recency' # <<>>, s = Head(recency')
        PROVE  ~ Doomed(s)'
    <3>1. ~ Doomed(s)
      BY <2>2 DEF DoomInv
    <3> QED
      BY <3>1
  <2>3. \A s \in Transcripts' \cap writers : Doomed(s)' => s \in overtaken
    BY <1>1 DEF DoomInv
  <2> QED
    BY <1>2, <2>1, <2>2, <2>3 DEF DoomInv
<1>4. CASE ~ \E s \in Sessions : Doomed(s)'
  BY <1>1, <1>2, <1>4 DEF DoomInv
<1> QED
  BY <1>3, <1>4

(* A transcript is taken, or not, by one who was about to. *)
LEMMA DiscardKeeps ==
  ASSUME SessionsOK, DoomInv, EntriesHaveTranscripts, NEW s \in Sessions, Doomed(s),
         NEW reported, Discard(s, reported), UNCHANGED registry,
         reported /\ s \in registry => s \in excused
  PROVE  /\ recency' \in Seq(Sessions)
         /\ excused' \in SUBSET Sessions /\ excused \subseteq excused'
         /\ Transcripts' \subseteq Transcripts
         /\ overtaken = {} /\ recency' # <<>> => recency # <<>> /\ Head(recency') = Head(recency)
         /\ EntriesHaveTranscripts'
<1>1. CASE UNCHANGED <<recency, old, excused>>
  BY <1>1 DEF SessionsOK, Transcripts, EntriesHaveTranscripts
<1>2. CASE Unlink(s) /\ excused' = IF reported THEN excused ELSE excused \cup ({s} \cap registry)
  <2>1. /\ recency' \in Seq(Sessions)
        /\ Transcripts' = Transcripts \ {s}
        /\ recency # <<>> /\ Head(recency) # s => recency' # <<>> /\ Head(recency') = Head(recency)
    BY <1>2, UnlinkLeaves
  <2>2. excused' \in SUBSET Sessions /\ excused \subseteq excused'
    BY <1>2 DEF SessionsOK
  <2>3. ASSUME overtaken = {}, recency' # <<>>
        PROVE  recency # <<>> /\ Head(recency') = Head(recency)
    <3>1. recency # <<>>
      <4>1. Transcripts' # {}
        BY <2>1, <2>3, SeqHead DEF Transcripts, ToSet
      <4>2. Transcripts # {}
        BY <2>1, <4>1
      <4> QED
        BY <4>2 DEF Transcripts, ToSet
    <3>2. Head(recency) # s
      BY <2>3, <3>1 DEF DoomInv
    <3> QED
      BY <2>1, <3>1, <3>2
  <2>4. s \in registry => s \in excused'
    BY <1>2
  <2>5. EntriesHaveTranscripts'
    BY <2>1, <2>2, <2>4 DEF EntriesHaveTranscripts
  <2> QED
    BY <2>1, <2>2, <2>3, <2>5
<1> QED
  BY <1>1, <1>2 DEF Discard

-----------------------------------------------------------------------------
LEMMA OpenKeeps ==
  ASSUME SessionsInv, NEW s \in Sessions, Open(s)
  PROVE  SessionsInv'
<1>1. /\ registry' = registry \cup {s} /\ writers' = writers \cup {s}
      /\ excused' = IF Unlisted(s) THEN excused \cup {s} ELSE excused \ {s}
      /\ overtaken' = IF Doomed(s) THEN overtaken \cup {s} ELSE overtaken \ {s}
      /\ UNCHANGED <<sweep, ask, late>>
  BY DEF Open
<1>2. SessionsOK
  BY DEF SessionsInv
<1>3. /\ recency' \in Seq(Sessions) /\ recency' # <<>> /\ Head(recency') = s
      /\ Transcripts' = Transcripts \cup {s}
  BY <1>2, OpenLeads
<1>4. SessionsOK'
  BY <1>1, <1>2, <1>3 DEF SessionsOK
<1>5. RemovalsInv'
  BY <1>1 DEF SessionsInv, RemovalsInv
<1>6. ASSUME NEW a \in Askers, ask[a].state = "dropped", ask[a].session \in registry'
      PROVE  ask[a].session \in excused'
  <2>1. CASE ask[a].session # s
    BY <1>1, <1>6, <2>1 DEF SessionsInv, DroppedInv
  <2>2. CASE ask[a].session = s
    BY <1>1, <1>6, <2>2 DEF Unlisted
  <2> QED
    BY <2>1, <2>2
<1>7. DroppedInv'
  BY <1>1, <1>6 DEF DroppedInv
<1>8. \A x : Doomed(x)' <=> Doomed(x)
  BY <1>1 DEF Doomed, Swept, Clear
<1>9. overtaken' = {} => ~ Doomed(s)
  BY <1>1
<1>10. \A x \in Transcripts' \cap writers' : Doomed(x) => x \in overtaken'
  BY <1>1, <1>3 DEF SessionsInv, DoomInv
<1>11. DoomInv'
  BY <1>3, <1>8, <1>9, <1>10 DEF DoomInv
<1>12. EntriesHaveTranscripts'
  BY <1>1, <1>3 DEF SessionsInv, EntriesHaveTranscripts
<1> QED
  BY <1>4, <1>5, <1>7, <1>11, <1>12 DEF SessionsInv

(* A caller comes or goes, or hears from the registry. *)
LEMMA AskerMoves ==
  ASSUME SessionsInv, NEW a \in Askers, NEW r \in AskRecords,
         ask' = [ask EXCEPT ![a] = r],
         r.state # "none" => r.session \in Sessions,
         r.looked => r.state \in {"dropped", "unheard"},
         a = Sweeper /\ r.state # "none" =>
           sweep.stage = "applying" /\ r.session = Candidate /\ Candidate \notin sweep.guarded,
         r.state = "dropped" /\ r.session \in registry' => r.session \in excused',
         r.looked /\ a \in Deleters => r.session \notin Protected \/ r = ask[a],
         registry' \subseteq registry, excused' \subseteq excused,
         \A s \in registry' : s \in excused => s \in excused',
         late' \in SUBSET Sessions,
         UNCHANGED <<recency, writers, sweep, overtaken>>
  PROVE  SessionsInv'
<1>1. SessionsOK /\ Sweeper \in Askers
  BY DEF SessionsInv, Askers
<1>2. /\ ask' \in [Askers -> AskRecords]
      /\ ask'[a] = r
      /\ \A b \in Askers : b # a => ask'[b] = ask[b]
  BY <1>1, AskChanges
<1>3. SessionsOK'
  BY <1>1, <1>2 DEF SessionsOK
<1>4. RemovalsInv'
  BY <1>1, <1>2 DEF SessionsInv, RemovalsInv, Candidate
<1>5. DroppedInv'
  BY <1>2 DEF SessionsInv, DroppedInv
<1>6. \A s \in Sessions : Doomed(s)' => Doomed(s) \/ s \notin Protected
  BY <1>2 DEF Doomed, Swept, Clear, Askers
<1>7. DoomInv'
  BY <1>1, <1>6, ProtectedSpared DEF SessionsInv
<1>8. EntriesHaveTranscripts'
  BY DEF SessionsInv, EntriesHaveTranscripts, Transcripts
<1> QED
  BY <1>3, <1>4, <1>5, <1>7, <1>8 DEF SessionsInv

(* The sweep goes on to its next candidate, with or without the first. *)
LEMMA SweepMoves ==
  ASSUME SessionsInv, sweep.stage = "applying", NextCandidate, NEW reported,
         \/ UNCHANGED <<recency, excused>>
         \/ /\ Candidate \notin sweep.guarded /\ Discard(Candidate, reported)
            /\ reported /\ Candidate \in registry => Candidate \in excused,
         UNCHANGED <<writers, registry, late>>,
         ask' = ask \/ ask' = [ask EXCEPT ![Sweeper] = NotAsking],
         ask'[Sweeper].state = "none",
         OvertakenKept
  PROVE  SessionsInv'
<1>1. SessionsOK /\ Sweeper \in Askers
  BY DEF SessionsInv, Askers
<1>2. /\ sweep' \in SweepRecords
      /\ sweep'.stage # "idle" => sweep'.todo # <<>>
      /\ \A s \in Sessions : Swept(s)' => Swept(s)
  BY <1>1, CandidateDone
<1>3. /\ ask' \in [Askers -> AskRecords]
      /\ \A a \in Askers : ask'[a] # ask[a] => ask'[a] = NotAsking
  <2>1. CASE ask' = ask
    BY <1>1, <2>1 DEF SessionsOK
  <2>2. CASE ask' = [ask EXCEPT ![Sweeper] = NotAsking]
    BY <1>1, <2>2, IdleAsker, AskChanges
  <2> QED
    BY <2>1, <2>2
<1>4. /\ recency' \in Seq(Sessions)
      /\ excused' \in SUBSET Sessions /\ excused \subseteq excused'
      /\ Transcripts' \subseteq Transcripts
      /\ overtaken = {} /\ recency' # <<>> => recency # <<>> /\ Head(recency') = Head(recency)
      /\ EntriesHaveTranscripts'
  <2>1. CASE UNCHANGED <<recency, excused>>
    BY <1>1, <2>1 DEF SessionsOK, SessionsInv, EntriesHaveTranscripts, Transcripts
  <2>2. CASE /\ Candidate \notin sweep.guarded /\ Discard(Candidate, reported)
             /\ reported /\ Candidate \in registry => Candidate \in excused
    <3>1. Candidate \in Sessions /\ Contains(sweep.todo, Candidate)
      BY <1>1, FirstCandidate
    <3>2. Doomed(Candidate)
      BY <2>2, <3>1 DEF Doomed, Swept
    <3> DEFINE c == Candidate
    <3>3. /\ c \in Sessions /\ Doomed(c) /\ Discard(c, reported)
          /\ reported /\ c \in registry => c \in excused
      BY <2>2, <3>1, <3>2
    <3> HIDE DEF c
    <3> QED
      BY <1>1, <3>3, DiscardKeeps DEF SessionsInv
  <2> QED
    BY <2>1, <2>2
<1>5. overtaken' \in SUBSET Sessions
  BY <1>1 DEF OvertakenKept, SessionsOK
<1>6. SessionsOK'
  BY <1>1, <1>2, <1>3, <1>4, <1>5 DEF SessionsOK
<1>7. RemovalsInv' /\ DroppedInv'
  BY <1>3, <1>4, IdleAsker DEF SessionsInv, RemovalsInv, DroppedInv
<1>8. \A s \in Sessions : Doomed(s)' => Doomed(s)
  BY <1>2, <1>3, IdleAsker DEF Doomed, Clear, Askers
<1>9. DoomInv'
  BY <1>1, <1>4, <1>8, FewerDoomed DEF SessionsInv
<1> QED
  BY <1>4, <1>6, <1>7, <1>9 DEF SessionsInv

LEMMA PlanKeeps ==
  ASSUME SessionsInv, Plan
  PROVE  SessionsInv'
<1>1. SessionsOK
  BY DEF SessionsInv
<1>2. PICK todo \in Filtered(SubSeq(recency, KeepLast + 1, Len(recency)),
                             {s \in Sessions : Collectable(s)}) :
        todo # <<>> /\ sweep' = [NoSweep EXCEPT !.stage = "planned", !.todo = todo]
  BY DEF Plan
<1>3. /\ UNCHANGED <<recency, writers, registry, ask, late, excused, overtaken>>
      /\ sweep.stage = "idle"
  BY DEF Plan
<1>4. SubSeq(recency, KeepLast + 1, Len(recency)) \in Seq(Sessions)
  BY <1>1, SessionsAssumption DEF SessionsOK
<1>5. todo \in Seq(Sessions)
  BY <1>4, FilterKeeps
<1>6. sweep' \in SweepRecords /\ sweep'.stage = "planned" /\ sweep'.todo # <<>>
  BY <1>2, <1>5 DEF NoSweep, SweepRecords
<1>7. SessionsOK'
  BY <1>1, <1>3, <1>6 DEF SessionsOK
<1>8. \A s \in Sessions : Doomed(s)' => Doomed(s)
  BY <1>3, <1>6 DEF Doomed, Swept, Clear
<1>9. DoomInv'
  BY <1>1, <1>3, <1>8, ProtectedSpared DEF SessionsInv
<1>10. RemovalsInv' /\ DroppedInv' /\ EntriesHaveTranscripts'
  BY <1>3 DEF SessionsInv, RemovalsInv, DroppedInv, EntriesHaveTranscripts, Transcripts
<1> QED
  BY <1>7, <1>9, <1>10 DEF SessionsInv

LEMMA ApplyKeeps ==
  ASSUME SessionsInv, NEW asks \in BOOLEAN, Apply(asks)
  PROVE  SessionsInv'
<1>1. SessionsOK
  BY DEF SessionsInv
<1> DEFINE q == sweep.todo
           spared == Protected \cap ToSet(q)
<1>2. /\ sweep' = [sweep EXCEPT !.stage = "applying", !.guarded = spared, !.asks = asks]
      /\ sweep.stage = "planned"
      /\ UNCHANGED <<recency, writers, registry, ask, late, excused, overtaken>>
  BY DEF Apply, Applies
<1>3. spared \in SUBSET Sessions
  BY <1>1, TranscriptsAre DEF Protected
<1>4. q \in Seq(Sessions) /\ q # <<>>
  BY <1>1, <1>2 DEF SessionsOK, SweepRecords
<1>5. \A s : Contains(q, s) <=> s \in ToSet(q)
  BY <1>4, ContainsIs
<1> HIDE DEF spared, q
<1>6. /\ sweep' \in SweepRecords /\ sweep'.todo = q /\ sweep'.guarded = spared
      /\ sweep'.stage = "applying"
  BY <1>1, <1>2, <1>3 DEF SessionsOK, SweepRecords, q
<1>7. SessionsOK'
  BY <1>1, <1>2, <1>4, <1>6 DEF SessionsOK
<1>8. \A s \in Sessions : Doomed(s)' => Doomed(s) \/ s \notin Protected
  BY <1>2, <1>5, <1>6 DEF Doomed, Swept, Clear, spared
<1>9. DoomInv'
  BY <1>1, <1>2, <1>8, ProtectedSpared DEF SessionsInv
<1>10. RemovalsInv' /\ DroppedInv' /\ EntriesHaveTranscripts'
  BY <1>2 DEF SessionsInv, RemovalsInv, DroppedInv, EntriesHaveTranscripts, Transcripts
<1> QED
  BY <1>7, <1>9, <1>10 DEF SessionsInv

LEMMA SweepKeeps ==
  ASSUME SessionsInv, SweepStep
  PROVE  SessionsInv'
<1>1. SessionsOK /\ Sweeper \in Askers
  BY DEF SessionsInv, Askers
<1>2. CASE Spare
  <2>1. /\ sweep.stage = "applying" /\ ask[Sweeper].state = "none" /\ NextCandidate
        /\ UNCHANGED <<recency, excused, writers, registry, ask, late>> /\ OvertakenKept
    BY <1>2, IdleAsker DEF Spare, Applying
  <2> QED
    BY <2>1, SweepMoves
<1>3. CASE CollectUnasked
  <2>1. /\ sweep.stage = "applying" /\ ask[Sweeper].state = "none" /\ NextCandidate
        /\ Candidate \notin sweep.guarded /\ Discard(Candidate, FALSE)
        /\ UNCHANGED <<writers, registry, ask, late>> /\ OvertakenKept
    BY <1>3, IdleAsker DEF CollectUnasked, Applying
  <2> QED
    BY <2>1, SweepMoves
<1>4. CASE SweepAsks
  <2> DEFINE c == Candidate
             r == [NotAsking EXCEPT !.session = c, !.state = "asked"]
  <2>1. /\ sweep.stage = "applying" /\ c \notin sweep.guarded
        /\ ask' = [ask EXCEPT ![Sweeper] = r]
        /\ UNCHANGED <<recency, writers, registry, sweep, late, excused, overtaken>>
    BY <1>4 DEF SweepAsks, Applying, Asks
  <2>2. c \in Sessions
    BY <1>1, <2>1, FirstCandidate
  <2>3. r \in AskRecords /\ r.session = c /\ r.state = "asked" /\ r.looked = FALSE
    BY <2>2 DEF NotAsking, AskRecords, Removals
  <2>4. late' \in SUBSET Sessions
    BY <1>1, <2>1 DEF SessionsOK
  <2> HIDE DEF r
  <2> QED
    BY <1>1, <2>1, <2>2, <2>3, <2>4, AskerMoves
<1>5. CASE SweepGoesOn
  <2> DEFINE reported == ask[Sweeper].state = "dropped"
  <2>1. /\ ask[Sweeper].state \in {"dropped", "unheard", "failed"}
        /\ sweep.stage = "applying"
        /\ ask[Sweeper].session = Candidate /\ Candidate \notin sweep.guarded
    BY <1>5 DEF SweepGoesOn, SessionsInv, RemovalsInv, Candidate
  <2>2. /\ ask' = [ask EXCEPT ![Sweeper] = NotAsking]
        /\ NextCandidate
        /\ UNCHANGED <<writers, registry, late>> /\ OvertakenKept
    BY <1>5 DEF SweepGoesOn
  <2>3. ask'[Sweeper].state = "none"
    BY <1>1, <2>2, IdleAsker, AskChanges
  <2>4. UNCHANGED <<recency, excused>> \/ Discard(Candidate, reported)
    BY <1>5 DEF SweepGoesOn
  <2>5. reported /\ Candidate \in registry => Candidate \in excused
    BY <1>1, <2>1 DEF SessionsInv, DroppedInv
  <2> HIDE DEF reported
  <2> QED
    BY <2>1, <2>2, <2>3, <2>4, <2>5, SweepMoves
<1>6. ASSUME NEW asks \in BOOLEAN, Apply(asks) PROVE SessionsInv'
  BY <1>6, ApplyKeeps
<1> QED
  BY <1>2, <1>3, <1>4, <1>5, <1>6 DEF SweepStep

LEMMA DeleteKeeps ==
  ASSUME SessionsInv, NEW d \in Deleters,
         DeleteStep(d) \/ \E s \in Sessions : Delete(d, s)
  PROVE  SessionsInv'
<1>1. SessionsOK /\ d \in Askers /\ d # Sweeper /\ Sweeper \in Askers
  BY SessionsAssumption DEF SessionsInv, Askers
<1>2. ASSUME NEW s \in Sessions, Delete(d, s) PROVE SessionsInv'
  <2>1. PICK state \in {"asked", "unheard"} :
          ask' = [ask EXCEPT ![d] = [NotAsking EXCEPT !.session = s, !.state = state]]
    BY <1>2 DEF Delete, Asks
  <2> DEFINE r == [NotAsking EXCEPT !.session = s, !.state = state]
  <2>2. r \in AskRecords /\ r.session = s /\ r.state = state /\ r.looked = FALSE
    BY DEF NotAsking, AskRecords, Removals
  <2>3. /\ ask' = [ask EXCEPT ![d] = r]
        /\ UNCHANGED <<recency, writers, registry, sweep, late, excused, overtaken>>
    BY <1>2, <2>1 DEF Delete
  <2>4. late' \in SUBSET Sessions
    BY <1>1, <2>3 DEF SessionsOK
  <2> HIDE DEF r
  <2> QED
    BY <1>1, <2>2, <2>3, <2>4, AskerMoves
<1>3. CASE DeleteLooks(d)
  <2> DEFINE r == IF ask[d].session \in Protected THEN NotAsking ELSE [ask[d] EXCEPT !.looked = TRUE]
  <2>1. /\ ask[d].state \in {"dropped", "unheard"}
        /\ ask' = [ask EXCEPT ![d] = r]
        /\ UNCHANGED <<recency, writers, registry, sweep, late, excused, overtaken>>
    BY <1>3 DEF DeleteLooks, Answered
  <2>2. ask[d] \in AskRecords /\ ask[d].session \in Sessions
    BY <1>1, <2>1 DEF SessionsOK, SessionsInv, RemovalsInv
  <2>3. /\ r \in AskRecords
        /\ r = NotAsking
             \/ /\ r.session = ask[d].session /\ r.state = ask[d].state
                /\ ask[d].session \notin Protected
    BY <2>2, IdleAsker DEF AskRecords
  <2>4. ask[d].state = "dropped" /\ ask[d].session \in registry => ask[d].session \in excused
    BY <1>1 DEF SessionsInv, DroppedInv
  <2>5. late' \in SUBSET Sessions
    BY <1>1, <2>1 DEF SessionsOK
  <2> HIDE DEF r
  <2>6. /\ r.state # "none" => r.session \in Sessions
        /\ r.looked => r.state \in {"dropped", "unheard"} /\ r.session \notin Protected
        /\ r.state = "dropped" /\ r.session \in registry => r.session \in excused
    BY <2>1, <2>2, <2>3, <2>4, IdleAsker
  <2> QED
    BY <1>1, <2>1, <2>3, <2>5, <2>6, AskerMoves
<1>4. CASE DeleteFails(d)
  <2>1. /\ ask' = [ask EXCEPT ![d] = NotAsking]
        /\ UNCHANGED <<recency, writers, registry, sweep, late, excused, overtaken>>
    BY <1>4 DEF DeleteFails
  <2>2. late' \in SUBSET Sessions
    BY <1>1, <2>1 DEF SessionsOK
  <2> QED
    BY <1>1, <2>1, <2>2, IdleAsker, AskerMoves
<1>5. CASE DeleteUnlinks(d)
  <2> DEFINE s == ask[d].session
             reported == ask[d].state = "dropped"
  <2>1. /\ ask[d].looked /\ Discard(s, reported)
        /\ ask' = [ask EXCEPT ![d] = NotAsking]
        /\ UNCHANGED <<writers, registry, sweep, late>> /\ OvertakenKept
    BY <1>5 DEF DeleteUnlinks, Clear
  <2>2. s \in Sessions
    BY <1>1, <2>1 DEF SessionsInv, RemovalsInv
  <2>3. Doomed(s)
    BY <2>1 DEF Doomed, Clear
  <2>4. reported /\ s \in registry => s \in excused
    BY <1>1 DEF SessionsInv, DroppedInv
  <2>5. /\ ask' \in [Askers -> AskRecords]
        /\ ask'[d] = NotAsking
        /\ \A a \in Askers : a # d => ask'[a] = ask[a]
    BY <1>1, <2>1, IdleAsker, AskChanges
  <2> HIDE DEF s, reported
  <2>6. /\ recency' \in Seq(Sessions)
        /\ excused' \in SUBSET Sessions /\ excused \subseteq excused'
        /\ Transcripts' \subseteq Transcripts
        /\ overtaken = {} /\ recency' # <<>> => recency # <<>> /\ Head(recency') = Head(recency)
        /\ EntriesHaveTranscripts'
    BY <1>1, <2>1, <2>2, <2>3, <2>4, DiscardKeeps DEF SessionsInv
  <2>7. overtaken' \in SUBSET Sessions
    BY <1>1, <2>1 DEF OvertakenKept, SessionsOK
  <2>8. SessionsOK'
    BY <1>1, <2>1, <2>5, <2>6, <2>7 DEF SessionsOK
  <2>9. RemovalsInv' /\ DroppedInv'
    BY <1>1, <2>1, <2>5, <2>6, IdleAsker DEF SessionsInv, RemovalsInv, DroppedInv
  <2>10. \A x \in Sessions : Doomed(x)' => Doomed(x)
    BY <2>1, <2>5, IdleAsker DEF Doomed, Clear, Swept, Askers
  <2>11. DoomInv'
    BY <1>1, <2>1, <2>6, <2>10, FewerDoomed DEF SessionsInv
  <2> QED
    BY <2>6, <2>8, <2>9, <2>11 DEF SessionsInv
<1> QED
  BY <1>2, <1>3, <1>4, <1>5 DEF DeleteStep

LEMMA RegistryKeeps ==
  ASSUME SessionsInv,
         \/ \E a \in Askers : Drops(a) \/ Fails(a) \/ SaysNothing(a) \/ TimesOut(a)
         \/ \E s \in Sessions : DropsLate(s)
  PROVE  SessionsInv'
<1>1. SessionsOK
  BY DEF SessionsInv
<1>2. ASSUME NEW a \in Askers, Drops(a) \/ Fails(a) \/ SaysNothing(a) \/ TimesOut(a)
      PROVE  SessionsInv'
  <2> DEFINE s == ask[a].session
  <2>1. PICK state \in {"dropped", "failed", "unheard"} : Becomes(a, state) /\ (state = "dropped" => Drops(a))
    BY <1>2 DEF Drops, Fails, SaysNothing, TimesOut
  <2> DEFINE r == [ask[a] EXCEPT !.state = state]
  <2>2. /\ ask[a].state = "asked" /\ ask' = [ask EXCEPT ![a] = r]
        /\ UNCHANGED <<recency, writers, sweep, overtaken>>
    BY <2>1 DEF Becomes
  <2>3. /\ \/ registry' = registry /\ excused' = excused
           \/ registry' = registry \ {s} /\ excused' = excused \ {s}
        /\ late' = late \/ late' = late \cup {s}
    BY <1>2 DEF Drops, Fails, SaysNothing, TimesOut, Unlist
  <2>4. state = "dropped" => s \notin registry'
    BY <2>1 DEF Drops, Unlist
  <2>5. s \in Sessions /\ ask[a] \in AskRecords /\ ~ ask[a].looked
    BY <1>1, <2>2 DEF SessionsOK, SessionsInv, RemovalsInv, AskRecords
  <2>6. r \in AskRecords /\ r.session = s /\ r.state = state /\ ~ r.looked
    BY <2>5 DEF AskRecords, Removals
  <2>7. late' \in SUBSET Sessions
    BY <1>1, <2>3, <2>5 DEF SessionsOK
  <2>8. a = Sweeper => sweep.stage = "applying" /\ s = Candidate /\ Candidate \notin sweep.guarded
    BY <2>2 DEF SessionsInv, RemovalsInv, Candidate
  <2> HIDE DEF r, s
  <2> QED
    BY <2>2, <2>3, <2>4, <2>5, <2>6, <2>7, <2>8, AskerMoves
<1>3. ASSUME NEW s \in Sessions, DropsLate(s)
      PROVE  SessionsInv'
  <2>1. /\ registry' = registry \ {s} /\ excused' = excused \ {s} /\ late' = late \ {s}
        /\ UNCHANGED <<recency, writers, sweep, ask, overtaken>>
    BY <1>3 DEF DropsLate, Unlist
  <2>2. SessionsOK'
    BY <1>1, <2>1 DEF SessionsOK
  <2>3. DoomInv'
    BY <2>1 DEF SessionsInv, DoomInv, Doomed, Swept, Clear, Transcripts
  <2> QED
    BY <2>1, <2>2, <2>3 DEF SessionsInv, RemovalsInv, DroppedInv, EntriesHaveTranscripts, Transcripts
<1> QED
  BY <1>2, <1>3

LEMMA SessionsInductive == SessionsInv /\ [SessionsNext]_sessionVars => SessionsInv'
<1> SUFFICES ASSUME SessionsInv, [SessionsNext]_sessionVars PROVE SessionsInv'
  OBVIOUS
<1>1. ASSUME NEW s \in Sessions, Open(s) PROVE SessionsInv'
  BY <1>1, OpenKeeps
<1>2. ASSUME UNCHANGED <<recency, registry, sweep, ask, late, excused, overtaken>>,
             writers' = writers \/ writers' \subseteq writers
      PROVE  SessionsInv'
  <2>1. \A x : Doomed(x)' <=> Doomed(x)
    BY <1>2 DEF Doomed, Swept, Clear
  <2>2. Transcripts' = Transcripts /\ writers' \subseteq writers
    BY <1>2 DEF Transcripts
  <2>3. DoomInv'
    BY <1>2, <2>1, <2>2 DEF SessionsInv, DoomInv
  <2>4. SessionsOK'
    BY <1>2, <2>2 DEF SessionsInv, SessionsOK
  <2> QED
    BY <1>2, <2>2, <2>3, <2>4 DEF SessionsInv, RemovalsInv, DroppedInv, EntriesHaveTranscripts
<1>3. ASSUME NEW s \in Sessions, Close(s) \/ Persist(s) \/ Ages(s) PROVE SessionsInv'
  BY <1>2, <1>3 DEF Close, Persist, Ages
<1>4. CASE UNCHANGED sessionVars
  BY <1>2, <1>4 DEF sessionVars
<1>5. CASE Plan \/ SweepStep
  BY <1>5, PlanKeeps, SweepKeeps
<1>6. ASSUME NEW d \in Deleters, DeleteStep(d) \/ \E s \in Sessions : Delete(d, s) PROVE SessionsInv'
  BY <1>6, DeleteKeeps
<1>7. ASSUME \/ \E a \in Askers : Drops(a) \/ Fails(a) \/ SaysNothing(a) \/ TimesOut(a)
             \/ \E s \in Sessions : DropsLate(s)
      PROVE  SessionsInv'
  BY <1>7, RegistryKeeps
<1> QED
  BY <1>1, <1>3, <1>4, <1>5, <1>6, <1>7 DEF SessionsNext

LEMMA SessionsInitial == SessionsInit => SessionsInv
<1> SUFFICES ASSUME SessionsInit PROVE SessionsInv
  OBVIOUS
<1>1. /\ recency = <<>> /\ registry = {} /\ excused = {} /\ late = {} /\ overtaken = {}
      /\ writers = {} /\ sweep = NoSweep /\ ask = [a \in Askers |-> NotAsking]
  BY DEF SessionsInit
<1>2. NoSweep.stage = "idle" /\ NoSweep \in SweepRecords
  BY DEF NoSweep, SweepRecords
<1>3. SessionsOK
  <2>1. ask \in [Askers -> AskRecords]
    BY <1>1, IdleAsker
  <2>2. recency \in Seq(Sessions)
    BY <1>1
  <2> QED
    BY <1>1, <1>2, <2>1, <2>2 DEF SessionsOK
<1>4. \A a \in Askers : ask[a].state = "none" /\ ask[a].looked = FALSE
  BY <1>1, IdleAsker
<1>5. Sweeper \in Askers /\ Deleters \subseteq Askers
  BY DEF Askers
<1>6. DoomInv
  BY <1>1, <1>2, <1>4, <1>5 DEF DoomInv, Doomed, Swept, Clear
<1> QED
  BY <1>1, <1>3, <1>4, <1>5, <1>6
     DEF SessionsInv, RemovalsInv, DroppedInv, EntriesHaveTranscripts

(* The only ones to unlink are the sweep, and a deletion past its second look. *)
LEMMA OnlyTheDoomedGo ==
  ASSUME SessionsInv, [SessionsNext]_sessionVars, NEW x \in Transcripts, x \notin Transcripts'
  PROVE  Doomed(x)
<1>1. SessionsOK /\ Sweeper \in Askers
  BY DEF SessionsInv, Askers
<1>2. ASSUME NEW s \in Sessions, Doomed(s), NEW reported, Discard(s, reported)
      PROVE  x = s
  <2>1. Unlink(s)
    BY <1>2 DEF Discard, Transcripts
  <2>2. Transcripts' = Transcripts \ {s}
    BY <1>1, <2>1, UnlinkLeaves
  <2> QED
    BY <2>2
<1>3. ASSUME UNCHANGED recency PROVE FALSE
  BY <1>3 DEF Transcripts
<1>4. ASSUME NEW s \in Sessions, Open(s) PROVE FALSE
  BY <1>1, <1>4, OpenLeads
<1>5. ASSUME NEW s \in Sessions, Close(s) \/ Persist(s) \/ Ages(s) \/ DropsLate(s) PROVE FALSE
  BY <1>3, <1>5 DEF Close, Persist, Ages, DropsLate
<1>6. ASSUME NEW a \in Askers, Drops(a) \/ Fails(a) \/ SaysNothing(a) \/ TimesOut(a) PROVE FALSE
  BY <1>3, <1>6 DEF Drops, Fails, SaysNothing, TimesOut, Becomes
<1>7. ASSUME NEW d \in Deleters, NEW s \in Sessions, Delete(d, s) PROVE FALSE
  BY <1>3, <1>7 DEF Delete
<1>8. ASSUME NEW d \in Deleters, DeleteStep(d)
      PROVE  Doomed(x)
  <2> DEFINE s == ask[d].session
             reported == ask[d].state = "dropped"
  <2>1. Clear(d) /\ Discard(s, reported)
    BY <1>3, <1>8 DEF DeleteStep, DeleteLooks, DeleteFails, DeleteUnlinks
  <2>2. d \in Askers /\ s \in Sessions /\ Doomed(s)
    BY <2>1 DEF SessionsInv, RemovalsInv, Askers, Clear, Doomed
  <2> HIDE DEF s, reported
  <2> QED
    BY <1>2, <2>1, <2>2
<1>9. ASSUME Plan \/ SweepStep
      PROVE  Doomed(x)
  <2> DEFINE c == Candidate
  <2>1. PICK reported \in BOOLEAN :
          sweep.stage = "applying" /\ c \notin sweep.guarded /\ Discard(c, reported)
    <3>1. CASE SweepGoesOn
      BY <1>3, <3>1 DEF SweepGoesOn, SessionsInv, RemovalsInv, Candidate
    <3>2. CASE CollectUnasked
      BY <3>2 DEF CollectUnasked, Applying
    <3> QED
      BY <1>3, <1>9, <3>1, <3>2 DEF Plan, SweepStep, Apply, Applies, Spare, SweepAsks
  <2>2. c \in Sessions /\ Contains(sweep.todo, c)
    BY <1>1, <2>1, FirstCandidate
  <2>3. Doomed(c)
    BY <2>1, <2>2 DEF Doomed, Swept
  <2> HIDE DEF c
  <2> QED
    BY <1>2, <2>1, <2>2, <2>3
<1>10. ASSUME UNCHANGED sessionVars PROVE FALSE
  BY <1>3, <1>10 DEF sessionVars
<1> QED
  BY <1>4, <1>5, <1>6, <1>7, <1>8, <1>9, <1>10 DEF SessionsNext

(* No registry entry is left without its transcript, whatever fails, times out or
   overlaps, but for a session opened under a removal that had dropped its entry
   and one collected without the registry's report (session-lifecycle.ts:400-405). *)
THEOREM EntriesKeepTranscripts == SessionsSpec => []EntriesHaveTranscripts
<1>1. SessionsInv => EntriesHaveTranscripts
  BY DEF SessionsInv
<1> QED
  BY <1>1, SessionsInitial, SessionsInductive, PTL DEF SessionsSpec

(* A session under a lease loses its transcript only to one who looked before it
   was resumed: for any number of deletions and other processes
   (session-lifecycle.ts:434-439).                                         *)
THEOREM DeletionsSpareTheLive == SessionsSpec => LiveLostUnseen
<1> DEFINE Step == \A s \in Transcripts \cap writers : Contains(recency', s) \/ s \in overtaken
<1>1. ASSUME SessionsInv, [SessionsNext]_sessionVars, NEW s \in Transcripts \cap writers
      PROVE  Contains(recency', s) \/ s \in overtaken
  <2>1. CASE s \in Transcripts'
    <3>1. recency' \in Seq(Sessions)
      BY <1>1, SessionsInductive DEF SessionsInv, SessionsOK
    <3> QED
      BY <2>1, <3>1, ContainsIs DEF Transcripts
  <2>2. CASE s \notin Transcripts'
    <3>1. Doomed(s)
      BY <1>1, <2>2, OnlyTheDoomedGo
    <3> QED
      BY <1>1, <3>1 DEF SessionsInv, DoomInv
  <2> QED
    BY <2>1, <2>2
<1>2. SessionsInv /\ [SessionsNext]_sessionVars => [Step]_sessionVars
  BY <1>1
<1> QED
  BY <1>2, SessionsInitial, SessionsInductive, PTL DEF SessionsSpec, LiveLostUnseen

(* Nothing empties a project but one under whom a session was resumed, for any
   number of sessions and deletions (session-lifecycle.ts:247-250).        *)
THEOREM ProjectsKeepASession == SessionsSpec => SomethingToContinue
<1> DEFINE Step == recency # <<>> /\ recency' = <<>> => overtaken # {}
<1>1. ASSUME SessionsInv, [SessionsNext]_sessionVars, recency # <<>>, recency' = <<>>
      PROVE  overtaken # {}
  <2> DEFINE x == Head(recency)
  <2>1. x \in Transcripts
    BY <1>1, MostRecentIsThere DEF SessionsInv
  <2>2. x \notin Transcripts'
    BY <1>1 DEF Transcripts, ToSet
  <2>3. Doomed(x)
    BY <1>1, <2>1, <2>2, OnlyTheDoomedGo
  <2> QED
    BY <1>1, <2>3 DEF SessionsInv, DoomInv
<1>2. SessionsInv /\ [SessionsNext]_sessionVars => [Step]_sessionVars
  BY <1>1
<1> QED
  BY <1>2, SessionsInitial, SessionsInductive, PTL DEF SessionsSpec, SomethingToContinue

=============================================================================
