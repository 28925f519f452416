----------------------------- MODULE Approvals -----------------------------
(***************************************************************************)
(* The approvals of one process: the registry that holds the paused calls  *)
(* (packages/theo/src/server/agent/approval-registry.ts), the route that   *)
(* answers them (approve-agent.ts), their listing, and the ledger by which *)
(* a surface remembers what its user decided (agents/src/ask/              *)
(* pending-ledger.ts).                                                     *)
(*                                                                         *)
(* Approvals are numbered in the order of the conversation.  Whether the   *)
(* answer was yes or no is left out: what matters is whose it was.         *)
(***************************************************************************)
EXTENDS Integers, FiniteSetsExt, Sequences

CONSTANTS
  Surfaces,      \* clients that poll the listing and keep a ledger
  Bystanders,    \* clients the application told of an approval, without one
  SubjectOf,     \* the identity of each client
  NoOne,         \* owner of an approval that nobody owns
  Nothing,       \* no listing under way; an undecided approval
  Timeout,
  MaxApprovals   \* bound on the approvals raised

Clients == Surfaces \cup Bystanders
Approvals == 1..MaxApprovals

ASSUME ApprovalsAssumption ==
  /\ Surfaces \cap Bystanders = {}
  /\ Timeout \notin Clients /\ Nothing \notin Clients
  /\ MaxApprovals \in Nat

VARIABLES
  owner,      \* owners of the approvals raised so far
  pending,    \* the approvals in the registry
  verdict,    \* what settled each: a client, the timeout, or nothing yet
  answer,     \* how far each client's answer to each approval is
  open,       \* per surface: the cards of its ledger
  settled,    \* per surface: the approvals its user decided
  pruned,     \* per surface: the ledger forgot what comes before this
  listing     \* per surface: a listing on its way

approvalVars == <<owner, pending, verdict, answer, open, settled, pruned, listing>>
ledgerVars == <<open, settled, pruned, listing>>

ApprovalsInit ==
  /\ owner = <<>>
  /\ pending = {}
  /\ verdict = [a \in Approvals |-> Nothing]
  /\ answer = [c \in Clients |-> [a \in Approvals |-> "none"]]
  /\ open = [s \in Surfaces |-> {}]
  /\ settled = [s \in Surfaces |-> {}]
  /\ pruned = [s \in Surfaces |-> 1]
  /\ listing = [s \in Surfaces |-> Nothing]

-----------------------------------------------------------------------------
(* register(), under a fresh id. *)
Register(who) ==
  /\ Len(owner) < MaxApprovals
  /\ owner' = Append(owner, who)
  /\ pending' = pending \cup {Len(owner) + 1}
  /\ UNCHANGED <<verdict, answer, ledgerVars>>

Settle(a, by) ==
  /\ pending' = pending \ {a}
  /\ verdict' = [verdict EXCEPT ![a] = by]

FaultyExpires(a) ==              \* asks again instead of settling: onTimeout 'retry'
  /\ a \in pending
  /\ UNCHANGED approvalVars

(* Its timer settles it by onTimeout. *)
Expires(a) ==
  /\ a \in pending
  /\ Settle(a, Timeout)
  /\ UNCHANGED <<owner, answer, ledgerVars>>

-----------------------------------------------------------------------------
Answer(c, a, stage) == answer' = [answer EXCEPT ![c][a] = stage]

(* ownerOf(): nobody, once the approval is settled. *)
OwnerOf(a) == IF a \in pending THEN owner[a] ELSE NoOne

(* refuseIfNotOwner(), before the body is read. *)
Admit(c, a) ==
  /\ answer[c][a] = "sent"
  /\ Answer(c, a, IF OwnerOf(a) \in {NoOne, SubjectOf[c]} THEN "admitted" ELSE "forbidden")
  /\ UNCHANGED <<owner, pending, verdict, ledgerVars>>

FaultyResolve(c, a) ==           \* a second answer is taken for a repetition of the first
  /\ answer[c][a] = "admitted"
  /\ Answer(c, a, "resolved")
  /\ IF a \in pending THEN Settle(a, c) ELSE UNCHANGED <<pending, verdict>>
  /\ UNCHANGED <<owner, ledgerVars>>

(* resolve(): 200, or 404 when it is no longer pending. *)
Resolve(c, a) ==
  /\ answer[c][a] = "admitted"
  /\ IF a \in pending
     THEN Settle(a, c) /\ Answer(c, a, "resolved")
     ELSE Answer(c, a, "not_pending") /\ UNCHANGED <<pending, verdict>>
  /\ UNCHANGED <<owner, ledgerVars>>

(* Someone who was told of the approval answers it; once, as a bound. *)
Interject(b, a) ==
  /\ a <= Len(owner)
  /\ \A x \in Approvals : answer[b][x] = "none"
  /\ Answer(b, a, "sent")
  /\ UNCHANGED <<owner, pending, verdict, ledgerVars>>

-----------------------------------------------------------------------------
(* handleListApprovals(): the approvals that are the caller's or nobody's. *)
Poll(s) ==
  /\ listing[s] = Nothing
  /\ listing' = [listing EXCEPT ![s] = {a \in pending : owner[a] \in {NoOne, SubjectOf[s]}}]
  /\ UNCHANGED <<owner, pending, verdict, answer, open, settled, pruned>>

FaultyIngest(s) ==               \* what was decided is forgotten
  /\ listing[s] # Nothing
  /\ open' = [open EXCEPT ![s] = @ \cup listing[s]]
  /\ listing' = [listing EXCEPT ![s] = Nothing]
  /\ UNCHANGED <<owner, pending, verdict, answer, settled, pruned>>

(* ingest(), whenever the listing arrives. *)
Ingest(s) ==
  /\ listing[s] # Nothing
  /\ open' = [open EXCEPT ![s] = @ \cup (listing[s] \ settled[s])]
  /\ listing' = [listing EXCEPT ![s] = Nothing]
  /\ UNCHANGED <<owner, pending, verdict, answer, settled, pruned>>

(* The user decides the oldest card: findNext(), settle(), and the request. *)
Decide(s) ==
  /\ open[s] # {}
  /\ LET a == Min(open[s]) IN
       /\ open' = [open EXCEPT ![s] = @ \ {a}]
       /\ settled' = [settled EXCEPT ![s] = @ \cup {a}]
       /\ Answer(s, a, "sent")
  /\ UNCHANGED <<owner, pending, verdict, pruned, listing>>

(* pruneBefore(): the conversation was rewound past these. *)
Prune(s, a) ==
  /\ a > pruned[s]
  /\ pruned' = [pruned EXCEPT ![s] = a]
  /\ open' = [open EXCEPT ![s] = @ \ (1..(a - 1))]
  /\ settled' = [settled EXCEPT ![s] = @ \ (1..(a - 1))]
  /\ UNCHANGED <<owner, pending, verdict, answer, listing>>

ApprovalsNext ==
  \/ \E a \in Approvals :
       \/ Expires(a)
       \/ \E c \in Clients : Admit(c, a) \/ Resolve(c, a)
       \/ \E b \in Bystanders : Interject(b, a)
       \/ \E s \in Surfaces : Prune(s, a)
  \/ \E s \in Surfaces : Poll(s) \/ Ingest(s) \/ Decide(s)

(* The timers of the registry are the process's. *)
ApprovalsFairness == \A a \in Approvals : WF_approvalVars(Expires(a))

-----------------------------------------------------------------------------
(* Whoever is told that an answer resolved an approval decided it, and was
   entitled to; everyone else is told that it was too late, or not theirs,
   whatever arrived meanwhile (approve-agent.ts:130-149, 192-195).         *)
OneDecision ==
  \A c \in Clients, a \in Approvals :
    answer[c][a] = "resolved" => verdict[a] = c /\ owner[a] \in {NoOne, SubjectOf[c]}

(* A dismissed card does not come back, although the listing that shows it was
   taken before the decision and arrives after it; until the conversation is
   rewound past it (pending-ledger.ts:11-15).                              *)
CardsStayDismissed ==
  \A s \in Surfaces : \A a \in open[s] : answer[s][a] # "none" => a < pruned[s]

=============================================================================
