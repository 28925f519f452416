---------------------------- MODULE JobContract ----------------------------
(***************************************************************************)
(* What a job backend promises, whatever store is behind it (the           *)
(* JobBackend interface, job-backend.ts:74-135): a job is handed out under *)
(* a fresh lease, what its handler reports about a lease is only a claim,  *)
(* and the job is settled by a claim of the lease that holds it NOW.       *)
(*                                                                         *)
(* Time, workers, statements, crashes and lost answers are absent here;    *)
(* JobQueue implements this module.                                        *)
(***************************************************************************)
EXTENDS Naturals

CONSTANTS
  Jobs,    \* job ids
  Limit    \* the definition's maxAttempts, per job

VARIABLES
  phase,    \* per job: absent, open, done (acknowledged), dead (kept as failed)
  owner,    \* per job: the lease that holds it, 0 when none does
  tries,    \* per job: how many leases it was handed out under
  granted,  \* leases granted so far; the next one is granted + 1
  reports   \* the claims: <<job, lease, outcome>>

contractVars == <<phase, owner, tries, granted, reports>>

Outcomes == {"ok", "retry", "final"}

Init ==
  /\ phase = [j \in Jobs |-> "absent"]
  /\ owner = [j \in Jobs |-> 0]
  /\ tries = [j \in Jobs |-> 0]
  /\ granted = 0
  /\ reports = {}

(* The job exists from here on. *)
Submit(j) ==
  /\ phase[j] = "absent"
  /\ phase' = [phase EXCEPT ![j] = "open"]
  /\ UNCHANGED <<owner, tries, granted, reports>>

(* A batch of open jobs changes hands: every earlier lease on them is lost. *)
Grant(batch) ==
  /\ batch # {}
  /\ \A j \in batch : phase[j] = "open"
  /\ granted' = granted + 1
  /\ owner' = [j \in Jobs |-> IF j \in batch THEN granted + 1 ELSE owner[j]]
  /\ tries' = [j \in Jobs |-> IF j \in batch THEN tries[j] + 1 ELSE tries[j]]
  /\ UNCHANGED <<phase, reports>>

(* Whoever ever held a lease may claim an outcome for it, however late. *)
Report(j, lease, outcome) ==
  /\ lease \in 1..granted
  /\ reports' = reports \cup {<<j, lease, outcome>>}
  /\ UNCHANGED <<phase, owner, tries, granted>>

Claimed(j, outcome) == owner[j] # 0 /\ <<j, owner[j], outcome>> \in reports

Complete(j) ==
  /\ phase[j] = "open"
  /\ Claimed(j, "ok")
  /\ phase' = [phase EXCEPT ![j] = "done"]
  /\ UNCHANGED <<owner, tries, granted, reports>>

Release(j) ==
  /\ phase[j] = "open"
  /\ Claimed(j, "retry")
  /\ tries[j] < Limit[j]
  /\ owner' = [owner EXCEPT ![j] = 0]
  /\ UNCHANGED <<phase, tries, granted, reports>>

Bury(j) ==
  /\ phase[j] = "open"
  /\ \/ Claimed(j, "final")
     \/ Claimed(j, "retry") /\ tries[j] >= Limit[j]
  /\ phase' = [phase EXCEPT ![j] = "dead"]
  /\ owner' = [owner EXCEPT ![j] = 0]
  /\ UNCHANGED <<tries, granted, reports>>

Next ==
  \/ \E j \in Jobs : Submit(j) \/ Complete(j) \/ Release(j) \/ Bury(j)
  \/ \E batch \in SUBSET Jobs : Grant(batch)
  \/ \E j \in Jobs, lease \in 1..granted, outcome \in Outcomes :
       Report(j, lease, outcome)

Spec == Init /\ [][Next]_contractVars

=============================================================================
