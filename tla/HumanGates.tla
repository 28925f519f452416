----------------------------- MODULE HumanGates ----------------------------
(***************************************************************************)
(* The tool calls of a process's agents and the two ways in which a human   *)
(* holds them up: a gated tool waits in the plugin's hook for an approval  *)
(* (packages/agents/src/bridge/hitl-plugin.ts, registered by               *)
(* theo/src/server/agent/build-agent-streamer.ts), the question tool for   *)
(* an answer.                                                              *)
(***************************************************************************)
EXTENDS Approvals, AskBridge

CONSTANTS
  OwnerOfRun,   \* the subject each call's run is for; NoOne when headless
  MaxPauses     \* bound on the approvals and questions together

ASSUME GatesAssumption == DOMAIN OwnerOfRun = Calls /\ MaxPauses \in Nat

VARIABLE gate         \* the approval each call waits for

NoApproval == 0
gateVars == <<approvalVars, askVars, gate>>

GatesInit == ApprovalsInit /\ AskInit /\ gate = [k \in Calls |-> NoApproval]

MayPause(k) ==
  /\ gate[k] = NoApproval /\ waiting[k] = NoQuestion
  /\ Len(owner) + asked < MaxPauses

(* pre_tool_call of a gated tool: announced and registered in one go. *)
Pause(k) ==
  /\ MayPause(k)
  /\ Register(OwnerOfRun[k])
  /\ gate' = [gate EXCEPT ![k] = Len(owner')]
  /\ UNCHANGED askVars

(* The decision arrives: the tool runs, or is vetoed. *)
Proceed(k) ==
  /\ gate[k] # NoApproval /\ gate[k] \notin pending
  /\ gate' = [gate EXCEPT ![k] = NoApproval]
  /\ UNCHANGED <<approvalVars, askVars>>

(* The question tool. *)
AskUser(k) ==
  /\ MayPause(k)
  /\ Ask(k)
  /\ UNCHANGED <<approvalVars, gate>>

GatesNext ==
  \/ \E k \in Calls : Pause(k) \/ Proceed(k) \/ AskUser(k)
  \/ ApprovalsNext /\ UNCHANGED <<askVars, gate>>
  \/ AskNext /\ UNCHANGED <<approvalVars, gate>>

GatesFairness ==
  /\ \A a \in Approvals : WF_gateVars(Expires(a) /\ UNCHANGED <<askVars, gate>>)
  /\ \A k \in Calls : WF_gateVars(Proceed(k))

GatesSpec == GatesInit /\ [][GatesNext]_gateVars /\ GatesFairness

-----------------------------------------------------------------------------
(* A gated call goes on, whoever answers, or nobody (approval-registry.ts:183). *)
GatesOpen == \A k \in Calls : gate[k] # NoApproval ~> gate[k] = NoApproval

=============================================================================
