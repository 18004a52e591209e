-------------------------- MODULE CommandLifecycle --------------------------
(***************************************************************************)
(* One Command driven by callers the aggregate knows nothing about: any    *)
(* method, in any order, with any argument.  This is the setting of the    *)
(* invariants which docs/08 section 7 says are "enforced by the aggregate  *)
(* (not by callers)".                                                      *)
(***************************************************************************)
EXTENDS Command, Naturals

VARIABLES
  command,   \* the aggregate
  visited    \* history: the statuses it has been in

vars == <<command, visited>>

(***************************************************************************)
(* The aggregate keeps its types: no method, accepted or refused, stores   *)
(* a status or an outcome outside the enumerations.                        *)
(***************************************************************************)
TypeOK ==
  /\ command \in CommandRecord
  /\ visited \subseteq Statuses
  /\ command.status \in visited

Init ==
  /\ command = NewCommand
  /\ visited = {NewCommand.status}

(***************************************************************************)
(* The state after a method call that leaves the aggregate as `after`.     *)
(***************************************************************************)
Becomes(after) ==
  /\ command' = after
  /\ visited' = visited \cup {after.status}

PolicyGate == \E v \in Verdicts : Becomes(ApplyPolicyResult(command, v))
SafetyGate == \E v \in Verdicts : Becomes(ApplySafetyAssessment(command, v))
RiskGate   == \E l \in RiskLevels : Becomes(ApplyRiskAssessment(command, l))

Route ==
  \/ Becomes(RejectByRisk(command))
  \/ Becomes(AutoApprove(command))
  \/ Becomes(AwaitApproval(command))

Decide ==
  \E o \in ApprovalOutcomes :
    \/ Becomes(Approve(command, o))
    \/ Becomes(RejectByOperator(command, o))
    \/ Becomes(ExpireApproval(command, o))

Send ==
  \/ Becomes(Dispatch(command))
  \/ Becomes(MarkDispatchFailed(command))
  \/ Becomes(Acknowledge(command))

Report ==
  \E o \in ExecutionOutcomes :
    \/ Becomes(MarkExecuted(command, o))
    \/ Becomes(MarkExecutionFailed(command, o))
    \/ Becomes(TimeoutExecution(command, o))

Finish ==
  \/ \E v \in Verdicts : Becomes(Verify(command, v))
  \/ Becomes(Complete(command))

CancelCall == Becomes(Cancel(command))

Next ==
  \/ PolicyGate \/ SafetyGate \/ RiskGate \/ Route \/ Decide
  \/ Send \/ Report \/ Finish \/ CancelCall

Spec == Init /\ [][Next]_vars
-----------------------------------------------------------------------------
(***************************************************************************)
(* Whatever the callers do, a command that has been dispatched went        *)
(* through the policy, safety and risk gates with a pass and was approved  *)
(* on exactly one of the two paths, and no gate ever turned it away; a     *)
(* command that completed was verified after the hardware executed it      *)
(* (docs/08 section 7, "no code path ... skips a gate").                   *)
(***************************************************************************)
Turned ==
  {"REJECTED_BY_POLICY", "BLOCKED_BY_SAFETY", "REJECTED_BY_RISK",
   "REJECTED_BY_OPERATOR"}

NoGateSkipped ==
  /\ "DISPATCHED" \in visited =>
       /\ {"POLICY_VALIDATED", "SAFETY_VALIDATED", "RISK_ASSESSED"}
             \subseteq visited
       /\ {"AUTO_APPROVED", "APPROVED"} \cap visited # {}
       /\ visited \cap Turned = {}
  /\ "APPROVED" \in visited =>
       /\ "AWAITING_APPROVAL" \in visited
       /\ "AUTO_APPROVED" \notin visited
  /\ "COMPLETED" \in visited =>
       {"DISPATCHED", "ACKNOWLEDGED", "EXECUTED", "VERIFIED"} \subseteq visited

(***************************************************************************)
(* A terminal status is never left: no late call revives a command, and a  *)
(* command is in at most one terminal status in its whole life.            *)
(***************************************************************************)
TerminalIsFinal ==
  [][command.status \in TerminalStatuses => command'.status = command.status]_vars

(***************************************************************************)
(* A progress status is entered at most once: no method moves a command    *)
(* backwards (docs/08 section 7, invariant 3).                             *)
(***************************************************************************)
ForwardOnly ==
  [][command'.status # command.status => command'.status \notin visited]_vars
=============================================================================
