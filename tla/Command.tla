------------------------------ MODULE Command ------------------------------
(***************************************************************************)
(* The Command aggregate of the execution context                          *)
(* (solarops/execution/domain/command.py): a status and six gate outcomes, *)
(* changed by one method per transition of the lifecycle.                  *)
(*                                                                         *)
(* Each method is an operator from the record before the call to the       *)
(* record after it.  A method the status does not allow raises             *)
(* InvalidStateTransition: the status stays, but a method that carries a   *)
(* gate outcome has by then stored it, because every one of them assigns   *)
(* its field before it calls _transition.                                  *)
(***************************************************************************)

(***************************************************************************)
(* CommandStatus (solarops/shared_kernel/enums.py).                        *)
(***************************************************************************)
FailureStatuses ==
  {"REJECTED_BY_POLICY", "BLOCKED_BY_SAFETY", "REJECTED_BY_RISK",
   "REJECTED_BY_OPERATOR", "DISPATCH_FAILED", "EXECUTION_FAILED",
   "TIMED_OUT", "VERIFICATION_FAILED", "CANCELLED"}

TerminalStatuses == FailureStatuses \cup {"COMPLETED"}

ProgressStatuses ==
  {"PLANNED", "POLICY_VALIDATED", "SAFETY_VALIDATED", "RISK_ASSESSED",
   "AUTO_APPROVED", "AWAITING_APPROVAL", "APPROVED", "DISPATCHED",
   "ACKNOWLEDGED", "EXECUTED", "VERIFIED"}

Statuses == ProgressStatuses \cup TerminalStatuses

RiskLevels == {"LOW", "MEDIUM", "HIGH", "CRITICAL"}

ApprovalOutcomes == {"APPROVED", "REJECTED", "MODIFIED", "EXPIRED"}

ExecutionOutcomes == {"SUCCESS", "FAILED", "TIMED_OUT", "CANCELLED", "BLOCKED"}

(***************************************************************************)
(* What a gate stored: nothing yet, or a result that passed or failed.     *)
(***************************************************************************)
Verdicts == {"passed", "failed"}

None == "none"

CommandRecord ==
  [status              : Statuses,
   policy_result       : Verdicts \cup {None},
   safety_assessment   : Verdicts \cup {None},
   risk_assessment     : RiskLevels \cup {None},
   approval_decision   : ApprovalOutcomes \cup {None},
   execution_result    : ExecutionOutcomes \cup {None},
   verification_result : Verdicts \cup {None}]

(***************************************************************************)
(* Command.create: CREATED -> PLANNED in one step, every outcome unset.    *)
(***************************************************************************)
NewCommand ==
  [status              |-> "PLANNED",
   policy_result       |-> None,
   safety_assessment   |-> None,
   risk_assessment     |-> None,
   approval_decision   |-> None,
   execution_result    |-> None,
   verification_result |-> None]

(***************************************************************************)
(* _transition: the new status when the current one is allowed; else the   *)
(* record as the caller's assignments left it (the exception is raised).   *)
(***************************************************************************)
Transition(c, allowed, new) ==
  IF c.status \in allowed THEN [c EXCEPT !.status = new] ELSE c

ApplyPolicyResult(c, verdict) ==
  Transition([c EXCEPT !.policy_result = verdict], {"PLANNED"},
             IF verdict = "passed" THEN "POLICY_VALIDATED"
                                   ELSE "REJECTED_BY_POLICY")

ApplySafetyAssessment(c, verdict) ==
  Transition([c EXCEPT !.safety_assessment = verdict], {"POLICY_VALIDATED"},
             IF verdict = "passed" THEN "SAFETY_VALIDATED"
                                   ELSE "BLOCKED_BY_SAFETY")

ApplyRiskAssessment(c, level) ==
  Transition([c EXCEPT !.risk_assessment = level], {"SAFETY_VALIDATED"},
             "RISK_ASSESSED")

RejectByRisk(c)  == Transition(c, {"RISK_ASSESSED"}, "REJECTED_BY_RISK")
AutoApprove(c)   == Transition(c, {"RISK_ASSESSED"}, "AUTO_APPROVED")
AwaitApproval(c) == Transition(c, {"RISK_ASSESSED"}, "AWAITING_APPROVAL")

Approve(c, outcome) ==
  Transition([c EXCEPT !.approval_decision = outcome],
             {"AWAITING_APPROVAL"}, "APPROVED")

RejectByOperator(c, outcome) ==
  Transition([c EXCEPT !.approval_decision = outcome],
             {"AWAITING_APPROVAL"}, "REJECTED_BY_OPERATOR")

ExpireApprovalUnderItsOutcome(c, outcome) ==   \* mutant: wrong enumeration
  Transition([c EXCEPT !.approval_decision = outcome],
             {"AWAITING_APPROVAL"}, "EXPIRED")

ExpireApproval(c, outcome) ==
  Transition([c EXCEPT !.approval_decision = outcome],
             {"AWAITING_APPROVAL"}, "TIMED_OUT")

DispatchableWhileAwaiting ==   \* mutant: no decision needed
  {"AUTO_APPROVED", "APPROVED", "AWAITING_APPROVAL"}

DispatchableStatuses == {"AUTO_APPROVED", "APPROVED"}

Dispatch(c) == Transition(c, DispatchableStatuses, "DISPATCHED")

MarkDispatchRetryable(c) ==   \* mutant: back to where it can be sent again
  Transition(c, {"DISPATCHED"}, "APPROVED")

MarkDispatchFailed(c) == Transition(c, {"DISPATCHED"}, "DISPATCH_FAILED")

Acknowledge(c) == Transition(c, {"DISPATCHED"}, "ACKNOWLEDGED")

MarkExecuted(c, outcome) ==
  Transition([c EXCEPT !.execution_result = outcome],
             {"ACKNOWLEDGED"}, "EXECUTED")

MarkExecutionFailed(c, outcome) ==
  Transition([c EXCEPT !.execution_result = outcome],
             {"ACKNOWLEDGED"}, "EXECUTION_FAILED")

TimeoutForRetry(c, outcome) ==   \* mutant: a timeout reopens the command
  Transition([c EXCEPT !.execution_result = outcome],
             {"ACKNOWLEDGED"}, "APPROVED")

TimeoutOnlyStored(c, outcome) ==   \* mutant: the transition is forgotten
  [c EXCEPT !.execution_result = outcome]

TimeoutExecution(c, outcome) ==
  Transition([c EXCEPT !.execution_result = outcome],
             {"ACKNOWLEDGED"}, "TIMED_OUT")

Verify(c, verdict) ==
  Transition([c EXCEPT !.verification_result = verdict], {"EXECUTED"},
             IF verdict = "passed" THEN "VERIFIED" ELSE "VERIFICATION_FAILED")

Complete(c) == Transition(c, {"VERIFIED"}, "COMPLETED")

CancelAnytime(c) == Transition(c, Statuses, "CANCELLED")   \* mutant: no guard

Cancel(c) == Transition(c, Statuses \ TerminalStatuses, "CANCELLED")
=============================================================================
