--------------------------- MODULE CommandTheorems ---------------------------
(***************************************************************************)
(* Lemmas about the methods of the Command aggregate, for the proofs about *)
(* the aggregate alone and about the pipeline that drives it.              *)
(***************************************************************************)
EXTENDS Command, TLAPS

(***************************************************************************)
(* _transition keeps a record a record.                                    *)
(***************************************************************************)
LEMMA TransitionRecord ==
  ASSUME NEW c \in CommandRecord, NEW allowed, NEW new \in Statuses
  PROVE  Transition(c, allowed, new) \in CommandRecord
BY DEF Transition, CommandRecord

(***************************************************************************)
(* Storing an outcome keeps the record a record and its status.            *)
(***************************************************************************)
LEMMA StoringKeepsStatus ==
  ASSUME NEW c \in CommandRecord,
         NEW v \in Verdicts, NEW l \in RiskLevels, NEW a \in ApprovalOutcomes,
         NEW e \in ExecutionOutcomes
  PROVE  \A r \in {[c EXCEPT !.policy_result = v],
                   [c EXCEPT !.safety_assessment = v],
                   [c EXCEPT !.risk_assessment = l],
                   [c EXCEPT !.approval_decision = a],
                   [c EXCEPT !.execution_result = e],
                   [c EXCEPT !.verification_result = v]} :
           r \in CommandRecord /\ r.status = c.status
BY DEF CommandRecord

(***************************************************************************)
(* A new command, and what a method of the pipeline leaves, is a record.   *)
(***************************************************************************)
LEMMA NewCommandRecord == NewCommand \in CommandRecord
BY DEF NewCommand, CommandRecord, Statuses, ProgressStatuses

(***************************************************************************)
(* Every method the pipeline calls leaves a record, with any argument and  *)
(* in any status.                                                          *)
(***************************************************************************)
LEMMA MethodsKeepRecord ==
  ASSUME NEW c \in CommandRecord,
         NEW v \in Verdicts, NEW l \in RiskLevels, NEW a \in ApprovalOutcomes,
         NEW e \in ExecutionOutcomes
  PROVE  /\ ApplyPolicyResult(c, v) \in CommandRecord
         /\ ApplySafetyAssessment(c, v) \in CommandRecord
         /\ ApplyRiskAssessment(c, l) \in CommandRecord
         /\ RejectByRisk(c) \in CommandRecord
         /\ AutoApprove(c) \in CommandRecord
         /\ AwaitApproval(c) \in CommandRecord
         /\ Approve(c, a) \in CommandRecord
         /\ RejectByOperator(c, a) \in CommandRecord
         /\ Dispatch(c) \in CommandRecord
         /\ MarkDispatchFailed(c) \in CommandRecord
         /\ Acknowledge(c) \in CommandRecord
         /\ MarkExecuted(c, e) \in CommandRecord
         /\ MarkExecutionFailed(c, e) \in CommandRecord
         /\ TimeoutExecution(c, e) \in CommandRecord
         /\ Verify(c, v) \in CommandRecord
         /\ Complete(c) \in CommandRecord
<1> USE StoringKeepsStatus, TransitionRecord
    DEF Statuses, ProgressStatuses, TerminalStatuses, FailureStatuses
<1>1. /\ ApplyPolicyResult(c, v) \in CommandRecord
      /\ ApplySafetyAssessment(c, v) \in CommandRecord
      /\ Verify(c, v) \in CommandRecord
  BY DEF ApplyPolicyResult, ApplySafetyAssessment, Verify
<1>2. /\ ApplyRiskAssessment(c, l) \in CommandRecord
      /\ RejectByRisk(c) \in CommandRecord
      /\ AutoApprove(c) \in CommandRecord
      /\ AwaitApproval(c) \in CommandRecord
  BY DEF ApplyRiskAssessment, RejectByRisk, AutoApprove, AwaitApproval
<1>3. /\ Approve(c, a) \in CommandRecord
      /\ RejectByOperator(c, a) \in CommandRecord
  BY DEF Approve, RejectByOperator
<1>4. /\ Dispatch(c) \in CommandRecord
      /\ MarkDispatchFailed(c) \in CommandRecord
      /\ Acknowledge(c) \in CommandRecord
  BY DEF Dispatch, MarkDispatchFailed, Acknowledge
<1>5. /\ MarkExecuted(c, e) \in CommandRecord
      /\ MarkExecutionFailed(c, e) \in CommandRecord
      /\ TimeoutExecution(c, e) \in CommandRecord
      /\ Complete(c) \in CommandRecord
  BY DEF MarkExecuted, MarkExecutionFailed, TimeoutExecution, Complete
<1>6. QED
  BY <1>1, <1>2, <1>3, <1>4, <1>5
-----------------------------------------------------------------------------
(***************************************************************************)
(* The outcomes the dispatch depends on.                                   *)
(***************************************************************************)
SameOutcomes(c, d) ==
  /\ c.policy_result = d.policy_result
  /\ c.safety_assessment = d.safety_assessment
  /\ c.risk_assessment = d.risk_assessment
  /\ c.approval_decision = d.approval_decision

(***************************************************************************)
(* _transition changes the status if it is allowed, and no outcome.        *)
(***************************************************************************)
LEMMA TransitionEffect ==
  ASSUME NEW c \in CommandRecord, NEW allowed, NEW new \in Statuses
  PROVE  /\ SameOutcomes(Transition(c, allowed, new), c)
         /\ c.status \in allowed => Transition(c, allowed, new).status = new
         /\ c.status \notin allowed => Transition(c, allowed, new) = c
BY DEF Transition, CommandRecord, SameOutcomes

(***************************************************************************)
(* What storing an outcome changes.                                        *)
(***************************************************************************)
LEMMA PolicyStored ==
  ASSUME NEW c \in CommandRecord, NEW v \in Verdicts
  PROVE  \A r \in {[c EXCEPT !.policy_result = v]} :
           /\ r \in CommandRecord
           /\ r.status = c.status /\ r.policy_result = v
           /\ r.safety_assessment = c.safety_assessment
           /\ r.risk_assessment = c.risk_assessment
           /\ r.approval_decision = c.approval_decision
BY DEF CommandRecord

(***************************************************************************)
(* The same for the safety assessment.                                     *)
(***************************************************************************)
LEMMA SafetyStored ==
  ASSUME NEW c \in CommandRecord, NEW v \in Verdicts
  PROVE  \A r \in {[c EXCEPT !.safety_assessment = v]} :
           /\ r \in CommandRecord
           /\ r.status = c.status /\ r.policy_result = c.policy_result
           /\ r.safety_assessment = v
           /\ r.risk_assessment = c.risk_assessment
           /\ r.approval_decision = c.approval_decision
BY DEF CommandRecord

(***************************************************************************)
(* The same for the risk assessment.                                       *)
(***************************************************************************)
LEMMA RiskStored ==
  ASSUME NEW c \in CommandRecord, NEW l \in RiskLevels
  PROVE  \A r \in {[c EXCEPT !.risk_assessment = l]} :
           /\ r \in CommandRecord
           /\ r.status = c.status /\ r.policy_result = c.policy_result
           /\ r.safety_assessment = c.safety_assessment
           /\ r.risk_assessment = l
           /\ r.approval_decision = c.approval_decision
BY DEF CommandRecord

(***************************************************************************)
(* The same for the decision of an approval.                               *)
(***************************************************************************)
LEMMA DecisionStored ==
  ASSUME NEW c \in CommandRecord, NEW a \in ApprovalOutcomes
  PROVE  \A r \in {[c EXCEPT !.approval_decision = a]} :
           /\ r \in CommandRecord
           /\ r.status = c.status /\ r.policy_result = c.policy_result
           /\ r.safety_assessment = c.safety_assessment
           /\ r.risk_assessment = c.risk_assessment
           /\ r.approval_decision = a
BY DEF CommandRecord

(***************************************************************************)
(* An execution result changes none of the four outcomes before it.        *)
(***************************************************************************)
LEMMA ResultStored ==
  ASSUME NEW c \in CommandRecord, NEW e \in ExecutionOutcomes
  PROVE  \A r \in {[c EXCEPT !.execution_result = e]} :
           /\ r \in CommandRecord
           /\ r.status = c.status /\ SameOutcomes(r, c)
BY DEF CommandRecord, SameOutcomes

(***************************************************************************)
(* Nor does a verification result.                                         *)
(***************************************************************************)
LEMMA VerificationStored ==
  ASSUME NEW c \in CommandRecord, NEW v \in Verdicts
  PROVE  \A r \in {[c EXCEPT !.verification_result = v]} :
           /\ r \in CommandRecord
           /\ r.status = c.status /\ SameOutcomes(r, c)
BY DEF CommandRecord, SameOutcomes

(***************************************************************************)
(* A gate method that is called in its turn stores its outcome and moves   *)
(* on; the outcomes of the other gates stay.                               *)
(***************************************************************************)
LEMMA PolicyEffect ==
  ASSUME NEW c \in CommandRecord, NEW v \in Verdicts, c.status = "PLANNED",
         NEW a, a = ApplyPolicyResult(c, v)
  PROVE  /\ a.status = IF v = "passed" THEN "POLICY_VALIDATED"
                                      ELSE "REJECTED_BY_POLICY"
         /\ a.policy_result = v
         /\ a.safety_assessment = c.safety_assessment
         /\ a.risk_assessment = c.risk_assessment
         /\ a.approval_decision = c.approval_decision
<1>1. PICK r \in {[c EXCEPT !.policy_result = v]} :
        /\ r \in CommandRecord
        /\ r.status = c.status /\ r.policy_result = v
        /\ r.safety_assessment = c.safety_assessment
        /\ r.risk_assessment = c.risk_assessment
        /\ r.approval_decision = c.approval_decision
  BY PolicyStored
<1>2. a = Transition(r, {"PLANNED"}, (IF v = "passed" THEN "POLICY_VALIDATED" ELSE "REJECTED_BY_POLICY"))
  BY <1>1 DEF ApplyPolicyResult
<1>3. (IF v = "passed" THEN "POLICY_VALIDATED" ELSE "REJECTED_BY_POLICY") \in Statuses
  BY DEF Statuses, ProgressStatuses, TerminalStatuses, FailureStatuses
<1>4. QED
  BY <1>1, <1>2, <1>3, TransitionEffect DEF SameOutcomes

(***************************************************************************)
(* The same for the safety gate, of a command that passed policy.          *)
(***************************************************************************)
LEMMA SafetyEffect ==
  ASSUME NEW c \in CommandRecord, NEW v \in Verdicts,
         c.status = "POLICY_VALIDATED",
         NEW a, a = ApplySafetyAssessment(c, v)
  PROVE  /\ a.status = IF v = "passed" THEN "SAFETY_VALIDATED"
                                      ELSE "BLOCKED_BY_SAFETY"
         /\ a.policy_result = c.policy_result
         /\ a.safety_assessment = v
         /\ a.risk_assessment = c.risk_assessment
         /\ a.approval_decision = c.approval_decision
<1>1. PICK r \in {[c EXCEPT !.safety_assessment = v]} :
        /\ r \in CommandRecord
        /\ r.status = c.status /\ r.safety_assessment = v
        /\ r.policy_result = c.policy_result
        /\ r.risk_assessment = c.risk_assessment
        /\ r.approval_decision = c.approval_decision
  BY SafetyStored
<1>2. a = Transition(r, {"POLICY_VALIDATED"}, (IF v = "passed" THEN "SAFETY_VALIDATED" ELSE "BLOCKED_BY_SAFETY"))
  BY <1>1 DEF ApplySafetyAssessment
<1>3. (IF v = "passed" THEN "SAFETY_VALIDATED" ELSE "BLOCKED_BY_SAFETY") \in Statuses
  BY DEF Statuses, ProgressStatuses, TerminalStatuses, FailureStatuses
<1>4. QED
  BY <1>1, <1>2, <1>3, TransitionEffect DEF SameOutcomes

(***************************************************************************)
(* The same for the risk gate, of a command that passed safety.            *)
(***************************************************************************)
LEMMA RiskEffect ==
  ASSUME NEW c \in CommandRecord, NEW l \in RiskLevels,
         c.status = "SAFETY_VALIDATED",
         NEW a, a = ApplyRiskAssessment(c, l)
  PROVE  /\ a.status = "RISK_ASSESSED"
         /\ a.policy_result = c.policy_result
         /\ a.safety_assessment = c.safety_assessment
         /\ a.risk_assessment = l
         /\ a.approval_decision = c.approval_decision
<1>1. PICK r \in {[c EXCEPT !.risk_assessment = l]} :
        /\ r \in CommandRecord
        /\ r.status = c.status /\ r.risk_assessment = l
        /\ r.policy_result = c.policy_result
        /\ r.safety_assessment = c.safety_assessment
        /\ r.approval_decision = c.approval_decision
  BY RiskStored
<1>2. a = Transition(r, {"SAFETY_VALIDATED"}, "RISK_ASSESSED")
  BY <1>1 DEF ApplyRiskAssessment
<1>3. "RISK_ASSESSED" \in Statuses
  BY DEF Statuses, ProgressStatuses
<1>4. QED
  BY <1>1, <1>2, <1>3, TransitionEffect DEF SameOutcomes

(***************************************************************************)
(* A method without an outcome of its own moves the status only.           *)
(***************************************************************************)
LEMMA RouteEffect ==
  ASSUME NEW c \in CommandRecord, c.status = "RISK_ASSESSED"
  PROVE  /\ RejectByRisk(c).status = "REJECTED_BY_RISK"
         /\ SameOutcomes(RejectByRisk(c), c)
         /\ AutoApprove(c).status = "AUTO_APPROVED"
         /\ SameOutcomes(AutoApprove(c), c)
         /\ AwaitApproval(c).status = "AWAITING_APPROVAL"
         /\ SameOutcomes(AwaitApproval(c), c)
BY TransitionEffect
   DEF RejectByRisk, AutoApprove, AwaitApproval, Statuses, ProgressStatuses,
       TerminalStatuses, FailureStatuses

(***************************************************************************)
(* A decision is stored whether or not the command is waiting for it, and  *)
(* moves the command if it is.                                             *)
(***************************************************************************)
LEMMA DecisionEffect ==
  ASSUME NEW c \in CommandRecord, NEW d \in ApprovalOutcomes,
         NEW a, NEW new, \/ a = Approve(c, d) /\ new = "APPROVED"
                        \/ /\ a = RejectByOperator(c, d)
                           /\ new = "REJECTED_BY_OPERATOR"
  PROVE  /\ a.status = IF c.status = "AWAITING_APPROVAL" THEN new ELSE c.status
         /\ a.policy_result = c.policy_result
         /\ a.safety_assessment = c.safety_assessment
         /\ a.risk_assessment = c.risk_assessment
         /\ a.approval_decision = d
<1>1. new \in Statuses
  BY DEF Statuses, ProgressStatuses, TerminalStatuses, FailureStatuses
<1>2. PICK r \in {[c EXCEPT !.approval_decision = d]} :
        /\ r \in CommandRecord
        /\ r.status = c.status /\ r.policy_result = c.policy_result
        /\ r.safety_assessment = c.safety_assessment
        /\ r.risk_assessment = c.risk_assessment
        /\ r.approval_decision = d
  BY DecisionStored
<1>3. a = Transition(r, {"AWAITING_APPROVAL"}, new)
  BY <1>2 DEF Approve, RejectByOperator
<1>4. QED
  BY <1>1, <1>2, <1>3, TransitionEffect DEF SameOutcomes

(***************************************************************************)
(* dispatch moves an approved command and leaves any other as it is.       *)
(***************************************************************************)
LEMMA DispatchEffect ==
  ASSUME NEW c \in CommandRecord
  PROVE  /\ SameOutcomes(Dispatch(c), c)
         /\ c.status \in DispatchableStatuses =>
              Dispatch(c).status = "DISPATCHED"
         /\ c.status \notin DispatchableStatuses => Dispatch(c) = c
BY TransitionEffect DEF Dispatch, Statuses, ProgressStatuses

(***************************************************************************)
(* A dispatched command is acknowledged, or its dispatch has failed, with  *)
(* its outcomes kept.                                                      *)
(***************************************************************************)
LEMMA AcknowledgeEffect ==
  ASSUME NEW c \in CommandRecord, c.status = "DISPATCHED"
  PROVE  /\ Acknowledge(c).status = "ACKNOWLEDGED"
         /\ SameOutcomes(Acknowledge(c), c)
         /\ MarkDispatchFailed(c).status = "DISPATCH_FAILED"
         /\ SameOutcomes(MarkDispatchFailed(c), c)
BY TransitionEffect
   DEF Acknowledge, MarkDispatchFailed, Statuses, ProgressStatuses,
       TerminalStatuses, FailureStatuses

(***************************************************************************)
(* The report of the hardware moves an acknowledged command to one of      *)
(* three statuses, with the outcomes of its gates kept.                    *)
(***************************************************************************)
LEMMA ReportEffect ==
  ASSUME NEW c \in CommandRecord, NEW e \in ExecutionOutcomes,
         c.status = "ACKNOWLEDGED"
  PROVE  /\ MarkExecuted(c, e).status = "EXECUTED"
         /\ SameOutcomes(MarkExecuted(c, e), c)
         /\ MarkExecutionFailed(c, e).status = "EXECUTION_FAILED"
         /\ SameOutcomes(MarkExecutionFailed(c, e), c)
         /\ TimeoutExecution(c, e).status = "TIMED_OUT"
         /\ SameOutcomes(TimeoutExecution(c, e), c)
<1>1. PICK r \in {[c EXCEPT !.execution_result = e]} :
        r \in CommandRecord /\ r.status = c.status /\ SameOutcomes(r, c)
  BY ResultStored
<1>2. /\ MarkExecuted(c, e) = Transition(r, {"ACKNOWLEDGED"}, "EXECUTED")
      /\ MarkExecutionFailed(c, e) =
           Transition(r, {"ACKNOWLEDGED"}, "EXECUTION_FAILED")
      /\ TimeoutExecution(c, e) = Transition(r, {"ACKNOWLEDGED"}, "TIMED_OUT")
  BY <1>1 DEF MarkExecuted, MarkExecutionFailed, TimeoutExecution
<1>3. {"EXECUTED", "EXECUTION_FAILED", "TIMED_OUT"} \subseteq Statuses
  BY DEF Statuses, ProgressStatuses, TerminalStatuses, FailureStatuses
<1>4. QED
  BY <1>1, <1>2, <1>3, TransitionEffect DEF SameOutcomes

(***************************************************************************)
(* A verification moves an executed command to VERIFIED or to its failure, *)
(* with the outcomes of its gates kept.                                    *)
(***************************************************************************)
LEMMA VerifyEffect ==
  ASSUME NEW c \in CommandRecord, NEW v \in Verdicts, c.status = "EXECUTED"
  PROVE  /\ Verify(c, v).status = IF v = "passed" THEN "VERIFIED"
                                                 ELSE "VERIFICATION_FAILED"
         /\ SameOutcomes(Verify(c, v), c)
<1> DEFINE new == IF v = "passed" THEN "VERIFIED" ELSE "VERIFICATION_FAILED"
<1>1. PICK r \in {[c EXCEPT !.verification_result = v]} :
        r \in CommandRecord /\ r.status = c.status /\ SameOutcomes(r, c)
  BY VerificationStored
<1>2. Verify(c, v) = Transition(r, {"EXECUTED"}, new)
  BY <1>1 DEF Verify
<1>3. new \in Statuses
  BY DEF Statuses, ProgressStatuses, TerminalStatuses, FailureStatuses
<1>4. QED
  BY <1>1, <1>2, <1>3, TransitionEffect DEF SameOutcomes

(***************************************************************************)
(* A verified command completes, with its outcomes kept.                   *)
(***************************************************************************)
LEMMA CompleteEffect ==
  ASSUME NEW c \in CommandRecord, c.status = "VERIFIED"
  PROVE  /\ Complete(c).status = "COMPLETED"
         /\ SameOutcomes(Complete(c), c)
BY TransitionEffect DEF Complete, Statuses, TerminalStatuses
=============================================================================
