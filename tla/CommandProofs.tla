---------------------------- MODULE CommandProofs ----------------------------
(***************************************************************************)
(* Proofs about CommandLifecycle: what the aggregate guarantees whoever    *)
(* calls it.  Every call either leaves the status or moves it along an     *)
(* edge of the lifecycle (MethodsFollow).  Edges lead upwards in Rank, so  *)
(* the statuses a command has been in are bounded from above by the one it *)
(* is in (Ordered), and from below by those an edge leads from (Linked).   *)
(***************************************************************************)
EXTENDS CommandLifecycle, CommandTheorems, TLAPS

Edge(from, to) ==
  \/ /\ from = "PLANNED"
     /\ to \in {"POLICY_VALIDATED", "REJECTED_BY_POLICY"}
  \/ /\ from = "POLICY_VALIDATED"
     /\ to \in {"SAFETY_VALIDATED", "BLOCKED_BY_SAFETY"}
  \/ from = "SAFETY_VALIDATED" /\ to = "RISK_ASSESSED"
  \/ /\ from = "RISK_ASSESSED"
     /\ to \in {"REJECTED_BY_RISK", "AUTO_APPROVED", "AWAITING_APPROVAL"}
  \/ /\ from = "AWAITING_APPROVAL"
     /\ to \in {"APPROVED", "REJECTED_BY_OPERATOR", "TIMED_OUT"}
  \/ from \in {"AUTO_APPROVED", "APPROVED"} /\ to = "DISPATCHED"
  \/ from = "DISPATCHED" /\ to \in {"DISPATCH_FAILED", "ACKNOWLEDGED"}
  \/ /\ from = "ACKNOWLEDGED"
     /\ to \in {"EXECUTED", "EXECUTION_FAILED", "TIMED_OUT"}
  \/ from = "EXECUTED" /\ to \in {"VERIFIED", "VERIFICATION_FAILED"}
  \/ from = "VERIFIED" /\ to = "COMPLETED"
  \/ from \in ProgressStatuses /\ to = "CANCELLED"

ProgressRank ==
  [PLANNED |-> 0, POLICY_VALIDATED |-> 1, SAFETY_VALIDATED |-> 2,
   RISK_ASSESSED |-> 3, AUTO_APPROVED |-> 4, AWAITING_APPROVAL |-> 4,
   APPROVED |-> 5, DISPATCHED |-> 6, ACKNOWLEDGED |-> 7, EXECUTED |-> 8,
   VERIFIED |-> 9]

Rank(s) == IF s \in ProgressStatuses THEN ProgressRank[s] ELSE 10

(***************************************************************************)
(* The status is above every other status the command has been in.         *)
(***************************************************************************)
Ordered ==
  \A s \in visited : s = command.status \/ Rank(s) < Rank(command.status)

(***************************************************************************)
(* A command that has been in a status has been in one it is reached from. *)
(***************************************************************************)
Linked ==
  /\ "SAFETY_VALIDATED" \in visited => "POLICY_VALIDATED" \in visited
  /\ "RISK_ASSESSED" \in visited => "SAFETY_VALIDATED" \in visited
  /\ {"AUTO_APPROVED", "AWAITING_APPROVAL"} \cap visited # {} =>
       "RISK_ASSESSED" \in visited
  /\ "APPROVED" \in visited => "AWAITING_APPROVAL" \in visited
  /\ "AUTO_APPROVED" \notin visited \/ "AWAITING_APPROVAL" \notin visited
  /\ "DISPATCHED" \in visited =>
       /\ {"AUTO_APPROVED", "APPROVED"} \cap visited # {}
       /\ visited \cap Turned = {}
  /\ "ACKNOWLEDGED" \in visited => "DISPATCHED" \in visited
  /\ "EXECUTED" \in visited => "ACKNOWLEDGED" \in visited
  /\ "VERIFIED" \in visited => "EXECUTED" \in visited
  /\ "COMPLETED" \in visited => "VERIFIED" \in visited

IInv == TypeOK /\ Ordered /\ Linked
-----------------------------------------------------------------------------
(***************************************************************************)
(* A record a call may leave behind: its status is the one before the call *)
(* or one an edge leads to.                                                *)
(***************************************************************************)
Follows(after) ==
  /\ after \in CommandRecord
  /\ after.status = command.status \/ Edge(command.status, after.status)

(***************************************************************************)
(* _transition follows an edge when every status it allows has one to the  *)
(* new status, whatever outcome was stored before.                         *)
(***************************************************************************)
LEMMA TransitionFollows ==
  ASSUME NEW c \in CommandRecord, c.status = command.status,
         NEW allowed, NEW new \in Statuses,
         \A from \in allowed : Edge(from, new)
  PROVE  Follows(Transition(c, allowed, new))
BY DEF Transition, CommandRecord, Follows

(***************************************************************************)
(* Every method follows an edge.                                           *)
(***************************************************************************)
LEMMA MethodsFollow ==
  ASSUME command \in CommandRecord,
         NEW v \in Verdicts, NEW l \in RiskLevels, NEW a \in ApprovalOutcomes,
         NEW e \in ExecutionOutcomes
  PROVE  /\ Follows(ApplyPolicyResult(command, v))
         /\ Follows(ApplySafetyAssessment(command, v))
         /\ Follows(ApplyRiskAssessment(command, l))
         /\ Follows(RejectByRisk(command))
         /\ Follows(AutoApprove(command))
         /\ Follows(AwaitApproval(command))
         /\ Follows(Approve(command, a))
         /\ Follows(RejectByOperator(command, a))
         /\ Follows(ExpireApproval(command, a))
         /\ Follows(Dispatch(command))
         /\ Follows(MarkDispatchFailed(command))
         /\ Follows(Acknowledge(command))
         /\ Follows(MarkExecuted(command, e))
         /\ Follows(MarkExecutionFailed(command, e))
         /\ Follows(TimeoutExecution(command, e))
         /\ Follows(Verify(command, v))
         /\ Follows(Complete(command))
         /\ Follows(Cancel(command))
<1> USE StoringKeepsStatus, TransitionFollows
    DEF Edge, Statuses, ProgressStatuses, TerminalStatuses, FailureStatuses
<1>1. Follows(ApplyPolicyResult(command, v))
  BY DEF ApplyPolicyResult
<1>2. Follows(ApplySafetyAssessment(command, v))
  BY DEF ApplySafetyAssessment
<1>3. Follows(ApplyRiskAssessment(command, l))
  BY DEF ApplyRiskAssessment
<1>4. Follows(RejectByRisk(command))
  BY DEF RejectByRisk
<1>5. Follows(AutoApprove(command))
  BY DEF AutoApprove
<1>6. Follows(AwaitApproval(command))
  BY DEF AwaitApproval
<1>7. Follows(Approve(command, a))
  BY DEF Approve
<1>8. Follows(RejectByOperator(command, a))
  BY DEF RejectByOperator
<1>9. Follows(ExpireApproval(command, a))
  BY DEF ExpireApproval
<1>10. Follows(Dispatch(command))
  BY DEF Dispatch, DispatchableStatuses
<1>11. Follows(MarkDispatchFailed(command))
  BY DEF MarkDispatchFailed
<1>12. Follows(Acknowledge(command))
  BY DEF Acknowledge
<1>13. Follows(MarkExecuted(command, e))
  BY DEF MarkExecuted
<1>14. Follows(MarkExecutionFailed(command, e))
  BY DEF MarkExecutionFailed
<1>15. Follows(TimeoutExecution(command, e))
  BY DEF TimeoutExecution
<1>16. Follows(Verify(command, v))
  BY DEF Verify
<1>17. Follows(Complete(command))
  BY DEF Complete
<1>18. Follows(Cancel(command))
  BY DEF Cancel
<1>19. QED
  BY <1>1, <1>2, <1>3, <1>4, <1>5, <1>6, <1>7, <1>8, <1>9, <1>10, <1>11,
     <1>12, <1>13, <1>14, <1>15, <1>16, <1>17, <1>18
-----------------------------------------------------------------------------
(***************************************************************************)
(* Every step is a call, and records the status it leads to.               *)
(***************************************************************************)
LEMMA StepFollows ==
  ASSUME TypeOK, Next
  PROVE  Follows(command') /\ visited' = visited \cup {command'.status}
<1>1. /\ command \in CommandRecord
      /\ "passed" \in Verdicts /\ "LOW" \in RiskLevels
      /\ "APPROVED" \in ApprovalOutcomes /\ "SUCCESS" \in ExecutionOutcomes
  BY DEF TypeOK, Verdicts, RiskLevels, ApprovalOutcomes, ExecutionOutcomes
<1>2. CASE PolicyGate
  BY <1>1, <1>2, MethodsFollow DEF PolicyGate, Becomes
<1>3. CASE SafetyGate
  BY <1>1, <1>3, MethodsFollow DEF SafetyGate, Becomes
<1>4. CASE RiskGate
  BY <1>1, <1>4, MethodsFollow DEF RiskGate, Becomes
<1>5. CASE Route
  BY <1>1, <1>5, MethodsFollow DEF Route, Becomes
<1>6. CASE Decide
  BY <1>1, <1>6, MethodsFollow DEF Decide, Becomes
<1>7. CASE Send
  BY <1>1, <1>7, MethodsFollow DEF Send, Becomes
<1>8. CASE Report
  BY <1>1, <1>8, MethodsFollow DEF Report, Becomes
<1>9. CASE Finish
  BY <1>1, <1>9, MethodsFollow DEF Finish, Becomes
<1>10. CASE CancelCall
  BY <1>1, <1>10, MethodsFollow DEF CancelCall, Becomes
<1>11. QED
  BY <1>2, <1>3, <1>4, <1>5, <1>6, <1>7, <1>8, <1>9, <1>10 DEF Next

(***************************************************************************)
(* An edge leads to a higher rank, and from a status that is not terminal. *)
(***************************************************************************)
LEMMA EdgesRise ==
  ASSUME NEW from, NEW to, Edge(from, to)
  PROVE  /\ Rank(from) \in Nat /\ Rank(to) \in Nat
         /\ Rank(from) < Rank(to)
         /\ from \in ProgressStatuses
         /\ from \notin TerminalStatuses
BY DEF Edge, Rank, ProgressRank, ProgressStatuses, TerminalStatuses,
   FailureStatuses

(***************************************************************************)
(* Ranks are natural numbers.                                              *)
(***************************************************************************)
LEMMA RankNat ==
  ASSUME NEW s
  PROVE  Rank(s) \in Nat
BY DEF Rank, ProgressRank, ProgressStatuses

(***************************************************************************)
(* The strengthened invariant holds when Command.create returns.           *)
(***************************************************************************)
LEMMA IInvInit == Init => IInv
<1> SUFFICES ASSUME Init
             PROVE  IInv
  OBVIOUS
<1>1. TypeOK
  BY DEF Init, TypeOK, NewCommand, CommandRecord, Statuses, ProgressStatuses
<1>2. Ordered
  BY DEF Init, Ordered, NewCommand
<1>3. Linked
  BY DEF Init, Linked, NewCommand, Turned
<1>4. QED
  BY <1>1, <1>2, <1>3 DEF IInv

(***************************************************************************)
(* Every call preserves it.                                                *)
(***************************************************************************)
LEMMA IInvStep == IInv /\ [Next]_vars => IInv'
<1> SUFFICES ASSUME IInv, [Next]_vars
             PROVE  IInv'
  OBVIOUS
<1>1. CASE UNCHANGED vars
  BY <1>1 DEF IInv, TypeOK, Ordered, Linked, vars
<1>2. CASE Next
  <2>1. Follows(command') /\ visited' = visited \cup {command'.status}
    BY <1>2, StepFollows DEF IInv
  <2>2. TypeOK'
    BY <2>1 DEF IInv, TypeOK, Follows, CommandRecord
  <2>3. CASE command'.status = command.status
    <3>1. visited' = visited
      BY <2>1, <2>3 DEF IInv, TypeOK
    <3>2. Ordered' /\ Linked'
      BY <2>3, <3>1 DEF IInv, Ordered, Linked
    <3>3. QED
      BY <2>2, <3>2 DEF IInv
  <2>4. CASE Edge(command.status, command'.status)
    <3>1. \A s \in visited : Rank(s) < Rank(command'.status)
      BY <2>4, EdgesRise, RankNat DEF IInv, Ordered
    <3>2. Ordered'
      BY <2>1, <3>1 DEF Ordered
    <3>3. Linked'
      <4>1. visited \cap Turned = {}
        BY <2>4, <3>1, EdgesRise, RankNat DEF Rank, ProgressRank,
           ProgressStatuses, Turned, Edge
      <4>2. command.status = "RISK_ASSESSED" =>
              {"AUTO_APPROVED", "AWAITING_APPROVAL"} \cap visited = {}
        BY DEF IInv, Ordered, Rank, ProgressRank, ProgressStatuses
      <4>3. command'.status \in Turned => "DISPATCHED" \notin visited
        BY <2>4 DEF IInv, Ordered, Rank, ProgressRank, ProgressStatuses,
           Edge, Turned
      <4>4. command.status \in visited
        BY DEF IInv, TypeOK
      <4>5. QED
        BY <2>1, <2>4, <4>1, <4>2, <4>3, <4>4 DEF IInv, Linked, Edge, Turned
    <3>4. QED
      BY <2>2, <3>2, <3>3 DEF IInv
  <2>5. QED
    BY <2>1, <2>3, <2>4 DEF Follows
<1>3. QED
  BY <1>1, <1>2

(***************************************************************************)
(* The strengthened invariant, for whatever callers do.                    *)
(***************************************************************************)
THEOREM Invariance == Spec => []IInv
BY IInvInit, IInvStep, PTL DEF Spec

(***************************************************************************)
(* The aggregate's fields keep their types.                                *)
(***************************************************************************)
THEOREM TypeCorrect == Spec => []TypeOK
<1>1. IInv => TypeOK
  BY DEF IInv
<1>2. QED
  BY <1>1, Invariance, PTL

(***************************************************************************)
(* A dispatched command went through all three gates and one approval, and *)
(* a completed one was executed and verified, whoever called the methods   *)
(* of the aggregate and in whatever order.                                 *)
(***************************************************************************)
THEOREM GatesNotSkipped == Spec => []NoGateSkipped
<1>1. IInv => NoGateSkipped
  BY DEF IInv, Linked, NoGateSkipped
<1>2. QED
  BY <1>1, Invariance, PTL

(***************************************************************************)
(* No call leaves a terminal status.                                       *)
(***************************************************************************)
THEOREM TerminalStays == Spec => TerminalIsFinal
<1>1. IInv /\ [Next]_vars =>
        [command.status \in TerminalStatuses =>
           command'.status = command.status]_vars
  BY StepFollows, EdgesRise DEF IInv, Follows
<1>2. QED
  BY <1>1, Invariance, PTL DEF Spec, TerminalIsFinal

(***************************************************************************)
(* No call leads back to a status the command has been in.                 *)
(***************************************************************************)
THEOREM NeverBack == Spec => ForwardOnly
<1>1. IInv /\ [Next]_vars =>
        [command'.status # command.status => command'.status \notin visited]_vars
  <2> SUFFICES ASSUME IInv, Next, command'.status # command.status
               PROVE  command'.status \notin visited
    OBVIOUS
  <2>1. Edge(command.status, command'.status)
    BY StepFollows DEF IInv, Follows
  <2>2. \A s \in visited : Rank(s) < Rank(command'.status)
    BY <2>1, EdgesRise, RankNat DEF IInv, Ordered
  <2>3. QED
    BY <2>2, RankNat
<1>2. QED
  BY <1>1, Invariance, PTL DEF Spec, ForwardOnly
=============================================================================
