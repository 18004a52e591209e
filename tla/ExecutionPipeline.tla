-------------------------- MODULE ExecutionPipeline --------------------------
(***************************************************************************)
(* The execution context at work: ExecutionPipeline.run on the thread of   *)
(* the decision cycle, resume_after_approval on the threads that serve the *)
(* approval endpoints, all on the same repositories, audit log, state      *)
(* store and digital twin.                                                 *)
(*                                                                         *)
(* Decision cycles exclude each other (SystemComposition                   *)
(* ._decision_cycle_lock), so one process, Cycle, stands for all of them.  *)
(* Nothing excludes the other threads.  A thread is interrupted between    *)
(* two accesses to shared state.  What one method of an aggregate does is  *)
(* one step: between a method's test and its assignment CPython runs no    *)
(* call and no jump back, the places where it switches threads.  The       *)
(* repositories hold the aggregates themselves, so a change to a command   *)
(* is visible at once and the later save adds nothing.                     *)
(***************************************************************************)
EXTENDS Command, Naturals, Sequences

CONSTANTS
  Commands,        \* recommendations, and the commands planned from them
  Operators,       \* threads serving /approvals/{id}/approve|reject|modify
  Cycle,           \* the thread inside run_decision_cycle
  NoCommand,       \* sentinel
  Intents,         \* what recommendations may bring
  MaxRetries,      \* ExecutionManager.max_retries
  AuditMayFail,    \* PostgresAuditLog.append may raise
  StoreMayFail     \* the state store may raise or lose its contents

(***************************************************************************)
(* The action types the digital twin executes; it BLOCKs the others.       *)
(***************************************************************************)
Actions ==
  {"CHARGE_BATTERY", "DISCHARGE_BATTERY", "HOLD_BATTERY", "SHED_LOAD",
   "RESTORE_LOAD"}

(***************************************************************************)
(* The numbers of a command are within the hard limits or over them.       *)
(***************************************************************************)
Params == {"within", "over"}

(***************************************************************************)
(* What a recommendation brings: action and parameters, what the site's    *)
(* policy says of them, and whether its confidence band is LOW.            *)
(***************************************************************************)
IntentRecord ==
  [action : Actions, params : Params, permitted : BOOLEAN,
   lowConfidence : BOOLEAN]

ASSUME ConstantsAssumption ==
  /\ NoCommand \notin Commands
  /\ Cycle \notin Operators
  /\ Intents \subseteq IntentRecord
  /\ Intents # {}
  /\ MaxRetries \in Nat
  /\ AuditMayFail \in BOOLEAN
  /\ StoreMayFail \in BOOLEAN

Threads == Operators \cup {Cycle}

BatteryModes == {"IDLE", "CHARGING", "DISCHARGING"}

(***************************************************************************)
(* The part of an EnergyState the pipeline reads: the battery mode and     *)
(* whether the inverter reports a fault.                                   *)
(***************************************************************************)
Readings == [mode : BatteryModes, fault : {"none", "inverter"}]
NoReading == [mode |-> "unknown", fault |-> "unknown"]

Replies == {"SUCCESS", "FAILED", "BLOCKED", "CANCELLED", "TIMED_OUT", "RAISED"}

EventTypes ==
  {"CommandCreated", "PolicyViolated", "CommandValidated", "CommandRejected",
   "CommandBlockedBySafety", "RiskAssessed", "ApprovalRequested",
   "CommandApproved", "CommandFailed", "CommandTimedOut", "CommandDispatched",
   "CommandAcknowledged", "CommandExecuted", "VerificationFailed",
   "ExecutionVerified", "CommandCompleted"}

VARIABLES
  commands,   \* the Command aggregates
  intent,     \* the recommendation each was planned from
  saved,      \* InMemoryCommandRepository: the commands it holds
  request,    \* the ApprovalRequest of a command: absent, pending or decided
  modified,   \* modified_params of the decision a command carries
  audit,      \* the audit log, by aggregate
  sent,       \* history: calls of HardwareInterface.send for a command
  sentOver,   \* history: commands sent with parameters over the limits
  twin,       \* commanded battery mode, inverter fault
  store,      \* the StateStore's current EnergyState
  proc        \* the threads: where each is and its local variables

vars == <<commands, intent, saved, request, modified, audit, sent, sentOver,
          twin, store, proc>>

Labels ==
  {"idle", "ingest", "publish", "plan", "save", "policy", "applyPolicy",
   "safety", "risk", "route", "await", "resume", "decide", "apply", "dispatch",
   "send", "settle", "verify", "complete", "end"}

ThreadState ==
  [pc       : Labels,
   then     : {"idle", "plan", "verify"},      \* where the refresh returns
   command  : Commands \cup {NoCommand},
   events   : Seq(EventTypes),                 \* events to be audited next
   decision : ApprovalOutcomes \cup {None},
   params   : Params \cup {None},              \* modified_params of the body
   attempt  : 0..MaxRetries,
   reply    : Replies \cup {None},
   reading  : Readings \cup {NoReading}]       \* ingested, not yet published

Idle ==
  [pc |-> "idle", then |-> "idle", command |-> NoCommand, events |-> <<>>,
   decision |-> None, params |-> None, attempt |-> 0, reply |-> None,
   reading |-> NoReading]

(***************************************************************************)
(* The variables keep their types: repositories of aggregates, a log of    *)
(* events per aggregate, readings, and threads that are somewhere in the   *)
(* code with at most MaxRetries retries behind them.                       *)
(***************************************************************************)
TypeOK ==
  /\ commands \in [Commands -> CommandRecord]
  /\ intent \in [Commands -> Intents]
  /\ saved \subseteq Commands
  /\ request \in [Commands -> {"absent", "pending"} \cup ApprovalOutcomes]
  /\ modified \in [Commands -> Params \cup {None}]
  /\ audit \in [Commands -> Seq(EventTypes)]
  /\ sent \in [Commands -> Nat]
  /\ sentOver \subseteq Commands
  /\ twin \in Readings
  /\ store \in Readings \cup {NoReading}
  /\ proc \in [Threads -> ThreadState]

Init ==
  /\ commands = [c \in Commands |-> NewCommand]
  /\ intent = [c \in Commands |-> CHOOSE i \in Intents : TRUE]
  /\ saved = {}
  /\ request = [c \in Commands |-> "absent"]
  /\ modified = [c \in Commands |-> None]
  /\ audit = [c \in Commands |-> <<>>]
  /\ sent = [c \in Commands |-> 0]
  /\ sentOver = {}
  /\ twin = [mode |-> "IDLE", fault |-> "none"]
  /\ store = twin
  /\ proc = [t \in Threads |-> Idle]
-----------------------------------------------------------------------------
(***************************************************************************)
(* Steps of a thread.  A step may leave events that _audit has still to    *)
(* append; the thread goes on when the list is empty.                      *)
(***************************************************************************)
At(t, label) == proc[t].pc = label /\ proc[t].events = <<>>

Goto(t, label, events) ==
  proc' = [proc EXCEPT ![t] = [@ EXCEPT !.pc = label, !.events = events]]

Return(t) == proc' = [proc EXCEPT ![t] = Idle]

Change(c, after) == commands' = [commands EXCEPT ![c] = after]

aggregates == <<commands, intent, saved, request, modified>>
world      == <<sent, sentOver, twin, store>>

(***************************************************************************)
(* _audit appends the next event.  A PostgresAuditLog may raise instead,   *)
(* before or after the row is stored, and the thread unwinds.              *)
(***************************************************************************)
Record(t) ==
  audit' = [audit EXCEPT ![proc[t].command] =
                           Append(@, Head(proc[t].events))]

AuditAppend(t) ==
  /\ proc[t].events # <<>>
  /\ Record(t)
  /\ IF Len(proc[t].events) = 1 /\ proc[t].pc = "end"
       THEN Return(t)
       ELSE Goto(t, proc[t].pc, Tail(proc[t].events))
  /\ UNCHANGED <<aggregates, world>>

AuditBestEffort(t) ==   \* mutant: the exception is swallowed
  /\ AuditMayFail
  /\ proc[t].events # <<>>
  /\ Goto(t, proc[t].pc, Tail(proc[t].events))
  /\ UNCHANGED <<aggregates, audit, world>>

AuditRaises(t) ==
  /\ AuditMayFail
  /\ proc[t].events # <<>>
  /\ Record(t) \/ UNCHANGED audit
  /\ Return(t)
  /\ UNCHANGED <<aggregates, world>>

(***************************************************************************)
(* refresh_telemetry: read the twin, then put the reading in the store.    *)
(* A battery told to charge or discharge reports IDLE when its state of    *)
(* charge leaves it no power to move.                                      *)
(***************************************************************************)
Ingest(t) ==
  /\ At(t, "ingest")
  /\ \E m \in {twin.mode, "IDLE"} :
       proc' = [proc EXCEPT ![t] = [@ EXCEPT !.pc = "publish",
                                      !.reading = [twin EXCEPT !.mode = m]]]
  /\ UNCHANGED <<aggregates, audit, world>>

Publish(t) ==
  /\ At(t, "publish")
  /\ store' = proc[t].reading
  /\ proc' = [proc EXCEPT ![t] = [@ EXCEPT !.pc = proc[t].then,
                                      !.then = "idle", !.reading = NoReading]]
  /\ UNCHANGED <<aggregates, audit, sent, sentOver, twin>>

(***************************************************************************)
(* An access to the store raises (redis.ConnectionError), or the decision  *)
(* cycle finds no state and its assertion does.  No caller of these        *)
(* accesses catches it: SafetyValidator.validate reads the store before    *)
(* its try block.                                                          *)
(***************************************************************************)
StoreRaises(t) ==
  /\ StoreMayFail
  /\ \E l \in {"publish", "plan", "safety", "risk", "verify"} : At(t, l)
  /\ Return(t)
  /\ UNCHANGED <<aggregates, audit, world>>

(***************************************************************************)
(* A Redis restart empties the store.                                      *)
(***************************************************************************)
StoreLost ==
  /\ StoreMayFail
  /\ store # NoReading
  /\ store' = NoReading
  /\ UNCHANGED <<aggregates, audit, sent, sentOver, twin, proc>>
-----------------------------------------------------------------------------
(***************************************************************************)
(* ExecutionPipeline.run, on the decision-cycle thread.                    *)
(***************************************************************************)
StartCycle ==
  /\ At(Cycle, "idle")
  /\ proc' = [proc EXCEPT ![Cycle] = [@ EXCEPT !.pc = "ingest",
                                        !.then = "plan"]]
  /\ UNCHANGED <<aggregates, audit, world>>

(***************************************************************************)
(* The idempotency check lets a recommendation through once; the planner   *)
(* makes its command under a new id.  When an earlier attempt ended before *)
(* the save, what it audited belongs to an id nobody knows.                *)
(***************************************************************************)
Plan(c) ==
  /\ At(Cycle, "plan")
  /\ store # NoReading
  /\ c \notin saved
  /\ \E i \in Intents : intent' = [intent EXCEPT ![c] = i]
  /\ Change(c, NewCommand)
  /\ proc' = [proc EXCEPT ![Cycle] = [@ EXCEPT !.pc = "save", !.command = c,
                                        !.events = <<"CommandCreated">>]]
  /\ audit' = [audit EXCEPT ![c] = <<>>]
  /\ UNCHANGED <<saved, request, modified, world>>

RefuseDuplicate(c) ==
  /\ At(Cycle, "plan")
  /\ store # NoReading
  /\ c \in saved
  /\ Return(Cycle)
  /\ UNCHANGED <<aggregates, audit, world>>

Save ==
  /\ At(Cycle, "save")
  /\ saved' = saved \cup {proc[Cycle].command}
  /\ Goto(Cycle, "policy", <<>>)
  /\ UNCHANGED <<commands, intent, request, modified, audit, world>>

PolicyGate ==
  /\ At(Cycle, "policy")
  /\ Goto(Cycle, "applyPolicy",
          IF intent[proc[Cycle].command].permitted THEN <<>>
                                                   ELSE <<"PolicyViolated">>)
  /\ UNCHANGED <<aggregates, audit, world>>

ApplyPolicy ==
  LET c == proc[Cycle].command IN
  /\ At(Cycle, "applyPolicy")
  /\ IF intent[c].permitted
       THEN /\ Change(c, ApplyPolicyResult(commands[c], "passed"))
            /\ Goto(Cycle, "safety", <<"CommandValidated">>)
       ELSE /\ Change(c, ApplyPolicyResult(commands[c], "failed"))
            /\ Goto(Cycle, "end", <<"CommandRejected">>)
  /\ UNCHANGED <<intent, saved, request, modified, audit, world>>

(***************************************************************************)
(* What SafetyValidator and RiskAssessor may say of an intent on a         *)
(* reading.  Temperature, state of charge, inverter output and margins,    *)
(* which the reading leaves out, are the choice that remains.              *)
(***************************************************************************)
BatteryPowerActions == {"CHARGE_BATTERY", "DISCHARGE_BATTERY"}

LimitedActions == BatteryPowerActions \cup {"SHED_LOAD"}

SafetyVerdicts(i, reading) ==
  IF i.action \in LimitedActions /\ i.params = "over" THEN {"failed"}
  ELSE IF i.action \notin BatteryPowerActions THEN {"passed"}
  ELSE IF reading.fault # "none" THEN {"failed"} ELSE Verdicts

AssessedLevels(i, reading) ==
  IF reading.fault # "none" THEN {"CRITICAL"}
  ELSE IF i.action \in BatteryPowerActions THEN RiskLevels
  ELSE RiskLevels \ {"MEDIUM"}   \* MEDIUM is a state of charge near a limit

(***************************************************************************)
(* The safety gate.  No reading: FailSafeTriggered, which the pipeline     *)
(* turns into a failed assessment and a rejection.                         *)
(***************************************************************************)
SafetyGate ==
  LET c == proc[Cycle].command IN
  /\ At(Cycle, "safety")
  /\ \/ /\ store = NoReading
        /\ Change(c, ApplySafetyAssessment(commands[c], "failed"))
        /\ Goto(Cycle, "end", <<"CommandRejected">>)
     \/ /\ store # NoReading
        /\ \E v \in SafetyVerdicts(intent[c], store) :
             /\ Change(c, ApplySafetyAssessment(commands[c], v))
             /\ IF v = "passed"
                  THEN Goto(Cycle, "risk", <<>>)
                  ELSE Goto(Cycle, "end", <<"CommandBlockedBySafety">>)
  /\ UNCHANGED <<intent, saved, request, modified, audit, world>>

(***************************************************************************)
(* The risk gate reads the store again: the reading may be another one     *)
(* than the safety gate saw, or none.                                      *)
(***************************************************************************)
RiskGate ==
  LET c == proc[Cycle].command IN
  /\ At(Cycle, "risk")
  /\ \/ /\ store = NoReading
        /\ Change(c, RejectByRisk(ApplyRiskAssessment(commands[c], "CRITICAL")))
        /\ Goto(Cycle, "end", <<"CommandRejected">>)
     \/ /\ store # NoReading
        /\ \E level \in AssessedLevels(intent[c], store) :
             Change(c, ApplyRiskAssessment(commands[c], level))
        /\ Goto(Cycle, "route", <<"RiskAssessed">>)
  /\ UNCHANGED <<intent, saved, request, modified, audit, world>>

(***************************************************************************)
(* ApprovalEngine.route: HIGH risk or LOW confidence needs a person.       *)
(***************************************************************************)
RequiresApproval(c) ==
  commands[c].risk_assessment = "HIGH" \/ intent[c].lowConfidence

RejectCritical ==
  LET c == proc[Cycle].command IN
  /\ At(Cycle, "route")
  /\ commands[c].risk_assessment = "CRITICAL"
  /\ Change(c, RejectByRisk(commands[c]))
  /\ Goto(Cycle, "end", <<"CommandRejected">>)
  /\ UNCHANGED <<intent, saved, request, modified, audit, world>>

RouteToOperator ==
  LET c == proc[Cycle].command IN
  /\ At(Cycle, "route")
  /\ commands[c].risk_assessment # "CRITICAL"
  /\ RequiresApproval(c)
  /\ request' = [request EXCEPT ![c] = "pending"]
  /\ Goto(Cycle, "await", <<>>)
  /\ UNCHANGED <<commands, intent, saved, modified, audit, world>>

(***************************************************************************)
(* The request is in the repository, where an operator's thread finds it,  *)
(* before the command is AWAITING_APPROVAL.                                *)
(***************************************************************************)
Await ==
  LET c == proc[Cycle].command IN
  /\ At(Cycle, "await")
  /\ Change(c, AwaitApproval(commands[c]))
  /\ Goto(Cycle, "end", <<"ApprovalRequested">>)
  /\ UNCHANGED <<intent, saved, request, modified, audit, world>>

RouteToDispatchAnyRisk ==   \* mutant: CRITICAL is not told apart
  LET c == proc[Cycle].command IN
  /\ At(Cycle, "route")
  /\ ~RequiresApproval(c)
  /\ Change(c, AutoApprove(commands[c]))
  /\ Goto(Cycle, "dispatch", <<"CommandApproved">>)
  /\ UNCHANGED <<intent, saved, request, modified, audit, world>>

RouteToDispatch ==
  LET c == proc[Cycle].command IN
  /\ At(Cycle, "route")
  /\ commands[c].risk_assessment # "CRITICAL"
  /\ ~RequiresApproval(c)
  /\ Change(c, AutoApprove(commands[c]))
  /\ Goto(Cycle, "dispatch", <<"CommandApproved">>)
  /\ UNCHANGED <<intent, saved, request, modified, audit, world>>
-----------------------------------------------------------------------------
(***************************************************************************)
(* The approval endpoints.  _load_pending answers 404 or 409 unless the    *)
(* request is pending; nothing has changed then.                           *)
(***************************************************************************)
LoadPending(t, c) ==
  /\ At(t, "idle")
  /\ request[c] = "pending"
  /\ \E o \in {"APPROVED", "REJECTED", "MODIFIED"} :
     \E p \in IF o = "MODIFIED" THEN Params ELSE {None} :
       proc' = [proc EXCEPT ![t] = [@ EXCEPT !.pc = "resume", !.command = c,
                                      !.decision = o, !.params = p]]
  /\ UNCHANGED <<aggregates, audit, world>>

(***************************************************************************)
(* resume_after_approval looks the pending request up once more and raises *)
(* ValueError when another thread has decided it meanwhile.                *)
(***************************************************************************)
Resume(t) ==
  /\ At(t, "resume")
  /\ IF request[proc[t].command] = "pending"
       THEN Goto(t, "decide", <<>>)
       ELSE Return(t)
  /\ UNCHANGED <<aggregates, audit, world>>

(***************************************************************************)
(* ApprovalRequest.decide lets one decision in.                            *)
(***************************************************************************)
DecideAnyRequest(t) ==   \* mutant: the last decision wins
  /\ At(t, "decide")
  /\ request' = [request EXCEPT ![proc[t].command] = proc[t].decision]
  /\ Goto(t, "apply", <<>>)
  /\ UNCHANGED <<commands, intent, saved, modified, audit, world>>

DecideRequest(t) ==
  LET c == proc[t].command IN
  /\ At(t, "decide")
  /\ IF request[c] = "pending"
       THEN /\ request' = [request EXCEPT ![c] = proc[t].decision]
            /\ Goto(t, "apply", <<>>)
       ELSE Return(t) /\ UNCHANGED request
  /\ UNCHANGED <<commands, intent, saved, modified, audit, world>>

ApprovesUnlessExpired(t) == proc[t].decision # "EXPIRED"   \* mutant

Approves(t) == proc[t].decision \in {"APPROVED", "MODIFIED"}

(***************************************************************************)
(* Command.approve or reject_by_operator.  Refused, it raises with the     *)
(* decision already stored, and the request stays decided.                 *)
(***************************************************************************)
Decided(t) ==
  LET c == proc[t].command IN
  IF Approves(t) THEN Approve(commands[c], proc[t].decision)
                 ELSE RejectByOperator(commands[c], proc[t].decision)

ApplyDecisionUnchecked(t) ==   \* mutant: a refusal goes unnoticed
  LET c == proc[t].command IN
  /\ At(t, "apply")
  /\ Change(c, Decided(t))
  /\ modified' = [modified EXCEPT ![c] = proc[t].params]
  /\ IF Approves(t) THEN Goto(t, "dispatch", <<"CommandApproved">>)
                    ELSE Goto(t, "end", <<"CommandRejected">>)
  /\ UNCHANGED <<intent, saved, request, audit, world>>

ApplyDecision(t) ==
  LET c == proc[t].command IN
  /\ At(t, "apply")
  /\ Change(c, Decided(t))
  /\ modified' = [modified EXCEPT ![c] = proc[t].params]
  /\ IF commands[c].status # "AWAITING_APPROVAL" THEN Return(t)
     ELSE IF Approves(t) THEN Goto(t, "dispatch", <<"CommandApproved">>)
     ELSE Goto(t, "end", <<"CommandRejected">>)
  /\ UNCHANGED <<intent, saved, request, audit, world>>
-----------------------------------------------------------------------------
(***************************************************************************)
(* _dispatch_and_verify, on whichever thread got the approval.             *)
(***************************************************************************)
DispatchCommand(t) ==
  LET c == proc[t].command IN
  /\ At(t, "dispatch")
  /\ Change(c, Dispatch(commands[c]))
  /\ IF commands[c].status \in DispatchableStatuses
       THEN Goto(t, "send", <<>>)
       ELSE Return(t)
  /\ UNCHANGED <<intent, saved, request, modified, audit, world>>

(***************************************************************************)
(* The parameters sent are the command's, updated with modified_params.    *)
(***************************************************************************)
DispatchedParams(c) ==
  IF modified[c] = None THEN intent[c].params ELSE modified[c]

(***************************************************************************)
(* The battery mode the twin is commanded to, which is also the one        *)
(* VerificationService expects; the load actions leave it alone.           *)
(***************************************************************************)
CommandedMode ==
  [CHARGE_BATTERY |-> "CHARGING", DISCHARGE_BATTERY |-> "DISCHARGING",
   HOLD_BATTERY |-> "IDLE"]

BatteryActions == BatteryPowerActions \cup {"HOLD_BATTERY"}

(***************************************************************************)
(* One call of the hardware.  A call that times out or raises may have     *)
(* taken effect; a timeout is retried up to MaxRetries times.              *)
(***************************************************************************)
Done(c) ==
  IF intent[c].action \in BatteryActions
    THEN [twin EXCEPT !.mode = CommandedMode[intent[c].action]]
    ELSE twin

Effects(c, reply) ==
  {w \in {Done(c), twin} :
     /\ reply = "SUCCESS" => w = Done(c)
     /\ reply \in {"FAILED", "BLOCKED", "CANCELLED"} => w = twin}

RetriesOnceMore(t, reply) ==   \* mutant: off by one
  reply = "TIMED_OUT" /\ proc[t].attempt <= MaxRetries

Retries(t, reply) == reply = "TIMED_OUT" /\ proc[t].attempt < MaxRetries

SendOnce(t) ==
  LET c == proc[t].command IN
  /\ At(t, "send")
  /\ sent' = [sent EXCEPT ![c] = @ + 1]
  /\ sentOver' = IF DispatchedParams(c) = "over" THEN sentOver \cup {c}
                                                 ELSE sentOver
  /\ \E reply \in Replies :
       /\ twin' \in Effects(c, reply)
       /\ proc' = [proc EXCEPT ![t] =
                     IF Retries(t, reply)
                       THEN [@ EXCEPT !.attempt = proc[t].attempt + 1]
                       ELSE [@ EXCEPT !.pc = "settle", !.reply = reply]]
  /\ UNCHANGED <<aggregates, audit, store>>

(***************************************************************************)
(* ExecutionManager.dispatch turns the last reply into transitions, and    *)
(* _dispatch_and_verify into events: dispatch and acknowledgement of a     *)
(* command that ran are only audited here, after the fact.                 *)
(***************************************************************************)
Settle(t) ==
  LET c == proc[t].command
      reply == proc[t].reply
      acknowledged == Acknowledge(commands[c])
  IN
  /\ At(t, "settle")
  /\ \/ /\ reply \in {"RAISED", "BLOCKED"}
        /\ Change(c, MarkDispatchFailed(commands[c]))
        /\ Goto(t, "end", <<"CommandFailed">>)
     \/ /\ reply = "TIMED_OUT"
        /\ Change(c, TimeoutExecution(acknowledged, reply))
        /\ Goto(t, "end", <<"CommandTimedOut">>)
     \/ /\ reply \in {"FAILED", "CANCELLED"}
        /\ Change(c, MarkExecutionFailed(acknowledged, reply))
        /\ Goto(t, "end", <<"CommandFailed">>)
     \/ /\ reply = "SUCCESS"
        /\ Change(c, MarkExecuted(acknowledged, reply))
        /\ proc' = [proc EXCEPT ![t] =
             [@ EXCEPT !.pc = "ingest", !.then = "verify",
                       !.events = <<"CommandDispatched", "CommandAcknowledged",
                                    "CommandExecuted">>]]
  /\ UNCHANGED <<intent, saved, request, modified, audit, world>>

(***************************************************************************)
(* VerificationService.verify on the reading in the store: the battery     *)
(* mode for the battery actions, no fault codes for the others (those of   *)
(* the grid and the battery, which a reading leaves out, are a choice).    *)
(***************************************************************************)
VerificationVerdicts(action) ==
  IF store = NoReading THEN {"failed"}
  ELSE IF action \in BatteryActions
    THEN {IF store.mode = CommandedMode[action] THEN "passed" ELSE "failed"}
  ELSE IF store.fault = "none" THEN Verdicts ELSE {"failed"}

VerifyCommand(t) ==
  LET c == proc[t].command IN
  /\ At(t, "verify")
  /\ \E v \in VerificationVerdicts(intent[c].action) :
       /\ Change(c, Verify(commands[c], v))
       /\ IF v = "passed"
            THEN Goto(t, "complete", <<"ExecutionVerified">>)
            ELSE Goto(t, "end", <<"VerificationFailed">>)
  /\ UNCHANGED <<intent, saved, request, modified, audit, world>>

CompleteCommand(t) ==
  LET c == proc[t].command IN
  /\ At(t, "complete")
  /\ Change(c, Complete(commands[c]))
  /\ Goto(t, "end", <<"CommandCompleted">>)
  /\ UNCHANGED <<intent, saved, request, modified, audit, world>>
-----------------------------------------------------------------------------
(***************************************************************************)
(* The inverter trips or recovers, by its own model or by way of the fault *)
(* endpoint.                                                               *)
(***************************************************************************)
InverterChanges ==
  /\ \E f \in {"none", "inverter"} \ {twin.fault} :
       twin' = [twin EXCEPT !.fault = f]
  /\ UNCHANGED <<aggregates, audit, sent, sentOver, store, proc>>

GateStep ==
  \/ \E c \in Commands : Plan(c) \/ RefuseDuplicate(c)
  \/ Save \/ PolicyGate \/ ApplyPolicy \/ SafetyGate \/ RiskGate
  \/ RejectCritical \/ RouteToOperator \/ Await \/ RouteToDispatch

RunStep == StartCycle \/ GateStep

ApprovalStep(t) == Resume(t) \/ DecideRequest(t) \/ ApplyDecision(t)

DispatchStep(t) ==
  \/ DispatchCommand(t) \/ SendOnce(t) \/ Settle(t)
  \/ VerifyCommand(t) \/ CompleteCommand(t)

RefreshStep(t) == Ingest(t) \/ Publish(t)

Next ==
  \/ RunStep
  \/ \E t \in Operators :
       ApprovalStep(t) \/ \E c \in Commands : LoadPending(t, c)
  \/ \E t \in Threads :
       \/ DispatchStep(t) \/ RefreshStep(t)
       \/ AuditAppend(t) \/ AuditRaises(t) \/ StoreRaises(t)
  \/ StoreLost \/ InverterChanges

Spec == Init /\ [][Next]_vars

(***************************************************************************)
(* Threads are scheduled and their calls return, so a run, a decision and  *)
(* a dispatch that have begun go on.  That a cycle starts, that a person   *)
(* decides, that the audit log or the store fails is not promised.         *)
(***************************************************************************)
Fairness ==
  /\ WF_vars(GateStep)
  /\ \A t \in Threads :
       WF_vars(DispatchStep(t) \/ RefreshStep(t) \/ AuditAppend(t))
  /\ \A t \in Operators : WF_vars(ApprovalStep(t))

LiveSpec == Spec /\ Fairness
-----------------------------------------------------------------------------
(***************************************************************************)
(* No command reaches the hardware unless every gate let it through and    *)
(* the approval it needs was given: passed policy and safety, risk below   *)
(* CRITICAL, and for HIGH risk or LOW confidence a person's approval.      *)
(* However late or contested the decision, a request that was rejected is  *)
(* never sent (docs/08 section 7, invariants 1 and 2).                     *)
(***************************************************************************)
SendAuthorised ==
  \A c \in Commands :
    sent[c] > 0 =>
      /\ commands[c].policy_result = "passed"
      /\ commands[c].safety_assessment = "passed"
      /\ commands[c].risk_assessment \in {"LOW", "MEDIUM", "HIGH"}
      /\ IF RequiresApproval(c)
           THEN request[c] \in {"APPROVED", "MODIFIED"}
           ELSE request[c] = "absent"

(***************************************************************************)
(* Racing operators cannot split a decision: the one a command carries is  *)
(* the one its request recorded.                                           *)
(***************************************************************************)
DecisionAgreement ==
  \A c \in Commands :
    commands[c].approval_decision # None =>
      commands[c].approval_decision = request[c]

(***************************************************************************)
(* Audit before act: when a call goes to the hardware, the creation, the   *)
(* validation, the risk and the approval of the command are in the audit   *)
(* log already, even though appending to it may fail at any of them.       *)
(***************************************************************************)
Audited(c, event) == \E i \in 1..Len(audit[c]) : audit[c][i] = event

SentIsAudited ==
  \A c \in Commands :
    sent[c] > 0 =>
      \A e \in {"CommandCreated", "CommandValidated", "RiskAssessed",
                "CommandApproved"} : Audited(c, e)

(***************************************************************************)
(* What the log says happened did happen: a rejection and a block mean the *)
(* command never touches the hardware, an execution that the hardware      *)
(* reported success, a completion that telemetry confirmed it.             *)
(***************************************************************************)
AuditTellsTheTruth ==
  \A c \in Commands :
    /\ Audited(c, "CommandRejected") \/ Audited(c, "CommandBlockedBySafety")
         => sent[c] = 0 /\ commands[c].status \in FailureStatuses
    /\ Audited(c, "CommandExecuted")
         => commands[c].execution_result = "SUCCESS"
    /\ Audited(c, "CommandCompleted")
         => /\ commands[c].status = "COMPLETED"
            /\ commands[c].verification_result = "passed"
            /\ Audited(c, "CommandExecuted")

(***************************************************************************)
(* The pipeline implements CommandContract.                                *)
(***************************************************************************)
PhaseOf(c) ==
  IF c \notin saved THEN "absent"
  ELSE CASE commands[c].status \in DispatchableStatuses -> "authorised"
         [] commands[c].status \in {"DISPATCHED", "ACKNOWLEDGED", "EXECUTED",
                                    "VERIFIED"} -> "inflight"
         [] commands[c].status = "COMPLETED" -> "succeeded"
         [] commands[c].status \in FailureStatuses -> "closed"
         [] OTHER -> "proposed"

Contract == INSTANCE CommandContract
              WITH phase <- [c \in Commands |-> PhaseOf(c)],
                   MaxSends <- MaxRetries + 1

ImplementsContract == Contract!ContractSpec

(***************************************************************************)
(* While the audit log and the store work, no command is left half way:    *)
(* each ends, or pauses for a person's decision ("Terminates safely at any *)
(* gate failure", execution_pipeline.py).                                  *)
(***************************************************************************)
EveryCommandSettles ==
  \A c \in Commands :
    c \in saved ~>
      commands[c].status \in TerminalStatuses \cup {"AWAITING_APPROVAL"}

(***************************************************************************)
(* execution_pipeline.py, line 241, leaves a command paused because        *)
(* "resume_after_approval() continues this".  Then a paused command which  *)
(* no thread is working on has a pending request to be resumed by.         *)
(***************************************************************************)
PausedCanBeResumed ==
  \A c \in Commands :
    /\ commands[c].status = "AWAITING_APPROVAL"
    /\ \A t \in Threads : proc[t].command # c
    => request[c] = "pending"

(***************************************************************************)
(* safety_validator.py, lines 6-8: "anything that prevents evaluation -    *)
(* no current state, no limits, an internal error - raises                 *)
(* FailSafeTriggered", and a fail-safe rejects the command.  Then none     *)
(* stays at the safety gate when the thread that evaluated it is gone.     *)
(***************************************************************************)
FailSafeRejects ==
  \A c \in Commands :
    commands[c].status = "POLICY_VALIDATED" /\ Audited(c, "CommandValidated")
      => \E t \in Threads : proc[t].command = c

(***************************************************************************)
(* approvals.py, lines 6-9: a MODIFY decision is only recorded, because    *)
(* "Command has no method to retarget its own dispatched params".  Then    *)
(* parameters over the hard limits, which the safety gate blocks, never    *)
(* reach the hardware.                                                     *)
(***************************************************************************)
OverLimitsNeverSent == sentOver = {}
=============================================================================
