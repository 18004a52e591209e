----------------------- MODULE ExecutionPipelineProofs -----------------------
(***************************************************************************)
(* Proofs about ExecutionPipeline: for any number of commands, operators   *)
(* and retries, with an audit log and a store that may fail at any time,   *)
(* no command is sent without the approval it needs, and racing operators  *)
(* agree on the decision.                                                  *)
(*                                                                         *)
(* The argument: a thread past the save of a command, or past the request  *)
(* of its approval, works on it alone (Exclusive); so the status it left   *)
(* is the one its next step meets (InStep), every status stands for the    *)
(* gates behind it (Gated), and a request is only decided before the       *)
(* command can be sent (Asked).                                            *)
(***************************************************************************)
EXTENDS ExecutionPipeline, CommandTheorems, TLAPS

(***************************************************************************)
(* Which thread may be where.                                              *)
(***************************************************************************)
CycleOnly ==
  {"plan", "save", "policy", "applyPolicy", "safety", "risk", "route", "await"}

OperatorOnly == {"resume", "decide", "apply"}

InPlace(t) ==
  /\ proc[t].pc \in CycleOnly \/ proc[t].then = "plan" => t = Cycle
  /\ proc[t].pc \in OperatorOnly => t \in Operators

Placed == \A t \in Threads : InPlace(t)

(***************************************************************************)
(* The steps at which a thread has a command to itself.                    *)
(***************************************************************************)
WorkLabels ==
  {"save", "policy", "applyPolicy", "safety", "risk", "route", "apply",
   "dispatch", "send", "settle", "verify", "complete"}

Refreshing(t) ==
  proc[t].pc \in {"ingest", "publish"} /\ proc[t].then = "verify"

Working(t) == proc[t].pc \in WorkLabels \/ Refreshing(t)

HasCommand(t) == Working(t) \/ proc[t].pc \in {"await", "resume", "decide"}

(***************************************************************************)
(* What a thread knows of its command at each step.                        *)
(***************************************************************************)
Status(t)  == commands[proc[t].command].status
Request(t) == request[proc[t].command]

InStep(t) ==
  /\ HasCommand(t) => proc[t].command \in Commands
  /\ HasCommand(t) /\ proc[t].pc # "save" => proc[t].command \in saved
  /\ proc[t].pc = "save" => proc[t].command \notin saved
  /\ proc[t].pc \in {"save", "policy", "applyPolicy"} => Status(t) = "PLANNED"
  /\ proc[t].pc = "safety" => Status(t) = "POLICY_VALIDATED"
  /\ proc[t].pc = "risk" => Status(t) = "SAFETY_VALIDATED"
  /\ proc[t].pc = "route" => Request(t) = "absent"
  /\ proc[t].pc \in {"route", "await"} => Status(t) = "RISK_ASSESSED"
  /\ proc[t].pc \in {"resume", "decide"} =>
       /\ Request(t) # "absent"
       /\ proc[t].decision \in {"APPROVED", "REJECTED", "MODIFIED"}
  /\ proc[t].pc = "apply" =>
       /\ Request(t) = proc[t].decision
       /\ proc[t].decision \in {"APPROVED", "REJECTED", "MODIFIED"}
       /\ commands[proc[t].command].approval_decision = None
       /\ Status(t) \in {"RISK_ASSESSED", "AWAITING_APPROVAL"}
  /\ proc[t].pc = "dispatch" => Status(t) \in DispatchableStatuses
  /\ proc[t].pc \in {"send", "settle"} => Status(t) = "DISPATCHED"
  /\ Refreshing(t) \/ proc[t].pc = "verify" => Status(t) = "EXECUTED"
  /\ proc[t].pc = "complete" => Status(t) = "VERIFIED"

Exclusive ==
  \A t, u \in Threads :
    Working(t) /\ Working(u) /\ proc[t].command = proc[u].command => t = u

Undisturbed == \A t \in Threads : Working(t) => Request(t) # "pending"

(***************************************************************************)
(* What a status says of a command.                                        *)
(***************************************************************************)
PostDispatch ==
  {"DISPATCHED", "ACKNOWLEDGED", "EXECUTED", "VERIFIED", "COMPLETED",
   "DISPATCH_FAILED", "EXECUTION_FAILED", "TIMED_OUT", "VERIFICATION_FAILED"}

Sendable == DispatchableStatuses \cup PostDispatch

Gated(c) ==
  /\ c \notin saved => commands[c].status = "PLANNED"
  /\ commands[c].status \notin {"PLANNED", "REJECTED_BY_POLICY"} =>
       commands[c].policy_result = "passed"
  /\ commands[c].status \notin {"PLANNED", "REJECTED_BY_POLICY",
                                "POLICY_VALIDATED", "BLOCKED_BY_SAFETY"} =>
       commands[c].safety_assessment = "passed"
  /\ commands[c].status = "RISK_ASSESSED" =>
       commands[c].risk_assessment # None
  /\ commands[c].status \in Sendable \/ request[c] # "absent" =>
       commands[c].risk_assessment \in {"LOW", "MEDIUM", "HIGH"}

Asked(c) ==
  /\ request[c] # "absent" =>
       /\ RequiresApproval(c)
       /\ commands[c].status \in
            {"RISK_ASSESSED", "AWAITING_APPROVAL", "REJECTED_BY_OPERATOR"}
              \cup Sendable
  /\ request[c] = "pending" =>
       commands[c].status \in {"RISK_ASSESSED", "AWAITING_APPROVAL"}
  /\ commands[c].status \in Sendable =>
       IF RequiresApproval(c) THEN request[c] \in {"APPROVED", "MODIFIED"}
                              ELSE request[c] = "absent"
  /\ commands[c].approval_decision # None =>
       commands[c].approval_decision = request[c]
  /\ sent[c] > 0 => commands[c].status \in PostDispatch

CommandsInOrder == \A c \in Commands : Gated(c) /\ Asked(c)
ThreadsInStep   == \A t \in Threads : InStep(t)

IInv ==
  /\ TypeOK /\ Placed /\ Exclusive /\ Undisturbed
  /\ ThreadsInStep /\ CommandsInOrder
-----------------------------------------------------------------------------
(***************************************************************************)
(* Setting one field of a thread keeps its type and the other fields.      *)
(***************************************************************************)
LEMMA PcSet ==
  ASSUME NEW k \in ThreadState, NEW x \in Labels
  PROVE  \A r \in {[k EXCEPT !.pc = x]} :
           /\ r \in ThreadState
           /\ r.pc = x /\ r.then = k.then
           /\ r.command = k.command /\ r.decision = k.decision
BY DEF ThreadState

(***************************************************************************)
(* The same for the place where a refresh returns.                         *)
(***************************************************************************)
LEMMA ThenSet ==
  ASSUME NEW k \in ThreadState, NEW x \in {"idle", "plan", "verify"}
  PROVE  \A r \in {[k EXCEPT !.then = x]} :
           /\ r \in ThreadState
           /\ r.pc = k.pc /\ r.then = x
           /\ r.command = k.command /\ r.decision = k.decision
BY DEF ThreadState

(***************************************************************************)
(* The same for the command a thread works on.                             *)
(***************************************************************************)
LEMMA CommandSet ==
  ASSUME NEW k \in ThreadState, NEW x \in Commands \cup {NoCommand}
  PROVE  \A r \in {[k EXCEPT !.command = x]} :
           /\ r \in ThreadState
           /\ r.pc = k.pc /\ r.then = k.then
           /\ r.command = x /\ r.decision = k.decision
BY DEF ThreadState

(***************************************************************************)
(* The same for the events a thread has still to audit.                    *)
(***************************************************************************)
LEMMA EventsSet ==
  ASSUME NEW k \in ThreadState, NEW x \in Seq(EventTypes)
  PROVE  \A r \in {[k EXCEPT !.events = x]} :
           /\ r \in ThreadState
           /\ r.pc = k.pc /\ r.then = k.then
           /\ r.command = k.command /\ r.decision = k.decision
BY DEF ThreadState

(***************************************************************************)
(* The same for the decision an operator brings.                           *)
(***************************************************************************)
LEMMA DecisionSet ==
  ASSUME NEW k \in ThreadState, NEW x \in ApprovalOutcomes \cup {None}
  PROVE  \A r \in {[k EXCEPT !.decision = x]} :
           /\ r \in ThreadState
           /\ r.pc = k.pc /\ r.then = k.then
           /\ r.command = k.command /\ r.decision = x
BY DEF ThreadState

(***************************************************************************)
(* The same for the parameters of a MODIFY body.                           *)
(***************************************************************************)
LEMMA ParamsSet ==
  ASSUME NEW k \in ThreadState, NEW x \in Params \cup {None}
  PROVE  \A r \in {[k EXCEPT !.params = x]} :
           /\ r \in ThreadState
           /\ r.pc = k.pc /\ r.then = k.then
           /\ r.command = k.command /\ r.decision = k.decision
BY DEF ThreadState

(***************************************************************************)
(* The same for the count of retries.                                      *)
(***************************************************************************)
LEMMA AttemptSet ==
  ASSUME NEW k \in ThreadState, NEW x \in 0..MaxRetries
  PROVE  \A r \in {[k EXCEPT !.attempt = x]} :
           /\ r \in ThreadState
           /\ r.pc = k.pc /\ r.then = k.then
           /\ r.command = k.command /\ r.decision = k.decision
BY DEF ThreadState

(***************************************************************************)
(* The same for the reply of the hardware.                                 *)
(***************************************************************************)
LEMMA ReplySet ==
  ASSUME NEW k \in ThreadState, NEW x \in Replies \cup {None}
  PROVE  \A r \in {[k EXCEPT !.reply = x]} :
           /\ r \in ThreadState
           /\ r.pc = k.pc /\ r.then = k.then
           /\ r.command = k.command /\ r.decision = k.decision
BY DEF ThreadState

(***************************************************************************)
(* The same for the reading a refresh carries from the twin to the store.  *)
(***************************************************************************)
LEMMA ReadingSet ==
  ASSUME NEW k \in ThreadState, NEW x \in Readings \cup {NoReading}
  PROVE  \A r \in {[k EXCEPT !.reading = x]} :
           /\ r \in ThreadState
           /\ r.pc = k.pc /\ r.then = k.then
           /\ r.command = k.command /\ r.decision = k.decision
BY DEF ThreadState

(***************************************************************************)
(* The step of thread t leaves the other threads where they are.           *)
(***************************************************************************)
Steps(t, label, then, command, decision) ==
  /\ proc' \in [Threads -> ThreadState]
  /\ \A u \in Threads \ {t} : proc'[u] = proc[u]
  /\ proc'[t].pc = label /\ proc'[t].then = then
  /\ proc'[t].command = command /\ proc'[t].decision = decision

(***************************************************************************)
(* Goto moves the thread to the label and keeps its command and decision.  *)
(***************************************************************************)
LEMMA GotoSteps ==
  ASSUME TypeOK, NEW t \in Threads, NEW label \in Labels,
         NEW events \in Seq(EventTypes), Goto(t, label, events)
  PROVE  Steps(t, label, proc[t].then, proc[t].command, proc[t].decision)
<1>1. proc[t] \in ThreadState
  BY DEF TypeOK
<1>2. PICK r \in {[proc[t] EXCEPT !.pc = label]} :
        /\ r \in ThreadState
        /\ r.pc = label /\ r.then = proc[t].then
        /\ r.command = proc[t].command /\ r.decision = proc[t].decision
  BY <1>1, PcSet
<1>3. PICK q \in {[r EXCEPT !.events = events]} :
        /\ q \in ThreadState
        /\ q.pc = r.pc /\ q.then = r.then
        /\ q.command = r.command /\ q.decision = r.decision
  BY <1>2, EventsSet
<1>4. proc' = [proc EXCEPT ![t] = q]
  BY <1>2, <1>3, Zenon DEF Goto
<1>5. QED
  BY <1>2, <1>3, <1>4 DEF TypeOK, Steps

(***************************************************************************)
(* The state of a thread between two calls is a thread state.              *)
(***************************************************************************)
LEMMA IdleTyped == Idle \in ThreadState
<1>1. <<>> \in Seq(EventTypes)
  OBVIOUS
<1>2. 0 \in 0..MaxRetries
  BY ConstantsAssumption
<1>3. QED
  BY <1>1, <1>2 DEF Idle, ThreadState, Labels

(***************************************************************************)
(* A thread that returns, or unwinds an exception, is idle.                *)
(***************************************************************************)
LEMMA ReturnSteps ==
  ASSUME TypeOK, NEW t \in Threads, Return(t)
  PROVE  Steps(t, "idle", "idle", NoCommand, None)
<1>1. proc' = [proc EXCEPT ![t] = Idle]
  BY DEF Return
<1>2. /\ Idle.pc = "idle" /\ Idle.then = "idle"
      /\ Idle.command = NoCommand /\ Idle.decision = None
  BY DEF Idle
<1>3. QED
  BY <1>1, <1>2, IdleTyped DEF TypeOK, Steps

(***************************************************************************)
(* A change to a command leaves the others alone.                          *)
(***************************************************************************)
Changes(c, after) ==
  /\ commands' \in [Commands -> CommandRecord]
  /\ \A d \in Commands \ {c} : commands'[d] = commands[d]
  /\ commands'[c] = after

(***************************************************************************)
(* Storing a record for one command of the repository is such a change.    *)
(***************************************************************************)
LEMMA ChangeChanges ==
  ASSUME TypeOK, NEW c \in Commands, NEW after \in CommandRecord,
         Change(c, after)
  PROVE  Changes(c, after)
BY DEF TypeOK, Change, Changes
-----------------------------------------------------------------------------
(***************************************************************************)
(* The step of a thread t which concerns command c alone.  What is left to *)
(* show of an action is what it does to t and c, and that the other        *)
(* threads which know c are not disturbed.                                 *)
(***************************************************************************)
Concerns(c) ==
  \A d \in Commands \ {c} :
    /\ commands'[d] = commands[d]
    /\ request'[d] = request[d]
    /\ intent'[d] = intent[d]
    /\ sent'[d] = sent[d]
    /\ d \in saved' <=> d \in saved

(***************************************************************************)
(* What the statuses of the other commands stand for is not disturbed.     *)
(***************************************************************************)
LEMMA FrameCommands ==
  ASSUME IInv, NEW c, Concerns(c), c \in Commands => Gated(c)' /\ Asked(c)'
  PROVE  CommandsInOrder'
<1> SUFFICES ASSUME NEW d \in Commands
             PROVE  Gated(d)' /\ Asked(d)'
  BY DEF CommandsInOrder
<1>1. CASE d = c
  BY <1>1
<1>2. CASE d # c
  <2>1. Gated(d) /\ Asked(d)
    BY DEF IInv, CommandsInOrder
  <2>2. QED
    BY <1>2, <2>1 DEF Concerns, Gated, Asked, RequiresApproval
<1>3. QED
  BY <1>1, <1>2

(***************************************************************************)
(* The other threads stay in step: those that have command c are not past  *)
(* the request of its approval, and c keeps what they know of it.          *)
(***************************************************************************)
LEMMA FrameThreads ==
  ASSUME IInv, NEW t \in Threads, NEW c, Concerns(c),
         \A u \in Threads \ {t} : proc'[u] = proc[u],
         InStep(t)',
         \A u \in Threads \ {t} :
           HasCommand(u) /\ proc[u].command = c => InStep(u)'
  PROVE  ThreadsInStep'
<1> SUFFICES ASSUME NEW u \in Threads \ {t}, ~(HasCommand(u) /\ proc[u].command = c)
             PROVE  InStep(u)'
  BY DEF ThreadsInStep
<1>1. InStep(u) /\ proc'[u] = proc[u]
  BY DEF IInv, ThreadsInStep
<1>2. CASE HasCommand(u)
  <2>1. proc[u].command \in Commands \ {c}
    BY <1>1, <1>2 DEF InStep
  <2>2. QED
    BY <1>1, <1>2, <2>1 DEF InStep, HasCommand, Working, Refreshing, WorkLabels,
       Status, Request, Concerns
<1>3. CASE ~HasCommand(u)
  BY <1>1, <1>3 DEF InStep, HasCommand, Working, Refreshing, WorkLabels
<1>4. QED
  BY <1>2, <1>3

(***************************************************************************)
(* A step of thread t on command c keeps the invariant if it keeps the     *)
(* types, puts t where it may be, in step and alone, and leaves c in       *)
(* order.                                                                  *)
(***************************************************************************)
LEMMA Frame ==
  ASSUME IInv, TypeOK', NEW t \in Threads, NEW c, Concerns(c),
         \A u \in Threads \ {t} : proc'[u] = proc[u],
         c \in Commands => Gated(c)' /\ Asked(c)',
         InStep(t)',
         InPlace(t)',
         \A u \in Threads \ {t} :
           HasCommand(u) /\ proc[u].command = c => InStep(u)',
         Working(t)' =>
           /\ Request(t)' # "pending"
           /\ \A u \in Threads \ {t} :
                Working(u) => proc[u].command # proc'[t].command,
         c \in Commands /\ request'[c] = "pending" =>
           \A u \in Threads \ {t} : Working(u) => proc[u].command # c
  PROVE  IInv'
<1>1. CommandsInOrder'
  BY FrameCommands
<1>2. ThreadsInStep'
  BY FrameThreads
<1>3. Placed'
  BY DEF IInv, Placed, InPlace
<1>4. \A u \in Threads \ {t} : Working(u)' <=> Working(u)
  BY DEF Working, Refreshing
<1>5. Exclusive'
  BY <1>4 DEF IInv, Exclusive
<1>6. Undisturbed'
  <2> SUFFICES ASSUME NEW u \in Threads \ {t}, Working(u)
               PROVE  Request(u)' # "pending"
    BY <1>4 DEF Undisturbed
  <2>1. proc[u].command \in Commands /\ Request(u) # "pending"
    BY DEF IInv, ThreadsInStep, InStep, HasCommand, Undisturbed
  <2>2. CASE proc[u].command = c
    BY <2>1, <2>2 DEF Request
  <2>3. CASE proc[u].command # c
    BY <2>1, <2>3 DEF Request, Concerns
  <2>4. QED
    BY <2>2, <2>3
<1>7. QED
  BY <1>1, <1>2, <1>3, <1>5, <1>6 DEF IInv

(***************************************************************************)
(* The other threads that know the command of a working thread wait for it *)
(* or are at the start of a decision, and only the cycle waits.            *)
(***************************************************************************)
LEMMA OthersWait ==
  ASSUME IInv, NEW t \in Threads, Working(t), NEW u \in Threads \ {t},
         HasCommand(u), proc[u].command = proc[t].command
  PROVE  /\ proc[u].pc \in {"await", "resume", "decide"}
         /\ proc[u].pc = "await" => u = Cycle
BY DEF IInv, Exclusive, HasCommand, Placed, InPlace, CycleOnly

(***************************************************************************)
(* A thread without a command.                                             *)
(***************************************************************************)
Free(t) ==
  \/ proc[t].pc \in {"idle", "plan", "end"}
  \/ proc[t].pc \in {"ingest", "publish"} /\ proc[t].then # "verify"

(***************************************************************************)
(* A step that changes no command and no request.                          *)
(***************************************************************************)
LEMMA QuietStep ==
  ASSUME IInv, TypeOK', NEW t \in Threads,
         UNCHANGED <<commands, intent, saved, request, sent>>,
         \A u \in Threads \ {t} : proc'[u] = proc[u],
         InStep(t)',
         InPlace(t)',
         Working(t)' => Working(t) /\ proc'[t].command = proc[t].command
  PROVE  IInv'
<1>1. NoCommand \notin Commands
  BY ConstantsAssumption
<1>2. Concerns(NoCommand)
  BY DEF Concerns
<1>3. \A u \in Threads \ {t} :
        HasCommand(u) /\ proc[u].command = NoCommand => InStep(u)'
  BY <1>1 DEF IInv, ThreadsInStep, InStep
<1>4. ASSUME Working(t)'
      PROVE  /\ Request(t)' # "pending"
             /\ \A u \in Threads \ {t} :
                  Working(u) => proc[u].command # proc'[t].command
  BY <1>4 DEF IInv, Undisturbed, Exclusive, Request
<1>5. QED
  BY <1>1, <1>2, <1>3, <1>4, Frame

(***************************************************************************)
(* A step after which the thread has no command, and that changes no       *)
(* command and no request, keeps the invariant.                            *)
(***************************************************************************)
LEMMA FreeStep ==
  ASSUME IInv, TypeOK', NEW t \in Threads,
         UNCHANGED <<commands, intent, saved, request, sent>>,
         \A u \in Threads \ {t} : proc'[u] = proc[u],
         Free(t)', InPlace(t)'
  PROVE  IInv'
<1>1. InStep(t)' /\ ~HasCommand(t)'
  BY DEF Free, InStep, HasCommand, Working, Refreshing, WorkLabels
<1>2. QED
  BY <1>1, QuietStep DEF HasCommand

(***************************************************************************)
(* A step of a thread that has a command to itself.                        *)
(***************************************************************************)
LEMMA WorkStep ==
  ASSUME IInv, TypeOK', NEW t \in Threads, Working(t),
         NEW c \in Commands, c = proc[t].command,
         Concerns(c), UNCHANGED request, saved \subseteq saved',
         \A u \in Threads \ {t} : proc'[u] = proc[u],
         Gated(c)', Asked(c)', InStep(t)',
         InPlace(t)',
         HasCommand(t)' => proc'[t].command = c,
         t # Cycle /\ commands[c].status = "RISK_ASSESSED" =>
           commands'[c].status = "RISK_ASSESSED"
  PROVE  IInv'
<1>1. request[c] # "pending"
  BY DEF IInv, Undisturbed, Request
<1>2. ASSUME NEW u \in Threads \ {t}, HasCommand(u), proc[u].command = c
      PROVE  InStep(u)'
  <2>1. /\ proc[u].pc \in {"await", "resume", "decide"}
        /\ proc[u].pc = "await" => u = Cycle
    BY <1>2, OthersWait
  <2>2. InStep(u) /\ proc'[u] = proc[u]
    BY DEF IInv, ThreadsInStep
  <2>3. QED
    BY <1>2, <2>1, <2>2 DEF InStep, HasCommand, Working, Refreshing, WorkLabels,
       Status, Request
<1>3. ASSUME Working(t)'
      PROVE  /\ Request(t)' # "pending"
             /\ \A u \in Threads \ {t} :
                  Working(u) => proc[u].command # proc'[t].command
  BY <1>1, <1>3 DEF IInv, Exclusive, Request, HasCommand
<1>4. \A u \in Threads \ {t} : Working(u) => proc[u].command # c
  BY DEF IInv, Exclusive
<1>5. QED
  BY <1>2, <1>3, <1>4, Frame
-----------------------------------------------------------------------------
(***************************************************************************)
(* The steps of auditing, refreshing and failing threads.                  *)
(*                                                                         *)
(* The audit log stays a log of events.                                    *)
(***************************************************************************)
LEMMA RecordTyped ==
  ASSUME TypeOK, NEW t \in Threads, proc[t].events # <<>>, Record(t)
  PROVE  audit' \in [Commands -> Seq(EventTypes)]
<1>1. proc[t].events \in Seq(EventTypes)
  BY DEF TypeOK, ThreadState
<1>2. Head(proc[t].events) \in EventTypes
  BY <1>1
<1> DEFINE c == proc[t].command
           longer == Append(audit[c], Head(proc[t].events))
<1>3. c \in Commands => longer \in Seq(EventTypes)
  <2>1. c \in Commands => audit[c] \in Seq(EventTypes)
    BY DEF TypeOK
  <2>2. QED
    BY <1>2, <2>1
<1>4. audit' = [audit EXCEPT ![c] = longer]
  BY Zenon DEF Record
<1> HIDE DEF c, longer
<1>5. QED
  BY <1>3, <1>4 DEF TypeOK

(***************************************************************************)
(* Appending the next event to the audit log keeps the invariant.          *)
(***************************************************************************)
LEMMA AuditAppendStep ==
  ASSUME IInv, NEW t \in Threads, AuditAppend(t)
  PROVE  IInv'
<1>1. TypeOK /\ proc[t] \in ThreadState
  BY DEF IInv, TypeOK
<1>2. audit' \in [Commands -> Seq(EventTypes)]
  BY <1>1, RecordTyped DEF AuditAppend
<1>3. CASE Return(t)
  <2>1. Steps(t, "idle", "idle", NoCommand, None)
    BY <1>1, <1>3, ReturnSteps
  <2>2. TypeOK'
    BY <1>1, <1>2, <2>1 DEF AuditAppend, TypeOK, aggregates, world, Steps
  <2>3. Free(t)' /\ InPlace(t)'
    BY <2>1 DEF Steps, Free, InPlace, CycleOnly, OperatorOnly
  <2>4. QED
    BY <2>1, <2>2, <2>3, FreeStep DEF AuditAppend, Steps, aggregates, world
<1>4. CASE Goto(t, proc[t].pc, Tail(proc[t].events))
  <2>1. proc[t].pc \in Labels /\ Tail(proc[t].events) \in Seq(EventTypes)
    BY <1>1 DEF ThreadState, AuditAppend
  <2>2. Steps(t, proc[t].pc, proc[t].then, proc[t].command, proc[t].decision)
    BY <1>1, <1>4, <2>1, GotoSteps
  <2>3. TypeOK'
    BY <1>1, <1>2, <2>2 DEF AuditAppend, TypeOK, aggregates, world, Steps
  <2>4. InStep(t)' /\ (Working(t)' <=> Working(t))
    <3>1. InStep(t)
      BY DEF IInv, ThreadsInStep
    <3>2. QED
      BY <3>1, <2>2 DEF Steps, InStep, HasCommand, Working, Refreshing,
         Status, Request, AuditAppend, aggregates
  <2>5. InPlace(t)'
    BY <2>2 DEF IInv, Placed, InPlace, Steps
  <2>6. QED
    BY <2>2, <2>3, <2>4, <2>5, QuietStep DEF AuditAppend, Steps, aggregates,
       world
<1>5. QED
  BY <1>3, <1>4 DEF AuditAppend

(***************************************************************************)
(* An audit log that raises (PostgresAuditLog.append) keeps the invariant: *)
(* the thread unwinds and the command stays where it is.                   *)
(***************************************************************************)
LEMMA AuditRaisesStep ==
  ASSUME IInv, NEW t \in Threads, AuditRaises(t)
  PROVE  IInv'
<1>1. TypeOK
  BY DEF IInv
<1>2. audit' \in [Commands -> Seq(EventTypes)]
  BY <1>1, RecordTyped DEF AuditRaises, TypeOK
<1>3. Steps(t, "idle", "idle", NoCommand, None)
  BY <1>1, ReturnSteps DEF AuditRaises
<1>4. TypeOK'
  BY <1>1, <1>2, <1>3 DEF AuditRaises, TypeOK, aggregates, world, Steps
<1>5. Free(t)' /\ InPlace(t)'
  BY <1>3 DEF Free, Steps, InPlace, CycleOnly, OperatorOnly
<1>6. QED
  BY <1>3, <1>4, <1>5, FreeStep DEF AuditRaises, aggregates, world, Steps

(***************************************************************************)
(* Reading the twin (refresh_telemetry) keeps the invariant.               *)
(***************************************************************************)
LEMMA IngestStep ==
  ASSUME IInv, NEW t \in Threads, Ingest(t)
  PROVE  IInv'
<1>1. TypeOK /\ proc[t] \in ThreadState /\ proc[t].pc = "ingest"
  BY DEF IInv, TypeOK, Ingest, At
<1>2. PICK m \in {twin.mode, "IDLE"} :
        proc' = [proc EXCEPT ![t] = [@ EXCEPT !.pc = "publish",
                                       !.reading = [twin EXCEPT !.mode = m]]]
  BY DEF Ingest
<1> DEFINE reading == [twin EXCEPT !.mode = m]
<1>3. reading \in Readings
  BY <1>1, <1>2 DEF TypeOK, Readings, BatteryModes
<1> HIDE DEF reading
<1>4. PICK r \in {[proc[t] EXCEPT !.pc = "publish"]} :
        /\ r \in ThreadState
        /\ r.pc = "publish" /\ r.then = proc[t].then
        /\ r.command = proc[t].command /\ r.decision = proc[t].decision
  <2>1. "publish" \in Labels
    BY DEF Labels
  <2>. QED
    BY <1>1, <2>1, PcSet
<1>5. PICK q \in {[r EXCEPT !.reading = reading]} :
        /\ q \in ThreadState
        /\ q.pc = r.pc /\ q.then = r.then
        /\ q.command = r.command /\ q.decision = r.decision
  BY <1>3, <1>4, ReadingSet
<1>6. proc' = [proc EXCEPT ![t] = q]
  BY <1>2, <1>4, <1>5, Zenon DEF reading
<1>7. Steps(t, "publish", proc[t].then, proc[t].command, proc[t].decision)
  BY <1>1, <1>4, <1>5, <1>6 DEF TypeOK, Steps
<1>8. TypeOK'
  BY <1>1, <1>7 DEF Ingest, TypeOK, aggregates, world, Steps
<1>9. InStep(t)' /\ (Working(t)' <=> Working(t))
  <2>1. InStep(t)
    BY DEF IInv, ThreadsInStep
  <2>2. QED
    BY <1>1, <1>7, <2>1 DEF Steps, InStep, HasCommand, Working, Refreshing,
       WorkLabels, Status, Request, Ingest, aggregates
<1>10. InPlace(t)'
  BY <1>7 DEF IInv, Placed, InPlace, Steps, CycleOnly, OperatorOnly
<1>11. QED
  BY <1>7, <1>8, <1>9, <1>10, QuietStep DEF Ingest, Steps, aggregates, world

(***************************************************************************)
(* Putting the reading in the store keeps the invariant; a refresh made    *)
(* for a verification goes on to it.                                       *)
(***************************************************************************)
LEMMA PublishStep ==
  ASSUME IInv, NEW t \in Threads, Publish(t)
  PROVE  IInv'
<1>1. TypeOK /\ proc[t] \in ThreadState /\ proc[t].pc = "publish"
  BY DEF IInv, TypeOK, Publish, At
<1>2. proc[t].then \in {"idle", "plan", "verify"} /\ proc[t].then \in Labels
  BY <1>1 DEF ThreadState, Labels
<1>3. PICK r \in {[proc[t] EXCEPT !.pc = proc[t].then]} :
        /\ r \in ThreadState
        /\ r.pc = proc[t].then /\ r.then = proc[t].then
        /\ r.command = proc[t].command /\ r.decision = proc[t].decision
  BY <1>1, <1>2, PcSet, Zenon
<1>4. PICK p \in {[r EXCEPT !.then = "idle"]} :
        /\ p \in ThreadState
        /\ p.pc = r.pc /\ p.then = "idle"
        /\ p.command = r.command /\ p.decision = r.decision
  BY <1>3, ThenSet
<1>5. PICK q \in {[p EXCEPT !.reading = NoReading]} :
        /\ q \in ThreadState
        /\ q.pc = p.pc /\ q.then = p.then
        /\ q.command = p.command /\ q.decision = p.decision
  BY <1>4, ReadingSet
<1>6. proc' = [proc EXCEPT ![t] = q]
  BY <1>3, <1>4, <1>5, Zenon DEF Publish
<1>7. Steps(t, proc[t].then, "idle", proc[t].command, proc[t].decision)
  BY <1>1, <1>3, <1>4, <1>5, <1>6 DEF TypeOK, Steps
<1>8. TypeOK'
  BY <1>1, <1>7 DEF Publish, TypeOK, aggregates, Steps, ThreadState
<1>9. InPlace(t)'
  BY <1>2, <1>7 DEF IInv, Placed, InPlace, Steps, CycleOnly, OperatorOnly
<1>10. CASE proc[t].then = "verify"
  <2>1. InStep(t)
    BY DEF IInv, ThreadsInStep
  <2>2. InStep(t)' /\ Working(t)
    BY <1>1, <1>7, <1>10, <2>1 DEF Steps, InStep, HasCommand, Working,
       Refreshing, WorkLabels, Status, Request, Publish, aggregates
  <2>3. QED
    BY <1>7, <1>8, <1>9, <2>2, QuietStep DEF Publish, Steps, aggregates
<1>11. CASE proc[t].then # "verify"
  <2>1. Free(t)'
    BY <1>2, <1>7, <1>11 DEF Free, Steps
  <2>2. QED
    BY <1>7, <1>8, <1>9, <2>1, FreeStep DEF Publish, Steps, aggregates
<1>12. QED
  BY <1>10, <1>11

(***************************************************************************)
(* A state store that raises keeps the invariant.                          *)
(***************************************************************************)
LEMMA StoreRaisesStep ==
  ASSUME IInv, NEW t \in Threads, StoreRaises(t)
  PROVE  IInv'
<1>1. TypeOK
  BY DEF IInv
<1>2. Steps(t, "idle", "idle", NoCommand, None)
  BY <1>1, ReturnSteps DEF StoreRaises
<1>3. TypeOK'
  BY <1>1, <1>2 DEF StoreRaises, TypeOK, aggregates, world, Steps
<1>4. Free(t)' /\ InPlace(t)'
  BY <1>2 DEF Free, Steps, InPlace, CycleOnly, OperatorOnly
<1>5. QED
  BY <1>2, <1>3, <1>4, FreeStep DEF StoreRaises, aggregates, world, Steps

(***************************************************************************)
(* What happens outside the threads concerns no command.                   *)
(***************************************************************************)
LEMMA OutsideStep ==
  ASSUME IInv, StoreLost \/ InverterChanges
  PROVE  IInv'
<1>1. UNCHANGED <<commands, intent, saved, request, modified, audit, sent,
                  sentOver, proc>>
  BY DEF StoreLost, InverterChanges, aggregates
<1>2. twin' \in Readings /\ store' \in Readings \cup {NoReading}
  BY DEF IInv, TypeOK, StoreLost, InverterChanges, Readings
<1>3. TypeOK'
  BY <1>1, <1>2 DEF IInv, TypeOK
<1>4. Placed' /\ Exclusive' /\ Undisturbed' /\ ThreadsInStep'
  BY <1>1 DEF IInv, Placed, InPlace, Exclusive, Undisturbed, ThreadsInStep,
     InStep, HasCommand, Working, Refreshing, Status, Request
<1>5. CommandsInOrder'
  BY <1>1 DEF IInv, CommandsInOrder, Gated, Asked, RequiresApproval
<1>6. QED
  BY <1>3, <1>4, <1>5 DEF IInv
-----------------------------------------------------------------------------
(***************************************************************************)
(* The steps of run.                                                       *)
(***************************************************************************)
LEMMA WorkingFacts ==
  ASSUME IInv, NEW t \in Threads, Working(t)
  PROVE  /\ TypeOK /\ proc[t] \in ThreadState
         /\ proc[t].command \in Commands
         /\ commands[proc[t].command] \in CommandRecord
         /\ InStep(t) /\ InPlace(t)
         /\ Gated(proc[t].command) /\ Asked(proc[t].command)
         /\ Request(t) # "pending"
BY DEF IInv, TypeOK, ThreadsInStep, CommandsInOrder, InStep, HasCommand, Placed,
   Undisturbed

(***************************************************************************)
(* A thread that has a command to itself changes it and moves on.          *)
(***************************************************************************)
LEMMA ChangeStep ==
  ASSUME IInv, NEW t \in Threads, Working(t),
         NEW c, c = proc[t].command,
         NEW after \in CommandRecord, Change(c, after),
         UNCHANGED <<intent, saved, request, modified, audit, world>>,
         NEW label, NEW then, NEW command, NEW decision,
         Steps(t, label, then, command, decision),
         HasCommand(t)' => command = c,
         InStep(t)', InPlace(t)', Gated(c)', Asked(c)',
         t # Cycle /\ commands[c].status = "RISK_ASSESSED" =>
           after.status = "RISK_ASSESSED"
  PROVE  IInv'
<1>1. TypeOK /\ c \in Commands
  BY WorkingFacts
<1>2. Changes(c, after)
  BY <1>1, ChangeChanges
<1>3. TypeOK'
  BY <1>1, <1>2 DEF TypeOK, Changes, Steps, world
<1>4. Concerns(c)
  BY <1>2 DEF Concerns, Changes, world
<1>5. QED
  BY <1>1, <1>2, <1>3, <1>4, WorkStep DEF Changes, Steps

(***************************************************************************)
(* The start of a decision cycle keeps the invariant.                      *)
(***************************************************************************)
LEMMA StartCycleStep ==
  ASSUME IInv, StartCycle
  PROVE  IInv'
<1> DEFINE t == Cycle
<1>1. TypeOK /\ t \in Threads /\ proc[t] \in ThreadState
  BY DEF IInv, TypeOK, Threads
<1>2. PICK r \in {[proc[t] EXCEPT !.pc = "ingest"]} :
        /\ r \in ThreadState
        /\ r.pc = "ingest" /\ r.then = proc[t].then
        /\ r.command = proc[t].command /\ r.decision = proc[t].decision
  <2>1. "ingest" \in Labels
    BY DEF Labels
  <2>. QED
    BY <1>1, <2>1, PcSet
<1>3. PICK q \in {[r EXCEPT !.then = "plan"]} :
        /\ q \in ThreadState
        /\ q.pc = r.pc /\ q.then = "plan"
        /\ q.command = r.command /\ q.decision = r.decision
  BY <1>2, ThenSet
<1>4. proc' = [proc EXCEPT ![t] = q]
  BY <1>2, <1>3, Zenon DEF StartCycle
<1>5. Steps(t, "ingest", "plan", proc[t].command, proc[t].decision)
  BY <1>1, <1>2, <1>3, <1>4 DEF TypeOK, Steps
<1>6. TypeOK'
  BY <1>1, <1>5 DEF StartCycle, TypeOK, aggregates, world, Steps
<1>7. Free(t)' /\ InPlace(t)'
  BY <1>5 DEF Free, InPlace, Steps, OperatorOnly
<1>8. QED
  BY <1>1, <1>5, <1>6, <1>7, FreeStep DEF StartCycle, aggregates, world, Steps

(***************************************************************************)
(* Refusing a recommendation that has a command keeps the invariant.       *)
(***************************************************************************)
LEMMA RefuseDuplicateStep ==
  ASSUME IInv, NEW c \in Commands, RefuseDuplicate(c)
  PROVE  IInv'
<1>1. TypeOK /\ Cycle \in Threads
  BY DEF IInv, Threads
<1>2. Steps(Cycle, "idle", "idle", NoCommand, None)
  BY <1>1, ReturnSteps DEF RefuseDuplicate
<1>3. TypeOK'
  BY <1>1, <1>2 DEF RefuseDuplicate, TypeOK, aggregates, world, Steps
<1>4. Free(Cycle)' /\ InPlace(Cycle)'
  BY <1>2 DEF Free, Steps, InPlace, CycleOnly, OperatorOnly
<1>5. QED
  BY <1>1, <1>2, <1>3, <1>4, FreeStep
     DEF RefuseDuplicate, aggregates, world, Steps

(***************************************************************************)
(* Planning a command keeps the invariant: no other thread knows it, for   *)
(* it is not in the repository and has no request.                         *)
(***************************************************************************)
LEMMA PlanStep ==
  ASSUME IInv, NEW c \in Commands, Plan(c)
  PROVE  IInv'
<1> DEFINE t == Cycle
<1>1. /\ TypeOK /\ t \in Threads /\ proc[t] \in ThreadState
      /\ c \notin saved /\ Gated(c) /\ Asked(c)
  BY DEF IInv, TypeOK, Threads, Plan, CommandsInOrder
<1>2. PICK r \in {[proc[t] EXCEPT !.pc = "save"]} :
        /\ r \in ThreadState
        /\ r.pc = "save" /\ r.then = proc[t].then
        /\ r.command = proc[t].command /\ r.decision = proc[t].decision
  <2>1. "save" \in Labels
    BY DEF Labels
  <2>. QED
    BY <1>1, <2>1, PcSet
<1>3. PICK p \in {[r EXCEPT !.command = c]} :
        /\ p \in ThreadState
        /\ p.pc = r.pc /\ p.then = r.then
        /\ p.command = c /\ p.decision = r.decision
  BY <1>2, CommandSet
<1>4. PICK q \in {[p EXCEPT !.events = <<"CommandCreated">>]} :
        /\ q \in ThreadState
        /\ q.pc = p.pc /\ q.then = p.then
        /\ q.command = p.command /\ q.decision = p.decision
  <2>1. <<"CommandCreated">> \in Seq(EventTypes)
    BY DEF EventTypes
  <2>2. QED
    BY <1>3, <2>1, EventsSet
<1>5. proc' = [proc EXCEPT ![t] = q]
  BY <1>2, <1>3, <1>4, Zenon DEF Plan
<1>6. Steps(t, "save", proc[t].then, c, proc[t].decision)
  BY <1>1, <1>2, <1>3, <1>4, <1>5 DEF TypeOK, Steps
<1>7. Changes(c, NewCommand)
  BY <1>1, NewCommandRecord, ChangeChanges DEF Plan
<1>8. /\ intent' \in [Commands -> Intents]
      /\ \A d \in Commands \ {c} : intent'[d] = intent[d]
      /\ audit' \in [Commands -> Seq(EventTypes)]
  BY <1>1 DEF Plan, TypeOK
<1>9. TypeOK'
  BY <1>1, <1>6, <1>7, <1>8 DEF Plan, TypeOK, Steps, Changes, world
<1>10. request[c] = "absent" /\ sent[c] = 0
  BY <1>1 DEF Gated, Asked, Sendable, PostDispatch, DispatchableStatuses, TypeOK
<1>11. /\ commands'[c].status = "PLANNED"
       /\ commands'[c].approval_decision = None
  BY <1>7 DEF Changes, NewCommand
<1>12. Gated(c)' /\ Asked(c)'
  BY <1>1, <1>10, <1>11 DEF Plan, Gated, Asked, Sendable, PostDispatch,
     DispatchableStatuses, world
<1>13. InStep(t)' /\ InPlace(t)'
  BY <1>1, <1>6, <1>10, <1>11 DEF Plan, InStep, InPlace, HasCommand, Working,
     Refreshing, WorkLabels, Status, Request, Steps, OperatorOnly
<1>14. Concerns(c)
  BY <1>7, <1>8 DEF Plan, Concerns, Changes, world
<1>15. \A u \in Threads \ {t} : HasCommand(u) => proc[u].command # c
  BY <1>1 DEF IInv, ThreadsInStep, InStep, Placed, InPlace, CycleOnly
<1>16. Request(t)' # "pending"
  BY <1>6, <1>10 DEF Plan, Steps, Request
<1>17. QED
  BY <1>1, <1>6, <1>9, <1>10, <1>12, <1>13, <1>14, <1>15, <1>16, Frame
     DEF Steps, HasCommand, Plan

(***************************************************************************)
(* A list of at most one event is a list of events.                        *)
(***************************************************************************)
LEMMA EventLists ==
  /\ <<>> \in Seq(EventTypes)
  /\ \A e \in EventTypes : <<e>> \in Seq(EventTypes)
OBVIOUS

(***************************************************************************)
(* The steps of run up to the gates.                                       *)
(*                                                                         *)
(* Saving a planned command keeps the invariant.                           *)
(***************************************************************************)
LEMMA SaveStep ==
  ASSUME IInv, Save
  PROVE  IInv'
<1> DEFINE t == Cycle
<1>1. t \in Threads /\ proc[t].pc = "save" /\ Working(t)
  BY DEF Save, At, Threads, Working, WorkLabels
<1>2. PICK c \in Commands :
        /\ c = proc[t].command /\ proc[t] \in ThreadState /\ TypeOK
        /\ InStep(t) /\ Gated(c) /\ Asked(c)
  BY <1>1, WorkingFacts
<1>3. Steps(t, "policy", proc[t].then, c, proc[t].decision)
  BY <1>1, <1>2, GotoSteps, EventLists DEF Save, Labels
<1>4. TypeOK'
  BY <1>2, <1>3 DEF Save, TypeOK, Steps, world
<1>5. Concerns(c)
  BY <1>2 DEF Save, Concerns, world
<1>6. Gated(c)' /\ Asked(c)'
  BY <1>2 DEF Gated, Asked, RequiresApproval, Save, world
<1>7. InStep(t)' /\ InPlace(t)'
  BY <1>1, <1>2, <1>3 DEF InStep, InPlace, HasCommand, Working, Refreshing,
     WorkLabels, Status, Request, Steps, Save, OperatorOnly
<1>8. QED
  BY <1>1, <1>2, <1>3, <1>4, <1>5, <1>6, <1>7, WorkStep DEF Save, Steps

(***************************************************************************)
(* Evaluating the policy keeps the invariant.                              *)
(***************************************************************************)
LEMMA PolicyGateStep ==
  ASSUME IInv, PolicyGate
  PROVE  IInv'
<1> DEFINE t == Cycle
<1>1. t \in Threads /\ proc[t].pc = "policy" /\ Working(t)
  BY DEF PolicyGate, At, Threads, Working, WorkLabels
<1>2. PICK c \in Commands :
        /\ c = proc[t].command /\ proc[t] \in ThreadState /\ TypeOK
        /\ InStep(t)
  BY <1>1, WorkingFacts
<1>3. Steps(t, "applyPolicy", proc[t].then, c, proc[t].decision)
  <2>1. (IF intent[c].permitted THEN <<>> ELSE <<"PolicyViolated">>)
          \in Seq(EventTypes)
    BY EventLists DEF EventTypes
  <2>2. QED
    BY <1>1, <1>2, <2>1, GotoSteps DEF PolicyGate, Labels
<1>4. TypeOK'
  BY <1>2, <1>3 DEF PolicyGate, TypeOK, Steps, aggregates, world
<1>5. InStep(t)' /\ InPlace(t)'
  BY <1>1, <1>2, <1>3 DEF InStep, InPlace, HasCommand, Working, Refreshing,
     WorkLabels, Status, Request, Steps, PolicyGate, OperatorOnly, aggregates
<1>6. QED
  BY <1>1, <1>2, <1>3, <1>4, <1>5, QuietStep
     DEF PolicyGate, Steps, aggregates, world

(***************************************************************************)
(* Applying the policy result keeps the invariant: the command goes on     *)
(* with a pass or ends.                                                    *)
(***************************************************************************)
LEMMA ApplyPolicyStep ==
  ASSUME IInv, ApplyPolicy
  PROVE  IInv'
<1> DEFINE t == Cycle
<1>1. t \in Threads /\ proc[t].pc = "applyPolicy" /\ Working(t)
  BY DEF ApplyPolicy, At, Threads, Working, WorkLabels
<1>2. PICK c \in Commands :
        /\ c = proc[t].command /\ proc[t] \in ThreadState /\ TypeOK
        /\ commands[c] \in CommandRecord /\ commands[c].status = "PLANNED"
        /\ c \in saved /\ InStep(t) /\ Gated(c) /\ Asked(c)
  BY <1>1, WorkingFacts DEF InStep, Status, HasCommand
<1>3. PICK v \in Verdicts :
        /\ Change(c, ApplyPolicyResult(commands[c], v))
        /\ \/ v = "passed" /\ Goto(t, "safety", <<"CommandValidated">>)
           \/ v = "failed" /\ Goto(t, "end", <<"CommandRejected">>)
  BY <1>2 DEF ApplyPolicy, Verdicts
<1> DEFINE after == ApplyPolicyResult(commands[c], v)
           label == IF v = "passed" THEN "safety" ELSE "end"
<1>4. after \in CommandRecord
  BY <1>2, MethodsKeepRecord DEF RiskLevels, ApprovalOutcomes, ExecutionOutcomes
<1>5. /\ after.status = IF v = "passed" THEN "POLICY_VALIDATED"
                                       ELSE "REJECTED_BY_POLICY"
      /\ after.policy_result = v
      /\ after.safety_assessment = commands[c].safety_assessment
      /\ after.risk_assessment = commands[c].risk_assessment
      /\ after.approval_decision = commands[c].approval_decision
  BY <1>2, PolicyEffect
<1>6. Steps(t, label, proc[t].then, c, proc[t].decision)
  BY <1>1, <1>2, <1>3, GotoSteps, EventLists DEF Labels, EventTypes
<1> HIDE DEF after
<1>7. Changes(c, after)
  BY <1>2, <1>3, <1>4, ChangeChanges DEF after
<1>8. UNCHANGED <<intent, saved, request, modified, audit, world>>
  BY DEF ApplyPolicy
<1>9. Gated(c)' /\ Asked(c)'
  BY <1>2, <1>5, <1>7, <1>8 DEF Gated, Asked, Sendable, PostDispatch,
     DispatchableStatuses, RequiresApproval, Changes, world
<1>10. InStep(t)' /\ InPlace(t)'
  BY <1>1, <1>2, <1>3, <1>5, <1>6, <1>7, <1>8 DEF InStep, InPlace, HasCommand,
     Working, Refreshing, WorkLabels, Status, Request, Steps, Changes,
     OperatorOnly
<1>11. QED
  BY <1>1, <1>2, <1>3, <1>4, <1>6, <1>8, <1>9, <1>10, ChangeStep DEF after

(***************************************************************************)
(* The gates of safety and risk.                                           *)
(*                                                                         *)
(* The safety gate keeps the invariant, with a reading or without one.     *)
(***************************************************************************)
LEMMA SafetyGateStep ==
  ASSUME IInv, SafetyGate
  PROVE  IInv'
<1> DEFINE t == Cycle
<1>1. t \in Threads /\ proc[t].pc = "safety" /\ Working(t)
  BY DEF SafetyGate, At, Threads, Working, WorkLabels
<1>2. PICK c \in Commands :
        /\ c = proc[t].command /\ proc[t] \in ThreadState /\ TypeOK
        /\ commands[c] \in CommandRecord
        /\ commands[c].status = "POLICY_VALIDATED"
        /\ c \in saved /\ InStep(t) /\ Gated(c) /\ Asked(c)
  BY <1>1, WorkingFacts DEF InStep, Status, HasCommand
<1>3. PICK v \in Verdicts :
        /\ Change(c, ApplySafetyAssessment(commands[c], v))
        /\ \/ v = "passed" /\ Goto(t, "risk", <<>>)
           \/ v = "failed" /\ Goto(t, "end", <<"CommandRejected">>)
           \/ v = "failed" /\ Goto(t, "end", <<"CommandBlockedBySafety">>)
  BY <1>2 DEF SafetyGate, SafetyVerdicts, Verdicts
<1> DEFINE after == ApplySafetyAssessment(commands[c], v)
           label == IF v = "passed" THEN "risk" ELSE "end"
<1>4. after \in CommandRecord
  BY <1>2, MethodsKeepRecord DEF RiskLevels, ApprovalOutcomes, ExecutionOutcomes
<1>5. /\ after.status = IF v = "passed" THEN "SAFETY_VALIDATED"
                                       ELSE "BLOCKED_BY_SAFETY"
      /\ after.policy_result = commands[c].policy_result
      /\ after.safety_assessment = v
      /\ after.risk_assessment = commands[c].risk_assessment
      /\ after.approval_decision = commands[c].approval_decision
  BY <1>2, SafetyEffect
<1>6. Steps(t, label, proc[t].then, c, proc[t].decision)
  BY <1>1, <1>2, <1>3, GotoSteps, EventLists DEF Labels, EventTypes
<1> HIDE DEF after
<1>7. Changes(c, after)
  BY <1>2, <1>3, <1>4, ChangeChanges DEF after
<1>8. UNCHANGED <<intent, saved, request, modified, audit, world>>
  BY DEF SafetyGate
<1>9. Gated(c)' /\ Asked(c)'
  BY <1>2, <1>5, <1>7, <1>8 DEF Gated, Asked, Sendable, PostDispatch,
     DispatchableStatuses, RequiresApproval, Changes, world
<1>10. InStep(t)' /\ InPlace(t)'
  BY <1>1, <1>2, <1>3, <1>5, <1>6, <1>7, <1>8 DEF InStep, InPlace, HasCommand,
     Working, Refreshing, WorkLabels, Status, Request, Steps, Changes,
     OperatorOnly
<1>11. QED
  BY <1>1, <1>2, <1>3, <1>4, <1>6, <1>8, <1>9, <1>10, ChangeStep DEF after

(***************************************************************************)
(* The risk gate keeps the invariant: a level is known when routing        *)
(* starts, and a missing reading ends the command.                         *)
(***************************************************************************)
LEMMA RiskGateStep ==
  ASSUME IInv, RiskGate
  PROVE  IInv'
<1> DEFINE t == Cycle
<1>1. t \in Threads /\ proc[t].pc = "risk" /\ Working(t)
  BY DEF RiskGate, At, Threads, Working, WorkLabels
<1>2. PICK c \in Commands :
        /\ c = proc[t].command /\ proc[t] \in ThreadState /\ TypeOK
        /\ commands[c] \in CommandRecord
        /\ commands[c].status = "SAFETY_VALIDATED"
        /\ c \in saved /\ InStep(t) /\ Gated(c) /\ Asked(c)
  BY <1>1, WorkingFacts DEF InStep, Status, HasCommand
<1>3. PICK level \in RiskLevels :
        LET assessed == ApplyRiskAssessment(commands[c], level) IN
        \/ Change(c, RejectByRisk(assessed)) /\ Goto(t, "end", <<"CommandRejected">>)
        \/ Change(c, assessed) /\ Goto(t, "route", <<"RiskAssessed">>)
  BY <1>2 DEF RiskGate, AssessedLevels, RiskLevels
<1>4. PICK assessed \in CommandRecord :
        /\ assessed = ApplyRiskAssessment(commands[c], level)
        /\ assessed.status = "RISK_ASSESSED"
        /\ assessed.policy_result = commands[c].policy_result
        /\ assessed.safety_assessment = commands[c].safety_assessment
        /\ assessed.risk_assessment = level
        /\ assessed.approval_decision = commands[c].approval_decision
  <2>1. ApplyRiskAssessment(commands[c], level) \in CommandRecord
    BY <1>2, MethodsKeepRecord DEF Verdicts, ApprovalOutcomes, ExecutionOutcomes
  <2>2. QED
    BY <1>2, <2>1, RiskEffect
<1>5. PICK after \in CommandRecord, label \in {"end", "route"} :
        /\ Change(c, after)
        /\ after.status = IF label = "route" THEN "RISK_ASSESSED"
                                             ELSE "REJECTED_BY_RISK"
        /\ after.policy_result = commands[c].policy_result
        /\ after.safety_assessment = commands[c].safety_assessment
        /\ after.risk_assessment \in RiskLevels
        /\ after.approval_decision = commands[c].approval_decision
        /\ Steps(t, label, proc[t].then, c, proc[t].decision)
  <2>1. CASE /\ Change(c, RejectByRisk(assessed))
             /\ Goto(t, "end", <<"CommandRejected">>)
    <3>1. RejectByRisk(assessed) \in CommandRecord
      BY <1>4, MethodsKeepRecord
         DEF Verdicts, RiskLevels, ApprovalOutcomes, ExecutionOutcomes
    <3>2. Steps(t, "end", proc[t].then, c, proc[t].decision)
      BY <1>1, <1>2, <2>1, GotoSteps, EventLists DEF Labels, EventTypes
    <3>3. QED
      BY <1>4, <2>1, <3>1, <3>2, RouteEffect DEF SameOutcomes
  <2>2. CASE Change(c, assessed) /\ Goto(t, "route", <<"RiskAssessed">>)
    <3>1. Steps(t, "route", proc[t].then, c, proc[t].decision)
      BY <1>1, <1>2, <2>2, GotoSteps, EventLists DEF Labels, EventTypes
    <3>2. QED
      BY <1>4, <2>2, <3>1
  <2>3. QED
    BY <1>3, <1>4, <2>1, <2>2
<1>6. Changes(c, after)
  BY <1>2, <1>5, ChangeChanges
<1>7. UNCHANGED <<intent, saved, request, modified, audit, world>>
  BY DEF RiskGate
<1>8. request[c] = "absent"
  BY <1>2 DEF Asked, Sendable, PostDispatch, DispatchableStatuses
<1>9. Gated(c)' /\ Asked(c)'
  BY <1>2, <1>5, <1>6, <1>7, <1>8 DEF Gated, Asked, Sendable, PostDispatch,
     DispatchableStatuses, Changes, RiskLevels, None, world
<1>10. InStep(t)' /\ InPlace(t)'
  BY <1>1, <1>2, <1>5, <1>6, <1>7, <1>8 DEF InStep, InPlace, HasCommand,
     Working, Refreshing, WorkLabels, Status, Request, Steps, Changes,
     OperatorOnly
<1>11. QED
  BY <1>1, <1>2, <1>5, <1>7, <1>9, <1>10, ChangeStep

(***************************************************************************)
(* The three ways out of ApprovalEngine.route.                             *)
(*                                                                         *)
(* A CRITICAL command ends, and one that needs no person is approved: both *)
(* keep the invariant.                                                     *)
(***************************************************************************)
LEMMA RoutedDirectlyStep ==
  ASSUME IInv, RejectCritical \/ RouteToDispatch
  PROVE  IInv'
<1> DEFINE t == Cycle
<1>1. t \in Threads /\ proc[t].pc = "route" /\ Working(t)
  BY DEF RejectCritical, RouteToDispatch, At, Threads, Working, WorkLabels
<1>2. PICK c \in Commands :
        /\ c = proc[t].command /\ proc[t] \in ThreadState /\ TypeOK
        /\ commands[c] \in CommandRecord
        /\ commands[c].status = "RISK_ASSESSED" /\ request[c] = "absent"
        /\ c \in saved /\ InStep(t) /\ Gated(c) /\ Asked(c)
  BY <1>1, WorkingFacts DEF InStep, Status, Request, HasCommand
<1>3. PICK after \in CommandRecord, label \in {"end", "dispatch"} :
        /\ Change(c, after)
        /\ after.status = IF label = "dispatch" THEN "AUTO_APPROVED"
                                                ELSE "REJECTED_BY_RISK"
        /\ label = "dispatch" => /\ commands[c].risk_assessment # "CRITICAL"
                                 /\ ~RequiresApproval(c)
        /\ SameOutcomes(after, commands[c])
        /\ Steps(t, label, proc[t].then, c, proc[t].decision)
  <2>1. RejectByRisk(commands[c]) \in CommandRecord
    BY <1>2, MethodsKeepRecord
       DEF Verdicts, RiskLevels, ApprovalOutcomes, ExecutionOutcomes
  <2>2. AutoApprove(commands[c]) \in CommandRecord
    BY <1>2, MethodsKeepRecord
       DEF Verdicts, RiskLevels, ApprovalOutcomes, ExecutionOutcomes
  <2>3. CASE RejectCritical
    <3>1. Steps(t, "end", proc[t].then, c, proc[t].decision)
      BY <1>1, <1>2, <2>3, GotoSteps, EventLists
         DEF RejectCritical, Labels, EventTypes
    <3>2. QED
      BY <1>2, <2>1, <2>3, <3>1, RouteEffect DEF RejectCritical
  <2>4. CASE RouteToDispatch
    <3>1. Steps(t, "dispatch", proc[t].then, c, proc[t].decision)
      BY <1>1, <1>2, <2>4, GotoSteps, EventLists
         DEF RouteToDispatch, Labels, EventTypes
    <3>2. QED
      BY <1>2, <2>2, <2>4, <3>1, RouteEffect DEF RouteToDispatch
  <2>5. QED
    BY <2>3, <2>4
<1>4. Changes(c, after)
  BY <1>2, <1>3, ChangeChanges
<1>5. UNCHANGED <<intent, saved, request, modified, audit, world>>
  BY DEF RejectCritical, RouteToDispatch
<1>6. commands[c].risk_assessment \in RiskLevels
  BY <1>2 DEF CommandRecord, Gated
<1>7. Gated(c)' /\ Asked(c)'
  BY <1>2, <1>3, <1>4, <1>5, <1>6 DEF Gated, Asked, Sendable, PostDispatch,
     DispatchableStatuses, Changes, SameOutcomes, RequiresApproval, RiskLevels,
     world
<1>8. InStep(t)' /\ InPlace(t)'
  BY <1>1, <1>2, <1>3, <1>4, <1>5 DEF InStep, InPlace, HasCommand,
     Working, Refreshing, WorkLabels, Status, Request, Steps, Changes,
     DispatchableStatuses, OperatorOnly
<1>9. QED
  BY <1>1, <1>2, <1>3, <1>5, <1>7, <1>8, ChangeStep

(***************************************************************************)
(* Saving the approval request keeps the invariant: nobody else works on   *)
(* the command, and the request asks about a level below CRITICAL.         *)
(***************************************************************************)
LEMMA RouteToOperatorStep ==
  ASSUME IInv, RouteToOperator
  PROVE  IInv'
<1> DEFINE t == Cycle
<1>1. t \in Threads /\ proc[t].pc = "route" /\ Working(t)
  BY DEF RouteToOperator, At, Threads, Working, WorkLabels
<1>2. PICK c \in Commands :
        /\ c = proc[t].command /\ proc[t] \in ThreadState /\ TypeOK
        /\ commands[c] \in CommandRecord
        /\ commands[c].status = "RISK_ASSESSED" /\ request[c] = "absent"
        /\ c \in saved /\ InStep(t) /\ Gated(c) /\ Asked(c)
  BY <1>1, WorkingFacts DEF InStep, Status, Request, HasCommand
<1>3. Steps(t, "await", proc[t].then, c, proc[t].decision)
  BY <1>1, <1>2, GotoSteps, EventLists DEF RouteToOperator, Labels
<1>4. /\ RequiresApproval(c) /\ commands[c].risk_assessment # "CRITICAL"
      /\ request' = [request EXCEPT ![c] = "pending"]
      /\ UNCHANGED <<commands, intent, saved, modified, audit, world>>
  BY <1>2 DEF RouteToOperator
<1>5. /\ request'[c] = "pending"
      /\ \A d \in Commands \ {c} : request'[d] = request[d]
  BY <1>2, <1>4 DEF TypeOK
<1>6. TypeOK'
  BY <1>2, <1>3, <1>4 DEF TypeOK, Steps, world
<1>7. Concerns(c)
  BY <1>4, <1>5 DEF Concerns, world
<1>8. Gated(c)' /\ Asked(c)'
  <2>1. /\ commands[c].risk_assessment \in {"LOW", "MEDIUM", "HIGH"}
        /\ commands[c].approval_decision = None
    BY <1>2, <1>4 DEF CommandRecord, RiskLevels, ApprovalOutcomes, Gated, Asked
  <2>2. QED
    BY <1>2, <1>4, <1>5, <2>1 DEF Gated, Asked, Sendable, PostDispatch,
       DispatchableStatuses, RequiresApproval, world
<1>9. InStep(t)' /\ InPlace(t)' /\ ~Working(t)'
  BY <1>1, <1>2, <1>3, <1>4, <1>5 DEF InStep, InPlace, HasCommand, Working,
     Refreshing, WorkLabels, Status, Request, Steps, OperatorOnly
<1>10. \A u \in Threads \ {t} : Working(u) => proc[u].command # c
  BY <1>1, <1>2 DEF IInv, Exclusive
<1>11. ASSUME NEW u \in Threads \ {t}, HasCommand(u), proc[u].command = c
       PROVE  InStep(u)'
  <2>1. proc[u].pc \in {"await", "resume", "decide"}
    BY <1>1, <1>2, <1>11, OthersWait
  <2>2. InStep(u) /\ InPlace(u) /\ proc'[u] = proc[u]
    BY <1>3 DEF IInv, ThreadsInStep, Placed, Steps
  <2>3. FALSE
    BY <1>2, <1>11, <2>1, <2>2
       DEF InStep, InPlace, CycleOnly, Status, Request
  <2>4. QED
    BY <2>3
<1>12. QED
  BY <1>1, <1>2, <1>3, <1>6, <1>7, <1>8, <1>9, <1>10, <1>11, Frame DEF Steps

(***************************************************************************)
(* Await runs beside the threads of operators who have found the request:  *)
(* one of them may have decided it, and then finds the command still       *)
(* RISK_ASSESSED or already AWAITING_APPROVAL.                             *)
(***************************************************************************)
LEMMA AwaitStep ==
  ASSUME IInv, Await
  PROVE  IInv'
<1> DEFINE t == Cycle
<1>1. t \in Threads /\ proc[t].pc = "await"
  BY DEF Await, At, Threads
<1>2. PICK c \in Commands :
        /\ c = proc[t].command /\ proc[t] \in ThreadState /\ TypeOK
        /\ commands[c] \in CommandRecord
        /\ commands[c].status = "RISK_ASSESSED"
        /\ c \in saved /\ Gated(c) /\ Asked(c)
  BY <1>1 DEF IInv, TypeOK, ThreadsInStep, CommandsInOrder, InStep, HasCommand,
     Status
<1>3. PICK after \in CommandRecord :
        /\ Change(c, after)
        /\ after.status = "AWAITING_APPROVAL"
        /\ SameOutcomes(after, commands[c])
  <2>1. AwaitApproval(commands[c]) \in CommandRecord
    BY <1>2, MethodsKeepRecord
       DEF Verdicts, RiskLevels, ApprovalOutcomes, ExecutionOutcomes
  <2>2. QED
    BY <1>2, <2>1, RouteEffect DEF Await
<1>4. Steps(t, "end", proc[t].then, c, proc[t].decision)
  BY <1>1, <1>2, GotoSteps, EventLists DEF Await, Labels, EventTypes
<1>5. Changes(c, after)
  BY <1>2, <1>3, ChangeChanges
<1>6. UNCHANGED <<intent, saved, request, modified, audit, world>>
  BY DEF Await
<1>7. TypeOK'
  BY <1>2, <1>4, <1>5, <1>6 DEF TypeOK, Changes, Steps, world
<1>8. Concerns(c)
  BY <1>5, <1>6 DEF Concerns, Changes, world
<1>9. Gated(c)' /\ Asked(c)'
  BY <1>2, <1>3, <1>5, <1>6 DEF Gated, Asked, Sendable, PostDispatch,
     DispatchableStatuses, Changes, SameOutcomes, RequiresApproval, world
<1>10. InStep(t)' /\ InPlace(t)' /\ ~Working(t)'
  BY <1>1, <1>4 DEF InStep, InPlace, HasCommand, Working, Refreshing,
     WorkLabels, Steps, OperatorOnly
<1>11. ASSUME NEW u \in Threads \ {t}, HasCommand(u), proc[u].command = c
       PROVE  InStep(u)'
  <2>1. InStep(u) /\ InPlace(u) /\ proc'[u] = proc[u]
    BY <1>4 DEF IInv, ThreadsInStep, Placed, Steps
  <2>2. proc[u].pc \in {"resume", "decide", "apply"}
    BY <1>2, <1>11, <2>1 DEF InStep, InPlace, CycleOnly, HasCommand, Working,
       WorkLabels, Refreshing, Status, DispatchableStatuses
  <2>3. QED
    BY <1>2, <1>3, <1>5, <1>6, <1>11, <2>1, <2>2 DEF InStep, HasCommand,
       Working, Refreshing, WorkLabels, Status, Request, Changes, SameOutcomes
<1>12. request'[c] = "pending" =>
         \A u \in Threads \ {t} : Working(u) => proc[u].command # c
  BY <1>6 DEF IInv, Undisturbed, Request
<1>13. QED
  BY <1>1, <1>2, <1>4, <1>7, <1>8, <1>9, <1>10, <1>11, <1>12, Frame DEF Steps

-----------------------------------------------------------------------------
(***************************************************************************)
(* The steps of the approval endpoints.                                    *)
(*                                                                         *)
(* An endpoint that finds a pending request keeps the invariant.           *)
(***************************************************************************)
LEMMA LoadPendingStep ==
  ASSUME IInv, NEW t \in Operators, NEW c \in Commands, LoadPending(t, c)
  PROVE  IInv'
<1>1. /\ TypeOK /\ t \in Threads /\ proc[t] \in ThreadState
      /\ proc[t].pc = "idle" /\ InPlace(t)
      /\ request[c] = "pending" /\ Gated(c) /\ Asked(c)
  BY DEF IInv, TypeOK, Threads, LoadPending, At, CommandsInOrder, Placed
<1>2. PICK o \in {"APPROVED", "REJECTED", "MODIFIED"},
           p \in Params \cup {None} :
        proc' = [proc EXCEPT ![t] = [@ EXCEPT !.pc = "resume", !.command = c,
                                       !.decision = o, !.params = p]]
  BY DEF LoadPending
<1>3. PICK r \in {[proc[t] EXCEPT !.pc = "resume"]} :
        /\ r \in ThreadState
        /\ r.pc = "resume" /\ r.then = proc[t].then
        /\ r.command = proc[t].command /\ r.decision = proc[t].decision
  <2>1. "resume" \in Labels
    BY DEF Labels
  <2>2. QED
    BY <1>1, <2>1, PcSet
<1>4. PICK s \in {[r EXCEPT !.command = c]} :
        /\ s \in ThreadState
        /\ s.pc = r.pc /\ s.then = r.then
        /\ s.command = c /\ s.decision = r.decision
  BY <1>3, CommandSet
<1>5. PICK d \in {[s EXCEPT !.decision = o]} :
        /\ d \in ThreadState
        /\ d.pc = s.pc /\ d.then = s.then
        /\ d.command = s.command /\ d.decision = o
  <2>1. o \in ApprovalOutcomes \cup {None}
    BY DEF ApprovalOutcomes
  <2>2. QED
    BY <1>4, <2>1, DecisionSet
<1>6. PICK q \in {[d EXCEPT !.params = p]} :
        /\ q \in ThreadState
        /\ q.pc = d.pc /\ q.then = d.then
        /\ q.command = d.command /\ q.decision = d.decision
  BY <1>5, ParamsSet
<1>7. proc' = [proc EXCEPT ![t] = q]
  <2>1. s = [[proc[t] EXCEPT !.pc = "resume"] EXCEPT !.command = c]
    BY <1>3, <1>4, Zenon
  <2>2. q = [[s EXCEPT !.decision = o] EXCEPT !.params = p]
    BY <1>5, <1>6, Zenon
  <2>3. q = [proc[t] EXCEPT !.pc = "resume", !.command = c,
                            !.decision = o, !.params = p]
    BY <2>1, <2>2, Zenon
  <2>4. QED
    BY <1>2, <2>3, Zenon
<1>8. Steps(t, "resume", proc[t].then, c, o)
  BY <1>1, <1>3, <1>4, <1>5, <1>6, <1>7 DEF TypeOK, Steps
<1>9. TypeOK'
  BY <1>1, <1>8 DEF LoadPending, TypeOK, Steps, aggregates, world
<1>10. c \in saved
  BY <1>1 DEF Gated, Asked
<1>11. InStep(t)' /\ InPlace(t)' /\ ~Working(t)'
  BY <1>1, <1>8, <1>10 DEF LoadPending, InStep, InPlace, HasCommand, Working,
     Refreshing, WorkLabels, Status, Request, Steps, CycleOnly, aggregates
<1>12. QED
  BY <1>1, <1>8, <1>9, <1>11, QuietStep
     DEF LoadPending, Steps, aggregates, world

(***************************************************************************)
(* Looking the request up again keeps the invariant.                       *)
(***************************************************************************)
LEMMA ResumeStep ==
  ASSUME IInv, NEW t \in Operators, Resume(t)
  PROVE  IInv'
<1>1. /\ TypeOK /\ t \in Threads /\ proc[t] \in ThreadState
      /\ proc[t].pc = "resume" /\ InPlace(t) /\ InStep(t)
  BY DEF IInv, TypeOK, Threads, Resume, At, Placed, ThreadsInStep
<1>2. CASE Goto(t, "decide", <<>>)
  <2>1. Steps(t, "decide", proc[t].then, proc[t].command, proc[t].decision)
    BY <1>1, <1>2, GotoSteps, EventLists DEF Labels
  <2>2. TypeOK'
    BY <1>1, <2>1 DEF Resume, TypeOK, Steps, aggregates, world
  <2>3. InStep(t)' /\ InPlace(t)' /\ ~Working(t)'
    BY <1>1, <2>1 DEF Resume, InStep, InPlace, HasCommand, Working,
       Refreshing, WorkLabels, Status, Request, Steps, CycleOnly, aggregates
  <2>4. QED
    BY <1>1, <2>1, <2>2, <2>3, QuietStep DEF Resume, Steps, aggregates, world
<1>3. CASE Return(t)
  <2>1. Steps(t, "idle", "idle", NoCommand, None)
    BY <1>1, <1>3, ReturnSteps
  <2>2. TypeOK'
    BY <1>1, <2>1 DEF Resume, TypeOK, Steps, aggregates, world
  <2>3. Free(t)' /\ InPlace(t)'
    BY <2>1 DEF Free, Steps, InPlace, CycleOnly, OperatorOnly
  <2>4. QED
    BY <1>1, <2>1, <2>2, <2>3, FreeStep DEF Resume, Steps, aggregates, world
<1>4. QED
  BY <1>2, <1>3 DEF Resume

(***************************************************************************)
(* The one thread that decides a pending request has the command to itself *)
(* from then on: nobody worked on a command whose request was pending.     *)
(***************************************************************************)
LEMMA DecideRequestStep ==
  ASSUME IInv, NEW t \in Operators, DecideRequest(t)
  PROVE  IInv'
<1>1. /\ TypeOK /\ t \in Threads /\ proc[t].pc = "decide"
      /\ InPlace(t) /\ InStep(t)
  BY DEF IInv, Threads, DecideRequest, At, Placed, ThreadsInStep
<1>2. PICK c \in Commands :
        /\ c = proc[t].command /\ proc[t] \in ThreadState
        /\ commands[c] \in CommandRecord
        /\ c \in saved /\ Gated(c) /\ Asked(c)
  BY <1>1 DEF IInv, TypeOK, CommandsInOrder, InStep, HasCommand
<1>3. CASE /\ request[c] = "pending"
           /\ request' = [request EXCEPT ![c] = proc[t].decision]
           /\ Goto(t, "apply", <<>>)
  <2>1. Steps(t, "apply", proc[t].then, c, proc[t].decision)
    BY <1>1, <1>2, <1>3, GotoSteps, EventLists DEF Labels
  <2>2. UNCHANGED <<commands, intent, saved, modified, audit, world>>
    BY DEF DecideRequest
  <2>3. proc[t].decision \in {"APPROVED", "REJECTED", "MODIFIED"}
    BY <1>1 DEF InStep
  <2>4. /\ request'[c] = proc[t].decision
        /\ \A d \in Commands \ {c} : request'[d] = request[d]
        /\ request' \in [Commands -> {"absent", "pending"} \cup ApprovalOutcomes]
    BY <1>1, <1>2, <1>3, <2>3 DEF TypeOK, ApprovalOutcomes
  <2>5. TypeOK'
    BY <1>1, <2>1, <2>2, <2>4 DEF TypeOK, Steps, world
  <2>6. Concerns(c)
    BY <2>2, <2>4 DEF Concerns, world
  <2>7. /\ commands[c].status \in {"RISK_ASSESSED", "AWAITING_APPROVAL"}
        /\ commands[c].approval_decision = None
    BY <1>2, <1>3 DEF Asked, CommandRecord, ApprovalOutcomes
  <2>8. Gated(c)' /\ Asked(c)'
    BY <1>2, <1>3, <2>2, <2>3, <2>4, <2>7 DEF Gated, Asked, Sendable,
       PostDispatch, DispatchableStatuses, RequiresApproval, world
  <2>9. InStep(t)' /\ InPlace(t)'
    BY <1>1, <1>2, <2>1, <2>2, <2>3, <2>4, <2>7 DEF InStep, InPlace,
       HasCommand, Working, Refreshing, WorkLabels, Status, Request, Steps,
       CycleOnly
  <2>10. \A u \in Threads \ {t} : Working(u) => proc[u].command # c
    BY <1>3 DEF IInv, Undisturbed, Request
  <2>11. ASSUME NEW u \in Threads \ {t}, HasCommand(u), proc[u].command = c
         PROVE  InStep(u)'
    <3>1. proc[u].pc \in {"await", "resume", "decide"}
      BY <2>10, <2>11 DEF HasCommand
    <3>2. InStep(u) /\ proc'[u] = proc[u]
      BY <2>1 DEF IInv, ThreadsInStep, Steps
    <3>3. QED
      BY <2>2, <2>3, <2>4, <2>11, <3>1, <3>2 DEF InStep, HasCommand, Working,
         Refreshing, WorkLabels, Status, Request
  <2>12. Request(t)' # "pending"
    BY <2>1, <2>3, <2>4 DEF Steps, Request
  <2>13. QED
    BY <1>1, <1>3, <2>1, <2>3, <2>4, <2>5, <2>6, <2>8, <2>9, <2>10, <2>11,
       <2>12, Frame DEF Steps
<1>4. CASE Return(t) /\ UNCHANGED request
  <2>1. Steps(t, "idle", "idle", NoCommand, None)
    BY <1>1, <1>4, ReturnSteps
  <2>2. TypeOK'
    BY <1>1, <1>4, <2>1 DEF DecideRequest, TypeOK, Steps, world
  <2>3. Free(t)' /\ InPlace(t)'
    BY <2>1 DEF Free, Steps, InPlace, CycleOnly, OperatorOnly
  <2>4. QED
    BY <1>1, <1>4, <2>1, <2>2, <2>3, FreeStep DEF DecideRequest, Steps, world
<1>5. QED
  BY <1>2, <1>3, <1>4 DEF DecideRequest

(***************************************************************************)
(* Applying the decision keeps the invariant, accepted or refused: when    *)
(* the command is still RISK_ASSESSED the decision is stored and the       *)
(* thread unwinds.                                                         *)
(***************************************************************************)
LEMMA ApplyDecisionStep ==
  ASSUME IInv, NEW t \in Operators, ApplyDecision(t)
  PROVE  IInv'
<1>1. t \in Threads /\ proc[t].pc = "apply" /\ Working(t)
  BY DEF ApplyDecision, At, Threads, Working, WorkLabels
<1>2. PICK c \in Commands :
        /\ c = proc[t].command /\ proc[t] \in ThreadState /\ TypeOK
        /\ commands[c] \in CommandRecord
        /\ commands[c].status \in {"RISK_ASSESSED", "AWAITING_APPROVAL"}
        /\ request[c] = proc[t].decision
        /\ proc[t].decision \in {"APPROVED", "REJECTED", "MODIFIED"}
        /\ c \in saved /\ InStep(t) /\ InPlace(t) /\ Gated(c) /\ Asked(c)
  BY <1>1, WorkingFacts DEF InStep, Status, Request, HasCommand
<1> DEFINE d == proc[t].decision
<1>3. PICK after \in CommandRecord :
        /\ Change(c, after)
        /\ after.status =
             IF commands[c].status # "AWAITING_APPROVAL"
               THEN commands[c].status
               ELSE IF Approves(t) THEN "APPROVED" ELSE "REJECTED_BY_OPERATOR"
        /\ after.policy_result = commands[c].policy_result
        /\ after.safety_assessment = commands[c].safety_assessment
        /\ after.risk_assessment = commands[c].risk_assessment
        /\ after.approval_decision = d
  <2>1. d \in ApprovalOutcomes
    BY <1>2 DEF ApprovalOutcomes
  <2>2. /\ Approve(commands[c], d) \in CommandRecord
        /\ RejectByOperator(commands[c], d) \in CommandRecord
    BY <1>2, <2>1, MethodsKeepRecord DEF Verdicts, RiskLevels, ExecutionOutcomes
  <2>3. Change(c, Decided(t))
    BY <1>2 DEF ApplyDecision
  <2>4. CASE Approves(t)
    <3>1. Decided(t) = Approve(commands[c], d)
      BY <1>2, <2>4 DEF Decided
    <3>2. QED
      BY <1>2, <2>1, <2>2, <2>3, <2>4, <3>1, DecisionEffect
  <2>5. CASE ~Approves(t)
    <3>1. Decided(t) = RejectByOperator(commands[c], d)
      BY <1>2, <2>5 DEF Decided
    <3>2. QED
      BY <1>2, <2>1, <2>2, <2>3, <2>5, <3>1, DecisionEffect
  <2>6. QED
    BY <2>4, <2>5
<1>4. PICK label \in {"idle", "dispatch", "end"} :
        /\ \/ Steps(t, label, proc[t].then, c, d)
           \/ label = "idle" /\ Steps(t, label, "idle", NoCommand, None)
        /\ label = "dispatch" => /\ commands[c].status = "AWAITING_APPROVAL"
                                 /\ Approves(t)
  <2>1. CASE Return(t)
    BY <1>1, <1>2, <2>1, ReturnSteps
  <2>2. CASE /\ commands[c].status = "AWAITING_APPROVAL" /\ Approves(t)
             /\ Goto(t, "dispatch", <<"CommandApproved">>)
    BY <1>1, <1>2, <2>2, GotoSteps, EventLists DEF Labels, EventTypes
  <2>3. CASE Goto(t, "end", <<"CommandRejected">>)
    BY <1>1, <1>2, <2>3, GotoSteps, EventLists DEF Labels, EventTypes
  <2>4. QED
    BY <1>2, <2>1, <2>2, <2>3 DEF ApplyDecision
<1>5. /\ UNCHANGED <<intent, saved, request, audit, world>>
      /\ modified' = [modified EXCEPT ![c] = proc[t].params]
  BY <1>2 DEF ApplyDecision
<1>6. Changes(c, after)
  BY <1>2, <1>3, ChangeChanges
<1>7. TypeOK'
  <2>1. modified' \in [Commands -> Params \cup {None}]
    BY <1>2, <1>5 DEF TypeOK, ThreadState
  <2>2. QED
    BY <1>2, <1>4, <1>5, <1>6, <2>1 DEF TypeOK, Changes, Steps, world
<1>8. Concerns(c)
  BY <1>5, <1>6 DEF Concerns, Changes, world
<1>9. Gated(c)' /\ Asked(c)'
  BY <1>2, <1>3, <1>5, <1>6 DEF Gated, Asked, Sendable, PostDispatch,
     DispatchableStatuses, Changes, RequiresApproval, Approves, world
<1>10. InStep(t)' /\ InPlace(t)'
  BY <1>1, <1>2, <1>3, <1>4, <1>5, <1>6 DEF InStep, InPlace, HasCommand,
     Working, Refreshing, WorkLabels, Status, Request, Steps, Changes,
     DispatchableStatuses, CycleOnly, OperatorOnly
<1>11. HasCommand(t)' => proc'[t].command = c
  BY <1>4 DEF Steps, HasCommand, Working, Refreshing, WorkLabels
<1>12. commands[c].status = "RISK_ASSESSED" =>
         commands'[c].status = "RISK_ASSESSED"
  BY <1>3, <1>6 DEF Changes
<1>13. QED
  BY <1>1, <1>2, <1>4, <1>5, <1>7, <1>8, <1>9, <1>10, <1>11, <1>12, WorkStep
     DEF Steps
-----------------------------------------------------------------------------
(***************************************************************************)
(* The steps of _dispatch_and_verify.                                      *)
(*                                                                         *)
(* Command.dispatch keeps the invariant.                                   *)
(***************************************************************************)
LEMMA DispatchCommandStep ==
  ASSUME IInv, NEW t \in Threads, DispatchCommand(t)
  PROVE  IInv'
<1>1. proc[t].pc = "dispatch" /\ Working(t)
  BY DEF DispatchCommand, At, Working, WorkLabels
<1>2. PICK c \in Commands :
        /\ c = proc[t].command /\ proc[t] \in ThreadState /\ TypeOK
        /\ commands[c] \in CommandRecord
        /\ commands[c].status \in DispatchableStatuses
        /\ c \in saved /\ InStep(t) /\ InPlace(t) /\ Gated(c) /\ Asked(c)
  BY <1>1, WorkingFacts DEF InStep, Status, HasCommand
<1>3. PICK after \in CommandRecord :
        /\ Change(c, after)
        /\ after.status = "DISPATCHED"
        /\ SameOutcomes(after, commands[c])
  <2>1. Dispatch(commands[c]) \in CommandRecord
    BY <1>2, MethodsKeepRecord
       DEF Verdicts, RiskLevels, ApprovalOutcomes, ExecutionOutcomes
  <2>2. QED
    BY <1>2, <2>1, DispatchEffect DEF DispatchCommand
<1>4. Steps(t, "send", proc[t].then, c, proc[t].decision)
  BY <1>1, <1>2, GotoSteps, EventLists DEF DispatchCommand, Labels
<1>5. Changes(c, after)
  BY <1>2, <1>3, ChangeChanges
<1>6. UNCHANGED <<intent, saved, request, modified, audit, world>>
  BY DEF DispatchCommand
<1>7. Gated(c)' /\ Asked(c)'
  BY <1>2, <1>3, <1>5, <1>6 DEF Gated, Asked, Sendable, PostDispatch,
     DispatchableStatuses, Changes, SameOutcomes, RequiresApproval, world
<1>8. InStep(t)' /\ InPlace(t)'
  BY <1>1, <1>2, <1>3, <1>4, <1>5, <1>6 DEF InStep, InPlace, HasCommand,
     Working, Refreshing, WorkLabels, Status, Request, Steps, Changes,
     CycleOnly, OperatorOnly
<1>9. commands[c].status # "RISK_ASSESSED"
  BY <1>2 DEF DispatchableStatuses
<1>10. QED
  BY <1>1, <1>2, <1>3, <1>4, <1>6, <1>7, <1>8, <1>9, ChangeStep

(***************************************************************************)
(* A call of the hardware keeps the invariant: the command is DISPATCHED,  *)
(* so every gate is behind it.                                             *)
(***************************************************************************)
LEMMA SendOnceStep ==
  ASSUME IInv, NEW t \in Threads, SendOnce(t)
  PROVE  IInv'
<1>1. proc[t].pc = "send" /\ Working(t)
  BY DEF SendOnce, At, Working, WorkLabels
<1>2. PICK c \in Commands :
        /\ c = proc[t].command /\ proc[t] \in ThreadState /\ TypeOK
        /\ commands[c].status = "DISPATCHED"
        /\ c \in saved /\ InStep(t) /\ InPlace(t) /\ Gated(c) /\ Asked(c)
  BY <1>1, WorkingFacts DEF InStep, Status, HasCommand
<1>3. PICK reply \in Replies :
        /\ twin' \in Effects(c, reply)
        /\ proc' = [proc EXCEPT ![t] =
                      IF Retries(t, reply)
                        THEN [@ EXCEPT !.attempt = proc[t].attempt + 1]
                        ELSE [@ EXCEPT !.pc = "settle", !.reply = reply]]
  BY <1>2 DEF SendOnce
<1>4. PICK label \in {"send", "settle"} :
        Steps(t, label, proc[t].then, c, proc[t].decision)
  <2>1. CASE Retries(t, reply)
    <3> DEFINE next == proc[t].attempt + 1
    <3>1. next \in 0..MaxRetries
      <4>1. proc[t].attempt \in 0..MaxRetries
        BY <1>2 DEF ThreadState
      <4>2. QED
        BY <2>1, <4>1, ConstantsAssumption DEF Retries
    <3> HIDE DEF next
    <3>2. PICK q \in {[proc[t] EXCEPT !.attempt = next]} :
            /\ q \in ThreadState
            /\ q.pc = proc[t].pc /\ q.then = proc[t].then
            /\ q.command = proc[t].command /\ q.decision = proc[t].decision
      BY <1>2, <3>1, AttemptSet
    <3>3. proc' = [proc EXCEPT ![t] = q]
      <4>1. q = [proc[t] EXCEPT !.attempt = next]
        BY <3>2, Zenon
      <4>2. proc' = [proc EXCEPT ![t] = [proc[t] EXCEPT !.attempt = next]]
        BY <1>3, <2>1, Zenon DEF next
      <4>3. QED
        BY <4>1, <4>2, Zenon
    <3>4. QED
      BY <1>1, <1>2, <3>2, <3>3 DEF TypeOK, Steps
  <2>2. CASE ~Retries(t, reply)
    <3>1. PICK r \in {[proc[t] EXCEPT !.pc = "settle"]} :
            /\ r \in ThreadState
            /\ r.pc = "settle" /\ r.then = proc[t].then
            /\ r.command = proc[t].command /\ r.decision = proc[t].decision
      <4>1. "settle" \in Labels
        BY DEF Labels
      <4>2. QED
        BY <1>2, <4>1, PcSet
    <3>2. PICK q \in {[r EXCEPT !.reply = reply]} :
            /\ q \in ThreadState
            /\ q.pc = r.pc /\ q.then = r.then
            /\ q.command = r.command /\ q.decision = r.decision
      BY <1>3, <3>1, ReplySet
    <3>3. proc' = [proc EXCEPT ![t] = q]
      <4>1. q = [proc[t] EXCEPT !.pc = "settle", !.reply = reply]
        BY <3>1, <3>2, Zenon
      <4>2. proc' = [proc EXCEPT ![t] = [proc[t] EXCEPT !.pc = "settle",
                                                        !.reply = reply]]
        BY <1>3, <2>2, Zenon
      <4>3. QED
        BY <4>1, <4>2, Zenon
    <3>4. QED
      BY <1>2, <3>1, <3>2, <3>3 DEF TypeOK, Steps
  <2>3. QED
    BY <2>1, <2>2
<1>5. /\ UNCHANGED <<commands, intent, saved, request, modified, audit, store>>
      /\ sent' \in [Commands -> Nat]
      /\ \A d \in Commands \ {c} : sent'[d] = sent[d]
      /\ sentOver' \subseteq Commands
  BY <1>2 DEF SendOnce, aggregates, TypeOK
<1>6. twin' \in Readings
  <2>1. PICK m \in BatteryModes \cup {twin.mode} :
          Done(c) = [twin EXCEPT !.mode = m] \/ Done(c) = twin
    BY <1>2 DEF Done, CommandedMode, BatteryActions, BatteryPowerActions,
       BatteryModes
  <2>2. Done(c) \in Readings /\ twin \in Readings
    BY <1>2, <2>1 DEF TypeOK, Readings
  <2>3. QED
    BY <1>3, <2>2 DEF Effects
<1>7. TypeOK'
  BY <1>2, <1>4, <1>5, <1>6 DEF TypeOK, Steps
<1>8. Concerns(c)
  BY <1>5 DEF Concerns
<1>9. Gated(c)' /\ Asked(c)'
  BY <1>2, <1>5 DEF Gated, Asked, PostDispatch, RequiresApproval
<1>10. InStep(t)' /\ InPlace(t)'
  BY <1>1, <1>2, <1>4, <1>5 DEF InStep, InPlace, HasCommand, Working,
     Refreshing, WorkLabels, Status, Request, Steps, CycleOnly, OperatorOnly
<1>11. QED
  BY <1>1, <1>2, <1>4, <1>5, <1>7, <1>8, <1>9, <1>10, WorkStep DEF Steps

(***************************************************************************)
(* Turning the reply into transitions keeps the invariant.                 *)
(***************************************************************************)
LEMMA SettleStep ==
  ASSUME IInv, NEW t \in Threads, Settle(t)
  PROVE  IInv'
<1>1. proc[t].pc = "settle" /\ Working(t)
  BY DEF Settle, At, Working, WorkLabels
<1>2. PICK c \in Commands :
        /\ c = proc[t].command /\ proc[t] \in ThreadState /\ TypeOK
        /\ commands[c] \in CommandRecord
        /\ commands[c].status = "DISPATCHED"
        /\ c \in saved /\ InStep(t) /\ InPlace(t) /\ Gated(c) /\ Asked(c)
  BY <1>1, WorkingFacts DEF InStep, Status, HasCommand
<1> DEFINE reply == proc[t].reply
           acknowledged == Acknowledge(commands[c])
<1>3. PICK after \in CommandRecord, label \in {"end", "ingest"},
           then \in {proc[t].then, "verify"} :
        /\ Change(c, after)
        /\ SameOutcomes(after, commands[c])
        /\ after.status \in {"DISPATCH_FAILED", "TIMED_OUT", "EXECUTION_FAILED",
                             "EXECUTED"}
        /\ label = "ingest" => then = "verify" /\ after.status = "EXECUTED"
        /\ label = "end" => then = proc[t].then
        /\ Steps(t, label, then, c, proc[t].decision)
  <2>1. /\ acknowledged \in CommandRecord
        /\ acknowledged.status = "ACKNOWLEDGED"
        /\ SameOutcomes(acknowledged, commands[c])
        /\ MarkDispatchFailed(commands[c]) \in CommandRecord
    BY <1>2, MethodsKeepRecord, AcknowledgeEffect
       DEF Verdicts, RiskLevels, ApprovalOutcomes, ExecutionOutcomes
  <2>2. ASSUME NEW e \in ExecutionOutcomes
        PROVE  /\ MarkExecuted(acknowledged, e) \in CommandRecord
               /\ MarkExecutionFailed(acknowledged, e) \in CommandRecord
               /\ TimeoutExecution(acknowledged, e) \in CommandRecord
    BY <2>1, <2>2, MethodsKeepRecord DEF Verdicts, RiskLevels, ApprovalOutcomes
  <2> HIDE DEF acknowledged
  <2>3. CASE /\ Change(c, MarkDispatchFailed(commands[c]))
             /\ Goto(t, "end", <<"CommandFailed">>)
    <3>1. Steps(t, "end", proc[t].then, c, proc[t].decision)
      BY <1>2, <2>3, GotoSteps, EventLists DEF Labels, EventTypes
    <3>2. QED
      BY <1>2, <2>1, <2>3, <3>1, AcknowledgeEffect
  <2>4. CASE /\ reply = "TIMED_OUT"
             /\ Change(c, TimeoutExecution(acknowledged, reply))
             /\ Goto(t, "end", <<"CommandTimedOut">>)
    <3>1. Steps(t, "end", proc[t].then, c, proc[t].decision)
      BY <1>2, <2>4, GotoSteps, EventLists DEF Labels, EventTypes
    <3>2. reply \in ExecutionOutcomes
      BY <2>4 DEF ExecutionOutcomes
    <3>3. QED
      BY <1>2, <2>1, <2>2, <2>4, <3>1, <3>2, ReportEffect DEF SameOutcomes
  <2>5. CASE /\ reply \in {"FAILED", "CANCELLED"}
             /\ Change(c, MarkExecutionFailed(acknowledged, reply))
             /\ Goto(t, "end", <<"CommandFailed">>)
    <3>1. Steps(t, "end", proc[t].then, c, proc[t].decision)
      BY <1>2, <2>5, GotoSteps, EventLists DEF Labels, EventTypes
    <3>2. reply \in ExecutionOutcomes
      BY <2>5 DEF ExecutionOutcomes
    <3>3. QED
      BY <1>2, <2>1, <2>2, <2>5, <3>1, <3>2, ReportEffect DEF SameOutcomes
  <2>6. CASE /\ reply = "SUCCESS"
             /\ Change(c, MarkExecuted(acknowledged, reply))
             /\ proc' = [proc EXCEPT ![t] =
                  [@ EXCEPT !.pc = "ingest", !.then = "verify",
                            !.events = <<"CommandDispatched",
                                         "CommandAcknowledged",
                                         "CommandExecuted">>]]
    <3> DEFINE events == <<"CommandDispatched", "CommandAcknowledged",
                           "CommandExecuted">>
    <3>1. events \in Seq(EventTypes)
      BY DEF EventTypes
    <3>2. reply \in ExecutionOutcomes
      BY <2>6 DEF ExecutionOutcomes
    <3>3. proc' = [proc EXCEPT ![t] =
                     [proc[t] EXCEPT !.pc = "ingest", !.then = "verify",
                                     !.events = events]]
      BY <2>6
    <3> HIDE DEF events
    <3>4. PICK r \in {[proc[t] EXCEPT !.pc = "ingest"]} :
            /\ r \in ThreadState
            /\ r.pc = "ingest" /\ r.then = proc[t].then
            /\ r.command = proc[t].command /\ r.decision = proc[t].decision
      <4>1. "ingest" \in Labels
        BY DEF Labels
      <4>2. QED
        BY <1>2, <4>1, PcSet
    <3>5. PICK s \in {[r EXCEPT !.then = "verify"]} :
            /\ s \in ThreadState
            /\ s.pc = r.pc /\ s.then = "verify"
            /\ s.command = r.command /\ s.decision = r.decision
      BY <3>4, ThenSet
    <3>6. PICK q \in {[s EXCEPT !.events = events]} :
            /\ q \in ThreadState
            /\ q.pc = s.pc /\ q.then = s.then
            /\ q.command = s.command /\ q.decision = s.decision
      BY <3>1, <3>5, EventsSet
    <3>7. q = [proc[t] EXCEPT !.pc = "ingest", !.then = "verify",
                              !.events = events]
      BY <3>4, <3>5, <3>6, Zenon
    <3>8. proc' = [proc EXCEPT ![t] = q]
      BY <3>3, <3>7, Zenon
    <3>9. Steps(t, "ingest", "verify", c, proc[t].decision)
      BY <1>2, <3>4, <3>5, <3>6, <3>8 DEF TypeOK, Steps
    <3>10. QED
      BY <1>2, <2>1, <2>2, <2>6, <3>2, <3>9, ReportEffect DEF SameOutcomes
  <2>7. QED
    BY <1>2, <2>3, <2>4, <2>5, <2>6 DEF Settle, acknowledged
<1>4. Changes(c, after)
  BY <1>2, <1>3, ChangeChanges
<1>5. UNCHANGED <<intent, saved, request, modified, audit, world>>
  BY DEF Settle
<1>6. Gated(c)' /\ Asked(c)'
  BY <1>2, <1>3, <1>4, <1>5 DEF Gated, Asked, Sendable, PostDispatch,
     DispatchableStatuses, Changes, SameOutcomes, RequiresApproval, world
<1>7. InStep(t)' /\ InPlace(t)'
  BY <1>1, <1>2, <1>3, <1>4, <1>5 DEF InStep, InPlace, HasCommand, Working,
     Refreshing, WorkLabels, Status, Request, Steps, Changes,
     CycleOnly, OperatorOnly
<1>8. QED
  BY <1>1, <1>2, <1>3, <1>5, <1>6, <1>7, ChangeStep

(***************************************************************************)
(* The verification keeps the invariant, whatever it observes.             *)
(***************************************************************************)
LEMMA VerifyCommandStep ==
  ASSUME IInv, NEW t \in Threads, VerifyCommand(t)
  PROVE  IInv'
<1>1. proc[t].pc = "verify" /\ Working(t)
  BY DEF VerifyCommand, At, Working, WorkLabels
<1>2. PICK c \in Commands :
        /\ c = proc[t].command /\ proc[t] \in ThreadState /\ TypeOK
        /\ commands[c] \in CommandRecord
        /\ commands[c].status = "EXECUTED"
        /\ c \in saved /\ InStep(t) /\ InPlace(t) /\ Gated(c) /\ Asked(c)
  BY <1>1, WorkingFacts DEF InStep, Status, HasCommand
<1>3. PICK v \in Verdicts :
        /\ Change(c, Verify(commands[c], v))
        /\ \/ v = "passed" /\ Goto(t, "complete", <<"ExecutionVerified">>)
           \/ v = "failed" /\ Goto(t, "end", <<"VerificationFailed">>)
  BY <1>2 DEF VerifyCommand, VerificationVerdicts, Verdicts
<1>4. PICK after \in CommandRecord, label \in {"complete", "end"} :
        /\ Change(c, after)
        /\ SameOutcomes(after, commands[c])
        /\ after.status = IF label = "complete" THEN "VERIFIED"
                                                ELSE "VERIFICATION_FAILED"
        /\ Steps(t, label, proc[t].then, c, proc[t].decision)
  <2>1. Verify(commands[c], v) \in CommandRecord
    BY <1>2, MethodsKeepRecord DEF RiskLevels, ApprovalOutcomes, ExecutionOutcomes
  <2>2. Steps(t, IF v = "passed" THEN "complete" ELSE "end",
              proc[t].then, c, proc[t].decision)
    BY <1>2, <1>3, GotoSteps, EventLists DEF Labels, EventTypes
  <2>3. QED
    BY <1>2, <1>3, <2>1, <2>2, VerifyEffect
<1>5. Changes(c, after)
  BY <1>2, <1>4, ChangeChanges
<1>6. UNCHANGED <<intent, saved, request, modified, audit, world>>
  BY DEF VerifyCommand
<1>7. Gated(c)' /\ Asked(c)'
  BY <1>2, <1>4, <1>5, <1>6 DEF Gated, Asked, Sendable, PostDispatch,
     DispatchableStatuses, Changes, SameOutcomes, RequiresApproval, world
<1>8. InStep(t)' /\ InPlace(t)'
  BY <1>1, <1>2, <1>4, <1>5, <1>6 DEF InStep, InPlace, HasCommand, Working,
     Refreshing, WorkLabels, Status, Request, Steps, Changes,
     CycleOnly, OperatorOnly
<1>9. QED
  BY <1>1, <1>2, <1>4, <1>6, <1>7, <1>8, ChangeStep

(***************************************************************************)
(* Completing a verified command keeps the invariant.                      *)
(***************************************************************************)
LEMMA CompleteCommandStep ==
  ASSUME IInv, NEW t \in Threads, CompleteCommand(t)
  PROVE  IInv'
<1>1. proc[t].pc = "complete" /\ Working(t)
  BY DEF CompleteCommand, At, Working, WorkLabels
<1>2. PICK c \in Commands :
        /\ c = proc[t].command /\ proc[t] \in ThreadState /\ TypeOK
        /\ commands[c] \in CommandRecord
        /\ commands[c].status = "VERIFIED"
        /\ c \in saved /\ InStep(t) /\ InPlace(t) /\ Gated(c) /\ Asked(c)
  BY <1>1, WorkingFacts DEF InStep, Status, HasCommand
<1>3. PICK after \in CommandRecord :
        /\ Change(c, after)
        /\ after.status = "COMPLETED"
        /\ SameOutcomes(after, commands[c])
  <2>1. Complete(commands[c]) \in CommandRecord
    BY <1>2, MethodsKeepRecord
       DEF Verdicts, RiskLevels, ApprovalOutcomes, ExecutionOutcomes
  <2>2. QED
    BY <1>2, <2>1, CompleteEffect DEF CompleteCommand
<1>4. Steps(t, "end", proc[t].then, c, proc[t].decision)
  BY <1>2, GotoSteps, EventLists DEF CompleteCommand, Labels, EventTypes
<1>5. Changes(c, after)
  BY <1>2, <1>3, ChangeChanges
<1>6. UNCHANGED <<intent, saved, request, modified, audit, world>>
  BY DEF CompleteCommand
<1>7. Gated(c)' /\ Asked(c)'
  BY <1>2, <1>3, <1>5, <1>6 DEF Gated, Asked, Sendable, PostDispatch,
     DispatchableStatuses, Changes, SameOutcomes, RequiresApproval, world
<1>8. InStep(t)' /\ InPlace(t)'
  BY <1>1, <1>2, <1>4, <1>5, <1>6 DEF InStep, InPlace, HasCommand, Working,
     Refreshing, WorkLabels, Status, Request, Steps, Changes,
     CycleOnly, OperatorOnly
<1>9. QED
  BY <1>1, <1>2, <1>3, <1>4, <1>6, <1>7, <1>8, ChangeStep

-----------------------------------------------------------------------------
(***************************************************************************)
(* Every initial state satisfies the invariant.                            *)
(***************************************************************************)
LEMMA Initially ==
  ASSUME Init
  PROVE  IInv
<1>1. TypeOK
  <2>1. (CHOOSE i \in Intents : TRUE) \in Intents
    BY ConstantsAssumption
  <2>2. commands \in [Commands -> CommandRecord]
    BY NewCommandRecord DEF Init
  <2>3. twin \in Readings /\ store \in Readings
    BY DEF Init, Readings, BatteryModes
  <2>4. proc \in [Threads -> ThreadState]
    BY IdleTyped DEF Init
  <2>5. /\ intent \in [Commands -> Intents]
        /\ modified \in [Commands -> Params \cup {None}]
        /\ request \in [Commands -> {"absent", "pending"} \cup ApprovalOutcomes]
        /\ audit \in [Commands -> Seq(EventTypes)]
        /\ sent \in [Commands -> Nat]
        /\ saved \subseteq Commands /\ sentOver \subseteq Commands
    BY <2>1, EventLists DEF Init
  <2>6. QED
    BY <2>2, <2>3, <2>4, <2>5 DEF TypeOK
<1>2. \A t \in Threads : proc[t].pc = "idle" /\ proc[t].then = "idle"
  BY DEF Init, Idle
<1>3. Placed /\ Exclusive /\ Undisturbed /\ ThreadsInStep
  BY <1>2 DEF Placed, InPlace, Exclusive, Undisturbed, ThreadsInStep, InStep,
     HasCommand, Working, Refreshing, WorkLabels, CycleOnly, OperatorOnly
<1>4. CommandsInOrder
  <2> SUFFICES ASSUME NEW c \in Commands
               PROVE  Gated(c) /\ Asked(c)
    BY DEF CommandsInOrder
  <2>1. /\ commands[c].status = "PLANNED"
        /\ commands[c].approval_decision = None
        /\ request[c] = "absent" /\ sent[c] = 0
    BY DEF Init, NewCommand
  <2>2. QED
    BY <2>1 DEF Gated, Asked, Sendable, PostDispatch, DispatchableStatuses
<1>5. QED
  BY <1>1, <1>3, <1>4 DEF IInv

(***************************************************************************)
(* Every step keeps the invariant.                                         *)
(***************************************************************************)
LEMMA Inductive ==
  ASSUME IInv, [Next]_vars
  PROVE  IInv'
<1>1. CASE RunStep
  BY <1>1, StartCycleStep, PlanStep, RefuseDuplicateStep, SaveStep,
     PolicyGateStep, ApplyPolicyStep, SafetyGateStep, RiskGateStep,
     RoutedDirectlyStep, RouteToOperatorStep, AwaitStep
     DEF RunStep, GateStep
<1>2. ASSUME NEW t \in Operators,
             ApprovalStep(t) \/ \E c \in Commands : LoadPending(t, c)
      PROVE  IInv'
  BY <1>2, ResumeStep, DecideRequestStep, ApplyDecisionStep, LoadPendingStep
     DEF ApprovalStep
<1>3. ASSUME NEW t \in Threads, DispatchStep(t)
      PROVE  IInv'
  BY <1>3, DispatchCommandStep, SendOnceStep, SettleStep, VerifyCommandStep,
     CompleteCommandStep DEF DispatchStep
<1>4. ASSUME NEW t \in Threads,
             RefreshStep(t) \/ AuditAppend(t) \/ AuditRaises(t) \/ StoreRaises(t)
      PROVE  IInv'
  BY <1>4, IngestStep, PublishStep, AuditAppendStep, AuditRaisesStep,
     StoreRaisesStep DEF RefreshStep
<1>5. CASE StoreLost \/ InverterChanges
  BY <1>5, OutsideStep
<1>6. CASE UNCHANGED vars
  BY <1>6 DEF vars, IInv, TypeOK, Placed, InPlace, Exclusive, Undisturbed,
     ThreadsInStep, InStep, HasCommand, Working, Refreshing, Status, Request,
     CommandsInOrder, Gated, Asked, RequiresApproval
<1>7. QED
  BY <1>1, <1>2, <1>3, <1>4, <1>5, <1>6 DEF Next

(***************************************************************************)
(* The inductive invariant holds in every reachable state.                 *)
(***************************************************************************)
THEOREM Invariance == Spec => []IInv
<1>1. Init => IInv
  BY Initially
<1>2. IInv /\ [Next]_vars => IInv'
  BY Inductive
<1>3. QED
  BY <1>1, <1>2, PTL DEF Spec

(***************************************************************************)
(* The commands, the repositories and the threads keep their types.        *)
(***************************************************************************)
THEOREM TypeCorrect == Spec => []TypeOK
<1>1. IInv => TypeOK
  BY DEF IInv
<1>2. QED
  BY <1>1, Invariance, PTL

(***************************************************************************)
(* A command that was put on the hardware passed the gates, and a person   *)
(* approved it if one had to.                                              *)
(***************************************************************************)
THEOREM SendsAuthorised == Spec => []SendAuthorised
<1>1. IInv => SendAuthorised
  <2> SUFFICES ASSUME IInv, NEW c \in Commands, sent[c] > 0
               PROVE  /\ commands[c].policy_result = "passed"
                      /\ commands[c].safety_assessment = "passed"
                      /\ commands[c].risk_assessment \in {"LOW", "MEDIUM", "HIGH"}
                      /\ IF RequiresApproval(c)
                           THEN request[c] \in {"APPROVED", "MODIFIED"}
                           ELSE request[c] = "absent"
    BY DEF SendAuthorised
  <2>1. Gated(c) /\ Asked(c)
    BY DEF IInv, CommandsInOrder
  <2>2. commands[c].status \in PostDispatch
    BY <2>1 DEF Asked
  <2>3. QED
    BY <2>1, <2>2 DEF Gated, Asked, Sendable, PostDispatch
<1>2. QED
  BY <1>1, Invariance, PTL

(***************************************************************************)
(* The decision a command carries is the one its request recorded.         *)
(***************************************************************************)
THEOREM DecisionsAgree == Spec => []DecisionAgreement
<1>1. IInv => DecisionAgreement
  BY DEF IInv, CommandsInOrder, Asked, DecisionAgreement
<1>2. QED
  BY <1>1, Invariance, PTL
=============================================================================
