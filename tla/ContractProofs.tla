--------------------------- MODULE ContractProofs ---------------------------
(***************************************************************************)
(* Proofs that the audit log of ExecutionPipeline can be believed, and     *)
(* that the pipeline implements CommandContract: for any number of         *)
(* commands, operators and retries, with an audit log and a store that may *)
(* fail at any time.                                                       *)
(*                                                                         *)
(* The argument: what a thread must have told before its next step is in   *)
(* the log or still in its list of events, and the list is empty when it   *)
(* takes that step (Telling); an event says something of its command that  *)
(* no later step undoes (Tells), because a thread meets the command in the *)
(* status it left it in (InStep, ExecutionPipelineProofs); and a thread    *)
(* that sends has sent as often as it has tried (Counted).                 *)
(***************************************************************************)
EXTENDS ExecutionPipelineProofs, SequencesExt

(***************************************************************************)
(* What is in the log about a command, and what a thread has still to      *)
(* tell.                                                                   *)
(***************************************************************************)
Log(c)   == ToSet(audit[c])
Queue(t) == ToSet(proc[t].events)
Known(t) == Log(proc[t].command) \cup Queue(t)

Assessed == {"CommandCreated", "CommandValidated", "RiskAssessed"}
Cleared  == Assessed \cup {"CommandApproved"}

(***************************************************************************)
(* The events that say more of a command than that a step was reached, and *)
(* what they say.                                                          *)
(***************************************************************************)
Ran == {"EXECUTED", "VERIFIED", "VERIFICATION_FAILED", "COMPLETED"}

Tells(c, e) ==
  /\ e \in {"CommandRejected", "CommandBlockedBySafety"} =>
       sent[c] = 0 /\ commands[c].status \in FailureStatuses
  /\ e = "CommandExecuted" =>
       /\ commands[c].status \in Ran
       /\ commands[c].execution_result = "SUCCESS"
  /\ e = "CommandCompleted" =>
       /\ commands[c].status = "COMPLETED"
       /\ commands[c].verification_result = "passed"
       /\ "CommandExecuted" \in Log(c)

Told(c) ==
  /\ request[c] # "absent" => Assessed \subseteq Log(c)
  /\ sent[c] > 0 => Cleared \subseteq Log(c)
  /\ \A e \in Log(c) : Tells(c, e)
  /\ commands[c].status \in Ran => sent[c] > 0

Telling(t) ==
  /\ proc[t].events # <<>> => proc[t].command \in Commands
  /\ \A e \in Queue(t) : Tells(proc[t].command, e)
  /\ proc[t].pc \in {"save", "policy", "applyPolicy", "safety", "risk"} =>
       "CommandCreated" \in Known(t)
  /\ proc[t].pc \in {"safety", "risk"} => "CommandValidated" \in Known(t)
  /\ proc[t].pc \in {"route", "await"} => Assessed \subseteq Known(t)
  /\ proc[t].pc \in {"dispatch", "send"} => Cleared \subseteq Known(t)
  /\ Refreshing(t) \/ proc[t].pc \in {"verify", "complete"} =>
       "CommandExecuted" \in Known(t)
  /\ proc[t].pc = "complete" =>
       commands[proc[t].command].verification_result = "passed"

Counted(t) ==
  /\ \/ proc[t].pc \in CycleOnly \cup OperatorOnly \cup {"idle", "dispatch"}
     \/ proc[t].pc \in {"ingest", "publish"} /\ proc[t].then # "verify"
     => proc[t].attempt = 0
  /\ proc[t].pc = "send" => sent[proc[t].command] = proc[t].attempt
  /\ proc[t].pc = "settle" => sent[proc[t].command] > 0

AInv ==
  /\ \A c \in Commands : Told(c)
  /\ \A t \in Threads : Telling(t) /\ Counted(t)

(***************************************************************************)
(* A step of the contract, or one it does not see.                         *)
(***************************************************************************)
ContractStep == [Contract!ContractNext]_(Contract!contractVars)

-----------------------------------------------------------------------------
(***************************************************************************)
(* The elements of the lists of events that occur, and of a list that      *)
(* grows at its end or loses its head.                                     *)
(***************************************************************************)
LEMMA ElementsOfLists ==
  /\ ToSet(<<>>) = {}
  /\ \A e : ToSet(<<e>>) = {e}
  /\ \A e, f, g : ToSet(<<e, f, g>>) = {e, f, g}
<1>1. ToSet(<<>>) = {}
  BY DEF ToSet
<1>2. ASSUME NEW e PROVE ToSet(<<e>>) = {e}
  <2>1. Len(<<e>>) = 1 /\ <<e>>[1] = e
    OBVIOUS
  <2>. QED
    BY <2>1 DEF ToSet
<1>3. ASSUME NEW e, NEW f, NEW g PROVE ToSet(<<e, f, g>>) = {e, f, g}
  <2> DEFINE s == <<e, f, g>>
  <2>1. Len(s) = 3 /\ s[1] = e /\ s[2] = f /\ s[3] = g
    OBVIOUS
  <2>2. 1..Len(s) = {1, 2, 3}
    BY <2>1
  <2> HIDE DEF s
  <2>3. ToSet(s) = {e, f, g}
    BY <2>1, <2>2 DEF ToSet
  <2>. QED
    BY <2>3 DEF s
<1>. QED
  BY <1>1, <1>2, <1>3

(***************************************************************************)
(* A list that grows at its end.                                           *)
(***************************************************************************)
LEMMA ElementsOfAppend ==
  ASSUME NEW S, NEW s \in Seq(S), NEW e \in S
  PROVE  ToSet(Append(s, e)) = ToSet(s) \cup {e}
<1> DEFINE r == Append(s, e)
<1>1. /\ Len(r) = Len(s) + 1 /\ Len(s) \in Nat
      /\ r[Len(s) + 1] = e
      /\ \A i \in 1..Len(s) : r[i] = s[i]
  OBVIOUS
<1>2. 1..Len(r) = (1..Len(s)) \cup {Len(s) + 1}
  BY <1>1
<1> HIDE DEF r
<1>3. ToSet(r) = ToSet(s) \cup {e}
  BY <1>1, <1>2 DEF ToSet
<1>. QED
  BY <1>3 DEF r

(***************************************************************************)
(* A list that loses its head.                                             *)
(***************************************************************************)
LEMMA ElementsOfTail ==
  ASSUME NEW S, NEW s \in Seq(S), s # <<>>
  PROVE  ToSet(s) = {Head(s)} \cup ToSet(Tail(s))
<1> DEFINE r == Tail(s)
<1>1. /\ Len(s) \in Nat /\ Len(s) > 0 /\ Len(r) = Len(s) - 1
      /\ Head(s) = s[1]
      /\ \A i \in 1..Len(r) : r[i] = s[i + 1]
  OBVIOUS
<1> HIDE DEF r
<1>2. ToSet(s) \subseteq {s[1]} \cup ToSet(r)
  <2> SUFFICES ASSUME NEW i \in 1..Len(s), i # 1
               PROVE  s[i] \in ToSet(r)
    BY <1>1 DEF ToSet
  <2>1. i - 1 \in 1..Len(r) /\ r[i - 1] = s[i]
    BY <1>1
  <2>. QED
    BY <2>1 DEF ToSet
<1>3. s[1] \in ToSet(s)
  BY <1>1 DEF ToSet
<1>4. ToSet(r) \subseteq ToSet(s)
  <2> SUFFICES ASSUME NEW i \in 1..Len(r)
               PROVE  r[i] \in ToSet(s)
    BY DEF ToSet
  <2>1. i + 1 \in 1..Len(s) /\ r[i] = s[i + 1]
    BY <1>1
  <2>. QED
    BY <2>1 DEF ToSet
<1>. QED
  BY <1>1, <1>2, <1>3, <1>4 DEF r

(***************************************************************************)
(* Where a thread goes, and with which events.                             *)
(***************************************************************************)
LEMMA GotoMoves ==
  ASSUME TypeOK, NEW t \in Threads, NEW label, NEW events,
         Goto(t, label, events)
  PROVE  /\ \A u \in Threads \ {t} : proc'[u] = proc[u]
         /\ proc'[t].pc = label /\ proc'[t].then = proc[t].then
         /\ proc'[t].command = proc[t].command
         /\ proc'[t].events = events
         /\ proc'[t].attempt = proc[t].attempt
         /\ proc'[t].reply = proc[t].reply
<1> DEFINE q == [proc[t] EXCEPT !.pc = label, !.events = events]
<1>1. proc[t] \in ThreadState
  BY DEF TypeOK
<1>2. /\ q.pc = label /\ q.then = proc[t].then
      /\ q.command = proc[t].command /\ q.events = events
      /\ q.attempt = proc[t].attempt /\ q.reply = proc[t].reply
  BY <1>1 DEF ThreadState
<1>3. proc' = [proc EXCEPT ![t] = q]
  BY DEF Goto
<1> HIDE DEF q
<1>. QED
  BY <1>2, <1>3 DEF TypeOK

(***************************************************************************)
(* Where a thread is when it has returned.                                 *)
(***************************************************************************)
LEMMA ReturnMoves ==
  ASSUME TypeOK, NEW t \in Threads, Return(t)
  PROVE  /\ \A u \in Threads \ {t} : proc'[u] = proc[u]
         /\ proc'[t] = Idle
BY DEF TypeOK, Return

(***************************************************************************)
(* A thread that has returned owes nothing.                                *)
(***************************************************************************)
LEMMA IdleOwesNothing ==
  ASSUME NEW t \in Threads, proc'[t] = Idle
  PROVE  Telling(t)' /\ Counted(t)'
<1>1. /\ proc'[t].pc = "idle" /\ proc'[t].events = <<>>
      /\ proc'[t].attempt = 0
  BY DEF Idle
<1>2. Queue(t)' = {}
  BY <1>1, ElementsOfLists DEF Queue
<1>. QED
  BY <1>1, <1>2 DEF Telling, Counted, Refreshing

-----------------------------------------------------------------------------
(***************************************************************************)
(* A step of thread t about command c leaves what is known of the other    *)
(* commands, and what the other threads have told, as it was.              *)
(***************************************************************************)
Untouched(c) ==
  \A d \in Commands \ {c} :
    /\ commands'[d] = commands[d]
    /\ request'[d] = request[d]
    /\ sent'[d] = sent[d]
    /\ audit'[d] = audit[d]

(***************************************************************************)
(* What is known of another command does not change.                       *)
(***************************************************************************)
LEMMA TellsElsewhere ==
  ASSUME NEW c, Untouched(c), NEW d \in Commands \ {c}
  PROVE  /\ \A e : Tells(d, e)' <=> Tells(d, e)
         /\ Log(d)' = Log(d)
         /\ Told(d)' <=> Told(d)
BY DEF Untouched, Tells, Log, Told

(***************************************************************************)
(* Another thread still owes what it owed, and still counts as it did.     *)
(***************************************************************************)
LEMMA OthersTell ==
  ASSUME IInv, AInv, NEW t \in Threads, NEW c, Untouched(c),
         NEW u \in Threads, proc'[u] = proc[u],
         c \in Commands => \A e : Tells(c, e) => Tells(c, e)',
         HasCommand(u) /\ proc[u].command = c => Log(c) \subseteq Log(c)',
         proc[u].pc \in {"send", "settle", "complete"} =>
           proc[u].command # c
  PROVE  Telling(u)' /\ Counted(u)'
<1>0. PICK d : d = proc[u].command
  OBVIOUS
<1>1. Telling(u) /\ Counted(u) /\ InStep(u)
  BY DEF AInv, IInv, ThreadsInStep
<1>2. HasCommand(u) => d \in Commands
  BY <1>0, <1>1 DEF InStep
<1>3. Queue(u)' = Queue(u)
  BY DEF Queue
<1>4. \A e \in Queue(u)' : Tells(d, e)'
  <2> SUFFICES ASSUME NEW e \in Queue(u)
               PROVE  Tells(d, e)'
    BY <1>3
  <2>1. Tells(d, e) /\ proc[u].events # <<>>
    BY <1>0, <1>1, ElementsOfLists DEF Telling, Queue
  <2>2. d \in Commands
    BY <1>0, <1>1, <2>1 DEF Telling
  <2>. QED
    BY <1>0, <2>1, <2>2, TellsElsewhere
<1>5. HasCommand(u) => Log(d) \subseteq Log(d)'
  BY <1>0, <1>2, TellsElsewhere
<1>6. HasCommand(u) => Known(u) \subseteq Known(u)'
  BY <1>0, <1>3, <1>5 DEF Known
<1>7. proc[u].pc \in {"send", "settle", "complete"} =>
        /\ commands'[d] = commands[d] /\ sent'[d] = sent[d]
  BY <1>0, <1>2 DEF Untouched, HasCommand, Working, WorkLabels
<1>8. /\ proc'[u].pc = proc[u].pc /\ proc'[u].then = proc[u].then
      /\ proc'[u].command = d /\ proc'[u].events = proc[u].events
      /\ proc'[u].attempt = proc[u].attempt
  BY <1>0
<1>9. Telling(u)'
  <2>1. proc'[u].events # <<>> => proc'[u].command \in Commands
    BY <1>0, <1>1, <1>8 DEF Telling
  <2>2. /\ proc'[u].pc \in {"save", "policy", "applyPolicy", "safety",
                            "risk"} => "CommandCreated" \in Known(u)'
        /\ proc'[u].pc \in {"safety", "risk"} =>
             "CommandValidated" \in Known(u)'
        /\ proc'[u].pc \in {"route", "await"} => Assessed \subseteq Known(u)'
        /\ proc'[u].pc \in {"dispatch", "send"} => Cleared \subseteq Known(u)'
    BY <1>1, <1>6, <1>8 DEF Telling, HasCommand, Working, WorkLabels
  <2>3. Refreshing(u)' \/ proc'[u].pc \in {"verify", "complete"} =>
          "CommandExecuted" \in Known(u)'
    BY <1>1, <1>6, <1>8
       DEF Telling, HasCommand, Working, WorkLabels, Refreshing
  <2>4. proc'[u].pc = "complete" =>
          commands'[proc'[u].command].verification_result = "passed"
    BY <1>0, <1>1, <1>7, <1>8 DEF Telling
  <2>. QED
    BY <1>4, <1>8, <2>1, <2>2, <2>3, <2>4 DEF Telling
<1>10. Counted(u)'
  BY <1>0, <1>1, <1>7, <1>8 DEF Counted
<1>. QED
  BY <1>9, <1>10

(***************************************************************************)
(* What is left to show of a step: that the thread that takes it and the   *)
(* command it is about are in order.                                       *)
(***************************************************************************)
LEMMA TellFrame ==
  ASSUME IInv, AInv, NEW t \in Threads, NEW c, Untouched(c),
         \A u \in Threads \ {t} : proc'[u] = proc[u],
         c \in Commands => Told(c)' /\ \A e : Tells(c, e) => Tells(c, e)',
         \A u \in Threads \ {t} :
           HasCommand(u) /\ proc[u].command = c => Log(c) \subseteq Log(c)',
         \A u \in Threads \ {t} :
           proc[u].pc \in {"send", "settle", "complete"} =>
             proc[u].command # c,
         Telling(t)', Counted(t)'
  PROVE  AInv'
<1>1. \A d \in Commands : Told(d)'
  <2> SUFFICES ASSUME NEW d \in Commands \ {c} PROVE Told(d)'
    OBVIOUS
  <2>. QED
    BY TellsElsewhere DEF AInv
<1>2. ASSUME NEW u \in Threads \ {t} PROVE Telling(u)' /\ Counted(u)'
  BY OthersTell
<1>. QED
  BY <1>1, <1>2 DEF AInv

(***************************************************************************)
(* The phase of a saved command, from its status.                          *)
(***************************************************************************)
StatusPhase(s) ==
  CASE s \in DispatchableStatuses -> "authorised"
    [] s \in {"DISPATCHED", "ACKNOWLEDGED", "EXECUTED", "VERIFIED"} ->
         "inflight"
    [] s = "COMPLETED" -> "succeeded"
    [] s \in FailureStatuses -> "closed"
    [] OTHER -> "proposed"

(***************************************************************************)
(* PhaseOf is the phase of the status, before and after a step.            *)
(***************************************************************************)
LEMMA PhaseIsOfStatus ==
  ASSUME NEW c
  PROVE  /\ PhaseOf(c) = IF c \notin saved THEN "absent"
                         ELSE StatusPhase(commands[c].status)
         /\ PhaseOf(c)' = IF c \notin saved' THEN "absent"
                          ELSE StatusPhase(commands'[c].status)
BY DEF PhaseOf, StatusPhase

(***************************************************************************)
(* The phases of the statuses a command can have.                          *)
(***************************************************************************)
LEMMA PhaseTable ==
  /\ \A s \in {"PLANNED", "POLICY_VALIDATED", "SAFETY_VALIDATED",
               "RISK_ASSESSED", "AWAITING_APPROVAL"} :
       StatusPhase(s) = "proposed"
  /\ \A s \in DispatchableStatuses : StatusPhase(s) = "authorised"
  /\ \A s \in {"DISPATCHED", "ACKNOWLEDGED", "EXECUTED", "VERIFIED"} :
       StatusPhase(s) = "inflight"
  /\ StatusPhase("COMPLETED") = "succeeded"
  /\ \A s \in FailureStatuses : StatusPhase(s) = "closed"
BY DEF StatusPhase, DispatchableStatuses, FailureStatuses

(***************************************************************************)
(* The moves the contract allows, and that a step which changes the phase  *)
(* of one command by such a move, or of none, is a step of the contract.   *)
(***************************************************************************)
Allowed(c, from, to) ==
  \/ from = to
  \/ from = "absent" /\ to = "proposed"
  \/ from = "proposed" /\ to = "authorised"
  \/ from = "authorised" /\ to = "inflight"
  \/ from = "inflight" /\ to = "succeeded" /\ sent[c] > 0
  \/ from \in {"proposed", "inflight"} /\ to = "closed"

(***************************************************************************)
(* A step that moves one command as the contract allows is a step of the   *)
(* contract.                                                               *)
(***************************************************************************)
LEMMA PhaseStep ==
  ASSUME NEW c \in Commands, UNCHANGED sent,
         \A d \in Commands \ {c} : /\ commands'[d] = commands[d]
                                   /\ d \in saved' <=> d \in saved,
         Allowed(c, PhaseOf(c), PhaseOf(c)')
  PROVE  ContractStep
<1> DEFINE before == [d \in Commands |-> PhaseOf(d)]
           after  == [d \in Commands |-> PhaseOf(d)']
<1>1. \A d \in Commands \ {c} : PhaseOf(d)' = PhaseOf(d)
  BY PhaseIsOfStatus
<1>2. after = [before EXCEPT ![c] = PhaseOf(c)']
  BY <1>1
<1>3. PhaseOf(c)' = PhaseOf(c) => after = before
  BY <1>1
<1>4. before[c] = PhaseOf(c)
  OBVIOUS
<1>5. CASE PhaseOf(c)' = PhaseOf(c)
  <2>1. [d \in Commands |-> PhaseOf(d)]' = [d \in Commands |-> PhaseOf(d)]
    BY <1>3, <1>5
  <2>. QED
    BY <2>1 DEF ContractStep, Contract!contractVars
<1>6. CASE PhaseOf(c)' # PhaseOf(c)
  <2>1. \/ Contract!Propose(c) \/ Contract!Authorise(c) \/ Contract!Start(c)
        \/ Contract!Succeed(c) \/ Contract!Close(c)
    BY <1>2, <1>4, <1>6
       DEF Allowed, Contract!Propose, Contract!Authorise, Contract!Start,
           Contract!Succeed, Contract!Close, Contract!Move
  <2>. QED
    BY <2>1 DEF ContractStep, Contract!ContractNext
<1>. QED
  BY <1>5, <1>6

(***************************************************************************)
(* A step that changes no command is none the contract sees.               *)
(***************************************************************************)
LEMMA PhasesStay ==
  ASSUME UNCHANGED <<commands, saved, sent>>
  PROVE  ContractStep
<1>1. [d \in Commands |-> PhaseOf(d)]' = [d \in Commands |-> PhaseOf(d)]
  BY PhaseIsOfStatus
<1>. QED
  BY <1>1 DEF ContractStep, Contract!contractVars

-----------------------------------------------------------------------------
(***************************************************************************)
(* A step that changes no command, no request, no count and no log.        *)
(***************************************************************************)
LEMMA KeepStep ==
  ASSUME IInv, AInv, NEW t \in Threads,
         UNCHANGED <<commands, saved, request, audit, sent>>,
         \A u \in Threads \ {t} : proc'[u] = proc[u],
         Telling(t)', Counted(t)'
  PROVE  AInv' /\ ContractStep
<1>1. NoCommand \notin Commands
  BY ConstantsAssumption
<1>2. Untouched(NoCommand)
  BY DEF Untouched
<1>3. \A u \in Threads : HasCommand(u) => proc[u].command # NoCommand
  BY <1>1 DEF IInv, ThreadsInStep, InStep
<1>4. AInv'
  BY <1>1, <1>2, <1>3, TellFrame DEF HasCommand, Working, WorkLabels
<1>. QED
  BY <1>4, PhasesStay

(***************************************************************************)
(* A thread that unwinds leaves all commands and logs behind as they are.  *)
(***************************************************************************)
LEMMA GiveUpStep ==
  ASSUME IInv, AInv, NEW t \in Threads, Return(t),
         UNCHANGED <<commands, saved, request, audit, sent>>
  PROVE  AInv' /\ ContractStep
<1>1. TypeOK
  BY DEF IInv
<1>. QED
  BY <1>1, ReturnMoves, IdleOwesNothing, KeepStep

(***************************************************************************)
(* What an event says of a command that is neither over nor executed is    *)
(* not said yet.                                                           *)
(***************************************************************************)
LEMMA NothingSaidYet ==
  ASSUME NEW c, commands[c].status \notin FailureStatuses \cup Ran,
         NEW e, Tells(c, e)
  PROVE  Tells(c, e)'
BY DEF Tells, Ran

(***************************************************************************)
(* A thread changes its command and leaves logs, requests and counts       *)
(* alone.                                                                  *)
(***************************************************************************)
LEMMA TellChange ==
  ASSUME IInv, AInv, NEW t \in Threads,
         \A u \in Threads \ {t} : proc'[u] = proc[u],
         NEW c \in saved, NEW after, Change(c, after),
         UNCHANGED <<saved, request, audit, sent>>,
         \A u \in Threads \ {t} :
           proc[u].pc \in {"send", "settle", "complete"} =>
             proc[u].command # c,
         \/ commands[c].status \notin FailureStatuses \cup Ran
         \/ /\ commands[c].status \in {"EXECUTED", "VERIFIED"}
            /\ after.status \in Ran
            /\ after.execution_result = commands[c].execution_result,
         after.status \in Ran => sent[c] > 0,
         Allowed(c, StatusPhase(commands[c].status),
                    StatusPhase(after.status)),
         Telling(t)', Counted(t)'
  PROVE  AInv' /\ ContractStep
<1>1. TypeOK /\ c \in Commands
  BY DEF IInv, TypeOK
<1>2. /\ commands'[c] = after
      /\ \A d \in Commands \ {c} : commands'[d] = commands[d]
  BY <1>1 DEF TypeOK, Change
<1>3. Untouched(c)
  BY <1>2 DEF Untouched
<1>4. ASSUME NEW e, Tells(c, e) PROVE Tells(c, e)'
  <2>1. CASE commands[c].status \notin FailureStatuses \cup Ran
    BY <1>4, <2>1, NothingSaidYet
  <2>2. CASE /\ commands[c].status \in {"EXECUTED", "VERIFIED"}
             /\ after.status \in Ran
             /\ after.execution_result = commands[c].execution_result
    BY <1>2, <1>4, <2>2 DEF Tells, FailureStatuses
  <2>. QED
    BY <2>1, <2>2
<1>5. Told(c)'
  <2>1. Told(c) /\ Log(c)' = Log(c)
    BY <1>1 DEF AInv, Log
  <2>2. \A e \in Log(c)' : Tells(c, e)'
    BY <1>4, <2>1 DEF Told
  <2>. QED
    BY <1>2, <2>1, <2>2 DEF Told
<1>6. AInv'
  <2>1. Log(c) \subseteq Log(c)'
    BY DEF Log
  <2>. QED
    BY <1>3, <1>4, <1>5, <2>1, TellFrame
<1>7. Allowed(c, PhaseOf(c), PhaseOf(c)')
  BY <1>2, PhaseIsOfStatus
<1>. QED
  BY <1>1, <1>2, <1>6, <1>7, PhaseStep

(***************************************************************************)
(* No other thread sends, settles or completes the command of a working    *)
(* one, or one that was not dispatched yet.                                *)
(***************************************************************************)
LEMMA NobodyElseSends ==
  ASSUME IInv, NEW t \in Threads, NEW c,
         \/ Working(t) /\ proc[t].command = c
         \/ commands[c].status = "RISK_ASSESSED",
         NEW u \in Threads \ {t},
         proc[u].pc \in {"send", "settle", "complete"}
  PROVE  proc[u].command # c
<1>1. Working(u) /\ InStep(u)
  BY DEF Working, WorkLabels, IInv, ThreadsInStep
<1>2. Status(u) \in {"DISPATCHED", "VERIFIED"}
  BY <1>1 DEF InStep
<1>. QED
  BY <1>1, <1>2 DEF IInv, Exclusive, Status

(***************************************************************************)
(* What a rejection and a block say is so when they are told, and what the *)
(* other events say is nothing.                                            *)
(***************************************************************************)
Rejections ==
  {"REJECTED_BY_POLICY", "BLOCKED_BY_SAFETY", "REJECTED_BY_RISK",
   "REJECTED_BY_OPERATOR"}

(***************************************************************************)
(* A command that was rejected or blocked at a gate was never sent.        *)
(***************************************************************************)
LEMMA RejectionIsSo ==
  ASSUME IInv', NEW c \in Commands, commands'[c].status \in Rejections
  PROVE  /\ Tells(c, "CommandRejected")'
         /\ Tells(c, "CommandBlockedBySafety")'
<1>1. Asked(c)' /\ sent'[c] \in Nat
  BY DEF IInv, CommandsInOrder, TypeOK
<1>2. sent'[c] = 0
  BY <1>1 DEF Asked, PostDispatch, Rejections
<1>. QED
  BY <1>2 DEF Tells, Rejections, FailureStatuses

(***************************************************************************)
(* The other events say nothing of their command beyond the step they      *)
(* report.                                                                 *)
(***************************************************************************)
LEMMA OthersSayNothing ==
  ASSUME NEW c, NEW e,
         e \notin {"CommandRejected", "CommandBlockedBySafety",
                   "CommandExecuted", "CommandCompleted"}
  PROVE  Tells(c, e) /\ Tells(c, e)'
BY DEF Tells

-----------------------------------------------------------------------------
(* Recording the head of the list moves one event from what is to be told  *)
(* to what is told.                                                        *)
(***************************************************************************)
LEMMA RecordMoves ==
  ASSUME TypeOK, NEW t \in Threads, proc[t].events # <<>>,
         NEW c \in Commands, c = proc[t].command, Record(t)
  PROVE  /\ \A d \in Commands \ {c} : audit'[d] = audit[d]
         /\ Log(c)' = Log(c) \cup {Head(proc[t].events)}
         /\ Queue(t) =
              {Head(proc[t].events)} \cup ToSet(Tail(proc[t].events))
<1>1. PICK s \in Seq(EventTypes) : s = proc[t].events
  BY DEF TypeOK, ThreadState
<1>2. audit[c] \in Seq(EventTypes) /\ Head(s) \in EventTypes /\ s # <<>>
  BY <1>1 DEF TypeOK
<1>3. audit' = [audit EXCEPT ![c] = Append(audit[c], Head(s))]
  BY <1>1 DEF Record
<1>4. /\ \A d \in Commands \ {c} : audit'[d] = audit[d]
      /\ audit'[c] = Append(audit[c], Head(s))
  BY <1>3 DEF TypeOK
<1>5. ToSet(audit'[c]) = ToSet(audit[c]) \cup {Head(s)}
  BY <1>2, <1>4, ElementsOfAppend
<1>6. ToSet(s) = {Head(s)} \cup ToSet(Tail(s))
  BY <1>2, ElementsOfTail
<1>. QED
  BY <1>1, <1>4, <1>5, <1>6 DEF Log, Queue

(***************************************************************************)
(* A thread that records an event and changes nothing else.                *)
(***************************************************************************)
LEMMA RecordStep ==
  ASSUME IInv, AInv, NEW t \in Threads, proc[t].events # <<>>, Record(t),
         UNCHANGED <<commands, saved, request, sent>>,
         \A u \in Threads \ {t} : proc'[u] = proc[u],
         proc'[t] = Idle \/ /\ proc'[t].events = Tail(proc[t].events)
                            /\ proc'[t].pc = proc[t].pc
                            /\ proc'[t].then = proc[t].then
                            /\ proc'[t].command = proc[t].command
                            /\ proc'[t].attempt = proc[t].attempt
  PROVE  AInv' /\ ContractStep
<1>1. TypeOK /\ Telling(t) /\ Counted(t)
  BY DEF IInv, AInv
<1>2. PICK c \in Commands : c = proc[t].command
  BY <1>1 DEF Telling
<1>3. /\ \A d \in Commands \ {c} : audit'[d] = audit[d]
      /\ Log(c)' = Log(c) \cup {Head(proc[t].events)}
      /\ Queue(t) =
           {Head(proc[t].events)} \cup ToSet(Tail(proc[t].events))
  BY <1>1, <1>2, RecordMoves
<1>4. Untouched(c)
  BY <1>3 DEF Untouched
<1>5. \A e : Tells(c, e) => Tells(c, e)'
  BY <1>3 DEF Tells
<1>6. Told(c)'
  <2>1. Told(c) /\ Tells(c, Head(proc[t].events))
    BY <1>1, <1>2, <1>3 DEF AInv, Telling
  <2>. QED
    BY <1>3, <1>5, <2>1 DEF Told
<1>7. Telling(t)' /\ Counted(t)'
  <2>1. CASE proc'[t] = Idle
    BY <2>1, IdleOwesNothing
  <2>2. CASE /\ proc'[t].events = Tail(proc[t].events)
             /\ proc'[t].pc = proc[t].pc
             /\ proc'[t].then = proc[t].then
             /\ proc'[t].command = proc[t].command
             /\ proc'[t].attempt = proc[t].attempt
    <3>1. Queue(t)' = ToSet(Tail(proc[t].events))
      BY <2>2 DEF Queue
    <3>2. proc'[t].command = c
      BY <1>2, <2>2
    <3>3. Known(t)' = Known(t)
      BY <1>2, <1>3, <3>1, <3>2 DEF Known
    <3>4. \A e \in Queue(t)' : Tells(c, e)'
      BY <1>1, <1>2, <1>3, <1>5, <3>1 DEF Telling
    <3>5. Telling(t)'
      BY <1>1, <1>2, <2>2, <3>2, <3>3, <3>4 DEF Telling, Refreshing
    <3>6. Counted(t)'
      BY <1>1, <2>2 DEF Counted
    <3>. QED
      BY <3>5, <3>6
  <2>. QED
    BY <2>1, <2>2
<1>8. AInv'
  <2>1. ASSUME NEW u \in Threads \ {t} PROVE Telling(u)' /\ Counted(u)'
    <3>1. CASE proc[u].pc \in {"send", "settle", "complete"}
      <4>1. Telling(u) /\ Counted(u) /\ HasCommand(u)
        BY <3>1 DEF AInv, HasCommand, Working, WorkLabels
      <4>2. Log(proc[u].command) \subseteq Log(proc[u].command)'
        BY <1>3, <4>1 DEF IInv, ThreadsInStep, InStep, Log
      <4>3. Queue(u)' = Queue(u)
        BY <2>1 DEF Queue
      <4>4. Known(u) \subseteq Known(u)'
        BY <2>1, <4>2, <4>3 DEF Known
      <4>5. \A e \in Queue(u)' : Tells(proc[u].command, e)'
        <5>1. \A d \in Commands : \A e : Tells(d, e) => Tells(d, e)'
          BY <1>4, <1>5, TellsElsewhere
        <5>2. /\ proc[u].command \in Commands
              /\ proc'[u].command = proc[u].command
          BY <2>1, <4>1 DEF IInv, ThreadsInStep, InStep
        <5>. QED
          BY <4>1, <4>3, <5>1, <5>2 DEF Telling
      <4>6. /\ proc'[u] = proc[u] /\ commands' = commands /\ sent' = sent
        BY <2>1
      <4>7. Telling(u)'
        BY <4>1, <4>4, <4>5, <4>6, <3>1 DEF Telling, Refreshing
      <4>8. Counted(u)'
        BY <4>1, <4>6 DEF Counted
      <4>. QED
        BY <4>7, <4>8
    <3>2. CASE proc[u].pc \notin {"send", "settle", "complete"}
      BY <1>3, <1>4, <1>5, <2>1, <3>2, OthersTell
    <3>. QED
      BY <3>1, <3>2
  <2>2. \A d \in Commands : Told(d)'
    BY <1>4, <1>6, TellsElsewhere DEF AInv
  <2>. QED
    BY <1>7, <2>1, <2>2 DEF AInv
<1>. QED
  BY <1>8, PhasesStay

(***************************************************************************)
(* Appending an event moves it from what is to be told to what is told.    *)
(***************************************************************************)
LEMMA TellAuditAppend ==
  ASSUME IInv, AInv, NEW t \in Threads, AuditAppend(t)
  PROVE  AInv' /\ ContractStep
<1>1. /\ TypeOK /\ proc[t].events # <<>> /\ Record(t)
      /\ UNCHANGED <<commands, saved, request, sent>>
  BY DEF AuditAppend, aggregates, world, IInv
<1>2. CASE Return(t)
  BY <1>1, <1>2, ReturnMoves, RecordStep
<1>3. CASE Goto(t, proc[t].pc, Tail(proc[t].events))
  BY <1>1, <1>3, GotoMoves, RecordStep
<1>. QED
  BY <1>2, <1>3 DEF AuditAppend

(***************************************************************************)
(* A log that raises, before or after the row is stored, stays true, and   *)
(* the thread owes nothing any more.                                       *)
(***************************************************************************)
LEMMA TellAuditRaises ==
  ASSUME IInv, AInv, NEW t \in Threads, AuditRaises(t)
  PROVE  AInv' /\ ContractStep
<1>1. /\ TypeOK /\ proc[t].events # <<>> /\ Return(t)
      /\ UNCHANGED <<commands, saved, request, sent>>
  BY DEF AuditRaises, aggregates, world, IInv
<1>2. CASE Record(t)
  BY <1>1, <1>2, ReturnMoves, RecordStep
<1>3. CASE UNCHANGED audit
  BY <1>1, <1>3, GiveUpStep
<1>. QED
  BY <1>2, <1>3 DEF AuditRaises

-----------------------------------------------------------------------------
(***************************************************************************)
(* The steps that change nothing a command has told.                       *)
(***************************************************************************)
LEMMA TellRefresh ==
  ASSUME IInv, AInv, NEW t \in Threads, Ingest(t) \/ Publish(t)
  PROVE  AInv' /\ ContractStep
<1>1. /\ TypeOK /\ proc[t] \in ThreadState
      /\ Telling(t) /\ Counted(t) /\ proc[t].events = <<>>
      /\ UNCHANGED <<commands, saved, request, audit, sent>>
  BY DEF IInv, AInv, TypeOK, Ingest, Publish, At, aggregates, world
<1>2. PICK q :
        /\ proc' = [proc EXCEPT ![t] = q]
        /\ q.command = proc[t].command /\ q.events = <<>>
        /\ q.attempt = proc[t].attempt
        /\ \/ /\ proc[t].pc = "ingest" /\ q.pc = "publish"
              /\ q.then = proc[t].then
           \/ /\ proc[t].pc = "publish" /\ q.pc = proc[t].then
              /\ q.then = "idle"
  <2>1. CASE Ingest(t)
    <3>1. PICK reading : proc' = [proc EXCEPT ![t] =
            [@ EXCEPT !.pc = "publish", !.reading = reading]]
      BY <2>1 DEF Ingest
    <3>2. proc[t].pc = "ingest"
      BY <2>1 DEF Ingest, At
    <3> DEFINE q == [proc[t] EXCEPT !.pc = "publish", !.reading = reading]
    <3>3. /\ q.command = proc[t].command /\ q.events = proc[t].events
          /\ q.attempt = proc[t].attempt
          /\ q.pc = "publish" /\ q.then = proc[t].then
      BY <1>1 DEF ThreadState
    <3>4. proc' = [proc EXCEPT ![t] = q]
      BY <3>1
    <3>. QED
      BY <1>1, <3>2, <3>3, <3>4
  <2>2. CASE Publish(t)
    <3>1. proc' = [proc EXCEPT ![t] = [@ EXCEPT !.pc = proc[t].then,
                                      !.then = "idle", !.reading = NoReading]]
      BY <2>2 DEF Publish
    <3>2. proc[t].pc = "publish"
      BY <2>2 DEF Publish, At
    <3> DEFINE q == [proc[t] EXCEPT !.pc = proc[t].then, !.then = "idle",
                                    !.reading = NoReading]
    <3>3. /\ q.command = proc[t].command /\ q.events = proc[t].events
          /\ q.attempt = proc[t].attempt
          /\ q.pc = proc[t].then /\ q.then = "idle"
      BY <1>1 DEF ThreadState
    <3>4. proc' = [proc EXCEPT ![t] = q]
      BY <3>1
    <3>. QED
      BY <1>1, <3>2, <3>3, <3>4
  <2>. QED
    BY <2>1, <2>2
<1>3. /\ \A u \in Threads \ {t} : proc'[u] = proc[u]
      /\ proc'[t] = q
  BY <1>1, <1>2 DEF TypeOK
<1>4. Queue(t)' = {} /\ Queue(t) = {}
  BY <1>1, <1>2, <1>3, ElementsOfLists DEF Queue
<1>5. Known(t)' = Known(t)
  BY <1>1, <1>2, <1>3, <1>4 DEF Known, Log
<1>6. proc[t].then \in {"idle", "plan", "verify"}
  BY <1>1 DEF ThreadState
<1>7. Telling(t)'
  BY <1>1, <1>2, <1>3, <1>4, <1>5, <1>6 DEF Telling, Refreshing
<1>8. Counted(t)'
  BY <1>1, <1>2, <1>3, <1>6
     DEF Counted, CycleOnly, OperatorOnly
<1>. QED
  BY <1>1, <1>3, <1>7, <1>8, KeepStep

(***************************************************************************)
(* A store that raises ends the thread.                                    *)
(***************************************************************************)
LEMMA TellStoreRaises ==
  ASSUME IInv, AInv, NEW t \in Threads, StoreRaises(t)
  PROVE  AInv' /\ ContractStep
BY GiveUpStep DEF StoreRaises, aggregates, world

(***************************************************************************)
(* The invariant speaks of these variables only.                           *)
(***************************************************************************)
LEMMA TellNothing ==
  ASSUME AInv, UNCHANGED <<commands, request, audit, sent, proc>>
  PROVE  AInv'
<1>1. ASSUME NEW c \in Commands PROVE Told(c)'
  BY DEF AInv, Told, Tells, Log
<1>2. ASSUME NEW t \in Threads PROVE Telling(t)'
  BY DEF AInv, Telling, Tells, Known, Log, Queue, Refreshing
<1>3. ASSUME NEW t \in Threads PROVE Counted(t)'
  BY DEF AInv, Counted
<1>. QED
  BY <1>1, <1>2, <1>3 DEF AInv

(***************************************************************************)
(* A store that loses its reading and an inverter that trips say nothing.  *)
(***************************************************************************)
LEMMA TellOutside ==
  ASSUME IInv, AInv, StoreLost \/ InverterChanges
  PROVE  AInv' /\ ContractStep
<1>1. UNCHANGED <<commands, saved, request, audit, sent, proc>>
  BY DEF StoreLost, InverterChanges, aggregates
<1>2. AInv'
  BY <1>1, TellNothing
<1>. QED
  BY <1>1, <1>2, PhasesStay

(***************************************************************************)
(* A recommendation that has a command already is refused.                 *)
(***************************************************************************)
LEMMA TellRefuse ==
  ASSUME IInv, AInv, NEW c \in Commands, RefuseDuplicate(c)
  PROVE  AInv' /\ ContractStep
<1>1. Cycle \in Threads
  BY DEF Threads
<1>. QED
  BY <1>1, GiveUpStep DEF RefuseDuplicate, aggregates, world

(***************************************************************************)
(* A cycle starts with nothing to tell.                                    *)
(***************************************************************************)
LEMMA TellStartCycle ==
  ASSUME IInv, AInv, StartCycle
  PROVE  AInv' /\ ContractStep
<1> DEFINE t == Cycle
<1>1. /\ TypeOK /\ t \in Threads /\ proc[t] \in ThreadState
      /\ Telling(t) /\ Counted(t)
      /\ proc[t].pc = "idle" /\ proc[t].events = <<>>
      /\ UNCHANGED <<commands, saved, request, audit, sent>>
  BY DEF IInv, AInv, TypeOK, Threads, StartCycle, At, aggregates, world
<1> DEFINE q == [proc[t] EXCEPT !.pc = "ingest", !.then = "plan"]
<1>2. /\ q.command = proc[t].command /\ q.events = proc[t].events
      /\ q.attempt = proc[t].attempt
      /\ q.pc = "ingest" /\ q.then = "plan"
  BY <1>1 DEF ThreadState
<1>3. proc' = [proc EXCEPT ![t] = q]
  BY DEF StartCycle
<1> HIDE DEF q
<1>4. /\ \A u \in Threads \ {t} : proc'[u] = proc[u]
      /\ proc'[t] = q
  BY <1>1, <1>3 DEF TypeOK
<1>5. Queue(t)' = {}
  BY <1>1, <1>2, <1>4, ElementsOfLists DEF Queue
<1>6. Telling(t)' /\ Counted(t)'
  BY <1>1, <1>2, <1>4, <1>5
     DEF Telling, Counted, Refreshing, CycleOnly, OperatorOnly
<1>. QED
  BY <1>1, <1>4, <1>6, KeepStep

(***************************************************************************)
(* A decision starts with nothing to tell.                                 *)
(***************************************************************************)
LEMMA TellLoadPending ==
  ASSUME IInv, AInv, NEW t \in Operators, NEW c \in Commands, LoadPending(t, c)
  PROVE  AInv' /\ ContractStep
<1>1. /\ TypeOK /\ t \in Threads /\ proc[t] \in ThreadState
      /\ Telling(t) /\ Counted(t)
      /\ proc[t].pc = "idle" /\ proc[t].events = <<>>
      /\ UNCHANGED <<commands, saved, request, audit, sent>>
  BY DEF IInv, AInv, TypeOK, Threads, LoadPending, At, aggregates, world
<1>2. PICK o, p :
        proc' = [proc EXCEPT ![t] = [@ EXCEPT !.pc = "resume", !.command = c,
                                       !.decision = o, !.params = p]]
  BY DEF LoadPending
<1> DEFINE q == [proc[t] EXCEPT !.pc = "resume", !.command = c,
                                !.decision = o, !.params = p]
<1>3. /\ q.events = proc[t].events /\ q.attempt = proc[t].attempt
      /\ q.pc = "resume"
  BY <1>1 DEF ThreadState
<1>4. proc' = [proc EXCEPT ![t] = q]
  BY <1>2
<1> HIDE DEF q
<1>5. /\ \A u \in Threads \ {t} : proc'[u] = proc[u]
      /\ proc'[t] = q
  BY <1>1, <1>4 DEF TypeOK
<1>6. Queue(t)' = {}
  BY <1>1, <1>3, <1>5, ElementsOfLists DEF Queue
<1>7. Telling(t)' /\ Counted(t)'
  BY <1>1, <1>3, <1>5, <1>6
     DEF Telling, Counted, Refreshing, CycleOnly, OperatorOnly
<1>. QED
  BY <1>1, <1>5, <1>7, KeepStep

(***************************************************************************)
(* A thread that goes on knows what is in the log and what it has to tell. *)
(***************************************************************************)
LEMMA Moved ==
  ASSUME IInv, AInv, NEW t \in Threads, NEW label, NEW events,
         Goto(t, label, events), At(t, proc[t].pc), UNCHANGED audit,
         NEW c \in Commands, c = proc[t].command
  PROVE  /\ TypeOK /\ Telling(t) /\ Counted(t)
         /\ \A u \in Threads \ {t} : proc'[u] = proc[u]
         /\ proc'[t].pc = label /\ proc'[t].events = events
         /\ proc'[t].command = c /\ proc'[t].attempt = proc[t].attempt
         /\ Known(t) = Log(c)
         /\ Queue(t)' = ToSet(events)
         /\ Known(t)' = Log(c) \cup ToSet(events)
<1>1. TypeOK /\ Telling(t) /\ Counted(t) /\ proc[t].events = <<>>
  BY DEF IInv, AInv, At
<1>2. /\ \A u \in Threads \ {t} : proc'[u] = proc[u]
      /\ proc'[t].pc = label /\ proc'[t].events = events
      /\ proc'[t].command = c /\ proc'[t].attempt = proc[t].attempt
  BY <1>1, GotoMoves
<1>3. Queue(t) = {} /\ Queue(t)' = ToSet(events)
  BY <1>1, <1>2, ElementsOfLists DEF Queue
<1>4. Known(t)' = Log(c) \cup ToSet(events)
  BY <1>2, <1>3 DEF Known, Log
<1>5. Known(t) = Log(c)
  BY <1>3 DEF Known
<1>. QED
  BY <1>1, <1>2, <1>3, <1>4, <1>5

(***************************************************************************)
(* Evaluating the policy tells at most of a violation.                     *)
(***************************************************************************)
LEMMA TellPolicyGate ==
  ASSUME IInv, AInv, PolicyGate
  PROVE  AInv' /\ ContractStep
<1> DEFINE t == Cycle
<1>1. /\ t \in Threads /\ At(t, proc[t].pc) /\ proc[t].pc = "policy"
      /\ Working(t)
      /\ UNCHANGED <<commands, saved, request, audit, sent>>
  BY DEF PolicyGate, Threads, At, Working, WorkLabels, aggregates, world
<1>2. PICK c \in Commands : c = proc[t].command
  BY <1>1, WorkingFacts
<1>3. PICK events \in {<<>>, <<"PolicyViolated">>} :
        Goto(t, "applyPolicy", events)
  BY DEF PolicyGate
<1>4. ToSet(events) \subseteq {"PolicyViolated"}
  BY <1>3, ElementsOfLists
<1>5. /\ Telling(t) /\ Counted(t)
      /\ \A u \in Threads \ {t} : proc'[u] = proc[u]
      /\ proc'[t].pc = "applyPolicy" /\ proc'[t].events = events
      /\ proc'[t].command = c /\ proc'[t].attempt = proc[t].attempt
      /\ Known(t) = Log(c)
      /\ Queue(t)' = ToSet(events)
      /\ Known(t)' = Log(c) \cup ToSet(events)
  BY <1>1, <1>2, <1>3, Moved
<1>6. \A e \in Queue(t)' : Tells(c, e)'
  BY <1>4, <1>5, OthersSayNothing
<1>7. Telling(t)'
  BY <1>1, <1>5, <1>6 DEF Telling, Refreshing
<1>8. Counted(t)'
  BY <1>1, <1>5 DEF Counted, CycleOnly, OperatorOnly
<1>. QED
  BY <1>1, <1>5, <1>7, <1>8, KeepStep

(***************************************************************************)
(* Looking the request up again tells nothing.                             *)
(***************************************************************************)
LEMMA TellResume ==
  ASSUME IInv, AInv, NEW t \in Operators, Resume(t)
  PROVE  AInv' /\ ContractStep
<1>1. /\ t \in Threads /\ At(t, proc[t].pc) /\ proc[t].pc = "resume"
      /\ UNCHANGED <<commands, saved, request, audit, sent>>
  BY DEF Resume, Threads, At, aggregates, world
<1>2. CASE Return(t)
  BY <1>1, <1>2, GiveUpStep
<1>3. CASE Goto(t, "decide", <<>>)
  <2>1. PICK c \in Commands : c = proc[t].command
    BY <1>1 DEF IInv, ThreadsInStep, InStep, HasCommand
  <2>2. /\ Telling(t) /\ Counted(t)
        /\ \A u \in Threads \ {t} : proc'[u] = proc[u]
        /\ proc'[t].pc = "decide" /\ proc'[t].events = <<>>
        /\ proc'[t].command = c /\ proc'[t].attempt = proc[t].attempt
        /\ Queue(t)' = ToSet(<<>>)
    BY <1>1, <1>3, <2>1, Moved
  <2>3. Telling(t)'
    BY <2>1, <2>2, ElementsOfLists DEF Telling, Refreshing
  <2>4. Counted(t)'
    BY <1>1, <2>2 DEF Counted, CycleOnly, OperatorOnly
  <2>. QED
    BY <1>1, <2>2, <2>3, <2>4, KeepStep
<1>. QED
  BY <1>2, <1>3 DEF Resume

-----------------------------------------------------------------------------
(***************************************************************************)
(* A thread that has a command to itself changes it, tells what it did and *)
(* goes on; what remains to show of an action is that what it tells is so  *)
(* and enough.                                                             *)
(***************************************************************************)
LEMMA WorkTells ==
  ASSUME IInv, AInv, NEW t \in Threads, At(t, proc[t].pc),
         NEW c \in saved, c = proc[t].command,
         Working(t) \/ commands[c].status = "RISK_ASSESSED",
         NEW after, Change(c, after),
         UNCHANGED <<saved, request, audit, sent>>,
         NEW label, NEW events, Goto(t, label, events),
         commands[c].status \notin FailureStatuses \cup Ran,
         after.status \in Ran => sent[c] > 0,
         Allowed(c, StatusPhase(commands[c].status),
                    StatusPhase(after.status)),
         \A e \in ToSet(events) : Tells(c, e)',
         label \in {"safety", "risk", "route", "dispatch", "send", "end"},
         label \in {"safety", "risk"} =>
           {"CommandCreated", "CommandValidated"}
             \subseteq Log(c) \cup ToSet(events),
         label = "route" => Assessed \subseteq Log(c) \cup ToSet(events),
         label \in {"dispatch", "send"} =>
           Cleared \subseteq Log(c) \cup ToSet(events),
         label # "end" => proc[t].attempt = 0,
         label = "send" => sent[c] = 0
  PROVE  AInv' /\ ContractStep
<1>1. c \in Commands
  BY DEF IInv, TypeOK
<1>2. /\ \A u \in Threads \ {t} : proc'[u] = proc[u]
      /\ proc'[t].pc = label /\ proc'[t].events = events
      /\ proc'[t].command = c /\ proc'[t].attempt = proc[t].attempt
      /\ Queue(t)' = ToSet(events)
      /\ Known(t)' = Log(c) \cup ToSet(events)
  BY <1>1, Moved
<1>3. Counted(t) /\ Telling(t)
  BY DEF AInv
<1>4. Telling(t)'
  BY <1>1, <1>2 DEF Telling, Refreshing
<1>5. Counted(t)'
  BY <1>2, <1>3 DEF Counted, CycleOnly, OperatorOnly
<1>6. \A u \in Threads \ {t} :
        proc[u].pc \in {"send", "settle", "complete"} =>
          proc[u].command # c
  BY NobodyElseSends
<1>. QED
  BY <1>2, <1>4, <1>5, <1>6, TellChange

(***************************************************************************)
(* The gates: the thread is at their step, with an empty list, and what a  *)
(* step presupposes was told is in the log.                                *)
(***************************************************************************)
Given(t, c, label) ==
  /\ t \in Threads /\ At(t, proc[t].pc) /\ proc[t].pc = label
  /\ Working(t) /\ c = proc[t].command
  /\ c \in Commands /\ c \in saved
  /\ commands[c] \in CommandRecord /\ InStep(t)
  /\ Telling(t) /\ Counted(t) /\ Known(t) = Log(c)

(***************************************************************************)
(* What a thread that is at such a step is given.                          *)
(***************************************************************************)
LEMMA AtStep ==
  ASSUME IInv, AInv, NEW t \in Threads, NEW label \in WorkLabels \ {"save"},
         At(t, label)
  PROVE  \E c \in Commands : Given(t, c, label)
<1>1. Working(t) /\ proc[t].pc = label /\ proc[t].events = <<>>
  BY DEF At, Working
<1>2. PICK c \in Commands : c = proc[t].command
  BY <1>1, WorkingFacts
<1>3. c \in saved /\ commands[c] \in CommandRecord
  BY <1>1, <1>2, WorkingFacts DEF InStep, HasCommand
<1>4. Known(t) = Log(c)
  BY <1>1, <1>2, ElementsOfLists DEF Known, Queue
<1>. QED
  BY <1>1, <1>2, <1>3, <1>4, WorkingFacts DEF Given, At, AInv

(***************************************************************************)
(* The policy result is told and is so.                                    *)
(***************************************************************************)
LEMMA TellApplyPolicy ==
  ASSUME IInv, IInv', AInv, ApplyPolicy
  PROVE  AInv' /\ ContractStep
<1> DEFINE t == Cycle
<1>1. t \in Threads /\ At(t, "applyPolicy")
  BY DEF ApplyPolicy, Threads
<1>2. PICK c \in Commands : Given(t, c, "applyPolicy")
  BY <1>1, AtStep DEF WorkLabels
<1>3. /\ c \in saved /\ c = proc[t].command
      /\ commands[c] \in CommandRecord /\ commands[c].status = "PLANNED"
      /\ Working(t) /\ At(t, proc[t].pc) /\ Known(t) = Log(c)
      /\ proc[t].pc = "applyPolicy" /\ Telling(t) /\ Counted(t)
  BY <1>2 DEF Given, InStep, Status
<1>4. UNCHANGED <<saved, request, audit, sent>>
  BY DEF ApplyPolicy, world
<1>5. PICK v, label, e :
        /\ v \in Verdicts
        /\ Change(c, ApplyPolicyResult(commands[c], v))
        /\ Goto(t, label, <<e>>)
        /\ \/ v = "passed" /\ label = "safety" /\ e = "CommandValidated"
           \/ v = "failed" /\ label = "end" /\ e = "CommandRejected"
  BY <1>3 DEF ApplyPolicy, Verdicts
<1>6. PICK after :
        /\ after = ApplyPolicyResult(commands[c], v)
        /\ after.status = IF v = "passed" THEN "POLICY_VALIDATED"
                                          ELSE "REJECTED_BY_POLICY"
  BY <1>3, <1>5, PolicyEffect
<1>7. commands'[c].status = after.status
  BY <1>5, <1>6 DEF Change, IInv, TypeOK
<1>8. Tells(c, e)'
  BY <1>5, <1>6, <1>7, RejectionIsSo, OthersSayNothing DEF Rejections
<1>9. ToSet(<<e>>) = {e}
  BY ElementsOfLists
<1>10. Allowed(c, StatusPhase(commands[c].status), StatusPhase(after.status))
  BY <1>3, <1>6, PhaseTable DEF Allowed, FailureStatuses
<1>11. /\ commands[c].status \notin FailureStatuses \cup Ran
       /\ after.status \notin Ran
  BY <1>3, <1>6 DEF FailureStatuses, Ran
<1>12. proc[t].attempt = 0 /\ "CommandCreated" \in Log(c)
  BY <1>3 DEF Counted, Telling, CycleOnly
<1>13. Change(c, after)
  BY <1>5, <1>6
<1>. QED
  BY <1>1, <1>3, <1>4, <1>5, <1>8, <1>9, <1>10, <1>11, <1>12, <1>13, WorkTells

(***************************************************************************)
(* The safety gate: a block or a rejection is told only of a command that  *)
(* is over.                                                                *)
(***************************************************************************)
LEMMA TellSafetyGate ==
  ASSUME IInv, IInv', AInv, SafetyGate
  PROVE  AInv' /\ ContractStep
<1>1. PICK c \in Commands : Given(Cycle, c, "safety")
  BY AtStep DEF SafetyGate, WorkLabels, Threads
<1>2. /\ c \in saved /\ c = proc[Cycle].command
      /\ commands[c] \in CommandRecord
      /\ commands[c].status = "POLICY_VALIDATED"
      /\ Working(Cycle) /\ At(Cycle, proc[Cycle].pc) /\ Known(Cycle) = Log(c)
      /\ proc[Cycle].pc = "safety" /\ Telling(Cycle) /\ Counted(Cycle)
      /\ Cycle \in Threads
  BY <1>1 DEF Given, InStep, Status
<1>3. UNCHANGED <<saved, request, audit, sent>>
  BY DEF SafetyGate, world
<1>4. PICK v, label, events :
        /\ v \in Verdicts
        /\ Change(c, ApplySafetyAssessment(commands[c], v))
        /\ Goto(Cycle, label, events)
        /\ \/ v = "passed" /\ label = "risk" /\ events = <<>>
           \/ /\ v = "failed" /\ label = "end"
              /\ events \in {<<"CommandRejected">>,
                             <<"CommandBlockedBySafety">>}
  BY <1>2 DEF SafetyGate, SafetyVerdicts, Verdicts
<1>5. PICK after :
        /\ after = ApplySafetyAssessment(commands[c], v)
        /\ after.status = IF v = "passed" THEN "SAFETY_VALIDATED"
                                          ELSE "BLOCKED_BY_SAFETY"
  BY <1>2, <1>4, SafetyEffect
<1>6. commands'[c].status = after.status
  BY <1>4, <1>5 DEF Change, IInv, TypeOK
<1>7. /\ v = "passed" => ToSet(events) = {}
      /\ v = "failed" =>
           ToSet(events) \subseteq
             {"CommandRejected", "CommandBlockedBySafety"}
  BY <1>4, ElementsOfLists
<1>8. \A e \in ToSet(events) : Tells(c, e)'
  BY <1>4, <1>5, <1>6, <1>7, RejectionIsSo DEF Rejections
<1>9. Allowed(c, StatusPhase(commands[c].status), StatusPhase(after.status))
  BY <1>2, <1>5, PhaseTable DEF Allowed, FailureStatuses
<1>10. /\ commands[c].status \notin FailureStatuses \cup Ran
       /\ after.status \notin Ran
  BY <1>2, <1>5 DEF FailureStatuses, Ran
<1>11. /\ proc[Cycle].attempt = 0
       /\ {"CommandCreated", "CommandValidated"} \subseteq Log(c)
  BY <1>2 DEF Counted, Telling, CycleOnly
<1>12. Change(c, after)
  BY <1>4, <1>5
<1>. QED
  BY <1>2, <1>3, <1>4, <1>8, <1>9, <1>10, <1>11, <1>12, WorkTells

(***************************************************************************)
(* The risk gate: with the level the whole assessment is told.             *)
(***************************************************************************)
LEMMA TellRiskGate ==
  ASSUME IInv, IInv', AInv, RiskGate
  PROVE  AInv' /\ ContractStep
<1>1. PICK c \in Commands : Given(Cycle, c, "risk")
  BY AtStep DEF RiskGate, WorkLabels, Threads
<1>2. /\ c \in saved /\ c = proc[Cycle].command
      /\ commands[c] \in CommandRecord
      /\ commands[c].status = "SAFETY_VALIDATED"
      /\ Working(Cycle) /\ At(Cycle, proc[Cycle].pc) /\ Known(Cycle) = Log(c)
      /\ proc[Cycle].pc = "risk" /\ Telling(Cycle) /\ Counted(Cycle)
      /\ Cycle \in Threads
  BY <1>1 DEF Given, InStep, Status
<1>3. UNCHANGED <<saved, request, audit, sent>>
  BY DEF RiskGate, world
<1>4. PICK level, after, label, e :
        /\ level \in RiskLevels
        /\ Change(c, after) /\ Goto(Cycle, label, <<e>>)
        /\ \/ /\ label = "end" /\ e = "CommandRejected"
              /\ after = RejectByRisk(ApplyRiskAssessment(commands[c], level))
           \/ /\ label = "route" /\ e = "RiskAssessed"
              /\ after = ApplyRiskAssessment(commands[c], level)
  BY <1>2 DEF RiskGate, AssessedLevels, RiskLevels
<1>5. PICK assessed \in CommandRecord :
        /\ assessed = ApplyRiskAssessment(commands[c], level)
        /\ assessed.status = "RISK_ASSESSED"
  <2>1. ApplyRiskAssessment(commands[c], level) \in CommandRecord
    BY <1>2, <1>4, MethodsKeepRecord
       DEF Verdicts, ApprovalOutcomes, ExecutionOutcomes
  <2>. QED
    BY <1>2, <1>4, <2>1, RiskEffect
<1>6. after.status = IF label = "route" THEN "RISK_ASSESSED"
                                        ELSE "REJECTED_BY_RISK"
  BY <1>4, <1>5, RouteEffect
<1>7. commands'[c].status = after.status
  BY <1>4 DEF Change, IInv, TypeOK
<1>8. ToSet(<<e>>) = {e} /\ Tells(c, e)'
  BY <1>4, <1>6, <1>7, RejectionIsSo, OthersSayNothing, ElementsOfLists
     DEF Rejections
<1>9. Allowed(c, StatusPhase(commands[c].status), StatusPhase(after.status))
  BY <1>2, <1>4, <1>6, PhaseTable DEF Allowed, FailureStatuses
<1>10. /\ commands[c].status \notin FailureStatuses \cup Ran
       /\ after.status \notin Ran
  BY <1>2, <1>4, <1>6 DEF FailureStatuses, Ran
<1>11. /\ proc[Cycle].attempt = 0
       /\ {"CommandCreated", "CommandValidated"} \subseteq Log(c)
  BY <1>2 DEF Counted, Telling, CycleOnly
<1>. QED
  BY <1>2, <1>3, <1>4, <1>8, <1>9, <1>10, <1>11, WorkTells DEF Assessed

(***************************************************************************)
(* The rejection of a CRITICAL command.                                    *)
(***************************************************************************)
LEMMA TellRejectCritical ==
  ASSUME IInv, IInv', AInv, RejectCritical
  PROVE  AInv' /\ ContractStep
<1>1. PICK c \in Commands : Given(Cycle, c, "route")
  BY AtStep DEF RejectCritical, WorkLabels, Threads
<1>2. /\ c \in saved /\ c = proc[Cycle].command
      /\ commands[c] \in CommandRecord /\ commands[c].status = "RISK_ASSESSED"
      /\ Working(Cycle) /\ At(Cycle, proc[Cycle].pc) /\ Known(Cycle) = Log(c)
      /\ proc[Cycle].pc = "route" /\ Telling(Cycle) /\ Counted(Cycle)
      /\ Cycle \in Threads
  BY <1>1 DEF Given, InStep, Status
<1>3. UNCHANGED <<saved, request, audit, sent>>
  BY DEF RejectCritical, world
<1>4. PICK after : /\ after = RejectByRisk(commands[c])
                   /\ after.status = "REJECTED_BY_RISK"
  BY <1>2, RouteEffect
<1>5. Change(c, after) /\ Goto(Cycle, "end", <<"CommandRejected">>)
  BY <1>2, <1>4 DEF RejectCritical
<1>6. commands'[c].status = after.status
  BY <1>5 DEF Change, IInv, TypeOK
<1>7. \A e \in ToSet(<<"CommandRejected">>) : Tells(c, e)'
  BY <1>4, <1>6, RejectionIsSo, ElementsOfLists DEF Rejections
<1>8. Allowed(c, StatusPhase(commands[c].status), StatusPhase(after.status))
  BY <1>2, <1>4, PhaseTable DEF Allowed, FailureStatuses
<1>9. /\ commands[c].status \notin FailureStatuses \cup Ran
      /\ after.status \notin Ran
  BY <1>2, <1>4 DEF FailureStatuses, Ran
<1>. QED
  BY <1>2, <1>3, <1>5, <1>7, <1>8, <1>9, WorkTells

(***************************************************************************)
(* The automatic approval completes what a send has to have told.          *)
(***************************************************************************)
LEMMA TellRouteToDispatch ==
  ASSUME IInv, AInv, RouteToDispatch
  PROVE  AInv' /\ ContractStep
<1>1. PICK c \in Commands : Given(Cycle, c, "route")
  BY AtStep DEF RouteToDispatch, WorkLabels, Threads
<1>2. /\ c \in saved /\ c = proc[Cycle].command
      /\ commands[c] \in CommandRecord /\ commands[c].status = "RISK_ASSESSED"
      /\ Working(Cycle) /\ At(Cycle, proc[Cycle].pc) /\ Known(Cycle) = Log(c)
      /\ proc[Cycle].pc = "route" /\ Telling(Cycle) /\ Counted(Cycle)
      /\ Cycle \in Threads
  BY <1>1 DEF Given, InStep, Status
<1>3. UNCHANGED <<saved, request, audit, sent>>
  BY DEF RouteToDispatch, world
<1>4. PICK after : /\ after = AutoApprove(commands[c])
                   /\ after.status = "AUTO_APPROVED"
  BY <1>2, RouteEffect
<1>5. Change(c, after) /\ Goto(Cycle, "dispatch", <<"CommandApproved">>)
  BY <1>2, <1>4 DEF RouteToDispatch
<1>6. ToSet(<<"CommandApproved">>) = {"CommandApproved"}
  BY ElementsOfLists
<1>7. Tells(c, "CommandApproved")'
  BY OthersSayNothing
<1>8. Allowed(c, StatusPhase(commands[c].status), StatusPhase(after.status))
  BY <1>2, <1>4, PhaseTable DEF Allowed, DispatchableStatuses
<1>9. /\ commands[c].status \notin FailureStatuses \cup Ran
      /\ after.status \notin Ran
  BY <1>2, <1>4 DEF FailureStatuses, Ran
<1>10. proc[Cycle].attempt = 0 /\ Assessed \subseteq Log(c)
  BY <1>2 DEF Counted, Telling, CycleOnly
<1>. QED
  BY <1>2, <1>3, <1>5, <1>6, <1>7, <1>8, <1>9, <1>10, WorkTells DEF Cleared

(***************************************************************************)
(* The pause for a person, while an operator may be deciding already.      *)
(***************************************************************************)
LEMMA TellAwait ==
  ASSUME IInv, AInv, Await
  PROVE  AInv' /\ ContractStep
<1>1. /\ Cycle \in Threads /\ proc[Cycle].pc = "await"
      /\ At(Cycle, proc[Cycle].pc)
      /\ UNCHANGED <<saved, request, audit, sent>>
  BY DEF Await, At, Threads, world
<1>2. PICK c \in Commands :
        /\ c = proc[Cycle].command /\ c \in saved
        /\ commands[c] \in CommandRecord
        /\ commands[c].status = "RISK_ASSESSED"
  BY <1>1 DEF IInv, TypeOK, ThreadsInStep, InStep, HasCommand, Status
<1>3. PICK after : /\ after = AwaitApproval(commands[c])
                   /\ after.status = "AWAITING_APPROVAL"
  BY <1>2, RouteEffect
<1>4. Change(c, after) /\ Goto(Cycle, "end", <<"ApprovalRequested">>)
  BY <1>2, <1>3 DEF Await
<1>5. \A e \in ToSet(<<"ApprovalRequested">>) : Tells(c, e)'
  BY OthersSayNothing, ElementsOfLists
<1>6. Allowed(c, StatusPhase(commands[c].status), StatusPhase(after.status))
  BY <1>2, <1>3, PhaseTable DEF Allowed
<1>7. /\ commands[c].status \notin FailureStatuses \cup Ran
      /\ after.status \notin Ran
  BY <1>2, <1>3 DEF FailureStatuses, Ran
<1>. QED
  BY <1>1, <1>2, <1>4, <1>5, <1>6, <1>7, WorkTells

(***************************************************************************)
(* Storing the request, after the assessment was told.                     *)
(***************************************************************************)
LEMMA TellRouteToOperator ==
  ASSUME IInv, AInv, RouteToOperator
  PROVE  AInv' /\ ContractStep
<1>1. PICK c \in Commands : Given(Cycle, c, "route")
  BY AtStep DEF RouteToOperator, WorkLabels, Threads
<1>2. /\ c \in saved /\ c = proc[Cycle].command
      /\ commands[c].status = "RISK_ASSESSED"
      /\ Working(Cycle) /\ At(Cycle, proc[Cycle].pc) /\ Known(Cycle) = Log(c)
      /\ proc[Cycle].pc = "route" /\ Telling(Cycle) /\ Counted(Cycle)
      /\ Cycle \in Threads
  BY <1>1 DEF Given, InStep, Status
<1>3. /\ UNCHANGED <<commands, saved, audit, sent>>
      /\ request' = [request EXCEPT ![c] = "pending"]
      /\ Goto(Cycle, "await", <<>>)
  BY <1>2 DEF RouteToOperator, world
<1>4. Untouched(c)
  BY <1>3 DEF Untouched, IInv, TypeOK
<1>5. Assessed \subseteq Log(c) /\ proc[Cycle].attempt = 0
  BY <1>2 DEF Telling, Counted, CycleOnly
<1>6. Log(c)' = Log(c) /\ \A e : Tells(c, e)' <=> Tells(c, e)
  BY <1>3 DEF Log, Tells
<1>7. Told(c)'
  BY <1>3, <1>5, <1>6 DEF AInv, Told
<1>8. /\ \A u \in Threads \ {Cycle} : proc'[u] = proc[u]
      /\ proc'[Cycle].pc = "await" /\ proc'[Cycle].events = <<>>
      /\ proc'[Cycle].command = c /\ proc'[Cycle].attempt = proc[Cycle].attempt
      /\ Queue(Cycle)' = ToSet(<<>>)
      /\ Known(Cycle)' = Log(c) \cup ToSet(<<>>)
  BY <1>2, <1>3, Moved
<1>9. Telling(Cycle)' /\ Counted(Cycle)'
  BY <1>5, <1>8, ElementsOfLists
     DEF Telling, Counted, Refreshing, CycleOnly, OperatorOnly
<1>10. \A u \in Threads \ {Cycle} :
         proc[u].pc \in {"send", "settle", "complete"} =>
           proc[u].command # c
  BY <1>2, NobodyElseSends
<1>11. AInv'
  BY <1>2, <1>4, <1>6, <1>7, <1>8, <1>9, <1>10, TellFrame
<1>. QED
  BY <1>3, <1>11, PhasesStay

(***************************************************************************)
(* A decision changes the request of an assessed command.                  *)
(***************************************************************************)
LEMMA TellDecideRequest ==
  ASSUME IInv, AInv, NEW t \in Operators, DecideRequest(t)
  PROVE  AInv' /\ ContractStep
<1>1. /\ t \in Threads /\ At(t, proc[t].pc) /\ proc[t].pc = "decide"
      /\ UNCHANGED <<commands, saved, audit, sent>>
  BY DEF DecideRequest, Threads, At, world
<1>2. PICK c \in Commands : c = proc[t].command
  BY <1>1 DEF IInv, ThreadsInStep, InStep, HasCommand
<1>3. CASE Return(t) /\ UNCHANGED request
  BY <1>1, <1>3, GiveUpStep
<1>4. CASE /\ request[c] = "pending"
           /\ request' = [request EXCEPT ![c] = proc[t].decision]
           /\ Goto(t, "apply", <<>>)
  <2>1. Untouched(c)
    BY <1>1, <1>4 DEF Untouched, IInv, TypeOK
  <2>2. Log(c)' = Log(c) /\ \A e : Tells(c, e)' <=> Tells(c, e)
    BY <1>1 DEF Log, Tells
  <2>3. Told(c)'
    BY <1>1, <1>4, <2>2 DEF AInv, Told
  <2>4. /\ \A u \in Threads \ {t} : proc'[u] = proc[u]
        /\ proc'[t].pc = "apply" /\ proc'[t].events = <<>>
        /\ proc'[t].command = c /\ proc'[t].attempt = proc[t].attempt
        /\ Queue(t)' = ToSet(<<>>)
        /\ Counted(t)
    BY <1>1, <1>2, <1>4, Moved
  <2>5. Telling(t)'
    BY <2>4, ElementsOfLists DEF Telling, Refreshing
  <2>6. Counted(t)'
    BY <1>1, <2>4 DEF Counted, CycleOnly, OperatorOnly
  <2>7. commands[c].status \in {"RISK_ASSESSED", "AWAITING_APPROVAL"}
    BY <1>4 DEF IInv, CommandsInOrder, Asked
  <2>8. ASSUME NEW u \in Threads \ {t},
               proc[u].pc \in {"send", "settle", "complete"}
        PROVE  proc[u].command # c
    <3>1. Working(u) /\ InStep(u)
      BY <2>8 DEF Working, WorkLabels, IInv, ThreadsInStep
    <3>. QED
      BY <2>7, <2>8, <3>1 DEF InStep, Status
  <2>9. AInv'
    BY <1>1, <2>1, <2>2, <2>3, <2>4, <2>5, <2>6, <2>8, TellFrame
  <2>. QED
    BY <1>1, <2>9, PhasesStay
<1>. QED
  BY <1>2, <1>3, <1>4 DEF DecideRequest

(***************************************************************************)
(* A decision that is applied is told; one that comes before the command   *)
(* waits raises and tells nothing.                                         *)
(***************************************************************************)
LEMMA TellApplyDecision ==
  ASSUME IInv, IInv', AInv, NEW t \in Operators, ApplyDecision(t)
  PROVE  AInv' /\ ContractStep
<1>1. t \in Threads /\ At(t, "apply")
  BY DEF Threads, ApplyDecision
<1>2. PICK c \in Commands : Given(t, c, "apply")
  BY <1>1, AtStep DEF WorkLabels
<1>3. /\ c \in saved /\ c = proc[t].command
      /\ commands[c] \in CommandRecord
      /\ commands[c].status \in {"RISK_ASSESSED", "AWAITING_APPROVAL"}
      /\ proc[t].decision \in {"APPROVED", "REJECTED", "MODIFIED"}
      /\ request[c] # "absent"
      /\ Working(t) /\ At(t, proc[t].pc) /\ Counted(t)
      /\ proc[t].pc = "apply"
  BY <1>2 DEF Given, InStep, Status, Request
<1>4. UNCHANGED <<saved, request, audit, sent>>
  BY DEF ApplyDecision, world
<1>5. PICK after, new :
        /\ after = Decided(t)
        /\ new = IF Approves(t) THEN "APPROVED" ELSE "REJECTED_BY_OPERATOR"
        /\ after.status = IF commands[c].status = "AWAITING_APPROVAL"
                            THEN new ELSE commands[c].status
  <2>1. proc[t].decision \in ApprovalOutcomes
    BY <1>3 DEF ApprovalOutcomes
  <2>2. CASE Approves(t)
    <3>1. Decided(t) = Approve(commands[c], proc[t].decision)
      BY <1>3, <2>2 DEF Decided
    <3>. QED
      BY <1>3, <2>1, <2>2, <3>1, DecisionEffect
  <2>3. CASE ~Approves(t)
    <3>1. Decided(t) = RejectByOperator(commands[c], proc[t].decision)
      BY <1>3, <2>3 DEF Decided
    <3>. QED
      BY <1>3, <2>1, <2>3, <3>1, DecisionEffect
  <2>. QED
    BY <2>2, <2>3
<1>6. Change(c, after)
  BY <1>3, <1>5 DEF ApplyDecision
<1>7. commands'[c].status = after.status
  BY <1>6 DEF Change, IInv, TypeOK
<1>8. Assessed \subseteq Log(c) /\ proc[t].attempt = 0
  BY <1>3 DEF AInv, Told, Counted, OperatorOnly
<1>9. /\ commands[c].status \notin FailureStatuses \cup Ran
      /\ after.status \notin Ran
  BY <1>3, <1>5 DEF FailureStatuses, Ran
<1>10. CASE commands[c].status # "AWAITING_APPROVAL"
  <2>1. Return(t)
    BY <1>3, <1>10 DEF ApplyDecision
  <2>2. \A u \in Threads \ {t} : proc'[u] = proc[u]
    BY <1>1, <2>1, ReturnMoves DEF IInv
  <2>3. Telling(t)' /\ Counted(t)'
    BY <1>1, <2>1, ReturnMoves, IdleOwesNothing DEF IInv
  <2>4. \A u \in Threads \ {t} :
          proc[u].pc \in {"send", "settle", "complete"} =>
            proc[u].command # c
    BY <1>1, <1>3, NobodyElseSends
  <2>5. Allowed(c, StatusPhase(commands[c].status), StatusPhase(after.status))
    BY <1>5, <1>10 DEF Allowed
  <2>. QED
    BY <1>1, <1>3, <1>4, <1>6, <1>9, <2>2, <2>3, <2>4, <2>5, TellChange
<1>11. CASE commands[c].status = "AWAITING_APPROVAL"
  <2>1. PICK label, e :
          /\ Goto(t, label, <<e>>)
          /\ \/ /\ label = "dispatch" /\ e = "CommandApproved"
                /\ after.status = "APPROVED"
             \/ /\ label = "end" /\ e = "CommandRejected"
                /\ after.status = "REJECTED_BY_OPERATOR"
    BY <1>3, <1>5, <1>11 DEF ApplyDecision
  <2>2. ToSet(<<e>>) = {e} /\ Tells(c, e)'
    BY <1>7, <2>1, RejectionIsSo, OthersSayNothing, ElementsOfLists
       DEF Rejections
  <2>3. Allowed(c, StatusPhase(commands[c].status), StatusPhase(after.status))
    BY <1>11, <2>1, PhaseTable
       DEF Allowed, FailureStatuses, DispatchableStatuses
  <2>. QED
    BY <1>1, <1>3, <1>4, <1>6, <1>8, <1>9, <2>1, <2>2, <2>3, WorkTells
       DEF Cleared
<1>. QED
  BY <1>10, <1>11

(***************************************************************************)
(* The dispatch starts the count of the calls, with everything a send      *)
(* presupposes told.                                                       *)
(***************************************************************************)
LEMMA TellDispatch ==
  ASSUME IInv, AInv, NEW t \in Threads, DispatchCommand(t)
  PROVE  AInv' /\ ContractStep
<1>1. PICK c \in Commands : Given(t, c, "dispatch")
  BY AtStep DEF DispatchCommand, WorkLabels
<1>2. /\ c \in saved /\ c = proc[t].command
      /\ commands[c] \in CommandRecord
      /\ commands[c].status \in DispatchableStatuses
      /\ Working(t) /\ At(t, proc[t].pc) /\ Known(t) = Log(c)
      /\ proc[t].pc = "dispatch" /\ Telling(t) /\ Counted(t)
  BY <1>1 DEF Given, InStep, Status
<1>3. UNCHANGED <<saved, request, audit, sent>>
  BY DEF DispatchCommand, world
<1>4. PICK after : /\ after = Dispatch(commands[c])
                   /\ after.status = "DISPATCHED"
  BY <1>2, DispatchEffect
<1>5. Change(c, after) /\ Goto(t, "send", <<>>)
  BY <1>2, <1>4 DEF DispatchCommand
<1>6. ToSet(<<>>) = {}
  BY ElementsOfLists
<1>7. Allowed(c, StatusPhase(commands[c].status), StatusPhase(after.status))
  BY <1>2, <1>4, PhaseTable DEF Allowed
<1>8. /\ commands[c].status \notin FailureStatuses \cup Ran
      /\ after.status \notin Ran
  BY <1>2, <1>4 DEF FailureStatuses, Ran, DispatchableStatuses
<1>9. proc[t].attempt = 0 /\ Cleared \subseteq Log(c)
  BY <1>2 DEF Counted, Telling
<1>10. sent[c] = 0
  <2>1. Asked(c) /\ sent[c] \in Nat
    BY DEF IInv, CommandsInOrder, TypeOK
  <2>. QED
    BY <1>2, <2>1 DEF Asked, PostDispatch, DispatchableStatuses
<1>. QED
  BY <1>2, <1>3, <1>5, <1>6, <1>7, <1>8, <1>9, <1>10, WorkTells
-----------------------------------------------------------------------------
(***************************************************************************)
(* What the methods after the acknowledgement store.                       *)
(***************************************************************************)
LEMMA ReportsStored ==
  ASSUME NEW c \in CommandRecord, NEW v \in Verdicts
  PROVE  /\ MarkExecuted(c, "SUCCESS").execution_result = "SUCCESS"
         /\ Verify(c, v).verification_result = v
         /\ Verify(c, v).execution_result = c.execution_result
         /\ Complete(c).verification_result = c.verification_result
         /\ Complete(c).execution_result = c.execution_result
BY DEF MarkExecuted, Verify, Complete, Transition, CommandRecord

(***************************************************************************)
(* Settling: only a reported success is told as an execution.              *)
(***************************************************************************)
LEMMA TellSettle ==
  ASSUME IInv, AInv, NEW t \in Threads, Settle(t)
  PROVE  AInv' /\ ContractStep
<1>1. PICK c \in Commands : Given(t, c, "settle")
  BY AtStep DEF Settle, WorkLabels
<1>2. /\ c \in saved /\ c = proc[t].command
      /\ commands[c] \in CommandRecord /\ commands[c].status = "DISPATCHED"
      /\ Working(t) /\ At(t, proc[t].pc) /\ Known(t) = Log(c)
      /\ proc[t].pc = "settle" /\ Telling(t) /\ Counted(t)
  BY <1>1 DEF Given, InStep, Status
<1>3. UNCHANGED <<saved, request, audit, sent>>
  BY DEF Settle, world
<1>4. sent[c] > 0 /\ commands[c].status \notin FailureStatuses \cup Ran
  BY <1>2 DEF Counted, FailureStatuses, Ran
<1>5. PICK acknowledged \in CommandRecord :
        /\ acknowledged = Acknowledge(commands[c])
        /\ acknowledged.status = "ACKNOWLEDGED"
  <2>1. Acknowledge(commands[c]) \in CommandRecord
    BY <1>2, MethodsKeepRecord
       DEF Verdicts, RiskLevels, ApprovalOutcomes, ExecutionOutcomes
  <2>. QED
    BY <1>2, <2>1, AcknowledgeEffect
<1>6. CASE \/ /\ Change(c, MarkDispatchFailed(commands[c]))
              /\ Goto(t, "end", <<"CommandFailed">>)
           \/ /\ Change(c, TimeoutExecution(acknowledged, "TIMED_OUT"))
              /\ Goto(t, "end", <<"CommandTimedOut">>)
           \/ \E reply \in {"FAILED", "CANCELLED"} :
                /\ Change(c, MarkExecutionFailed(acknowledged, reply))
                /\ Goto(t, "end", <<"CommandFailed">>)
  <2>1. PICK after, e :
          /\ Change(c, after) /\ Goto(t, "end", <<e>>)
          /\ e \in {"CommandFailed", "CommandTimedOut"}
          /\ after.status \in {"DISPATCH_FAILED", "TIMED_OUT",
                               "EXECUTION_FAILED"}
    <3>1. MarkDispatchFailed(commands[c]).status = "DISPATCH_FAILED"
      BY <1>2, AcknowledgeEffect
    <3>2. \A reply \in ExecutionOutcomes :
            /\ TimeoutExecution(acknowledged, reply).status = "TIMED_OUT"
            /\ MarkExecutionFailed(acknowledged, reply).status =
                 "EXECUTION_FAILED"
      BY <1>5, ReportEffect
    <3>3. CASE /\ Change(c, MarkDispatchFailed(commands[c]))
               /\ Goto(t, "end", <<"CommandFailed">>)
      BY <3>1, <3>3
    <3>4. CASE /\ Change(c, TimeoutExecution(acknowledged, "TIMED_OUT"))
               /\ Goto(t, "end", <<"CommandTimedOut">>)
      BY <3>2, <3>4 DEF ExecutionOutcomes
    <3>5. CASE \E reply \in {"FAILED", "CANCELLED"} :
                 /\ Change(c, MarkExecutionFailed(acknowledged, reply))
                 /\ Goto(t, "end", <<"CommandFailed">>)
      BY <3>2, <3>5 DEF ExecutionOutcomes
    <3>. QED
      BY <1>6, <3>3, <3>4, <3>5
  <2>2. \A f \in ToSet(<<e>>) : Tells(c, f)'
    BY <2>1, OthersSayNothing, ElementsOfLists
  <2>3. Allowed(c, StatusPhase(commands[c].status), StatusPhase(after.status))
    BY <1>2, <2>1, PhaseTable DEF Allowed, FailureStatuses
  <2>4. after.status \notin Ran
    BY <2>1 DEF Ran
  <2>. QED
    BY <1>2, <1>3, <1>4, <2>1, <2>2, <2>3, <2>4, WorkTells
<1>7. CASE /\ Change(c, MarkExecuted(acknowledged, "SUCCESS"))
           /\ proc' = [proc EXCEPT ![t] =
                [@ EXCEPT !.pc = "ingest", !.then = "verify",
                          !.events = <<"CommandDispatched",
                                       "CommandAcknowledged",
                                       "CommandExecuted">>]]
  <2>1. PICK after :
          /\ Change(c, after)
          /\ after.status = "EXECUTED" /\ after.execution_result = "SUCCESS"
    BY <1>5, <1>7, ReportEffect, ReportsStored DEF ExecutionOutcomes, Verdicts
  <2> DEFINE events == <<"CommandDispatched", "CommandAcknowledged",
                         "CommandExecuted">>
             q == [proc[t] EXCEPT !.pc = "ingest", !.then = "verify",
                                  !.events = events]
  <2>2. ToSet(events) =
          {"CommandDispatched", "CommandAcknowledged", "CommandExecuted"}
    BY ElementsOfLists
  <2> HIDE DEF events
  <2>3. q.pc = "ingest" /\ q.then = "verify" /\ q.command = c
        /\ q.events = events
    BY <1>2 DEF IInv, TypeOK, ThreadState
  <2>4. proc' = [proc EXCEPT ![t] = q]
    BY <1>7 DEF events
  <2> HIDE DEF q
  <2>5. /\ \A u \in Threads \ {t} : proc'[u] = proc[u]
        /\ proc'[t] = q
    BY <2>4 DEF IInv, TypeOK
  <2>6. commands'[c] = after
    BY <2>1 DEF Change, IInv, TypeOK
  <2>7. \A e \in ToSet(events) : Tells(c, e)'
    BY <2>1, <2>2, <2>6 DEF Tells, Ran
  <2>8. Queue(t)' = ToSet(events)
    BY <2>3, <2>5 DEF Queue
  <2>9. Telling(t)'
    BY <2>2, <2>3, <2>5, <2>7, <2>8 DEF Telling, Refreshing, Known
  <2>10. Counted(t)'
    BY <2>3, <2>5 DEF Counted, CycleOnly, OperatorOnly
  <2>11. \A u \in Threads \ {t} :
           proc[u].pc \in {"send", "settle", "complete"} =>
             proc[u].command # c
    BY <1>2, NobodyElseSends
  <2>12. Allowed(c, StatusPhase(commands[c].status), StatusPhase(after.status))
    BY <1>2, <2>1, PhaseTable DEF Allowed
  <2>. QED
    BY <1>2, <1>3, <1>4, <2>1, <2>5, <2>9, <2>10, <2>11, <2>12, TellChange
<1>. QED
  BY <1>2, <1>5, <1>6, <1>7 DEF Settle

(***************************************************************************)
(* The verification keeps the execution result and stores its own.         *)
(***************************************************************************)
LEMMA TellVerify ==
  ASSUME IInv, AInv, NEW t \in Threads, VerifyCommand(t)
  PROVE  AInv' /\ ContractStep
<1>1. PICK c \in Commands : Given(t, c, "verify")
  BY AtStep DEF VerifyCommand, WorkLabels
<1>2. /\ c \in saved /\ c = proc[t].command
      /\ commands[c] \in CommandRecord /\ commands[c].status = "EXECUTED"
      /\ Working(t) /\ At(t, proc[t].pc) /\ Known(t) = Log(c)
      /\ proc[t].pc = "verify" /\ Telling(t) /\ Counted(t)
  BY <1>1 DEF Given, InStep, Status
<1>3. UNCHANGED <<saved, request, audit, sent>>
  BY DEF VerifyCommand, world
<1>4. "CommandExecuted" \in Log(c) /\ sent[c] > 0
  BY <1>2 DEF Telling, AInv, Told, Ran
<1>5. PICK v, label, e, after :
        /\ v \in Verdicts
        /\ after = Verify(commands[c], v) /\ Change(c, after)
        /\ Goto(t, label, <<e>>)
        /\ \/ v = "passed" /\ label = "complete" /\ e = "ExecutionVerified"
           \/ v = "failed" /\ label = "end" /\ e = "VerificationFailed"
  BY <1>2 DEF VerifyCommand, VerificationVerdicts, Verdicts
<1>6. /\ after.status = IF v = "passed" THEN "VERIFIED"
                                        ELSE "VERIFICATION_FAILED"
      /\ after.verification_result = v
      /\ after.execution_result = commands[c].execution_result
  BY <1>2, <1>5, VerifyEffect, ReportsStored
<1>7. commands'[c] = after
  BY <1>5 DEF Change, IInv, TypeOK
<1>8. ToSet(<<e>>) = {e} /\ Tells(c, e)'
  BY <1>5, OthersSayNothing, ElementsOfLists
<1>9. /\ \A u \in Threads \ {t} : proc'[u] = proc[u]
      /\ proc'[t].pc = label /\ proc'[t].events = <<e>>
      /\ proc'[t].command = c
      /\ Queue(t)' = ToSet(<<e>>)
      /\ Known(t)' = Log(c) \cup ToSet(<<e>>)
  BY <1>2, <1>3, <1>5, Moved
<1>10. Telling(t)'
  BY <1>4, <1>5, <1>6, <1>7, <1>8, <1>9 DEF Telling, Refreshing
<1>11. Counted(t)'
  BY <1>5, <1>9 DEF Counted, CycleOnly, OperatorOnly
<1>12. \A u \in Threads \ {t} :
         proc[u].pc \in {"send", "settle", "complete"} =>
           proc[u].command # c
  BY <1>2, NobodyElseSends
<1>13. Allowed(c, StatusPhase(commands[c].status), StatusPhase(after.status))
  BY <1>2, <1>5, <1>6, PhaseTable DEF Allowed, FailureStatuses
<1>14. after.status \in Ran
  BY <1>5, <1>6 DEF Ran
<1>. QED
  BY <1>2, <1>3, <1>4, <1>5, <1>6, <1>9, <1>10, <1>11, <1>12, <1>13, <1>14,
     TellChange

(***************************************************************************)
(* A completion is told of a command whose execution was told and which    *)
(* telemetry confirmed.                                                    *)
(***************************************************************************)
LEMMA TellComplete ==
  ASSUME IInv, AInv, NEW t \in Threads, CompleteCommand(t)
  PROVE  AInv' /\ ContractStep
<1>1. PICK c \in Commands : Given(t, c, "complete")
  BY AtStep DEF CompleteCommand, WorkLabels
<1>2. /\ c \in saved /\ c = proc[t].command
      /\ commands[c] \in CommandRecord /\ commands[c].status = "VERIFIED"
      /\ Working(t) /\ At(t, proc[t].pc) /\ Known(t) = Log(c)
      /\ proc[t].pc = "complete" /\ Telling(t) /\ Counted(t)
  BY <1>1 DEF Given, InStep, Status
<1>3. UNCHANGED <<saved, request, audit, sent>>
  BY DEF CompleteCommand, world
<1>4. /\ "CommandExecuted" \in Log(c) /\ sent[c] > 0
      /\ commands[c].verification_result = "passed"
  BY <1>2 DEF Telling, AInv, Told, Ran
<1>5. PICK after :
        /\ Change(c, after)
        /\ after.status = "COMPLETED"
        /\ after.verification_result = commands[c].verification_result
        /\ after.execution_result = commands[c].execution_result
  BY <1>2, CompleteEffect, ReportsStored DEF CompleteCommand, Verdicts
<1>6. Goto(t, "end", <<"CommandCompleted">>)
  BY DEF CompleteCommand
<1>7. commands'[c] = after
  BY <1>5 DEF Change, IInv, TypeOK
<1>8. /\ \A u \in Threads \ {t} : proc'[u] = proc[u]
      /\ proc'[t].pc = "end" /\ proc'[t].events = <<"CommandCompleted">>
      /\ proc'[t].command = c
      /\ Queue(t)' = ToSet(<<"CommandCompleted">>)
  BY <1>2, <1>3, <1>6, Moved
<1>9. Tells(c, "CommandCompleted")'
  <2>1. Log(c)' = Log(c)
    BY <1>3 DEF Log
  <2>. QED
    BY <1>4, <1>5, <1>7, <2>1 DEF Tells
<1>10. Telling(t)'
  BY <1>8, <1>9, ElementsOfLists DEF Telling, Refreshing
<1>11. Counted(t)'
  BY <1>8 DEF Counted, CycleOnly, OperatorOnly
<1>12. \A u \in Threads \ {t} :
         proc[u].pc \in {"send", "settle", "complete"} =>
           proc[u].command # c
  BY <1>2, NobodyElseSends
<1>13. Allowed(c, StatusPhase(commands[c].status), StatusPhase(after.status))
  BY <1>2, <1>4, <1>5, PhaseTable DEF Allowed
<1>14. after.status \in Ran
  BY <1>5 DEF Ran
<1>. QED
  BY <1>2, <1>3, <1>4, <1>5, <1>8, <1>10, <1>11, <1>12, <1>13, <1>14,
     TellChange

(***************************************************************************)
(* A call on the hardware: everything it presupposes is in the log, and    *)
(* the contract has a call left.                                           *)
(***************************************************************************)
LEMMA TellSend ==
  ASSUME IInv, AInv, NEW t \in Threads, SendOnce(t)
  PROVE  AInv' /\ ContractStep
<1>1. PICK c \in Commands : Given(t, c, "send")
  BY AtStep DEF SendOnce, WorkLabels
<1>2. /\ c \in saved /\ c = proc[t].command /\ TypeOK
      /\ commands[c] \in CommandRecord /\ commands[c].status = "DISPATCHED"
      /\ Working(t) /\ At(t, proc[t].pc) /\ Known(t) = Log(c)
      /\ proc[t].pc = "send" /\ proc[t].events = <<>> /\ proc[t].command = c
      /\ proc[t] \in ThreadState
      /\ Telling(t) /\ Counted(t)
  BY <1>1 DEF Given, InStep, Status, At, IInv, TypeOK
<1>3. /\ UNCHANGED <<commands, saved, request, audit>>
      /\ sent' = [sent EXCEPT ![c] = @ + 1]
  BY <1>2 DEF SendOnce, aggregates
<1>4. /\ Cleared \subseteq Log(c) /\ sent[c] = proc[t].attempt
      /\ proc[t].attempt \in 0..MaxRetries /\ MaxRetries \in Nat
  BY <1>2, ConstantsAssumption DEF Telling, Counted, ThreadState
<1>5. /\ sent'[c] = proc[t].attempt + 1 /\ sent'[c] > 0
      /\ \A d \in Commands \ {c} : sent'[d] = sent[d]
  BY <1>2, <1>3, <1>4 DEF TypeOK
<1>6. PICK q :
        /\ proc' = [proc EXCEPT ![t] = q]
        /\ q.command = c /\ q.events = <<>>
        /\ \/ q.pc = "send" /\ q.attempt = proc[t].attempt + 1
           \/ q.pc = "settle"
  <2>1. PICK reply :
          proc' = [proc EXCEPT ![t] =
                     IF Retries(t, reply)
                       THEN [@ EXCEPT !.attempt = proc[t].attempt + 1]
                       ELSE [@ EXCEPT !.pc = "settle", !.reply = reply]]
    BY DEF SendOnce
  <2> DEFINE again == [proc[t] EXCEPT !.attempt = proc[t].attempt + 1]
             over == [proc[t] EXCEPT !.pc = "settle", !.reply = reply]
  <2>2. /\ again.command = c /\ again.events = <<>>
        /\ again.pc = "send" /\ again.attempt = proc[t].attempt + 1
        /\ over.command = c /\ over.events = <<>> /\ over.pc = "settle"
    BY <1>2 DEF ThreadState
  <2>3. \/ proc' = [proc EXCEPT ![t] = again]
        \/ proc' = [proc EXCEPT ![t] = over]
    BY <2>1
  <2> HIDE DEF again, over
  <2>. QED
    BY <2>2, <2>3
<1>7. /\ \A u \in Threads \ {t} : proc'[u] = proc[u]
      /\ proc'[t] = q
  BY <1>2, <1>6 DEF TypeOK
<1>8. Untouched(c)
  BY <1>3, <1>5 DEF Untouched
<1>9. \A e : Tells(c, e) => Tells(c, e)'
  BY <1>2, NothingSaidYet DEF FailureStatuses, Ran
<1>10. Told(c)'
  <2>1. Told(c) /\ Log(c)' = Log(c)
    BY <1>3 DEF AInv, Log
  <2>. QED
    BY <1>3, <1>4, <1>5, <1>9, <2>1 DEF Told, Cleared
<1>11. Queue(t)' = {} /\ Known(t)' = Log(c)
  BY <1>3, <1>6, <1>7, ElementsOfLists DEF Queue, Known, Log
<1>12. Telling(t)'
  BY <1>4, <1>6, <1>7, <1>11 DEF Telling, Refreshing
<1>13. Counted(t)'
  BY <1>5, <1>6, <1>7 DEF Counted, CycleOnly, OperatorOnly
<1>14. \A u \in Threads \ {t} :
         proc[u].pc \in {"send", "settle", "complete"} =>
           proc[u].command # c
  BY <1>2, NobodyElseSends
<1>15. AInv'
  <2>1. Log(c) \subseteq Log(c)'
    BY <1>3 DEF Log
  <2>. QED
    BY <1>7, <1>8, <1>9, <1>10, <1>12, <1>13, <1>14, <2>1, TellFrame
<1>16. ContractStep
  <2>1. PhaseOf(c) = "inflight"
    BY <1>2, PhaseIsOfStatus, PhaseTable
  <2>2. [d \in Commands |-> PhaseOf(d)]' = [d \in Commands |-> PhaseOf(d)]
    BY <1>3, PhaseIsOfStatus
  <2>3. sent[c] < MaxRetries + 1
    BY <1>4
  <2>4. Contract!CallHardware(c)
    BY <1>3, <2>1, <2>2, <2>3 DEF Contract!CallHardware
  <2>. QED
    BY <2>4 DEF ContractStep, Contract!ContractNext
<1>. QED
  BY <1>15, <1>16

(***************************************************************************)
(* Planning: the new command starts with an empty log, and nobody else has *)
(* it.                                                                     *)
(***************************************************************************)
LEMMA TellPlan ==
  ASSUME IInv, AInv, NEW c \in Commands, Plan(c)
  PROVE  AInv' /\ ContractStep
<1> DEFINE t == Cycle
<1>1. /\ TypeOK /\ t \in Threads /\ proc[t] \in ThreadState
      /\ proc[t].pc = "plan" /\ c \notin saved
      /\ Gated(c) /\ Asked(c) /\ Counted(t) /\ Told(c)
      /\ UNCHANGED <<saved, request, sent>>
  BY DEF IInv, AInv, TypeOK, Threads, Plan, At, CommandsInOrder, world
<1>2. /\ commands[c].status = "PLANNED" /\ request[c] = "absent"
      /\ sent[c] = 0
  BY <1>1 DEF Gated, Asked, Sendable, PostDispatch, DispatchableStatuses,
     TypeOK
<1>3. /\ commands'[c] = NewCommand /\ commands'[c].status = "PLANNED"
      /\ audit'[c] = <<>>
      /\ \A d \in Commands \ {c} : /\ commands'[d] = commands[d]
                                   /\ audit'[d] = audit[d]
  BY <1>1 DEF Plan, Change, TypeOK, NewCommand
<1>4. Untouched(c)
  BY <1>1, <1>3 DEF Untouched
<1> DEFINE events == <<"CommandCreated">>
           q == [proc[t] EXCEPT !.pc = "save", !.command = c,
                                !.events = events]
<1>5. ToSet(events) = {"CommandCreated"}
  BY ElementsOfLists
<1> HIDE DEF events
<1>6. /\ q.pc = "save" /\ q.command = c /\ q.events = events
      /\ q.attempt = proc[t].attempt
  BY <1>1 DEF ThreadState
<1>7. proc' = [proc EXCEPT ![t] = q]
  BY DEF Plan, events
<1> HIDE DEF q
<1>8. /\ \A u \in Threads \ {t} : proc'[u] = proc[u]
      /\ proc'[t] = q
  BY <1>1, <1>7 DEF TypeOK
<1>9. \A e : Tells(c, e) => Tells(c, e)'
  BY <1>2, NothingSaidYet DEF FailureStatuses, Ran
<1>10. Log(c)' = {}
  BY <1>3, ElementsOfLists DEF Log
<1>11. Told(c)'
  BY <1>1, <1>2, <1>3, <1>10 DEF Told, Ran
<1>12. Queue(t)' = {"CommandCreated"}
  BY <1>5, <1>6, <1>8 DEF Queue
<1>13. Telling(t)'
  <2>1. \A e \in Queue(t)' : Tells(c, e)'
    BY <1>12, OthersSayNothing
  <2>. QED
    BY <1>6, <1>8, <1>12, <2>1 DEF Telling, Known, Refreshing
<1>14. Counted(t)'
  BY <1>1, <1>6, <1>8 DEF Counted, CycleOnly, OperatorOnly
<1>15. \A u \in Threads \ {t} : HasCommand(u) => proc[u].command # c
  BY <1>1 DEF IInv, ThreadsInStep, InStep, Placed, InPlace, CycleOnly
<1>16. \A u \in Threads \ {t} :
         proc[u].pc \in {"send", "settle", "complete"} =>
           proc[u].command # c
  BY <1>15 DEF HasCommand, Working, WorkLabels
<1>17. AInv'
  BY <1>1, <1>4, <1>8, <1>9, <1>11, <1>13, <1>14, <1>15, <1>16, TellFrame
<1>18. Allowed(c, PhaseOf(c), PhaseOf(c)')
  BY <1>1, PhaseIsOfStatus DEF Allowed
<1>. QED
  BY <1>1, <1>3, <1>17, <1>18, PhaseStep

(***************************************************************************)
(* Saving proposes the command.                                            *)
(***************************************************************************)
LEMMA TellSave ==
  ASSUME IInv, AInv, Save
  PROVE  AInv' /\ ContractStep
<1> DEFINE t == Cycle
<1>1. /\ t \in Threads /\ proc[t].pc = "save" /\ At(t, proc[t].pc)
      /\ Working(t) /\ Goto(t, "policy", <<>>)
      /\ UNCHANGED <<commands, request, audit, sent>>
  BY DEF Save, At, Threads, Working, WorkLabels, world
<1>2. PICK c \in Commands : /\ c = proc[t].command /\ c \notin saved
                            /\ commands[c].status = "PLANNED"
                            /\ saved' = saved \cup {c}
  BY <1>1, WorkingFacts DEF InStep, Status, Save
<1>3. /\ \A u \in Threads \ {t} : proc'[u] = proc[u]
      /\ proc'[t].pc = "policy" /\ proc'[t].events = <<>>
      /\ proc'[t].command = c /\ proc'[t].attempt = proc[t].attempt
      /\ Queue(t)' = {} /\ Known(t)' = Log(c) /\ Known(t) = Log(c)
      /\ Telling(t) /\ Counted(t)
  <2>1. At(t, proc[t].pc) /\ Goto(t, "policy", <<>>) /\ UNCHANGED audit
    BY <1>1
  <2>2. /\ Telling(t) /\ Counted(t)
        /\ \A u \in Threads \ {t} : proc'[u] = proc[u]
        /\ proc'[t].pc = "policy" /\ proc'[t].events = <<>>
        /\ proc'[t].command = c /\ proc'[t].attempt = proc[t].attempt
        /\ Known(t) = Log(c)
        /\ Queue(t)' = ToSet(<<>>)
        /\ Known(t)' = Log(c) \cup ToSet(<<>>)
    BY <1>1, <1>2, <2>1, Moved
  <2>3. ToSet(<<>>) = {}
    BY ElementsOfLists
  <2>. QED
    BY <2>2, <2>3
<1>4. Telling(t)'
  BY <1>1, <1>3 DEF Telling, Refreshing
<1>5. Counted(t)'
  BY <1>1, <1>3 DEF Counted, CycleOnly, OperatorOnly
<1>6. Untouched(c)
  BY <1>1 DEF Untouched
<1>7. Log(c)' = Log(c) /\ \A e : Tells(c, e)' <=> Tells(c, e)
  BY <1>1 DEF Log, Tells
<1>8. Told(c)'
  BY <1>1, <1>7 DEF AInv, Told
<1>9. \A u \in Threads \ {t} :
        proc[u].pc \in {"send", "settle", "complete"} =>
          proc[u].command # c
  BY <1>1, <1>2, NobodyElseSends
<1>10. AInv'
  BY <1>1, <1>3, <1>4, <1>5, <1>6, <1>7, <1>8, <1>9, TellFrame
<1>11. Allowed(c, PhaseOf(c), PhaseOf(c)')
  BY <1>1, <1>2, PhaseIsOfStatus, PhaseTable DEF Allowed
<1>. QED
  BY <1>1, <1>2, <1>10, <1>11, PhaseStep
-----------------------------------------------------------------------------
(***************************************************************************)
(* In an initial state nothing is told, and the contract is as it starts.  *)
(***************************************************************************)
LEMMA NothingToldAtFirst ==
  ASSUME Init
  PROVE  AInv /\ Contract!ContractInit
<1>1. ASSUME NEW t \in Threads PROVE Telling(t) /\ Counted(t)
  <2>1. /\ proc[t].pc = "idle" /\ proc[t].events = <<>>
        /\ proc[t].attempt = 0
    BY DEF Init, Idle
  <2>2. Queue(t) = {}
    BY <2>1, ElementsOfLists DEF Queue
  <2>. QED
    BY <2>1, <2>2 DEF Telling, Counted, Refreshing
<1>2. ASSUME NEW c \in Commands PROVE Told(c) /\ PhaseOf(c) = "absent"
  <2>1. /\ request[c] = "absent" /\ sent[c] = 0 /\ audit[c] = <<>>
        /\ commands[c].status = "PLANNED" /\ c \notin saved
    BY DEF Init, NewCommand
  <2>2. Log(c) = {}
    BY <2>1, ElementsOfLists DEF Log
  <2>. QED
    BY <2>1, <2>2, PhaseIsOfStatus DEF Told, Ran
<1>3. Contract!ContractInit
  BY <1>2 DEF Contract!ContractInit, Init
<1>. QED
  BY <1>1, <1>2, <1>3 DEF AInv

(***************************************************************************)
(* Every step keeps the log true and is a step of the contract.            *)
(***************************************************************************)
LEMMA EveryStepTells ==
  ASSUME IInv, IInv', AInv, [Next]_vars
  PROVE  AInv' /\ ContractStep
<1>1. CASE RunStep
  BY <1>1, TellStartCycle, TellPlan, TellRefuse, TellSave, TellPolicyGate,
     TellApplyPolicy, TellSafetyGate, TellRiskGate, TellRejectCritical,
     TellRouteToOperator, TellAwait, TellRouteToDispatch
     DEF RunStep, GateStep
<1>2. ASSUME NEW t \in Operators,
             ApprovalStep(t) \/ \E c \in Commands : LoadPending(t, c)
      PROVE  AInv' /\ ContractStep
  BY <1>2, TellResume, TellDecideRequest, TellApplyDecision, TellLoadPending
     DEF ApprovalStep
<1>3. ASSUME NEW t \in Threads, DispatchStep(t)
      PROVE  AInv' /\ ContractStep
  BY <1>3, TellDispatch, TellSend, TellSettle, TellVerify, TellComplete
     DEF DispatchStep
<1>4. ASSUME NEW t \in Threads,
             \/ RefreshStep(t) \/ AuditAppend(t)
             \/ AuditRaises(t) \/ StoreRaises(t)
      PROVE  AInv' /\ ContractStep
  BY <1>4, TellRefresh, TellAuditAppend, TellAuditRaises, TellStoreRaises
     DEF RefreshStep
<1>5. CASE StoreLost \/ InverterChanges
  BY <1>5, TellOutside
<1>6. CASE UNCHANGED vars
  <2>1. AInv'
    BY <1>6, TellNothing DEF vars
  <2>2. UNCHANGED <<commands, saved, sent>>
    BY <1>6 DEF vars
  <2>. QED
    BY <2>1, <2>2, PhasesStay
<1>. QED
  BY <1>1, <1>2, <1>3, <1>4, <1>5, <1>6 DEF Next

(***************************************************************************)
(* The invariant of the log holds in every reachable state.                *)
(***************************************************************************)
LEMMA LogsAreTrue == Spec => []AInv
<1>1. Init => AInv
  BY NothingToldAtFirst
<1>2. IInv /\ IInv' /\ AInv /\ [Next]_vars => AInv'
  BY EveryStepTells
<1>. QED
  BY <1>1, <1>2, Invariance, PTL DEF Spec

(***************************************************************************)
(* Audited reads the log.                                                  *)
(***************************************************************************)
LEMMA LogHasAudited ==
  \A c : \A e : Audited(c, e) <=> e \in Log(c)
BY DEF Audited, Log, ToSet

(***************************************************************************)
(* Audit before act: a command on the hardware has its creation,           *)
(* validation, risk and approval in the log, whatever the log did in       *)
(* between.                                                                *)
(***************************************************************************)
THEOREM SendsAreAudited == Spec => []SentIsAudited
<1>1. AInv => SentIsAudited
  <2> SUFFICES ASSUME AInv, NEW c \in Commands, sent[c] > 0
               PROVE  \A e \in {"CommandCreated", "CommandValidated",
                                "RiskAssessed", "CommandApproved"} :
                        Audited(c, e)
    BY DEF SentIsAudited
  <2>. QED
    BY LogHasAudited DEF AInv, Told, Cleared, Assessed
<1>. QED
  BY <1>1, LogsAreTrue, PTL

(***************************************************************************)
(* The audit log tells the truth: what it says of a rejection, a block, an *)
(* execution and a completion is so, in every later state as well.         *)
(***************************************************************************)
THEOREM AuditIsTrue == Spec => []AuditTellsTheTruth
<1>1. AInv => AuditTellsTheTruth
  <2> SUFFICES ASSUME AInv, NEW c \in Commands
               PROVE  \A e \in Log(c) : Tells(c, e)
    BY LogHasAudited DEF AuditTellsTheTruth, Tells
  <2>. QED
    BY DEF AInv, Told
<1>. QED
  BY <1>1, LogsAreTrue, PTL

(***************************************************************************)
(* The pipeline implements the contract: with PhaseOf for the phase of a   *)
(* command, its initial state is the contract's and every step is one of   *)
(* the contract's or none.                                                 *)
(***************************************************************************)
THEOREM PipelineImplementsContract == Spec => ImplementsContract
<1>1. Init => Contract!ContractInit
  BY NothingToldAtFirst
<1>2. IInv /\ IInv' /\ AInv /\ [Next]_vars =>
        [Contract!ContractNext]_(Contract!contractVars)
  BY EveryStepTells DEF ContractStep
<1>. QED
  BY <1>1, <1>2, Invariance, LogsAreTrue, PTL
     DEF Spec, ImplementsContract, Contract!ContractSpec

=============================================================================
