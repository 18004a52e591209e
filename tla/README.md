# SolarOps-AI: a TLA+ model

SolarOps-AI watches a solar site (array, battery, inverter, grid, building
load), recommends actions, and turns a recommendation into a command that
passes policy, safety and risk gates and, when it must, a person, before it
reaches the hardware. The hardware of this version is a simulated digital twin.
These modules model the path from a reading to a verified command, the threads
that run it, and the gates that release forecast models and anomaly detectors;
they check them with TLC, and with TLAPS they prove every invariant and every
action property that the passing runs check, for all values of the constants.
Paths below are relative to `src/src/solarops/`.

## 1. Inventory

| component | state | operations | hard behaviour |
|---|---|---|---|
| **execution / Command** (`execution/domain/command.py`) | status, six gate outcomes | one method per transition, `cancel` | any caller, any order; an outcome is stored before the status is checked |
| **execution / pipeline** (`execution/application`) | command and request repositories, audit log | `run`, `resume_after_approval`, `dispatch`, `verify` | operators' threads race each other and the cycle; the audit log and the store may raise in the middle; retries |
| **safety** | current policy, limits | three gates without state of their own | two gates read the store separately; a verdict grows old while a command is paused |
| **telemetry** | the store's current `EnergyState` | `ingest`, `update`, `get_current` | refreshed by several threads without a lock; Redis may lose it or raise |
| **simulation** | battery, inverter, grid, load, weather, simulated time | `tick`, commands, fault injection | bounds of the state of charge; trips; time that is not the clock's |
| **decision** | none | `recommend`, confidence | which rules can ever succeed; age of a reading |
| **forecast, anomaly** | registries of models and detectors, stored results | train and register, forecast, score | the training gate; a model that is fitted while in use |
| **platform** | decision-cycle lock, last grid status, scheduler task | `run_decision_cycle`, `refresh_telemetry`, scheduler start and stop | mutual exclusion, stop during a cycle, notifications |
| **api** | none | the routes, on a thread pool | a check in the endpoint and the act later |
| workflow, observability, dashboards, scripts | none that the program reads back | | |

How they interact: the scheduler or `POST /decision-cycle` calls
`run_decision_cycle`, which refreshes telemetry (twin to store), asks the
optimiser and calls `ExecutionPipeline.run`. The pipeline reads the store in the
safety gate and again in the risk gate. Low and medium risk goes on to the
hardware at once; high risk or low confidence saves an `ApprovalRequest` and
pauses. An approval endpoint resumes it, on its own thread and without the
cycle's lock. After the call of the hardware the pipeline refreshes telemetry
and verifies the effect. Every step appends to the audit log.

What makes each correct, in a sentence: a command skips no gate, never goes back
and ends once (Command); only what was approved is sent, within its retries,
and the log tells the truth (pipeline); a gate that cannot judge rejects
(safety); a reading is never replaced by an older one, and a verification sees
one that follows its command (telemetry); the state of charge stays in its
bounds (simulation); a rule for an outage can act in one (decision); only what
passed its gate serves (forecast, anomaly); cycles exclude each other, and a
stopped scheduler is quiet (platform).

## 2. The modules

| module | models |
|---|---|
| `Command` | the aggregate: an operator per method, from record to record |
| `CommandLifecycle` | one Command under arbitrary callers |
| `CommandContract` | what the execution context promises of a command, without its machinery |
| `ExecutionPipeline` | the pipeline on its threads, with repositories, audit log, store and twin |
| `DigitalTwin` | weather, panels, battery, inverter, load and grid: commands, faults, ticks |
| `SafetyGates` | policy, safety and risk as functions of a command, a reading and a configuration |
| `Optimiser` | the rules, the safety filter, the safe default and the caution |
| `Confidence` | the confidence estimate and its bands |
| `SiteOperation` | composes the last four: decision cycles, faults and persons on one site |
| `TelemetryRefresh` | `refresh_telemetry` on any number of threads |
| `AutoDecisionCycle` | composes it with the scheduler, the lock and the endpoints |
| `ModelGate` | fitting, evaluating, releasing and using forecast models |
| `DetectorGate` | the detectors, their evaluation and release, and the scoring of a reading |
| `ReadingAnalysis` | composes the last two with the readings that come in |
| `MCExecutionPipeline`, `MCSiteOperation`, `MCAutoDecisionCycle`, `MCReadingAnalysis` | instances for TLC |
| `CommandTheorems` | lemmas on the methods of the aggregate |
| `CommandProofs` | theorems about `CommandLifecycle` |
| `ExecutionPipelineProofs` | theorems about the states of `ExecutionPipeline` |
| `ContractProofs` | theorems about its audit log, and that it implements `CommandContract` |
| `SiteTheorems` | lemmas on the twin, the gates and the optimiser, as functions |
| `SiteOperationProofs` | theorems about `SiteOperation` |
| `AutoDecisionCycleProofs` | theorems about `AutoDecisionCycle` |
| `ReadingAnalysisProofs` | theorems about `ReadingAnalysis` and the two gates in it |

The system is too large to be one state machine. Each composition asks its own
question and leaves out what the others ask: `ExecutionPipeline` has the threads
and the failures and leaves the verdicts of the gates open; `SiteOperation` has
the verdicts' arithmetic and takes a gate as a step; `AutoDecisionCycle` has the
readings' order and not their contents; `ReadingAnalysis` has the models and
detectors that a refresh asks.

**Command.** A method is an operator on the record. A method that the status
refuses raises in Python; here it returns the record with the status it had. A
method that carries a gate outcome has stored it by then, because it assigns its
field before it calls `_transition`: the operators do the same, so a refused
call may overwrite an outcome. An outcome is reduced to what the transitions
look at (passed or failed, the level, the kind of decision).

**ExecutionPipeline.** A thread (`proc[t]`) has a label, the command it works on
and its local variables. `Cycle` is the thread inside `run_decision_cycle`:
`_decision_cycle_lock` lets one in at a time, so one process stands for all of
them, one cycle after another. `Operators` are threads of the approval
endpoints. An action is the code between two accesses to state that other
threads see:

| action | code |
|---|---|
| `StartCycle`, `Ingest`, `Publish` | start of the cycle; `refresh_telemetry`: the twin is read, then the store is written |
| `Plan`, `RefuseDuplicate`, `Save` | idempotency check, `CommandPlanner.plan`, save |
| `PolicyGate`, `ApplyPolicy`, `SafetyGate`, `RiskGate` | the gates of `run` |
| `RejectCritical`, `RouteToOperator`, `Await`, `RouteToDispatch` | the risk gate's rejection and `ApprovalEngine.route`: the request is saved in one step, the command awaits it in the next |
| `LoadPending`, `Resume`, `DecideRequest`, `ApplyDecision` | the endpoint's check, the second look of `resume_after_approval`, `ApprovalRequest.decide`, `Command.approve` or `reject_by_operator` |
| `DispatchCommand`, `SendOnce`, `Settle` | `ExecutionManager.dispatch`: the status, each call of the hardware, the transitions its last reply leads to |
| `VerifyCommand`, `CompleteCommand` | `VerificationService.verify`, `complete` |
| `AuditAppend`, `AuditRaises` | `_audit`: the events of a step are appended one by one, and each may raise |
| `StoreRaises`, `StoreLost` | Redis |
| `InverterChanges` | a trip, a recovery or the fault endpoint |

A method of an aggregate is one step. CPython switches threads at calls and
backward jumps; between the test and the assignment of `ApprovalRequest.decide`,
and of `_transition`, there is neither. The repositories keep the aggregates
themselves, so the saves after the first change nothing and have no step.

Data is reduced to what the gates and the verification tell apart: parameters
are `within` the hard limits or `over` them; a reading is a battery mode and
whether the inverter has a fault; temperature, state of charge, grid and margins
are the choice among verdicts that `SafetyVerdicts`, `AssessedLevels` and
`VerificationVerdicts` leave. The hardware may give every reply of its port, also
`TIMED_OUT`, which the twin never gives, and a call that timed out or raised may
have had its effect. `sent` and `sentOver` are history.

Two idealisations are worth knowing. A recommendation whose run ended before its
command was saved may be planned again, under a new command id in the code; the
model reuses the name and starts its log afresh. The actions are those the twin
executes; the others come back `BLOCKED`, which is a reply here anyway.

**CommandContract.** A command is proposed, may be authorised, starts, puts at
most `MaxSends` calls on the hardware, and ends either succeeded or closed.
`ExecutionPipeline` implements it with `phase` read off the repository and the
status (`PhaseOf`), and `MaxSends = MaxRetries + 1`.

**SiteOperation.** Energy and power are whole units of one tick's length, so a unit of
power moves a unit of charge; what charging loses on the way in is a unit that may not
arrive (`Stored`). The clamps of `BatteryModel.set_command` and `step` are translated,
for they bound the state of charge: each keeps to the limit it moves towards and lets
a negative power through (`EnergyMoved`, `SocAfter`). A reading cannot be built from a
charge outside 0 to 100 % (`StateOfCharge`) or a temperature far beyond the battery's:
then the tick raises after the battery has advanced (`TickRaises`), and the cycle or
the endpoint with it. `Weather` gives, for a time of day and a cover of clouds, the
sun (a parabola for the sine of `_clear_sky_irradiance`) and the demand of the
building. Temperatures are the levels the gates compare with. Confidence is computed
in thousandths, from the three kinds of forecast; the composition registers a model
for the solar one only (`SolarOnlyAssumption`).

| action | code |
|---|---|
| `StartCycle` | `run_decision_cycle` begins with `refresh_telemetry`: the twin's tick and its publication (`Published`), or a tick that raises (`Raised`) |
| `Decide` | `current_decision_context` and `RuleBasedOptimiser.recommend`, on the reading in the store and any age, anomalies and forecasts |
| `Judge`, `Assess`, `CloseRejected` | the policy and safety gates; the risk gate and the route, with readings of their own; the end of a rejected command |
| `Send`, `Verify` | `SimulatedHardwareInterface.send`; the refresh before the verification |
| `Approve`, `Reject` | a person, at any time, with the command's amount or any other number: `modified_params` is a dictionary nobody validates |
| `SimulateFault`, `RefreshAfterFault` | `POST /simulate/fault` |

**AutoDecisionCycle.** A thread has a label and the reading in its hands. A
reading is its grid status, and two marks that say what has happened since:
`newest` until the twin ticks again, `settled` when it was taken after the last
command. `asked` is the grid status the notifier was last asked to tell. Whether the
message arrives is nothing the program knows: `_send` swallows its failures and
`NullNotifier` drops it. `alone` and `overlapped` are history.

| action | code |
|---|---|
| `Start`, `Wake`, `CycleReturned`, `Stop` | `AutoDecisionCycleScheduler` and the lifespan of the API |
| `RequestCycle`, `AcquireLock`, `Decide`, `Send`, `Verify`, `Fail` | `run_decision_cycle` and the pipeline within; `Fail` is an exception that unwinds the thread |
| `InjectFault`, `ApproveCommand` | the two endpoints that refresh outside the lock |
| `Ingest`, `Update`, `Score`, `Compare`, `Assign` (`Refresh`), `IngestRaises` | the steps of `refresh_telemetry`; the notifier is asked in `Compare`, the status remembered in `Assign`; an ingestion that raises has moved the twin on |

**ReadingAnalysis.** A forecast model is its *skill*: the error it makes under each
condition, or that it raises. A condition is a benchmark scenario or one that no
scenario has (`Unseen`), and a live reading is taken under either (`Like`).
`EvaluateAndRegister` and `TrainAndEvaluate` are the two calls of `TrainingService`; a
fit changes the object where it stands, released or not. `EvaluateDetector` and
`TrainForest` are those of `DetectorTrainingService`: a detector is run, tick by tick,
on the fault scenarios (`Trials`) and goes live for the types it is `Cleared` for. The
rule and the statistical detector are translated; the isolation forest is a ranking of
the features it puts an unusual reading down to, the loads that were usual in its
training, and whether it finds every reading unusual. `Analyse` is what a refresh does
with a reading that it has taken in and published: lengthen the history, forecast,
score. A refresh that raises before that changes nothing here; it is `IngestRaises`
and `Fail` of `AutoDecisionCycle`. `refitted` and `retrained` are history. The
composition calls the gates at its start, the scripts call them for all models and
detectors; here any of them is called at any time.

## 3. The properties and what each run shows

| run | instance | checks |
|---|---|---|
| `command_lifecycle` | one command, every method and argument | `TypeOK`, `NoGateSkipped`, `TerminalIsFinal`, `ForwardOnly` |
| `pipeline` | one command, two operators, one retry, audit log and store fail | `TypeOK`, `SendAuthorised`, `DecisionAgreement`, `SentIsAudited`, `AuditTellsTheTruth`, `ImplementsContract` |
| `pipeline_liveness` | one command, one operator, one retry | `EveryCommandSettles` |
| `site_operation` | five units of charge, two times of day, three configurations, two faults, persons who ask for 9 units of power | `FilterAgreesWithSafety`, `SentOnSoundReading`, `OutageActionsComeTooLate`, `UnattendedSendsAreConfident`, `ConfidenceIsNeverHigh` |
| `site_amounts` | the evening, one configuration, an outage and its end, persons who ask for 9 or for -3 units of power | `TypeOK`, `LimitsHoldUntilReversed`, `ShedLoadStaysShed` |
| `auto_cycle` | one thread of each kind, three requests, one exception | `TypeOK`, `CyclesExclude`, `AloneReadsTheNewest`, `AskedWhatIsRemembered`, `StopIsFinal`, `RequestsAreServed`, `SchedulerSurvives`, `RemembersTheGrid` |
| `reading_analysis` | four models, five detectors, three scenarios and a condition without one, three gate calls | `TypeOK`, `OnlyARefitServesTheUncleared`, `UntestedIsNeverReported`, `OnlyTheUntestedRaises`, `OnlyARefitBeliesTheRecord`, `ReleasesOnlyImprove`, `RecallNeverFalls` |
| `pipeline_orphan` | one command, one operator | violates `PausedCanBeResumed` |
| `pipeline_failsafe` | one command, store fails | violates `FailSafeRejects` |
| `pipeline_modify` | one command, one operator | violates `OverLimitsNeverSent` |
| `site_outage` | as `site_operation` | violates `OutageReliefIsNotCritical` |
| `site_reversed` | as `site_amounts` | violates `BatteryWithinLimits` |

The last five are disagreements between the code and its own text:

- An operator who decides in the moment between the save of the request and
  `await_approval` has the decision consumed and the command refused; the cycle
  then pauses the command for ever.
- A store that raises in `SafetyValidator.validate` is not turned into
  `FailSafeTriggered`, because the read is outside the `try`; the command stays
  `POLICY_VALIDATED`.
- The parameters of a MODIFY decision, which the router's note says are only
  recorded, are dispatched, and no gate sees them.
- The optimiser exempts its commands for an outage from caution, to "keep the
  lights on"; but a grid that is not connected makes the ingestion call the site
  offline, and the risk gate makes every command of an offline site CRITICAL.
  None of them can be sent while the outage lasts.
- The battery's model calls itself a hard physical constraint that always clamps
  to the limits (`simulation/domain/models/battery.py:17-19`). It takes the smaller
  of the power asked for and the rated one, so a negative power passes, and each
  direction minds one limit only: a MODIFY decision with a negative power discharges
  a "charging" battery past its minimum, or charges a "discharging" one past its
  maximum, until a reading can no longer be built and every refresh raises.

**What the other properties say**, and what one would not guess from the code:

- `NoGateSkipped`, `SendAuthorised`: the aggregate keeps its callers from skipping a
  gate, and not from passing one that said no: `auto_approve` and `await_approval`
  look at the status and not at the level. That a CRITICAL command is never
  dispatched, which docs/08 section 7 has the aggregate enforce, is enforced by
  `ExecutionPipeline.run`.
- `LimitsHoldUntilReversed`: verdicts may be old and amounts unchecked when a command
  reaches the battery; it is the battery's own clamps that keep the limits, and
  nothing but a negative power from a person gets past them.
- `FilterAgreesWithSafety`: the optimiser's filter and the gates state the same
  limits twice. They agree but for the inverter's status and the hard ceiling on
  shedding, which the filter does not look at.
- `SentOnSoundReading` and `OutageActionsComeTooLate`: the risk gate's own read of
  the store catches a trip or an outage published after the safety gate; the
  price is that discharging and shedding get through only when the grid has come
  back since they were recommended. HOLD is rejected then as well, so a battery
  that is charging goes on charging.
- `UnattendedSendsAreConfident`, `ConfidenceIsNeverHigh`: in the weighted sum, an
  old reading, two anomalies, or one without a forecast always cost the MEDIUM
  band; and as only a solar forecast is registered, HIGH is out of reach
  (`test_confidence_estimator.py` reaches it with all forecasts).
- `ShedLoadStaysShed`: `RESTORE_LOAD` exists and nothing recommends it.
- `AloneReadsTheNewest`, `AskedWhatIsRemembered`: what a refresh promises holds for a
  thread that no other ran beside, and not without that: refreshes that overlap
  may store an older reading over a newer one, verify against a reading taken
  before the command, and ask for a change of the grid twice or not at all:
  `refresh_telemetry` compares, asks the notifier, which may take seconds, and assigns
  without a lock, so of two refreshes one may ask for the outage and the other,
  which compared its older reading before, remember the connected grid last.
  What they do not spoil is stated by `RemembersTheGrid`. Asking is all the program
  does: delivery is best effort.
- `StopIsFinal`: after `stop` no automatic cycle begins. The one in its thread, or
  waiting there for the lock, still runs to its end, commands and all.
- `OnlyARefitServesTheUncleared`, `OnlyTheUntestedRaises`: the gates let nothing
  through that fails them, but the fit is in place: a released model that is retrained
  and refused serves on with its new parameters, under the metrics and the version it
  was released with ("No model is released unless it passes",
  `docs/phase6a-forecasting-brief.md:18`). If it raises, each refresh ends before
  anomalies are scored and the grid is compared. So it does when a cleared model
  raises on a reading unlike every scenario: the gate can promise nothing of that. The
  detectors do better: a live one raises on no reading at all.
- `RecallNeverFalls` speaks of the recall on record, and
  `OnlyARefitBeliesTheRecord` says when the record is true of what is live:
  always, but for a forest that was fitted again and refused, which stays live with the
  new fit, for the types and with the recalls of the old one
  (`detector_training_service.py:11` has "A type that misses its target stays
  uncovered"). `RecallNeverFalls`
  holds for a type that stays cleared. One that is refused
  because its recall fell loses its record (`Replace`), so the same worse detector
  passes at the next call; `phase6b`'s brief (:69-71) allows no regression.
- `UntestedIsNeverReported`: no scenario injects a load spike, so the statistical
  detector's load check never goes live. The `phase6b` brief (:94) has "the six
  anomaly types are detectable"; `LOAD_SPIKE` is detected by two detectors and
  reported by none.

**Bounds of the pipeline.** One command is enough for what is checked:
`SendAuthorised`, `DecisionAgreement`, the audit properties and the contract speak of
each command on its own, and commands meet only in the store and the twin, where one
may change the verdict or the verification of another; both are free here to pass or
fail in any case (`InverterChanges`, `Ingest`, `SafetyVerdicts`). Two operators give
the race of two decisions; with them the request is approved, rejected and modified in
every order around `Await`. One retry gives a first and a last attempt. The intents
are a confident battery action and a load action in doubt, each within the limits or
over them and permitted or not; `pipeline_liveness`, with one operator and no
failures, has the battery action in doubt as well. Two commands are too large for a
run of minutes; the theorems cover them. `OperatorSymmetry` is used where no liveness
property is checked. No action is bounded by a state constraint: the state space of an
instance is finite, because a command that is saved is not planned again.

**Bounds of `site_operation`.** Five units of charge, with thresholds at 2, 3 and 4
and limits of 2 units of power, put every comparison of the rules, the filter and the
gates on both of its sides; noon and evening give a surplus and a deficit. The
configurations are the defaults (nothing may be shed), one that allows shedding, and
one whose policy allows more than its limits. The ages are fresh, stale in part and
stale altogether (`FreshSeconds`, `StaleSeconds`). Two faults, at any two moments, are
an outage and its end, or an outage, an inverter that trips or a battery that
overheats while another of them lasts. The persons of this run ask for the amount
recommended or for more than the battery can take. A cloudy noon doubles the states
and is left out of the run. Of commands that wait for a person one is kept at a time,
chosen freely: they meet only in the twin. One cycle is at work at a time (that the
lock sees to it is `CyclesExclude`), and one person.

**Bounds of `site_amounts`.** The evening, when the battery is discharged or charged
for its health and the load exceeds the sun; an outage and its end; the
configuration that allows shedding; persons who ask for 9 units or for -3. The limits
lie one unit inside what a reading can show, 1 to 5 of 0 to 6, so that the battery
can be seen beyond them and, further out, the tick can raise. A battery that is
driven backwards goes on for ever, so the run follows its charge to one unit beyond
what a reading can show (`ChargeIsFollowed`, a constraint; from there every tick of
the same request raises again).

**Bounds of `auto_cycle`.** An automatic cycle, a manual one and an endpoint are
the three ways to a refresh, and any two of them overlap in it; three requests let
an endpoint come twice within one cycle. One exception, at any step.
`CHECK_DEADLOCK FALSE`: with its requests used up and the loop stopped, the model
is at rest.

**Bounds of `reading_analysis`.** Three calls of the gates are a release, a second one
that is compared with it, and a third that may follow a refusal. The fits are one that
is better everywhere, one that is good on average alone, one as good that raises under
the condition no scenario has, and one that raises in a scenario; three thresholds
give rule detectors with a recall of 1, of 0.9, the target, and below it. A history of
two readings is at its limit after the second.

**Fairness** of `AutoDecisionCycle`: the event loop serves its timers and its
completions (weak fairness of `Wake` and `CycleReturned`) and a thread that can go
on does (weak fairness of its steps). `AcquireLock` is strongly fair: a
`threading.Lock` is not, but between two automatic cycles it is free for a
whole interval, again and again, and a thread that waits for it is woken.
Nothing makes a request come, a fault clear or the loop start.

**Fairness** of the pipeline (`LiveSpec`, used by `pipeline_liveness` only). Python's
threads are scheduled, the calls of the pipeline return, and so a run, a decision and
a dispatch that have begun go on: weak fairness of `GateStep`, and for each thread of
its dispatch, refresh and audit steps, and of an operator's decision once the endpoint
has been called. Nothing makes a cycle start or a person decide, which is why
`AWAITING_APPROVAL` counts as settled. Every reply of the hardware stays possible; its
retries are bounded.

Deadlock is checked in the other runs. In the pipeline it says little: the inverter
may always change, and that the threads themselves do not get stuck is what
`EveryCommandSettles` shows. In `site_operation` a new cycle can always start.

## 4. The proofs

`CommandProofs` (any sequence of calls). The status moves along the edges of a
graph (`MethodsFollow`: every method, whatever it is given, follows an edge or
stays), and a rank rises along every edge, so the command cannot return to a
status (`NeverBack`) and cannot leave a terminal one (`TerminalStays`).
`NoGateSkipped` is about the past; its strengthening says of every visited status
which ones must have been visited before it and which ones cannot have been, and
that their ranks are at most the current one. Theorems: `TypeCorrect`,
`GatesNotSkipped`, `TerminalStays`, `NeverBack`.

`ExecutionPipelineProofs` (any numbers of commands and operators, any bound on
retries, failures of the audit log and the store or none). `SendAuthorised` alone
is not inductive: a thread at `send` has no guard that looks at the gates. `IInv`
adds

- `Placed`: the cycle's labels belong to the cycle, the endpoints' to operators;
- `Exclusive`: a thread that runs a command, or has won the decision about it,
  is the only one; `Undisturbed`: while it does so no request is pending, so no
  operator can come to the same point;
- `InStep`: at each label the command has the status the label's step was
  written for. For `apply` that is two of them, because the cycle may not have
  reached `await_approval` yet;
- `Gated`: each status implies the outcomes of the gates before it;
- `Asked`: what a request says of its command, and that only a command past
  `DISPATCHED` has been sent.

A step of a thread touches one command (`Concerns`), and `Frame` carries the
invariant to all other threads and commands; `WorkStep`, `QuietStep` and
`FreeStep` are its three uses, and each action has a lemma. Theorems:
`TypeCorrect`, `SendsAuthorised`, `DecisionsAgree`. They rest on
`ConstantsAssumption`, which the runs evaluate.

`ContractProofs` (as before, any numbers and any failures). It adds to that
invariant what has been reported and counted, `AInv`:

- `Told`, of a command: a request is saved only when creation, validation and risk
  are in the log, a call goes out only when the approval is too, and every entry
  of the log tells the truth (`Tells`), also of what comes later: a rejected
  command stays rejected, an executed one keeps its result;
- `Telling`, of a thread: the same of the entries it has still to append. A
  thread appends them before it goes on, so at each label it is known which
  entries are in the log or in its hands (`Known`). That is the point of the proof:
  an append that raises takes the rest of the entries with it, but it ends the
  run as well, before the call that they should precede;
- `Counted`: at `send` the calls that went out are the attempts the thread has
  counted, which bounds them by `MaxRetries + 1`.

Each action has one lemma with two conclusions, `AInv'` and `ContractStep`: the
step is one of the contract or leaves the phases, the calls and the contract's
other variables alone. `PhaseTable` gives the phase of every status and `Allowed`
the moves a status may make, from which the step of the contract follows.
Theorems: `SendsAreAudited`, `AuditIsTrue`, `PipelineImplementsContract`.

`SiteTheorems` and `SiteOperationProofs` (any battery and thresholds, any set of site
configurations, moments, clouds, amounts a person may give, ages and numbers of
anomalies). The lemmas are about functions: `TwinLimits` and `SocStaysWithinLimits` (a
tick, with any mode and any power that is not negative, keeps the charge in its
limits), `FilterImpliesGates` (what the optimiser's filter leaves passes the gates but
for the exceptions), and the sub-scores of the confidence estimate, whose sums show
what the bands can and cannot be. The invariant follows a command from hand to hand:
`Founded` when it was recommended, `Filtered` while the site's configuration is the
same, `Routed` once the risk gate has seen it, in the thread that sends it or on the
pile of a person (`InHand`, `Sending`, `Waiting`). `Unreversed` says that as long as
no person has put a negative power in place of a recommended one, the request the
battery has is not negative either, which the limits alone would not tell.
`TypeCorrect` has no such condition: a person may ask for any integer. Theorems:
`TypeCorrect`, `OnlyAReversalBreaksLimits`, `NoUnattendedDoubt`, `HighBandIsEmpty`,
`FilterMatchesGates`, `SendsAreAssessedSound`, `OutageActionsAreLate`,
`ShedLoadNeedsAPerson`.

`AutoDecisionCycleProofs` (any number of threads, requests and exceptions).
`CyclesExclude` needs only `HolderInside`: who holds the lock is inside. The two
properties of what a refresh promises are not inductive, for they speak of its
end: `Lone` says that a thread marked `alone` is the only one active, `Fresh`
what its reading and the store are at each step in between, and `Asking` that
without an overlap the status in a thread's hands is the one the notifier was asked
to tell.
Theorems: `TypeCorrect`, `LockExcludes`, `LoneCycleIsCurrent`, `NotifierIsAsked`,
`StopEndsTheCycles`.

`ReadingAnalysisProofs` (any models, scenarios, fits, forests, detectors and
readings). `BarsAreMeasured` says that a kind with an average has an example to
measure it on, without which a release could leave a kind with no average;
`ClearedAreTested` and `LiveForestIsFitted` say what a released detector is;
`RecordStaysTrue` carries a detector's record over a fit of the forest, which in the
trials of the other detectors does not tell (`OthersIgnoreTheForest`). An
average is a sum over a finite set, and the library's sum is a recursive function
on its subsets: that it exists and is a natural number is proved by hand
(`SumsExtend`, `SumsAreComplete`, `SumIsNatural`), with a largest family
of subsets whose sums can be told and a smallest subset outside it, as no rule of
induction is available. Theorems: `TypeCorrect`, `GateHolds`,
`OnlyTheTestedIsReported`, `TheTestedDoesNotRaise`, `ReleasesImprove`,
`RecordedRecallsHold`, `RecordsAreEarned`.

**What the proofs rest on.** Each module's assumptions on its constants, which the
runs evaluate: types, `MinSoc < MaxSoc`, margins in their order, distinct names for
threads and for "none", finitely many scenarios, an unfitted forest that is no
fit. No theorem has a hypothesis besides.

**What proving found.** What is tested is the `Examples`, and not the scenarios: if no
horizon can be tested, `ForecastEvaluator.evaluate` compares nothing and passes every
model, one that raises too. The configuration (horizons from 15 to 360 minutes,
resolution 15) is far from it; `generate_training_examples` skips in silence a horizon
that is shorter than the resolution. That is why `OnlyTheUntestedRaises` is stated
with `Examples`. Two classifications of the model had been written with `CASE`s whose
guards overlap, which leaves the choice open where the code's chains of `if` take the
first (`SolarPower`, `RiskLevel`); TLC always took the first as well, so no run could
tell. They are `IF`s now.

**Only model-checked.** The liveness properties (`EveryCommandSettles`,
`RequestsAreServed`, `SchedulerSurvives`, `RemembersTheGrid`): liveness under
fairness, with the `ENABLED` in it, is out of the prover's reach. The five
disagreements are counterexamples, which TLC finds and nothing need prove.

## 5. Not modelled, and the plan

- Pipeline: expiry of an approval (`timeout_at` is stored and nothing calls
  `expire`), metrics, and a restart of the process, which loses commands and
  requests and keeps the log. The code has no recovery to check.
- Telemetry: the staleness check, which the composition switches off because the
  twin's clock is not the wall clock; the mapping of a reading to JSON.
- Twin: voltages and currents, ageing, temperature as a number, noise.
- Decision: the offline evaluator and its metrics, explanations, the engine shells.
- Forecast and anomaly: the numbers a regression, a baseline or a forest computes;
  the feature builder; alerts and their wording; MLflow beyond its refusal.
- Workflow (a graph of one node, which the composition does not use), observability
  (counters nobody reads), dashboards, schemas, error pages, the other scripts and
  the deployment.

Planned:

1. Facts about the gates that a reader may want by themselves: that `SafetyPasses`
   and `RiskLevel` refuse every reading with an asset offline, and that the caution
   never raises an amount.
2. What a fit in place may and may not disturb, as an action property: nothing but
   the skill of the model that is fitted.
3. That `SiteOperation` sends a command at most once for each time it was
   authorised, as `CommandContract` says of the pipeline.
