---------------------------- MODULE SiteOperation ----------------------------
(***************************************************************************)
(* The site at work: the decision cycle reads the twin, recommends, takes  *)
(* the command through the gates and sends it back to the twin, while      *)
(* faults are injected and cleared, and persons decide, whenever they      *)
(* like, on the command that waits for them.                               *)
(*                                                                         *)
(* What ExecutionPipeline leaves open is decided here by the code's        *)
(* arithmetic: what is recommended, what the gates say of it, what the     *)
(* battery does next.  What it tells apart, the steps of a thread, the     *)
(* audit log and its failures, is left out here: a gate is a step, and a   *)
(* refresh of the telemetry, tick and publication, is one.                 *)
(***************************************************************************)
EXTENDS Optimiser, Confidence

CONSTANTS
  SiteChoices,      \* the configurations a site may have
  Ages,             \* of a reading when the engine looks at it, seconds
  AnomalyCounts,    \* anomalies the detectors may have reported lately
  Forecasts,        \* the forecasts that may be on hand, with confidence
  ModifiedAmounts,  \* what a person may put in place of the amount: any number
  MaxFaults,        \* bound: faults injected or cleared
  NoCommand

ASSUME SiteAssumption ==
  /\ SiteChoices \subseteq SiteConfigs
  /\ SiteChoices # {}
  /\ Ages \subseteq Nat
  /\ AnomalyCounts \subseteq Nat
  /\ ModifiedAmounts \subseteq Int
  /\ MaxFaults \in Nat

(***************************************************************************)
(* current_decision_context hands on the solar forecast, and no other.     *)
(***************************************************************************)
ASSUME SolarOnlyAssumption ==
  \A f \in Forecasts :
    /\ DOMAIN f \subseteq {"SOLAR_GENERATION"}
    /\ \A kind \in DOMAIN f : f[kind] \in Confidences

VARIABLES
  site,       \* the policy and the safety limits
  store,      \* the StateStore's current EnergyState
  worker,     \* the cycle's thread and a thread serving a person's decision
  paused,     \* the command a person may decide on
  refresh,    \* the fault endpoint has still to refresh the telemetry
  faults,     \* faults injected or cleared so far
  reversed    \* history: a person's negative power was sent to the battery

vars == <<twin, site, store, worker, paused, refresh, faults, reversed>>

Workers == {"cycle", "person"}

Phases == {"idle", "decide", "judge", "assess", "rejected", "send", "verify"}

(***************************************************************************)
(* A command up to its route: what is recommended, on which reading (until *)
(* safety has judged it), and whether the inputs were dubious.             *)
(***************************************************************************)
Commands ==
  [action : Actions, amount : Nat, priority : 1..5, band : Bands,
   dubious : BOOLEAN, down : BOOLEAN, basis : Readings \cup {NoCommand},
   level : {"none", "CRITICAL"}]

(***************************************************************************)
(* A command after its route; a person may put a negative number in place  *)
(* of the amount.  History: was the grid down in the reading it was        *)
(* recommended on, was all well in the one its risk was assessed on, were  *)
(* dubious inputs taken without a person, has one decided.                 *)
(***************************************************************************)
Orders ==
  [action : Actions, amount : Int, down : BOOLEAN, sound : BOOLEAN,
   careless : BOOLEAN, approval : {"none", "auto", "approved", "modified"}]

(***************************************************************************)
(* The variables keep their types, whatever number a person puts in place  *)
(* of the amount; a request to the battery never exceeds the rated power   *)
(* of its direction.                                                       *)
(***************************************************************************)
TypeOK ==
  /\ twin \in TwinStates
  /\ RequestWithinPower
  /\ site \in SiteChoices
  /\ store \in Readings
  /\ worker \in [Workers -> [phase : Phases, command : Commands \cup Orders \cup {NoCommand}]]
  /\ paused \in Orders \cup {NoCommand}
  /\ refresh \in BOOLEAN
  /\ faults \in 0..MaxFaults
  /\ reversed \in BOOLEAN

NoWork == [phase |-> "idle", command |-> NoCommand]

(***************************************************************************)
(* SystemComposition ends with a refresh: a first reading, nothing wrong.  *)
(***************************************************************************)
Init ==
  /\ TwinInit
  /\ site \in SiteChoices
  /\ \E w \in Weather : store = TickResult(w, StartSoc, 0)
  /\ worker = [t \in Workers |-> NoWork]
  /\ paused = NoCommand
  /\ refresh = FALSE
  /\ faults = 0
  /\ reversed = FALSE
-----------------------------------------------------------------------------
(***************************************************************************)
(* refresh_telemetry: the twin ticks, and its reading is published; or the *)
(* tick raises, and the store keeps the reading it has.                    *)
(***************************************************************************)
Published == Tick(store')

Raised == TickRaises /\ UNCHANGED store

RefreshTelemetry == Published \/ Raised

Goto(t, phase, command) ==
  worker' = [worker EXCEPT ![t] = [phase |-> phase, command |-> command]]

(***************************************************************************)
(* An exception of the refresh ends the cycle before it has begun.         *)
(***************************************************************************)
StartCycle ==
  /\ worker["cycle"].phase = "idle"
  /\ \/ Published /\ Goto("cycle", "decide", NoCommand)
     \/ Raised /\ UNCHANGED worker
  /\ UNCHANGED <<site, paused, refresh, faults, reversed>>

(***************************************************************************)
(* current_decision_context counts the anomalies of the last quarter of an *)
(* hour by the wall clock; they carry the twin's time, so a reading older  *)
(* than that brings none.                                                  *)
(***************************************************************************)
ActiveAnomalies(age, reported) == IF age > StaleSeconds THEN 0 ELSE reported

Dubious(forecasts, age, count) ==
  \/ age >= StaleSeconds
  \/ count >= 2
  \/ count = 1 /\ DOMAIN forecasts = {}

Recommendation(top, band, dubious) ==
  [action |-> top.action, amount |-> top.amount, priority |-> top.priority,
   band |-> band, dubious |-> dubious, down |-> GridDown(store),
   basis |-> store, level |-> "none"]

Decide ==
  /\ worker["cycle"].phase = "decide"
  /\ \E age \in Ages, reported \in AnomalyCounts, forecasts \in Forecasts :
       LET count == ActiveAnomalies(age, reported)
           band  == Band(forecasts, age, count)
           top   == Recommended(store, site, band)
       IN Goto("cycle", "judge",
               Recommendation(top, band, Dubious(forecasts, age, count)))
  /\ UNCHANGED <<twin, site, store, paused, refresh, faults, reversed>>

(***************************************************************************)
(* The policy gate and the safety gate, on the reading in the store now.   *)
(***************************************************************************)
Judge ==
  LET c == worker["cycle"].command IN
  /\ worker["cycle"].phase = "judge"
  /\ Goto("cycle",
          IF PolicyPasses(c, site) /\ SafetyPasses(c, store, site)
            THEN "assess" ELSE "rejected",
          [c EXCEPT !.basis = NoCommand])
  /\ UNCHANGED <<twin, site, store, paused, refresh, faults, reversed>>

(***************************************************************************)
(* The risk gate reads the store once more; the route follows from the     *)
(* level and the band.  Of the commands that wait for a person one is      *)
(* kept: the others are the ones nobody decides on.                        *)
(***************************************************************************)
Sound(reading) == reading.inverter = "NORMAL" /\ ~AssetOffline(reading)

NeedsPerson(c, level) == level = "HIGH" \/ c.band = "LOW"

Order(c, approval) ==
  [action |-> c.action, amount |-> c.amount, down |-> c.down,
   sound |-> Sound(store), careless |-> c.dubious /\ approval = "auto",
   approval |-> approval]

Assess ==
  LET c     == worker["cycle"].command
      level == RiskLevel(c, store, site)
  IN /\ worker["cycle"].phase = "assess"
     /\ \/ /\ level = "CRITICAL"
           /\ Goto("cycle", "rejected", [c EXCEPT !.level = level])
           /\ UNCHANGED paused
        \/ /\ level # "CRITICAL"
           /\ NeedsPerson(c, level)
           /\ Goto("cycle", "idle", NoCommand)
           /\ paused' = Order(c, "none") \/ (paused # NoCommand /\ UNCHANGED paused)
        \/ /\ level # "CRITICAL"
           /\ ~NeedsPerson(c, level)
           /\ Goto("cycle", "send", Order(c, "auto"))
           /\ UNCHANGED paused
     /\ UNCHANGED <<twin, site, store, refresh, faults, reversed>>

CloseRejected ==
  /\ worker["cycle"].phase = "rejected"
  /\ Goto("cycle", "idle", NoCommand)
  /\ UNCHANGED <<twin, site, store, paused, refresh, faults, reversed>>

(***************************************************************************)
(* SimulatedHardwareInterface.send; the dispatch that follows a MODIFIED   *)
(* decision uses the person's amount, which no gate has seen.              *)
(***************************************************************************)
ObeyHoldRestores(c) ==   \* mutant: holding brings the load back
  CASE c.action = "CHARGE"    -> BatteryCommand("CHARGING", c.amount)
    [] c.action = "DISCHARGE" -> BatteryCommand("DISCHARGING", c.amount)
    [] c.action = "HOLD"      -> RestoreLoad
    [] c.action = "SHED_LOAD" -> ShedLoad(c.amount)

Obey(c) ==
  CASE c.action = "CHARGE"    -> BatteryCommand("CHARGING", c.amount)
    [] c.action = "DISCHARGE" -> BatteryCommand("DISCHARGING", c.amount)
    [] c.action = "HOLD"      -> BatteryCommand("IDLE", 0)
    [] c.action = "SHED_LOAD" -> ShedLoad(c.amount)

Reverses(c) ==
  /\ c.approval = "modified"
  /\ c.action \in BatteryPowerActions
  /\ c.amount < 0

Send(t) ==
  /\ worker[t].phase = "send"
  /\ twin' = Obey(worker[t].command)
  /\ reversed' = (reversed \/ Reverses(worker[t].command))
  /\ Goto(t, "verify", NoCommand)
  /\ UNCHANGED <<site, store, paused, refresh, faults>>

(***************************************************************************)
(* A fresh reading for the verification, whose verdict ends the command;   *)
(* or none, and an exception that ends the worker's run.                   *)
(***************************************************************************)
Verify(t) ==
  /\ worker[t].phase = "verify"
  /\ RefreshTelemetry
  /\ Goto(t, "idle", NoCommand)
  /\ UNCHANGED <<site, paused, refresh, faults, reversed>>
-----------------------------------------------------------------------------
(***************************************************************************)
(* A person approves the waiting command, with its amount or with another, *)
(* or rejects it.  The parameters of a MODIFY decision are any dictionary: *)
(* nothing between the request and the battery looks at the sign.          *)
(***************************************************************************)
Approve ==
  /\ worker["person"].phase = "idle"
  /\ paused # NoCommand
  /\ \/ Goto("person", "send", [paused EXCEPT !.approval = "approved"])
     \/ \E n \in ModifiedAmounts :
          Goto("person", "send",
               [paused EXCEPT !.approval = "modified", !.amount = n])
  /\ paused' = NoCommand
  /\ UNCHANGED <<twin, site, store, refresh, faults, reversed>>

Reject ==
  /\ paused # NoCommand
  /\ paused' = NoCommand
  /\ UNCHANGED <<twin, site, store, worker, refresh, faults, reversed>>

(***************************************************************************)
(* POST /simulate/fault: inject or clear, then refresh the telemetry.      *)
(***************************************************************************)
SimulateFault ==
  /\ ~refresh
  /\ faults < MaxFaults
  /\ \E f \in Faults : twin' = InjectFault(f.target, f.fault)
  /\ refresh' = TRUE
  /\ faults' = faults + 1
  /\ UNCHANGED <<site, store, worker, paused, reversed>>

RefreshAfterFault ==
  /\ refresh
  /\ RefreshTelemetry
  /\ refresh' = FALSE
  /\ UNCHANGED <<site, worker, paused, faults, reversed>>

Next ==
  \/ StartCycle \/ Decide \/ Judge \/ Assess \/ CloseRejected
  \/ \E t \in Workers : Send(t) \/ Verify(t)
  \/ Approve \/ Reject
  \/ SimulateFault \/ RefreshAfterFault

Spec == Init /\ [][Next]_vars
-----------------------------------------------------------------------------
(***************************************************************************)
(* However late a person approves, however much power is asked for and     *)
(* whatever the faults, the battery and what is read of it stay within the *)
(* site's limits - until a person has put a negative power in place of a   *)
(* recommended one, which the model of the battery follows past the limit  *)
(* behind it.                                                              *)
(***************************************************************************)
LimitsHoldUntilReversed ==
  ~reversed => twin.soc \in MinSoc..MaxSoc /\ store.soc \in MinSoc..MaxSoc

(***************************************************************************)
(* battery.py:17-19 promises it without that exception: requests are       *)
(* always clamped to the limits, the model is a hard physical constraint.  *)
(***************************************************************************)
BatteryWithinLimits ==
  /\ twin.soc \in MinSoc..MaxSoc
  /\ store.soc \in MinSoc..MaxSoc

(***************************************************************************)
(* The optimiser's safety filter and the gates agree: on the reading it    *)
(* was recommended on, a command passes policy, and fails safety only for  *)
(* what the filter does not look at, the inverter's status and the hard    *)
(* ceiling on shedding.                                                    *)
(***************************************************************************)
FilterAgreesWithSafety ==
  LET c == worker["cycle"].command IN
  worker["cycle"].phase = "judge" /\ c.basis = store =>
    /\ PolicyPasses(c, site)
    /\ \/ SafetyPasses(c, store, site)
       \/ c.action \in BatteryPowerActions /\ store.inverter # "NORMAL"
       \/ c.action = "SHED_LOAD" /\ c.amount > site.limitShed

(***************************************************************************)
(* Nothing reaches the battery or the loads whose risk was assessed on a   *)
(* reading with the inverter or the grid out of order: the risk gate reads *)
(* the store itself, after whatever was published since the safety gate.   *)
(***************************************************************************)
SentOnSoundReading ==
  \A t \in Workers : worker[t].phase = "send" => worker[t].command.sound

(***************************************************************************)
(* Discharging and shedding are recommended while the grid is down only,   *)
(* and a reading with the grid down is a reading with an asset offline,    *)
(* which is CRITICAL: such a command gets through only when the grid has   *)
(* come back between its recommendation and its risk assessment.           *)
(***************************************************************************)
OutageActionsComeTooLate ==
  \A t \in Workers :
    /\ worker[t].phase = "send"
    /\ worker[t].command.action \in {"DISCHARGE", "SHED_LOAD"}
    => worker[t].command.down /\ worker[t].command.sound

(***************************************************************************)
(* What is sent without a person was recommended on a reading of less than *)
(* a quarter of an hour with at most one anomaly, and with none when the   *)
(* solar forecast was missing: no lesser fault of the inputs is made up    *)
(* for by the weights of the others.                                       *)
(***************************************************************************)
UnattendedSendsAreConfident ==
  \A t \in Workers :
    worker[t].phase = "send" => ~worker[t].command.careless

(***************************************************************************)
(* With the solar forecast the only one that is ever handed on, the score  *)
(* stays under the HIGH band even when everything else is perfect.         *)
(***************************************************************************)
ConfidenceIsNeverHigh ==
  worker["cycle"].phase \in {"judge", "assess"} =>
    worker["cycle"].command.band # "HIGH"

(***************************************************************************)
(* Nothing recommends RESTORE_LOAD: the last of the load that was shed     *)
(* comes back only when a person changes the share of a later shedding.    *)
(***************************************************************************)
ShedLoadStaysShed ==
  [][twin.shed > 0 /\ twin'.shed = 0 =>
       worker["person"].phase = "send"
         /\ worker["person"].command.approval = "modified"]_vars

(***************************************************************************)
(* rule_based_optimiser.py:94-97 exempts what keeps the lights on during   *)
(* an outage from caution.  Here: such a command, allowed by policy and    *)
(* safety and clear of the battery's limits, is not rejected as CRITICAL   *)
(* while the inverter works.                                               *)
(***************************************************************************)
OutageReliefIsNotCritical ==
  LET c == worker["cycle"].command IN
  ~ /\ worker["cycle"].phase = "rejected"
    /\ c.priority = 2
    /\ c.level = "CRITICAL"
    /\ store.inverter = "NORMAL"
    /\ Margin(c, store) >= CriticalMargin
=============================================================================
