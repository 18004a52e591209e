------------------------------ MODULE Optimiser ------------------------------
(***************************************************************************)
(* The decision engine, RuleBasedOptimiser: what it recommends on a        *)
(* reading, and how sure it is of its inputs.                              *)
(*                                                                         *)
(* A candidate is an action, its amount (power, or tenths of the load to   *)
(* shed) and its place in the order of priorities: 1 safety, 2             *)
(* reliability, 3 battery health, 4 self-consumption, 5 cost.              *)
(***************************************************************************)
EXTENDS SafetyGates

CONSTANTS
  ReliabilityMargin,             \* RuleEngineConfig.reliability_min_discharge_margin_pct
  HealthyMinSoc, HealthyMaxSoc,  \* battery_healthy_*_soc_pct
  ReservePower,                  \* reserve_charge_power_kw
  ShedOnOutage,                  \* load_shed_fraction_on_outage
  CostMargin, CostPower          \* cost_discharge_*

(***************************************************************************)
(* The order of the defaults on the battery's scale.                       *)
(***************************************************************************)
ASSUME RuleEngineAssumption ==
  /\ {ReliabilityMargin, HealthyMinSoc, HealthyMaxSoc, ReservePower,
      CostMargin, CostPower} \subseteq Nat
  /\ ShedOnOutage \in Tenths \ {0}
  /\ CriticalMargin <= ReliabilityMargin
  /\ ReliabilityMargin <= CostMargin
  /\ MinSoc + CostMargin <= HealthyMinSoc
  /\ HealthyMinSoc < HealthyMaxSoc
  /\ HealthyMaxSoc < MaxSoc

Candidates == [action : Actions, amount : Nat, priority : 1..5]

Candidate(action, amount, priority) ==
  [action |-> action, amount |-> amount, priority |-> priority]

GridDown(reading) == reading.grid # "CONNECTED"

(***************************************************************************)
(* The four rules.  Each proposes one candidate or none.                   *)
(***************************************************************************)
Reliability(reading) ==
  IF ~GridDown(reading) \/ reading.load = 0 THEN {}
  ELSE IF reading.soc - MinSoc >= ReliabilityMargin
         THEN {Candidate("DISCHARGE", Min({reading.load, MaxDischarge}), 2)}
         ELSE {Candidate("SHED_LOAD", ShedOnOutage, 2)}

(***************************************************************************)
(* Under the healthy band the battery is charged from a solar surplus, or  *)
(* a little from the grid; over it, it serves the load, but only while the *)
(* grid does not.                                                          *)
(***************************************************************************)
BatteryHealthAnyGrid(reading) ==   \* mutant: serves the load on any grid
  LET surplus == Max({0, reading.solar - reading.load}) IN
  CASE reading.soc < HealthyMinSoc /\ surplus > 0 ->
         {Candidate("CHARGE", Min({surplus, MaxCharge}), 3)}
    [] reading.soc < HealthyMinSoc /\ surplus = 0 /\ ~GridDown(reading) ->
         {Candidate("CHARGE", Min({ReservePower, MaxCharge}), 3)}
    [] reading.soc > HealthyMaxSoc /\ reading.load > 0 ->
         {Candidate("DISCHARGE", Min({reading.load, MaxDischarge}), 3)}
    [] OTHER -> {}

BatteryHealth(reading) ==
  LET surplus == Max({0, reading.solar - reading.load}) IN
  CASE reading.soc < HealthyMinSoc /\ surplus > 0 ->
         {Candidate("CHARGE", Min({surplus, MaxCharge}), 3)}
    [] reading.soc < HealthyMinSoc /\ surplus = 0 /\ ~GridDown(reading) ->
         {Candidate("CHARGE", Min({ReservePower, MaxCharge}), 3)}
    [] reading.soc > HealthyMaxSoc /\ reading.load > 0 /\ GridDown(reading) ->
         {Candidate("DISCHARGE", Min({reading.load, MaxDischarge}), 3)}
    [] OTHER -> {}

SelfConsumption(reading) ==
  LET net == reading.solar - reading.load IN
  CASE net > 0 -> {Candidate("CHARGE", Min({net, MaxCharge}), 4)}
    [] net < 0 /\ GridDown(reading) ->
         {Candidate("DISCHARGE", Min({-net, MaxDischarge}), 4)}
    [] OTHER -> {}

Cost(reading) ==
  IF /\ GridDown(reading)
     /\ reading.imported > 0
     /\ reading.soc - MinSoc >= CostMargin
    THEN {Candidate("DISCHARGE",
                    Min({reading.imported, CostPower, MaxDischarge}), 5)}
    ELSE {}

Proposed(reading) ==
  Reliability(reading) \cup BatteryHealth(reading)
    \cup SelfConsumption(reading) \cup Cost(reading)

(***************************************************************************)
(* The engine's view of the site's limits, taken from the policy: the hard *)
(* ceiling on shedding is not among them.                                  *)
(***************************************************************************)
OperatingConstraints(site) ==
  [maxShed |-> site.policyShed, maintenance |-> site.maintenance]

(***************************************************************************)
(* Priority 1 filters and never proposes: _veto_reason.                    *)
(***************************************************************************)
VetoedWithoutTemperature(c, reading, limits) ==   \* mutant
  \/ /\ c.action = "CHARGE"
     /\ \/ reading.soc >= MaxSoc
        \/ limits.maintenance
  \/ /\ c.action = "DISCHARGE"
     /\ reading.soc <= MinSoc
  \/ /\ c.action = "SHED_LOAD"
     /\ c.amount > limits.maxShed

Vetoed(c, reading, limits) ==
  \/ /\ c.action = "CHARGE"
     /\ \/ reading.soc >= MaxSoc
        \/ reading.temp >= 1
        \/ limits.maintenance
  \/ /\ c.action = "DISCHARGE"
     /\ \/ reading.soc <= MinSoc
        \/ reading.temp >= 1
  \/ /\ c.action = "SHED_LOAD"
     /\ c.amount > limits.maxShed

(***************************************************************************)
(* With nothing left: shed as much as the policy lets it while the grid is *)
(* down, else hold.                                                        *)
(***************************************************************************)
SafeDefault(reading, limits) ==
  CASE GridDown(reading) /\ limits.maxShed > 0 ->
         Candidate("SHED_LOAD", Min({ShedOnOutage, limits.maxShed}), 1)
    [] OTHER ->
         Candidate("HOLD", 0, IF Proposed(reading) = {} THEN 5 ELSE 1)

(***************************************************************************)
(* The candidate the priorities put first.                                 *)
(***************************************************************************)
Top(reading, site) ==
  LET limits == OperatingConstraints(site)
      safe   == {c \in Proposed(reading) : ~Vetoed(c, reading, limits)}
  IN IF safe = {}
       THEN SafeDefault(reading, limits)
       ELSE CHOOSE c \in safe : \A d \in safe : c.priority <= d.priority

(***************************************************************************)
(* With low confidence a battery action is taken at half its power, unless *)
(* it keeps the lights on.  Whole units: half of one is one.               *)
(***************************************************************************)
MakeConservative(c) ==
  IF c.action \in BatteryPowerActions
    THEN [c EXCEPT !.amount = (@ + 1) \div 2]
    ELSE c

Recommended(reading, site, band) ==
  LET top == Top(reading, site) IN
  IF band = "LOW" /\ top.priority # 2 THEN MakeConservative(top) ELSE top
=============================================================================
