----------------------------- MODULE DigitalTwin -----------------------------
(***************************************************************************)
(* The simulated site: battery, inverter, grid connection, solar array and *)
(* building load, the verbs that command them, the faults that can be      *)
(* injected, and the tick that advances them and yields a reading.         *)
(*                                                                         *)
(* A tick moves whole units: one unit of power moves one unit of charge.   *)
(* Temperature is a level relative to the battery's maximum.  Voltages,    *)
(* ageing of the battery, the inverter's losses and its own temperature,   *)
(* which 28 degrees outside and 25 of its own never bring to the trip at   *)
(* 70, are left out.                                                       *)
(***************************************************************************)
EXTENDS Integers, FiniteSetsExt

CONSTANTS
  MinSoc, MaxSoc, StartSoc,    \* SiteConfig.battery_*_soc_pct
  EmptySoc, FullSoc,           \* 0% and 100%, the range of StateOfCharge
  MaxCharge, MaxDischarge,     \* SiteConfig.battery_max_*_kw
  Moments,      \* the hours of the day, and days, at which a tick may fall
  Clouds,       \* the cloud covers there may be, in percent
  PeakSun,      \* what the panels give under a clear sky at noon
  BaseLoad, PeakLoad,          \* SiteConfig.building_*_load_kw
  Faults        \* the [target, fault] pairs that are injected

GridStatuses == {"CONNECTED", "OUTAGE", "UNSTABLE"}
InverterStatuses ==
  {"NORMAL", "FAULT_OVERTEMP", "FAULT_OVERVOLTAGE", "FAULT_COMM_LOSS",
   "SHUTDOWN"}
TemperatureLevels == {0, 1, 2}       \* below, at and over battery_max_temp_c
Tenths == 0..10                      \* of the building load that is shed

ASSUME TwinAssumption ==
  /\ {MinSoc, MaxSoc, StartSoc, MaxCharge, MaxDischarge} \subseteq Nat
  /\ {EmptySoc, FullSoc} \subseteq Nat
  /\ EmptySoc <= MinSoc
  /\ MinSoc < MaxSoc
  /\ MaxSoc <= FullSoc
  /\ StartSoc \in MinSoc..MaxSoc
  /\ Moments # {}
  /\ Moments \subseteq [hour : 0..23, weekend : BOOLEAN]
  /\ Clouds # {}
  /\ Clouds \subseteq 0..100
  /\ {PeakSun, BaseLoad, PeakLoad} \subseteq Nat
  /\ BaseLoad <= PeakLoad
  /\ Faults \subseteq
       [target : {"grid"}, fault : GridStatuses]
         \cup [target : {"inverter"}, fault : InverterStatuses]
         \cup [target : {"battery"}, fault : {"none", "OVERHEATING"}]
         \cup [target : {"solar"}, fault : {"none", "OFFLINE", "PANEL_DEGRADATION"}]
         \cup [target : {"sensor"}, fault : {"none"}]

VARIABLE twin    \* the state the component models keep between ticks

TwinStates ==
  [soc       : Int,
   mode      : {"IDLE", "CHARGING", "DISCHARGING"},
   requested : Int,
   overheats : BOOLEAN,
   temp      : TemperatureLevels,
   inverter  : InverterStatuses,
   grid      : GridStatuses,
   panels    : [offline : BOOLEAN, degraded : BOOLEAN],
   shed      : Tenths]

(***************************************************************************)
(* A request is within the rated power of its direction.  A negative one   *)
(* is within it, too: min(), which is all that clamps it, lets it through. *)
(***************************************************************************)
RequestWithinPower ==
  CASE twin.mode = "CHARGING"    -> twin.requested <= MaxCharge
    [] twin.mode = "DISCHARGING" -> twin.requested <= MaxDischarge
    [] twin.mode = "IDLE"        -> twin.requested = 0

TwinInit ==
  twin = [soc |-> StartSoc, mode |-> "IDLE", requested |-> 0,
          overheats |-> FALSE, temp |-> 0, inverter |-> "NORMAL",
          grid |-> "CONNECTED",
          panels |-> [offline |-> FALSE, degraded |-> FALSE], shed |-> 0]
-----------------------------------------------------------------------------
(***************************************************************************)
(* The verbs of a command.                                                 *)
(***************************************************************************)
BatteryCommandUnclamped(mode, power) ==   \* mutant
  [twin EXCEPT !.mode = mode,
     !.requested = IF mode = "IDLE" THEN 0 ELSE power]

BatteryCommand(mode, power) ==
  [twin EXCEPT !.mode = mode,
     !.requested = CASE mode = "CHARGING"    -> Min({power, MaxCharge})
                     [] mode = "DISCHARGING" -> Min({power, MaxDischarge})
                     [] mode = "IDLE"        -> 0]

ShedLoad(tenths) == [twin EXCEPT !.shed = Max({0, Min({10, tenths})})]

RestoreLoad == [twin EXCEPT !.shed = 0]

(***************************************************************************)
(* Panels that are offline stay degraded; panels that degrade are online.  *)
(***************************************************************************)
PanelFault(panels, fault) ==
  CASE fault = "OFFLINE"           -> [panels EXCEPT !.offline = TRUE]
    [] fault = "PANEL_DEGRADATION" -> [offline |-> FALSE, degraded |-> TRUE]
    [] fault = "none"              -> [offline |-> FALSE, degraded |-> FALSE]

(***************************************************************************)
(* DigitalTwin.inject_fault.  Clearing the sensor fault releases the       *)
(* forced cloud cover, which no target sets.                               *)
(***************************************************************************)
InjectFault(target, fault) ==
  CASE target = "grid"     -> [twin EXCEPT !.grid = fault]
    [] target = "inverter" -> [twin EXCEPT !.inverter = fault]
    [] target = "battery"  -> [twin EXCEPT !.overheats = (fault = "OVERHEATING")]
    [] target = "solar"    -> [twin EXCEPT !.panels = PanelFault(@, fault)]
    [] target = "sensor"   -> twin
-----------------------------------------------------------------------------
(***************************************************************************)
(* What a moment brings: the sun over the site, an hour ahead of the       *)
(* twin's clock, between six and eighteen; the people in the building,     *)
(* between six and twenty-two of the twin's clock, and two fifths of them  *)
(* at weekends.  A parabola stands for each bell curve, and the load is    *)
(* without its noise.                                                      *)
(***************************************************************************)
ClearSky(hour) ==
  LET local == (hour + 1) % 24
  IN IF local \in 7..17 THEN (PeakSun * (local - 6) * (18 - local)) \div 36 ELSE 0

Irradiance(hour, clouds) == (ClearSky(hour) * (400 - 3 * clouds)) \div 400

Occupancy(m) ==      \* in percent
  LET weekday == IF m.hour \in 7..21
                   THEN Max({5, (100 * (m.hour - 6) * (22 - m.hour)) \div 64})
                   ELSE 5
  IN IF m.weekend THEN (4 * weekday) \div 10 ELSE weekday

Demand(m) == BaseLoad + ((PeakLoad - BaseLoad) * Occupancy(m)) \div 100

Weather ==
  {[solar |-> Irradiance(m.hour, clouds), load |-> Demand(m)] :
     m \in Moments, clouds \in Clouds}

(***************************************************************************)
(* What the battery takes or gives this tick: the request, clamped to the  *)
(* room that is left.  A negative request is no more than any room: the    *)
(* battery gives while it charges, or takes while it discharges.           *)
(***************************************************************************)
EnergyMoved ==
  CASE twin.mode = "CHARGING" ->
         Min({twin.requested, Max({0, MaxSoc - twin.soc})})
    [] twin.mode = "DISCHARGING" ->
         Min({twin.requested, Max({0, twin.soc - MinSoc})})
    [] twin.mode = "IDLE" -> 0

(***************************************************************************)
(* Of what is charged, or is drawn while charging, a part does not show;   *)
(* an energy of one unit may be too little to show at all.                 *)
(***************************************************************************)
Stored ==
  {e \in {EnergyMoved - 1, EnergyMoved, EnergyMoved + 1} :
     e \in Min({0, EnergyMoved})..Max({0, EnergyMoved})}

SocAfterUnclamped ==   \* mutant: the request is followed as it is
  CASE twin.mode = "CHARGING"    -> {twin.soc + twin.requested}
    [] twin.mode = "DISCHARGING" -> {twin.soc - twin.requested}
    [] twin.mode = "IDLE"        -> {twin.soc}

(***************************************************************************)
(* Each direction minds the limit it moves towards, and that one only.     *)
(***************************************************************************)
SocAfter ==
  CASE twin.mode = "CHARGING"    -> {Min({MaxSoc, twin.soc + e}) : e \in Stored}
    [] twin.mode = "DISCHARGING" -> {Max({MinSoc, twin.soc - EnergyMoved})}
    [] twin.mode = "IDLE"        -> {twin.soc}

(***************************************************************************)
(* The temperature creeps a tenth of the way to its target each tick: five *)
(* degrees over the maximum for an overheating battery, well below it      *)
(* otherwise - unless a negative request moves more than the rated power,  *)
(* when the target is as high as that power is.                            *)
(***************************************************************************)
Overdriven ==
  ~twin.overheats /\ -EnergyMoved > Max({MaxCharge, MaxDischarge})

TempAfter ==
  {twin.temp}
    \cup {t \in {twin.temp + 1} : t <= 2 /\ (twin.overheats \/ Overdriven)}
    \cup {t \in {twin.temp - 1} : t >= 0 /\ ~twin.overheats}

SolarPower(sky) ==
  IF twin.panels.offline       THEN 0
  ELSE IF twin.panels.degraded THEN (6 * sky) \div 10
  ELSE sky

InverterOutput(dc) ==
  IF twin.inverter \in {"SHUTDOWN", "FAULT_COMM_LOSS"} THEN 0 ELSE dc

(***************************************************************************)
(* The demand that remains of `full' after shedding, rounded up.           *)
(***************************************************************************)
BuildingLoad(full) == (full * (10 - twin.shed) + 9) \div 10

GridPower(requested) == IF twin.grid = "OUTAGE" THEN 0 ELSE requested

(***************************************************************************)
(* DigitalTwin.tick: the readings it can yield in weather w, with the next *)
(* state of the components.  The site never exports, so a surplus imports  *)
(* nothing.  The mode the battery reports is ExecutionPipeline's matter.   *)
(***************************************************************************)
TickResult(w, soc, temp) ==
  LET power      == IF twin.mode = "DISCHARGING" THEN -EnergyMoved ELSE EnergyMoved
      charged    == Max({0, power})
      discharged == Max({0, -power})
      solar      == SolarPower(w.solar)
      load       == BuildingLoad(w.load)
      deficit    == load - (InverterOutput(solar + discharged) - charged)
  IN [soc      |-> soc,
      temp     |-> temp,
      inverter |-> twin.inverter,
      grid     |-> twin.grid,
      solar    |-> solar,
      load     |-> load,
      imported |-> GridPower(Max({0, deficit}))]

StateOfCharge == EmptySoc..FullSoc

Readings ==
  [soc : StateOfCharge, temp : TemperatureLevels,
   inverter : InverterStatuses, grid : GridStatuses,
   solar : Nat, load : Nat, imported : Nat]

Advance(soc, temp) == twin' = [twin EXCEPT !.soc = soc, !.temp = temp]

(***************************************************************************)
(* One tick, which yields a reading.                                       *)
(***************************************************************************)
Tick(reading) ==
  \E w \in Weather, soc \in SocAfter \cap StateOfCharge, temp \in TempAfter :
    /\ reading = TickResult(w, soc, temp)
    /\ Advance(soc, temp)

(***************************************************************************)
(* One tick, which raises when the state of charge, or the temperature of  *)
(* an overdriven battery, is to be built from a number out of its range:   *)
(* the battery has advanced already.                                       *)
(***************************************************************************)
TickRaises ==
  \E soc \in SocAfter, temp \in TempAfter :
    /\ soc \notin StateOfCharge \/ (Overdriven /\ temp = 2)
    /\ Advance(soc, temp)

(***************************************************************************)
(* TelemetryIngestionService._detect_offline, staleness check off.         *)
(***************************************************************************)
AssetOffline(reading) ==
  \/ reading.inverter \in {"FAULT_COMM_LOSS", "SHUTDOWN"}
  \/ reading.grid # "CONNECTED"
=============================================================================
