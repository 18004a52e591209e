---------------------------- MODULE SiteTheorems ----------------------------
(***************************************************************************)
(* What the operators of the simulated site, of the optimiser and of the   *)
(* gates return, for every site, reading and command: the site's physics   *)
(* stays within its limits, and what the optimiser recommends on a reading *)
(* is what the gates let pass on that reading.                             *)
(***************************************************************************)
EXTENDS Optimiser, TLAPS

(***************************************************************************)
(* The least and the greatest of two numbers.                              *)
(***************************************************************************)
LEMMA MinOfTwo ==
  ASSUME NEW a \in Int, NEW b \in Int
  PROVE  Min({a, b}) = IF a <= b THEN a ELSE b
BY DEF Min

(***************************************************************************)
(* The greatest, likewise.                                                 *)
(***************************************************************************)
LEMMA MaxOfTwo ==
  ASSUME NEW a \in Int, NEW b \in Int
  PROVE  Max({a, b}) = IF a >= b THEN a ELSE b
BY DEF Max

(***************************************************************************)
(* The least of three natural numbers is one, and no more than the last.   *)
(***************************************************************************)
LEMMA MinOfThree ==
  ASSUME NEW a \in Nat, NEW b \in Nat, NEW c \in Nat
  PROVE  Min({a, b, c}) \in Nat /\ Min({a, b, c}) <= c
BY DEF Min

-----------------------------------------------------------------------------
(***************************************************************************)
(* The limits of the twin are natural numbers in their order.              *)
(***************************************************************************)
LEMMA TwinLimits ==
  /\ MinSoc \in Nat /\ MaxSoc \in Nat /\ MinSoc < MaxSoc
  /\ MaxCharge \in Nat /\ MaxDischarge \in Nat
  /\ Max({MaxCharge, MaxDischarge}) \in Nat
  /\ MinSoc..MaxSoc \subseteq StateOfCharge
  /\ StateOfCharge \subseteq Nat
BY TwinAssumption, MaxOfTwo DEF StateOfCharge

(***************************************************************************)
(* battery.py, charge and discharge: whatever number is asked for, the     *)
(* request that is kept does not exceed the rated power; it is negative    *)
(* only when the number was.                                               *)
(***************************************************************************)
LEMMA BatteryCommandTyped ==
  ASSUME twin \in TwinStates, NEW power \in Int,
         NEW mode \in {"IDLE", "CHARGING", "DISCHARGING"},
         twin' = BatteryCommand(mode, power)
  PROVE  /\ twin' \in TwinStates
         /\ RequestWithinPower'
         /\ power >= 0 => twin'.requested >= 0
         /\ twin'.soc = twin.soc
         /\ twin'.shed = twin.shed
<1> DEFINE kept == CASE mode = "CHARGING"    -> Min({power, MaxCharge})
                     [] mode = "DISCHARGING" -> Min({power, MaxDischarge})
                     [] mode = "IDLE"        -> 0
<1>1. /\ kept \in Int
      /\ power >= 0 => kept >= 0
      /\ mode = "CHARGING" => kept <= MaxCharge
      /\ mode = "DISCHARGING" => kept <= MaxDischarge
      /\ mode = "IDLE" => kept = 0
  BY TwinLimits, MinOfTwo
<1>2. twin' = [twin EXCEPT !.mode = mode, !.requested = kept]
  BY DEF BatteryCommand
<1> HIDE DEF kept
<1>3. /\ twin' \in TwinStates
      /\ twin'.mode = mode /\ twin'.requested = kept
      /\ twin'.soc = twin.soc /\ twin'.shed = twin.shed
  BY <1>1, <1>2 DEF TwinStates
<1>4. RequestWithinPower'
  BY <1>1, <1>3 DEF RequestWithinPower
<1>5. QED
  BY <1>1, <1>3, <1>4

(***************************************************************************)
(* A next state of the twin in which the battery is as it is.              *)
(***************************************************************************)
SameBattery(next) ==
  /\ next.soc = twin.soc
  /\ next.mode = twin.mode
  /\ next.requested = twin.requested

(***************************************************************************)
(* building_load.py: the share that is shed is clamped on both sides, and  *)
(* none only when none was asked for.                                      *)
(***************************************************************************)
LEMMA ShedLoadTyped ==
  ASSUME twin \in TwinStates, NEW tenths \in Int
  PROVE  /\ ShedLoad(tenths) \in TwinStates
         /\ SameBattery(ShedLoad(tenths))
         /\ tenths > 0 => ShedLoad(tenths).shed > 0
<1>1. /\ Max({0, Min({10, tenths})}) \in Tenths
      /\ tenths > 0 => Max({0, Min({10, tenths})}) > 0
  BY MinOfTwo, MaxOfTwo DEF Tenths
<1>2. QED
  BY <1>1 DEF ShedLoad, TwinStates, SameBattery

(***************************************************************************)
(* A fault changes neither the charge nor the load that is shed.           *)
(***************************************************************************)
LEMMA InjectFaultTyped ==
  ASSUME twin \in TwinStates, NEW f \in Faults
  PROVE  /\ InjectFault(f.target, f.fault) \in TwinStates
         /\ SameBattery(InjectFault(f.target, f.fault))
         /\ InjectFault(f.target, f.fault).shed = twin.shed
<1>1. \/ f.target = "grid" /\ f.fault \in GridStatuses
      \/ f.target = "inverter" /\ f.fault \in InverterStatuses
      \/ f.target = "battery"
      \/ f.target = "solar" /\ f.fault \in {"none", "OFFLINE", "PANEL_DEGRADATION"}
      \/ f.target = "sensor"
  BY TwinAssumption
<1>2. CASE f.target = "grid" /\ f.fault \in GridStatuses
  BY <1>2 DEF InjectFault, TwinStates, SameBattery
<1>3. CASE f.target = "inverter" /\ f.fault \in InverterStatuses
  BY <1>3 DEF InjectFault, TwinStates, SameBattery
<1>4. CASE f.target = "battery"
  BY <1>4 DEF InjectFault, TwinStates, SameBattery
<1>5. CASE f.target = "solar" /\ f.fault \in {"none", "OFFLINE", "PANEL_DEGRADATION"}
  <2>1. PanelFault(twin.panels, f.fault) \in [offline : BOOLEAN, degraded : BOOLEAN]
    BY <1>5 DEF PanelFault, TwinStates
  <2>2. InjectFault(f.target, f.fault) =
          [twin EXCEPT !.panels = PanelFault(twin.panels, f.fault)]
    BY <1>5 DEF InjectFault
  <2>3. QED
    BY <2>1, <2>2 DEF TwinStates, SameBattery
<1>6. CASE f.target = "sensor"
  BY <1>6 DEF InjectFault, TwinStates, SameBattery
<1>7. QED
  BY <1>1, <1>2, <1>3, <1>4, <1>5, <1>6

-----------------------------------------------------------------------------
(***************************************************************************)
(* The sun and the demand of the building are never negative, at any hour  *)
(* and under any sky.                                                      *)
(***************************************************************************)
LEMMA WeatherTyped ==
  ASSUME NEW w \in Weather
  PROVE  w.solar \in Nat /\ w.load \in Nat
<1>1. PICK m \in Moments, clouds \in Clouds :
        w = [solar |-> Irradiance(m.hour, clouds), load |-> Demand(m)]
  BY DEF Weather
<1>2. /\ m.hour \in 0..23 /\ m.weekend \in BOOLEAN /\ clouds \in 0..100
      /\ PeakSun \in Nat /\ BaseLoad \in Nat
      /\ PeakLoad - BaseLoad \in Nat
  BY TwinAssumption
<1>3. ClearSky(m.hour) \in Nat
  <2> DEFINE local == (m.hour + 1) % 24
  <2>1. CASE local \in 7..17
    <3>1. local - 6 \in Nat /\ 18 - local \in Nat
      BY <2>1
    <3> HIDE DEF local
    <3>2. PeakSun * (local - 6) \in Nat
      BY <1>2, <3>1
    <3>3. PeakSun * (local - 6) * (18 - local) \in Nat
      BY <3>1, <3>2
    <3>4. (PeakSun * (local - 6) * (18 - local)) \div 36 \in Nat
      BY <3>3
    <3>5. QED
      BY <2>1, <3>4 DEF ClearSky, local
  <2>2. CASE local \notin 7..17
    BY <2>2 DEF ClearSky
  <2>3. QED
    BY <2>1, <2>2
<1>4. Irradiance(m.hour, clouds) \in Nat
  <2>1. 400 - 3 * clouds \in Nat
    BY <1>2
  <2>2. ClearSky(m.hour) * (400 - 3 * clouds) \in Nat
    BY <1>3, <2>1
  <2>3. QED
    BY <2>2 DEF Irradiance
<1>5. Occupancy(m) \in Nat
  <2> DEFINE
    bell    == (100 * (m.hour - 6) * (22 - m.hour)) \div 64
    weekday == IF m.hour \in 7..21 THEN Max({5, bell}) ELSE 5
  <2>1. m.hour \in 7..21 => bell \in Nat
    <3> SUFFICES ASSUME m.hour \in 7..21 PROVE bell \in Nat
      OBVIOUS
    <3>1. m.hour - 6 \in Nat /\ 22 - m.hour \in Nat
      OBVIOUS
    <3>2. 100 * (m.hour - 6) * (22 - m.hour) \in Nat
      BY <3>1
    <3>3. QED
      BY <3>2
  <2> HIDE DEF bell
  <2>2. weekday \in Nat
    BY <2>1, MaxOfTwo
  <2>3. Occupancy(m) = IF m.weekend THEN (4 * weekday) \div 10 ELSE weekday
    BY DEF Occupancy, bell
  <2> HIDE DEF weekday
  <2>4. (4 * weekday) \div 10 \in Nat
    BY <2>2
  <2>5. QED
    BY <2>2, <2>3, <2>4
<1>6. Demand(m) \in Nat
  <2>1. (PeakLoad - BaseLoad) * Occupancy(m) \in Nat
    BY <1>2, <1>5
  <2>2. ((PeakLoad - BaseLoad) * Occupancy(m)) \div 100 \in Nat
    BY <2>1
  <2>3. QED
    BY <1>2, <2>2 DEF Demand
<1>7. QED
  BY <1>1, <1>4, <1>6

(***************************************************************************)
(* What moves in a tick is a number, never more than the request; what is  *)
(* stored of it lies between nothing and that.                             *)
(***************************************************************************)
LEMMA EnergyTyped ==
  ASSUME twin \in TwinStates
  PROVE  /\ EnergyMoved \in Int
         /\ twin.requested >= 0 => EnergyMoved >= 0
         /\ \A e \in Stored : e \in Int /\ (EnergyMoved >= 0 => e >= 0)
<1> DEFINE room == Max({0, MaxSoc - twin.soc})
           left == Max({0, twin.soc - MinSoc})
<1>1. /\ twin.requested \in Int /\ twin.soc \in Int
      /\ twin.mode \in {"CHARGING", "DISCHARGING", "IDLE"}
  BY DEF TwinStates
<1>2. room \in Nat /\ left \in Nat
  <2>1. MaxSoc - twin.soc \in Int /\ twin.soc - MinSoc \in Int
    BY <1>1, TwinLimits
  <2>2. QED
    BY <2>1, MaxOfTwo
<1>3. EnergyMoved = CASE twin.mode = "CHARGING"    -> Min({twin.requested, room})
                      [] twin.mode = "DISCHARGING" -> Min({twin.requested, left})
                      [] twin.mode = "IDLE"        -> 0
  BY DEF EnergyMoved
<1> HIDE DEF room, left
<1>4. /\ Min({twin.requested, room}) \in Int /\ Min({twin.requested, left}) \in Int
      /\ twin.requested >= 0 => /\ Min({twin.requested, room}) >= 0
                                /\ Min({twin.requested, left}) >= 0
  BY <1>1, <1>2, MinOfTwo
<1>5. EnergyMoved \in Int /\ (twin.requested >= 0 => EnergyMoved >= 0)
  BY <1>1, <1>3, <1>4
<1>6. ASSUME NEW e \in Stored
      PROVE  e \in Int /\ (EnergyMoved >= 0 => e >= 0)
  <2>1. e \in Min({0, EnergyMoved})..Max({0, EnergyMoved})
    BY DEF Stored
  <2>2. Min({0, EnergyMoved}) = IF 0 <= EnergyMoved THEN 0 ELSE EnergyMoved
    BY <1>5, MinOfTwo
  <2>3. QED
    BY <1>5, <2>1, <2>2
<1>7. QED
  BY <1>5, <1>6

(***************************************************************************)
(* battery.py, tick: a battery within its limits stays within them unless  *)
(* a negative power is asked of it.                                        *)
(***************************************************************************)
LEMMA SocStaysWithinLimits ==
  ASSUME twin \in TwinStates, NEW s \in SocAfter
  PROVE  /\ s \in Int
         /\ twin.requested >= 0 /\ twin.soc \in MinSoc..MaxSoc =>
              s \in MinSoc..MaxSoc
<1>1. /\ twin.soc \in Int /\ EnergyMoved \in Int
      /\ twin.requested >= 0 => EnergyMoved >= 0
      /\ MinSoc \in Int /\ MaxSoc \in Int /\ MinSoc < MaxSoc
  BY EnergyTyped, TwinLimits DEF TwinStates
<1>2. CASE twin.mode = "CHARGING"
  <2>1. PICK e \in Stored : s = Min({MaxSoc, twin.soc + e})
    BY <1>2 DEF SocAfter
  <2>2. e \in Int /\ (EnergyMoved >= 0 => e >= 0)
    BY EnergyTyped
  <2>3. s = IF MaxSoc <= twin.soc + e THEN MaxSoc ELSE twin.soc + e
    BY <1>1, <2>1, <2>2, MinOfTwo
  <2>4. QED
    BY <1>1, <2>2, <2>3
<1>3. CASE twin.mode = "DISCHARGING"
  <2>1. s = Max({MinSoc, twin.soc - EnergyMoved})
    BY <1>3 DEF SocAfter
  <2>2. s = IF MinSoc >= twin.soc - EnergyMoved THEN MinSoc
                                                ELSE twin.soc - EnergyMoved
    BY <1>1, <2>1, MaxOfTwo
  <2>3. QED
    BY <1>1, <2>2
<1>4. CASE twin.mode = "IDLE"
  BY <1>1, <1>4 DEF SocAfter
<1>5. QED
  BY <1>2, <1>3, <1>4 DEF TwinStates

(***************************************************************************)
(* The reading a tick yields in some weather, whatever charge and          *)
(* temperature it ends with.                                               *)
(***************************************************************************)
LEMMA TickResultTyped ==
  ASSUME twin \in TwinStates, NEW w \in Weather, NEW soc \in StateOfCharge,
         NEW temp \in TemperatureLevels
  PROVE  /\ TickResult(w, soc, temp) \in Readings
         /\ TickResult(w, soc, temp).soc = soc
<1> DEFINE reading == TickResult(w, soc, temp)
<1>1. SolarPower(w.solar) \in Nat
  <2>1. w.solar \in Nat /\ (6 * w.solar) \div 10 \in Nat
    BY WeatherTyped
  <2>2. QED
    BY <2>1 DEF SolarPower
<1>2. BuildingLoad(w.load) \in Nat
  <2>1. w.load \in Nat /\ 10 - twin.shed \in Nat
    BY WeatherTyped DEF TwinStates, Tenths
  <2>2. w.load * (10 - twin.shed) \in Nat
    BY <2>1
  <2>3. QED
    BY <2>2 DEF BuildingLoad
<1>3. reading.imported \in Nat
  <2> DEFINE
    power      == IF twin.mode = "DISCHARGING" THEN -EnergyMoved ELSE EnergyMoved
    charged    == Max({0, power})
    discharged == Max({0, -power})
    deficit    == BuildingLoad(w.load)
                    - (InverterOutput(SolarPower(w.solar) + discharged) - charged)
  <2>1. power \in Int
    BY EnergyTyped
  <2>2. reading.imported = GridPower(Max({0, deficit}))
    BY DEF TickResult
  <2> HIDE DEF power
  <2>3. charged \in Int /\ discharged \in Int
    BY <2>1, MaxOfTwo
  <2> HIDE DEF charged, discharged
  <2>4. InverterOutput(SolarPower(w.solar) + discharged) \in Int
    BY <1>1, <2>3 DEF InverterOutput
  <2>5. deficit \in Int
    BY <1>2, <2>3, <2>4
  <2> HIDE DEF deficit
  <2>6. QED
    BY <2>2, <2>5, MaxOfTwo DEF GridPower
<1>4. reading = [soc |-> soc, temp |-> temp, inverter |-> twin.inverter,
                 grid |-> twin.grid, solar |-> SolarPower(w.solar),
                 load |-> BuildingLoad(w.load), imported |-> reading.imported]
  BY DEF TickResult
<1> HIDE DEF reading
<1>5. reading \in Readings /\ reading.soc = soc
  BY <1>1, <1>2, <1>3, <1>4 DEF Readings, TwinStates
<1>6. QED
  BY <1>5 DEF reading

(***************************************************************************)
(* The temperature stays one of the three levels.                          *)
(***************************************************************************)
LEMMA TempTyped ==
  ASSUME twin \in TwinStates, NEW temp \in TempAfter
  PROVE  temp \in TemperatureLevels
<1>1. twin.temp \in {0, 1, 2}
  BY DEF TwinStates, TemperatureLevels
<1>2. \/ temp = twin.temp
      \/ temp = twin.temp + 1 /\ temp <= 2
      \/ temp = twin.temp - 1 /\ temp >= 0
  BY DEF TempAfter
<1>3. QED
  BY <1>1, <1>2 DEF TemperatureLevels

(***************************************************************************)
(* A tick leaves alone what is asked of the battery and the load that is   *)
(* shed; the charge leaves its limits only under a negative request.       *)
(***************************************************************************)
LEMMA AdvanceTyped ==
  ASSUME twin \in TwinStates, RequestWithinPower,
         NEW soc \in SocAfter, NEW temp \in TempAfter, Advance(soc, temp)
  PROVE  /\ twin' \in TwinStates
         /\ RequestWithinPower'
         /\ twin'.requested = twin.requested
         /\ twin'.shed = twin.shed
         /\ twin'.soc = soc
         /\ twin.requested >= 0 /\ twin.soc \in MinSoc..MaxSoc =>
              twin'.soc \in MinSoc..MaxSoc
<1>1. twin' = [twin EXCEPT !.soc = soc, !.temp = temp]
  BY DEF Advance
<1>2. temp \in TemperatureLevels /\ soc \in Int
  BY TempTyped, SocStaysWithinLimits
<1>3. /\ twin' \in TwinStates /\ twin'.soc = soc
      /\ twin'.requested = twin.requested /\ twin'.mode = twin.mode
      /\ twin'.shed = twin.shed
  BY <1>1, <1>2 DEF TwinStates
<1>4. RequestWithinPower'
  BY <1>3 DEF RequestWithinPower
<1>5. QED
  BY <1>3, <1>4, SocStaysWithinLimits

(***************************************************************************)
(* A tick that does not raise yields a reading of the battery it leaves.   *)
(***************************************************************************)
LEMMA TickTyped ==
  ASSUME twin \in TwinStates, RequestWithinPower, NEW reading, Tick(reading)
  PROVE  /\ reading \in Readings
         /\ reading.soc = twin'.soc
         /\ twin' \in TwinStates
         /\ RequestWithinPower'
         /\ twin'.requested = twin.requested
         /\ twin'.shed = twin.shed
         /\ twin.requested >= 0 /\ twin.soc \in MinSoc..MaxSoc =>
              twin'.soc \in MinSoc..MaxSoc
<1>1. PICK w \in Weather, soc \in SocAfter \cap StateOfCharge, temp \in TempAfter :
        /\ reading = TickResult(w, soc, temp)
        /\ Advance(soc, temp)
  BY DEF Tick
<1>2. reading \in Readings /\ reading.soc = soc
  BY <1>1, TempTyped, TickResultTyped
<1>3. QED
  BY <1>1, <1>2, AdvanceTyped

-----------------------------------------------------------------------------
(***************************************************************************)
(* What the rules, and after them the filter, have in common: a candidate  *)
(* within the power of the battery, which discharges or sheds only while   *)
(* the grid is down, and sheds something when it sheds.                    *)
(***************************************************************************)
Reasonable(c, reading) ==
  /\ c \in Candidates
  /\ c.action \in {"DISCHARGE", "SHED_LOAD"} => GridDown(reading)
  /\ c.action = "SHED_LOAD" => c.amount > 0
  /\ c.action = "CHARGE" => c.amount <= MaxCharge
  /\ c.action = "DISCHARGE" => c.amount <= MaxDischarge

(***************************************************************************)
(* A candidate is a record of its three parts.                             *)
(***************************************************************************)
LEMMA CandidateReasonable ==
  ASSUME NEW reading, NEW action \in Actions, NEW amount \in Nat,
         NEW priority \in 1..5,
         action \in {"DISCHARGE", "SHED_LOAD"} => GridDown(reading),
         action = "SHED_LOAD" => amount > 0,
         action = "CHARGE" => amount <= MaxCharge,
         action = "DISCHARGE" => amount <= MaxDischarge
  PROVE  /\ Reasonable(Candidate(action, amount, priority), reading)
         /\ Candidate(action, amount, priority).priority = priority
BY DEF Candidate, Candidates, Reasonable

(***************************************************************************)
(* The constants of the rules are natural numbers, and an outage sheds     *)
(* something.                                                              *)
(***************************************************************************)
LEMMA RuleConstants ==
  /\ ReservePower \in Nat /\ CostPower \in Nat
  /\ ShedOnOutage \in Nat /\ ShedOnOutage > 0 /\ ShedOnOutage <= 10
BY RuleEngineAssumption DEF Tenths

(***************************************************************************)
(* To charge with some power, cut to what the battery takes, is            *)
(* reasonable.                                                             *)
(***************************************************************************)
LEMMA ChargeReasonable ==
  ASSUME NEW reading, NEW n \in Nat, NEW priority \in 1..5
  PROVE  LET c == Candidate("CHARGE", Min({n, MaxCharge}), priority)
         IN Reasonable(c, reading) /\ c.priority = priority
<1> DEFINE amount == Min({n, MaxCharge})
<1>1. amount \in Nat /\ amount <= MaxCharge
  BY TwinLimits, MinOfTwo
<1> HIDE DEF amount
<1>2. /\ Reasonable(Candidate("CHARGE", amount, priority), reading)
      /\ Candidate("CHARGE", amount, priority).priority = priority
  BY <1>1, CandidateReasonable DEF Actions
<1>3. QED
  BY <1>2 DEF amount

(***************************************************************************)
(* To discharge, likewise, while the grid is down.                         *)
(***************************************************************************)
LEMMA DischargeReasonable ==
  ASSUME NEW reading, GridDown(reading), NEW amount \in Nat,
         amount <= MaxDischarge, NEW priority \in 1..5
  PROVE  LET c == Candidate("DISCHARGE", amount, priority)
         IN Reasonable(c, reading) /\ c.priority = priority
BY CandidateReasonable DEF Actions

(***************************************************************************)
(* Every rule proposes reasonable candidates, of its own priority.         *)
(***************************************************************************)
LEMMA ProposedReasonable ==
  ASSUME NEW reading \in Readings, NEW c \in Proposed(reading)
  PROVE  Reasonable(c, reading) /\ c.priority \in 2..5
<1>1. /\ reading.load \in Nat /\ reading.solar \in Nat /\ reading.imported \in Nat
      /\ reading.solar - reading.load \in Int
      /\ -(reading.solar - reading.load) \in Int
  BY DEF Readings
<1>2. ASSUME NEW n \in Nat
      PROVE  Min({n, MaxDischarge}) \in Nat /\ Min({n, MaxDischarge}) <= MaxDischarge
  BY TwinLimits, MinOfTwo
<1>3. CASE c \in Reliability(reading)
  <2>1. GridDown(reading)
    BY <1>3 DEF Reliability
  <2>2. CASE c = Candidate("DISCHARGE", Min({reading.load, MaxDischarge}), 2)
    BY <1>1, <1>2, <2>1, <2>2, DischargeReasonable
  <2>3. CASE c = Candidate("SHED_LOAD", ShedOnOutage, 2)
    BY <2>1, <2>3, RuleConstants, CandidateReasonable DEF Actions
  <2>4. QED
    BY <1>3, <2>2, <2>3 DEF Reliability
<1>4. CASE c \in BatteryHealth(reading)
  <2> DEFINE surplus == Max({0, reading.solar - reading.load})
  <2>1. surplus \in Nat
    BY <1>1, MaxOfTwo
  <2>2. CASE c = Candidate("CHARGE", Min({surplus, MaxCharge}), 3)
    <3> HIDE DEF surplus
    <3>1. QED
      BY <2>1, <2>2, ChargeReasonable
  <2>3. CASE c = Candidate("CHARGE", Min({ReservePower, MaxCharge}), 3)
    BY <2>3, RuleConstants, ChargeReasonable
  <2>4. CASE /\ GridDown(reading)
             /\ c = Candidate("DISCHARGE", Min({reading.load, MaxDischarge}), 3)
    BY <1>1, <1>2, <2>4, DischargeReasonable
  <2>5. QED
    BY <1>4, <2>2, <2>3, <2>4 DEF BatteryHealth
<1>5. CASE c \in SelfConsumption(reading)
  <2> DEFINE net == reading.solar - reading.load
  <2>1. (net > 0 => net \in Nat) /\ (net < 0 => -net \in Nat)
    BY <1>1
  <2>2. CASE net > 0 /\ c = Candidate("CHARGE", Min({net, MaxCharge}), 4)
    <3> HIDE DEF net
    <3>1. QED
      BY <2>1, <2>2, ChargeReasonable
  <2>3. CASE /\ net < 0 /\ GridDown(reading)
             /\ c = Candidate("DISCHARGE", Min({-net, MaxDischarge}), 4)
    <3> DEFINE given == -net
    <3>1. given \in Nat
      BY <2>1, <2>3
    <3>2. c = Candidate("DISCHARGE", Min({given, MaxDischarge}), 4)
      BY <2>3
    <3> HIDE DEF given
    <3>3. QED
      BY <1>2, <2>3, <3>1, <3>2, DischargeReasonable
  <2>4. QED
    BY <1>5, <2>2, <2>3 DEF SelfConsumption
<1>6. CASE c \in Cost(reading)
  <2> DEFINE amount == Min({reading.imported, CostPower, MaxDischarge})
  <2>1. /\ GridDown(reading)
        /\ c = Candidate("DISCHARGE", amount, 5)
    BY <1>6 DEF Cost
  <2>2. amount \in Nat /\ amount <= MaxDischarge
    BY <1>1, MinOfThree, RuleConstants, TwinLimits
  <2> HIDE DEF amount
  <2>3. QED
    BY <2>1, <2>2, DischargeReasonable
<1>7. QED
  BY <1>3, <1>4, <1>5, <1>6 DEF Proposed

(***************************************************************************)
(* Among candidates of the four priorities that are ranked, one comes      *)
(* first.                                                                  *)
(***************************************************************************)
LEMMA SomeComesFirst ==
  ASSUME NEW safe, safe # {}, \A c \in safe : c.priority \in 2..5
  PROVE  \E c \in safe : \A d \in safe : c.priority <= d.priority
<1>1. CASE \E c \in safe : c.priority = 2
  BY <1>1
<1>2. CASE (\A c \in safe : c.priority # 2) /\ \E c \in safe : c.priority = 3
  BY <1>2
<1>3. CASE (\A c \in safe : c.priority \notin {2, 3}) /\ \E c \in safe : c.priority = 4
  BY <1>3
<1>4. CASE \A c \in safe : c.priority \notin {2, 3, 4}
  BY <1>4
<1>5. QED
  BY <1>1, <1>2, <1>3, <1>4

(***************************************************************************)
(* What the engine puts first is reasonable, and the filter has nothing    *)
(* against it.                                                             *)
(***************************************************************************)
LEMMA TopReasonable ==
  ASSUME NEW reading \in Readings, NEW site \in SiteConfigs
  PROVE  /\ Reasonable(Top(reading, site), reading)
         /\ ~Vetoed(Top(reading, site), reading, OperatingConstraints(site))
<1> DEFINE
  limits == OperatingConstraints(site)
  safe   == {c \in Proposed(reading) : ~Vetoed(c, reading, limits)}
<1>1. CASE safe # {}
  <2>1. \E c \in safe : \A d \in safe : c.priority <= d.priority
    BY <1>1, ProposedReasonable, SomeComesFirst
  <2>2. Top(reading, site) = CHOOSE c \in safe : \A d \in safe : c.priority <= d.priority
    BY <1>1 DEF Top
  <2>3. Top(reading, site) \in safe
    <3> HIDE DEF safe
    <3>1. QED
      BY <2>1, <2>2
  <2>4. QED
    BY <2>3, ProposedReasonable
<1>2. CASE safe = {}
  <2>1. limits.maxShed \in 0..10
    BY DEF OperatingConstraints, SiteConfigs, Tenths
  <2>2. Top(reading, site) = SafeDefault(reading, limits)
    BY <1>2 DEF Top
  <2>3. CASE GridDown(reading) /\ limits.maxShed > 0
    <3> DEFINE amount == Min({ShedOnOutage, limits.maxShed})
    <3>1. Top(reading, site) = Candidate("SHED_LOAD", amount, 1)
      BY <2>2, <2>3 DEF SafeDefault
    <3> HIDE DEF limits
    <3>2. amount \in Nat /\ amount > 0 /\ amount <= limits.maxShed
      BY <2>1, <2>3, RuleConstants, MinOfTwo
    <3> HIDE DEF amount
    <3>3. Reasonable(Top(reading, site), reading)
      BY <2>3, <3>1, <3>2, CandidateReasonable DEF Actions
    <3>4. ~Vetoed(Candidate("SHED_LOAD", amount, 1), reading, limits)
      BY <2>1, <3>2 DEF Vetoed, Candidate
    <3>5. QED
      BY <3>1, <3>3, <3>4 DEF limits
  <2>4. CASE ~(GridDown(reading) /\ limits.maxShed > 0)
    <3>1. PICK priority \in {1, 5} :
            Top(reading, site) = Candidate("HOLD", 0, priority)
      BY <2>2, <2>4 DEF SafeDefault
    <3> HIDE DEF limits
    <3>2. Reasonable(Top(reading, site), reading)
      BY <3>1, CandidateReasonable DEF Actions
    <3>3. ~Vetoed(Candidate("HOLD", 0, priority), reading, limits)
      BY DEF Vetoed, Candidate
    <3>4. QED
      BY <3>1, <3>2, <3>3 DEF limits
  <2>5. QED
    BY <2>3, <2>4
<1>3. QED
  BY <1>1, <1>2

(***************************************************************************)
(* Caution halves the power of a battery action; the filter does not mind. *)
(***************************************************************************)
LEMMA ConservativeReasonable ==
  ASSUME NEW reading, NEW site \in SiteConfigs, NEW c, Reasonable(c, reading),
         ~Vetoed(c, reading, OperatingConstraints(site))
  PROVE  /\ Reasonable(MakeConservative(c), reading)
         /\ ~Vetoed(MakeConservative(c), reading, OperatingConstraints(site))
<1>1. CASE c.action \in BatteryPowerActions
  <2>1. c.amount \in Nat /\ c \in Candidates
    BY DEF Reasonable, Candidates
  <2>2. (c.amount + 1) \div 2 \in Nat /\ (c.amount + 1) \div 2 <= c.amount
    BY <2>1
  <2>3. MakeConservative(c) = [c EXCEPT !.amount = (c.amount + 1) \div 2]
    BY <1>1 DEF MakeConservative
  <2>4. /\ MakeConservative(c) \in Candidates
        /\ MakeConservative(c).action = c.action
        /\ MakeConservative(c).amount <= c.amount
        /\ MakeConservative(c).amount \in Nat
    BY <2>1, <2>2, <2>3 DEF Candidates
  <2>5. c.action \in {"CHARGE", "DISCHARGE"}
    BY <1>1 DEF BatteryPowerActions
  <2>6. QED
    BY <2>1, <2>4, <2>5, TwinLimits DEF Reasonable, Vetoed
<1>2. CASE c.action \notin BatteryPowerActions
  BY <1>2 DEF MakeConservative
<1>3. QED
  BY <1>1, <1>2

(***************************************************************************)
(* What the engine recommends, with caution or without.                    *)
(***************************************************************************)
LEMMA RecommendedReasonable ==
  ASSUME NEW reading \in Readings, NEW site \in SiteConfigs, NEW band
  PROVE  /\ Reasonable(Recommended(reading, site, band), reading)
         /\ ~Vetoed(Recommended(reading, site, band), reading,
                    OperatingConstraints(site))
BY TopReasonable, ConservativeReasonable DEF Recommended

(***************************************************************************)
(* The filter looks at what the policy looks at, and at what safety looks  *)
(* at but for the inverter and the ceiling on shedding, which it does not  *)
(* know.                                                                   *)
(***************************************************************************)
LEMMA FilterImpliesGates ==
  ASSUME NEW reading \in Readings, NEW site \in SiteConfigs, NEW c,
         Reasonable(c, reading), ~Vetoed(c, reading, OperatingConstraints(site))
  PROVE  /\ PolicyPasses(c, site)
         /\ \/ SafetyPasses(c, reading, site)
            \/ c.action \in BatteryPowerActions /\ reading.inverter # "NORMAL"
            \/ c.action = "SHED_LOAD" /\ c.amount > site.limitShed
<1>1. /\ c.amount \in Nat /\ c.action \in Actions
      /\ reading.soc \in Int /\ reading.temp \in {0, 1, 2}
      /\ site.policyShed \in 0..10 /\ site.limitShed \in 0..10
      /\ MinSoc \in Nat /\ MaxSoc \in Nat
  <2>1. reading.soc \in StateOfCharge /\ reading.temp \in {0, 1, 2}
    BY DEF Readings, TemperatureLevels
  <2>2. reading.soc \in Int
    BY <2>1, TwinAssumption DEF StateOfCharge
  <2>3. c.amount \in Nat /\ c.action \in Actions
    BY DEF Reasonable, Candidates
  <2>4. site.policyShed \in 0..10 /\ site.limitShed \in 0..10
    BY DEF SiteConfigs, Tenths
  <2>5. QED
    BY <2>1, <2>2, <2>3, <2>4, TwinLimits
<1>2. /\ c.action = "CHARGE" =>
           reading.soc < MaxSoc /\ reading.temp < 2 /\ ~site.maintenance
      /\ c.action = "DISCHARGE" => reading.soc > MinSoc /\ reading.temp < 2
      /\ c.action = "SHED_LOAD" => c.amount <= site.policyShed
  BY <1>1 DEF Vetoed, OperatingConstraints
<1>3. PolicyPasses(c, site)
  BY <1>2 DEF PolicyPasses
<1>4. QED
  BY <1>1, <1>2, <1>3 DEF SafetyPasses, Reasonable, BatteryPowerActions
=============================================================================
