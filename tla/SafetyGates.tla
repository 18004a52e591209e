----------------------------- MODULE SafetyGates -----------------------------
(***************************************************************************)
(* The three gates a command passes: the site's policy, the hard safety    *)
(* limits and the risk level.  Each is a function of the command, a        *)
(* reading and the site's configuration.                                   *)
(*                                                                         *)
(* The wiring takes the state-of-charge and power limits of the policy and *)
(* of the safety limits from the same SiteConfig, so one pair of constants *)
(* stands for both; the two ceilings on shedding are set apart.            *)
(*                                                                         *)
(* The optimiser recommends battery and load actions only: the checks on   *)
(* grid imports and exports, and on a target state of charge, never bite.  *)
(* The planner gives every asset the NORMAL operating mode.                *)
(***************************************************************************)
EXTENDS DigitalTwin

CONSTANTS
  CriticalMargin,      \* 5% of the usable range: nearer the limit is CRITICAL
  MediumMargin         \* 25% of the usable range

ASSUME MarginsAssumption ==
  /\ {CriticalMargin, MediumMargin} \subseteq Nat
  /\ CriticalMargin < MediumMargin
  /\ MediumMargin < MaxSoc - MinSoc

SiteConfigs ==
  [policyShed  : Tenths,       \* Policy.max_shed_fraction
   limitShed   : Tenths,       \* SafetyLimits.building_max_shed_fraction
   maintenance : BOOLEAN]      \* Policy.maintenance_mode, no override

Actions == {"CHARGE", "DISCHARGE", "HOLD", "SHED_LOAD"}

BatteryPowerActions == {"CHARGE", "DISCHARGE"}

(***************************************************************************)
(* PolicyValidator.validate.                                               *)
(***************************************************************************)
PolicyPasses(command, site) ==
  /\ command.action = "CHARGE" => ~site.maintenance
  /\ command.action = "SHED_LOAD" => command.amount <= site.policyShed

(***************************************************************************)
(* SafetyValidator._evaluate: no check fails.                              *)
(***************************************************************************)
SafetyPasses(command, reading, site) ==
  /\ command.action = "SHED_LOAD" => command.amount <= site.limitShed
  /\ command.action \in BatteryPowerActions =>
       reading.temp < 2 /\ reading.inverter = "NORMAL"
  /\ command.action = "CHARGE" =>
       reading.soc < MaxSoc /\ command.amount <= MaxCharge
  /\ command.action = "DISCHARGE" =>
       reading.soc > MinSoc /\ command.amount <= MaxDischarge

(***************************************************************************)
(* How far a battery action is from the limit it moves towards; the others *)
(* have no such limit.                                                     *)
(***************************************************************************)
Margin(command, reading) ==
  CASE command.action = "CHARGE"    -> MaxSoc - reading.soc
    [] command.action = "DISCHARGE" -> reading.soc - MinSoc
    [] OTHER                        -> MaxSoc - MinSoc

LargeSwing(command) ==      \* more than half of the rated power
  \/ command.action = "CHARGE" /\ 2 * command.amount > MaxCharge
  \/ command.action = "DISCHARGE" /\ 2 * command.amount > MaxDischarge

(***************************************************************************)
(* RiskAssessor._classify, for a command that passed the safety gate: the  *)
(* first of its rules that applies.  The pipeline supplies no forecast     *)
(* uncertainty.                                                            *)
(***************************************************************************)
HighRisk(command, reading, site) ==
  \/ command.action = "DISCHARGE" /\ reading.soc <= MinSoc
  \/ LargeSwing(command)
  \/ site.maintenance

RiskLevelIgnoringOffline(command, reading, site) ==   \* mutant
  IF Margin(command, reading) < CriticalMargin    THEN "CRITICAL"
  ELSE IF HighRisk(command, reading, site)        THEN "HIGH"
  ELSE IF Margin(command, reading) < MediumMargin THEN "MEDIUM"
  ELSE "LOW"

RiskLevel(command, reading, site) ==
  IF \/ reading.inverter # "NORMAL"
     \/ AssetOffline(reading)
     \/ Margin(command, reading) < CriticalMargin THEN "CRITICAL"
  ELSE IF HighRisk(command, reading, site)         THEN "HIGH"
  ELSE IF Margin(command, reading) < MediumMargin  THEN "MEDIUM"
  ELSE "LOW"
=============================================================================
