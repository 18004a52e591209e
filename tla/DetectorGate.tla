---------------------------- MODULE DetectorGate ----------------------------
(***************************************************************************)
(* The release of anomaly detectors: each is run on fault scenarios of the *)
(* twin, tick by tick, and goes live for exactly the anomaly types it      *)
(* catches well enough.  AnomalyScoringService keeps, of what the live     *)
(* detectors fire, the types they are cleared for.                         *)
(*                                                                         *)
(* A reading is what tells the detectors' conditions apart: how warm the   *)
(* battery is over its normal temperature, the statuses, whether the sun   *)
(* and the panels agree, the load.                                         *)
(***************************************************************************)
EXTENDS Integers, FiniteSetsExt, SequencesExt

CONSTANTS
  Thresholds,      \* battery_overheat_temp_c of the rule detectors made
  Sigma,           \* load_spike_sigma_threshold
  MinHistory,      \* min_history_for_baseline
  WarmupLoads,     \* the loads of a scenario's ticks before the fault
  FaultTicks,      \* _FAULT_TICKS
  MaxLateTicks,    \* detection_delay_target_seconds in ticks
  ForestFits,      \* what a fit of the isolation forest may leave: a ranking
                   \* of the features, nerves, and the loads usual in training
  Unfitted, NoDetector, NoRecall

ASSUME DetectorAssumption ==
  /\ Thresholds \subseteq Nat
  /\ {Sigma, MinHistory, MaxLateTicks} \subseteq Nat
  /\ FaultTicks \in Nat \ {0}
  /\ WarmupLoads \in Seq(Nat) \ {<<>>}
  /\ Unfitted \notin ForestFits
  /\ NoRecall \notin Nat

AnomalyTypes ==
  {"BATTERY_OVERHEATING", "GRID_INSTABILITY", "COMMUNICATION_LOSS",
   "INVERTER_FAULT", "LOAD_SPIKE", "SENSOR_FAILURE"}

Names == {"rule-detector", "statistical-detector", "isolation-forest-detector"}

(***************************************************************************)
(* A rule detector keeps the threshold it was made with; the forest is one *)
(* object, whose fit is in `forest'.                                       *)
(***************************************************************************)
Detectors ==
  [name : {"rule-detector"}, threshold : Thresholds]
    \cup [name : Names \ {"rule-detector"}, threshold : {0}]

SupportedTypes(d) ==
  CASE d.name = "rule-detector" ->
         {"BATTERY_OVERHEATING", "GRID_INSTABILITY", "COMMUNICATION_LOSS",
          "INVERTER_FAULT"}
    [] d.name = "statistical-detector" -> {"LOAD_SPIKE", "SENSOR_FAILURE"}
    [] OTHER -> AnomalyTypes \ {"COMMUNICATION_LOSS"}

VARIABLES
  forest,     \* the isolation forest's fit
  active,     \* DetectorRegistry._active
  covered,    \* _covered_types
  recalls,    \* _metrics_by_type: the fault ticks caught, by type
  history,    \* the loads of the readings before this one
  reported,   \* the types of the anomalies the last reading was scored as
  retrained   \* history: the detectors fitted again since they went live

detectorVars ==
  <<forest, active, covered, recalls, history, reported, retrained>>

DetectorTypeOK ==
  /\ forest \in ForestFits \cup {Unfitted}
  /\ active \in [Names -> Detectors \cup {NoDetector}]
  /\ covered \in [Names -> SUBSET AnomalyTypes]
  /\ recalls \in [Names -> [AnomalyTypes -> (0..FaultTicks) \cup {NoRecall}]]
  /\ history \in Seq(Nat)
  /\ reported \subseteq AnomalyTypes
  /\ retrained \subseteq Names
  /\ \A n \in Names :
       active[n] # NoDetector =>
         /\ active[n].name = n
         /\ covered[n] \subseteq SupportedTypes(active[n])
         /\ covered[n] = {t \in AnomalyTypes : recalls[n][t] # NoRecall}

DetectorInit ==
  /\ forest = Unfitted
  /\ active = [n \in Names |-> NoDetector]
  /\ covered = [n \in Names |-> {}]
  /\ recalls = [n \in Names |-> [t \in AnomalyTypes |-> NoRecall]]
  /\ history = <<>>
  /\ reported = {}
  /\ retrained = {}
-----------------------------------------------------------------------------
(***************************************************************************)
(* RuleDetector.detect: a lost connection is not a fault of the inverter.  *)
(***************************************************************************)
RuleFires(threshold, r) ==
  {t \in AnomalyTypes :
     CASE t = "BATTERY_OVERHEATING" -> r.warmth > threshold
       [] t = "GRID_INSTABILITY"    -> r.grid \in {"OUTAGE", "UNSTABLE"}
       [] t = "COMMUNICATION_LOSS"  -> r.inverter = "FAULT_COMM_LOSS"
       [] t = "INVERTER_FAULT"      ->
            r.inverter \in {"FAULT_OVERTEMP", "FAULT_OVERVOLTAGE", "SHUTDOWN"}
       [] OTHER                     -> FALSE}

SumOf(values) ==
  LET sum[i \in 0..Len(values)] == IF i = 0 THEN 0 ELSE sum[i - 1] + values[i]
  IN sum[Len(values)]

(***************************************************************************)
(* StatisticalDetector._load_spike: the load is more than Sigma standard   *)
(* deviations from the mean of the loads before it, multiplied out.  Loads *)
(* that do not vary have no deviation to measure with.                     *)
(***************************************************************************)
LoadSpike(load, loads) ==
  LET n        == Len(loads)
      sum      == SumOf(loads)
      squares  == SumOf([i \in 1..n |-> loads[i] * loads[i]])
      variance == n * squares - sum * sum          \* n^2 times the variance
      distance == n * load - sum                   \* n times the distance
  IN /\ n >= MinHistory
     /\ variance > 0
     /\ distance * distance > Sigma * Sigma * variance

StatisticalFires(r, loads) ==
  {t \in {"LOAD_SPIKE"} : LoadSpike(r.load, loads)}
    \cup {t \in {"SENSOR_FAILURE"} : r.sun /\ ~r.solar}

(***************************************************************************)
(* IsolationForestDetector.detect: a reading it finds unusual is put down  *)
(* to the feature that deviates most, by the ranking its training left.    *)
(* A nervous forest finds every reading unusual.  How far a feature        *)
(* deviates is told by the readings it was trained on, not by those that   *)
(* came before this one.                                                   *)
(***************************************************************************)
Attributed ==
  [solar |-> "SENSOR_FAILURE", warmth |-> "BATTERY_OVERHEATING",
   inverter |-> "INVERTER_FAULT", grid |-> "GRID_INSTABILITY",
   load |-> "LOAD_SPIKE"]

Deviates(fit, r, feature) ==
  CASE feature = "solar"    -> ~r.solar
    [] feature = "warmth"   -> r.warmth > 0
    [] feature = "inverter" -> r.inverter \in {"FAULT_COMM_LOSS", "SHUTDOWN"}
    [] feature = "grid"     -> r.grid # "CONNECTED"
    [] feature = "load"     -> r.load \notin fit.usual

ForestFires(fit, r) ==
  LET deviant == SelectSeq(fit.ranking, LAMBDA f : Deviates(fit, r, f))
      ranked  == IF fit.nervous THEN deviant \o fit.ranking ELSE deviant
  IN IF ranked = <<>> THEN {} ELSE {Attributed[Head(ranked)]}

Fires(d, fit, r, loads) ==
  CASE d.name = "rule-detector"        -> RuleFires(d.threshold, r)
    [] d.name = "statistical-detector" -> StatisticalFires(r, loads)
    [] OTHER                           -> ForestFires(fit, r)

DetectRaises(d, fit) ==
  d.name = "isolation-forest-detector" /\ fit = Unfitted
-----------------------------------------------------------------------------
(***************************************************************************)
(* The scenarios: a clean twin warms up, then one fault is injected.  No   *)
(* scenario injects a load spike.  An overheating battery takes a tick for *)
(* each degree; every other fault shows at once.                           *)
(***************************************************************************)
Tested == AnomalyTypes \ {"LOAD_SPIKE"}

NormalReading(load) ==
  [warmth |-> 0, grid |-> "CONNECTED", inverter |-> "NORMAL",
   sun |-> TRUE, solar |-> TRUE, load |-> load]

FaultyReading(type, i) ==
  LET normal == NormalReading(Last(WarmupLoads))
  IN CASE type = "BATTERY_OVERHEATING" -> [normal EXCEPT !.warmth = i]
       [] type = "GRID_INSTABILITY"    -> [normal EXCEPT !.grid = "OUTAGE"]
       [] type = "SENSOR_FAILURE"      -> [normal EXCEPT !.solar = FALSE]
       [] type = "INVERTER_FAULT"      ->
            [normal EXCEPT !.inverter = "FAULT_OVERTEMP"]
       [] type = "COMMUNICATION_LOSS"  ->
            [normal EXCEPT !.inverter = "FAULT_COMM_LOSS"]

LoadsBefore(i) ==    \* before the i-th tick of the fault
  WarmupLoads \o [j \in 1..(i - 1) |-> Last(WarmupLoads)]

(***************************************************************************)
(* AnomalyEvaluator._evaluate_scenario: the fault ticks at which the type  *)
(* fires, and the normal ticks at which anything does.  A detector that    *)
(* raises has caught nothing.                                              *)
(***************************************************************************)
Caught(d, fit, type) ==
  IF DetectRaises(d, fit) THEN {}
  ELSE {i \in 1..FaultTicks :
          type \in Fires(d, fit, FaultyReading(type, i), LoadsBefore(i))}

FalseAlarms(d, fit) ==
  IF DetectRaises(d, fit) THEN {}
  ELSE {i \in DOMAIN WarmupLoads :
          Fires(d, fit, NormalReading(WarmupLoads[i]),
                SubSeq(WarmupLoads, 1, i - 1)) # {}}

(***************************************************************************)
(* Precision and recall of nine tenths, and the first catch in time.       *)
(***************************************************************************)
MeetsTargets(caught, falseAlarms) ==
  LET hits == Cardinality(caught)
  IN /\ 10 * hits >= 9 * (hits + Cardinality(falseAlarms))
     /\ 10 * hits >= 9 * FaultTicks
     /\ caught # {} => Min(caught) - 1 <= MaxLateTicks

(***************************************************************************)
(* Every detector in every scenario, once for all.                         *)
(***************************************************************************)
Trials ==
  [d \in Detectors |-> [fit \in ForestFits \cup {Unfitted} |->
    [t \in Tested |->
      LET caught == Caught(d, fit, t)
      IN [hits  |-> Cardinality(caught),
          meets |-> MeetsTargets(caught, FalseAlarms(d, fit))]]]]

RecallIgnored(recall, previous) == FALSE   \* mutant

Regressed(recall, previous) == previous # NoRecall /\ recall < previous

Cleared(d, fit) ==
  {t \in SupportedTypes(d) \cap Tested :
     /\ Trials[d][fit][t].meets
     /\ ~Regressed(Trials[d][fit][t].hits, recalls[d.name][t])}

(***************************************************************************)
(* DetectorTrainingService.evaluate_and_register.  What was registered     *)
(* before under the name is replaced, metrics and all; a detector cleared  *)
(* for nothing leaves it as it is, and so does a registry that raises.     *)
(***************************************************************************)
MergeMetrics(d, types, fit) ==   \* mutant: the old metrics are kept as well
  /\ active' = [active EXCEPT ![d.name] = d]
  /\ covered' = [covered EXCEPT ![d.name] = types]
  /\ recalls' =
       [recalls EXCEPT ![d.name] =
          [t \in AnomalyTypes |-> IF t \in types THEN Trials[d][fit][t].hits
                                                 ELSE @[t]]]
  /\ retrained' = retrained \ {d.name}

Replace(d, types, fit) ==
  /\ active' = [active EXCEPT ![d.name] = d]
  /\ covered' = [covered EXCEPT ![d.name] = types]
  /\ recalls' =
       [recalls EXCEPT ![d.name] =
          [t \in AnomalyTypes |->
             IF t \in types THEN Trials[d][fit][t].hits ELSE NoRecall]]
  /\ retrained' = retrained \ {d.name}

KeepRegistered(fitted) ==
  /\ UNCHANGED <<active, covered, recalls>>
  /\ retrained' = retrained \cup fitted

RegisterWhatever(d, fitted) ==   \* mutant: one cleared for nothing goes live
  \/ Replace(d, Cleared(d, forest'), forest')
  \/ KeepRegistered(fitted)

RegisterThenFit(d, fitted) ==    \* mutant: the gate is run before the fit
  LET types == Cleared(d, forest)
  IN \/ types # {} /\ Replace(d, types, forest)
     \/ KeepRegistered(fitted)

Register(d, fitted) ==
  LET types == Cleared(d, forest')
  IN \/ types # {} /\ Replace(d, types, forest')
     \/ KeepRegistered(fitted)

EvaluateDetector(d) ==
  /\ UNCHANGED <<forest, history, reported>>
  /\ Register(d, {})

(***************************************************************************)
(* train_and_evaluate: the forest is fitted in place, live or not.         *)
(***************************************************************************)
TrainForest ==
  /\ forest' \in ForestFits
  /\ \E d \in Detectors :
       d.name = "isolation-forest-detector" /\ Register(d, {d.name})
  /\ UNCHANGED <<history, reported>>

DetectorGateStep == TrainForest \/ \E d \in Detectors : EvaluateDetector(d)
-----------------------------------------------------------------------------
(***************************************************************************)
(* AnomalyScoringService.score.                                            *)
(***************************************************************************)
ScoreRaises ==
  \E n \in Names : active[n] # NoDetector /\ DetectRaises(active[n], forest)

Anomalies(r) ==
  UNION {covered[n] \cap Fires(active[n], forest, r, history) :
           n \in {m \in Names : active[m] # NoDetector}}
-----------------------------------------------------------------------------
(***************************************************************************)
(* PROPERTY.  No anomaly of a type that no scenario tests is ever          *)
(* reported: the load spike detection, as shipped, reports nothing.        *)
(***************************************************************************)
UntestedIsNeverReported == reported \subseteq Tested

(***************************************************************************)
(* PROPERTY.  As long as a detector stays cleared for a type, the recall   *)
(* on record for the type, the one it was released with, never falls.  (A  *)
(* type that is dropped loses its record, and may come back with less.)    *)
(***************************************************************************)
NoRecallLost ==
  \A n \in Names, t \in AnomalyTypes :
    t \in covered[n] \cap covered'[n] => recalls'[n][t] >= recalls[n][t]

RecallNeverFalls == [][NoRecallLost]_detectorVars

(***************************************************************************)
(* PROPERTY.  The record is true of the detector that is live: as it is    *)
(* now it meets its targets for every type it is cleared for, and catches  *)
(* as much as is on record, unless it was fitted again since it went live. *)
(***************************************************************************)
EarnsItsRecord(n, t) ==
  LET trial == Trials[active[n]][forest][t]
  IN trial.meets /\ trial.hits = recalls[n][t]

OnlyARefitBeliesTheRecord ==
  \A n \in Names \ retrained :
    active[n] # NoDetector => \A t \in covered[n] : EarnsItsRecord(n, t)
=============================================================================
