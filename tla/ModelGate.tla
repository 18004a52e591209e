------------------------------ MODULE ModelGate ------------------------------
(***************************************************************************)
(* The release of forecast models: TrainingService fits a model in place,  *)
(* ForecastEvaluator runs it on the benchmark scenarios, and the           *)
(* ModelRegistry keeps, for each kind, the model that was released last    *)
(* and the metrics it was released with.  ForecastingService asks the      *)
(* released model for a forecast and saves it.                             *)
(*                                                                         *)
(* A model is known by its skill: the error it makes under each condition, *)
(* in units of its kind's metric, or Raises where it raises.  A condition  *)
(* is a benchmark scenario or one that no scenario has.                    *)
(***************************************************************************)
EXTENDS Integers, FiniteSetsExt

CONSTANTS
  Models,       \* the model objects, baselines and trained ones
  Kind,         \* [Models -> Kinds]
  Trainable,    \* the models that can be fitted
  Scenarios,    \* the benchmark scenarios
  Primary,      \* those whose accuracy counts
  Unseen,       \* the conditions that no scenario has
  Horizons, Resolution,    \* ForecastConfig's, in minutes
  Target,       \* [Kinds -> Nat], ForecastConfig's *_target_pct
  FirstSkill,   \* [Models -> Skills], before any fit
  Fits,         \* the skills a fit may leave
  Raises, NoModel, NoBar

Kinds == {"SOLAR_GENERATION", "BUILDING_LOAD", "BATTERY_SOC"}
Conditions == Scenarios \cup Unseen
Skills == [Conditions -> Nat \cup {Raises}]

ASSUME ModelAssumption ==
  /\ Kind \in [Models -> Kinds]
  /\ Trainable \subseteq Models
  /\ Primary \subseteq Scenarios
  /\ Unseen \cap Scenarios = {}
  /\ Horizons \subseteq Nat
  /\ Resolution \in Nat \ {0}
  /\ Target \in [Kinds -> Nat]
  /\ FirstSkill \in [Models -> Skills]
  /\ Fits \subseteq Skills
  /\ NoModel \notin Models
  /\ IsFiniteSet(Scenarios)

VARIABLES
  skill,      \* what each model object would do now
  released,   \* ModelRegistry._current
  bar,        \* ModelRegistry._metrics, an average error
  latest,     \* ForecastRepository._latest: who made it
  refitted    \* history: the models fitted again since their release

modelVars == <<skill, released, bar, latest, refitted>>

Bars == [sum : Nat, count : Nat \ {0}]

ASSUME NoBarAssumption == NoBar \notin Bars

ModelTypeOK ==
  /\ skill \in [Models -> Skills]
  /\ released \in [Kinds -> Models \cup {NoModel}]
  /\ bar \in [Kinds -> Bars \cup {NoBar}]
  /\ latest \in [Kinds -> Models \cup {NoModel}]
  /\ refitted \subseteq Trainable
  /\ \A k \in Kinds : released[k] # NoModel => Kind[released[k]] = k

ModelInit ==
  /\ skill = FirstSkill
  /\ released = [k \in Kinds |-> NoModel]
  /\ bar = [k \in Kinds |-> NoBar]
  /\ latest = [k \in Kinds |-> NoModel]
  /\ refitted = {}
-----------------------------------------------------------------------------
(***************************************************************************)
(* generate_training_examples: a run of the twin in a scenario gives every *)
(* kind an example for each horizon that is a step of the series or more.  *)
(* The scenarios with something to test are all, or none.                  *)
(***************************************************************************)
SomethingIsTested == \E h \in Horizons : h >= Resolution

Examples == IF SomethingIsTested THEN Scenarios ELSE {}

(***************************************************************************)
(* ForecastEvaluator.evaluate on a model of kind k with skill sk.          *)
(***************************************************************************)
Clears(k, sk, s) ==
  /\ sk[s] # Raises
  /\ s \in Primary => sk[s] <= Target[k]

(***************************************************************************)
(* The average over the primary scenarios that ran; none of them, none.    *)
(***************************************************************************)
Average(sk) ==
  LET ran == {s \in Examples \cap Primary : sk[s] # Raises}
  IN IF ran = {} THEN NoBar
     ELSE [sum   |-> MapThenSumSet(LAMBDA s : sk[s], ran),
           count |-> Cardinality(ran)]

Worse(average, than) == average.sum * than.count > than.sum * average.count

WorseAllowed(average, previous) == FALSE   \* mutant

WorseThanReleased(average, previous) ==
  NoBar \notin {average, previous} /\ Worse(average, previous)

ClearsOnAverage(k, sk) ==   \* mutant: the scenarios that raise are skipped
  Average(sk) # NoBar => ~Worse(Average(sk), [sum |-> Target[k], count |-> 1])

ClearsAll(k, sk) == \A s \in Examples : Clears(k, sk, s)

Passed(k, sk) ==
  ClearsAll(k, sk) /\ ~WorseThanReleased(Average(sk), bar[k])

(***************************************************************************)
(* TrainingService.evaluate_and_register.  The registry may be MLflow's,   *)
(* which raises when it cannot log: then nothing is released.              *)
(***************************************************************************)
Release(m) ==
  LET k == Kind[m]
  IN /\ Passed(k, skill'[m])
     /\ released' = [released EXCEPT ![k] = m]
     /\ bar' = [bar EXCEPT ![k] = Average(skill'[m])]
     /\ refitted' = refitted \ {m}

Withhold(m, fitted) ==
  /\ UNCHANGED <<released, bar>>
  /\ refitted' = refitted \cup fitted

EvaluateAndRegister(m) ==
  /\ UNCHANGED <<skill, latest>>
  /\ Release(m) \/ Withhold(m, {})

(***************************************************************************)
(* train_and_evaluate and retrain: the object is fitted where it stands,   *)
(* released or not.  A fit that raises changes nothing.                    *)
(***************************************************************************)
TrainAndEvaluate(m) ==
  /\ m \in Trainable
  /\ \E fit \in Fits : skill' = [skill EXCEPT ![m] = fit]
  /\ UNCHANGED latest
  /\ Release(m) \/ Withhold(m, {m})
-----------------------------------------------------------------------------
(***************************************************************************)
(* The kinds a forecast of k is made from: the battery's is projected from *)
(* the other two.                                                          *)
(***************************************************************************)
Inputs(k) ==
  IF k = "BATTERY_SOC" THEN {"SOLAR_GENERATION", "BUILDING_LOAD"} ELSE {}

CanForecast(k) == released[k] # NoModel     \* else NoRegisteredModel

PredictRaises(k, s) == skill[released[k]][s] = Raises

(***************************************************************************)
(* The forecast a forecaster of kind k saves.                              *)
(***************************************************************************)
SaveForecast(k) == latest' = [latest EXCEPT ![k] = released[k]]

Forecast(k) ==
  /\ CanForecast(k)
  /\ \E s \in Conditions : ~PredictRaises(k, s)
  /\ \A input \in Inputs(k) : latest[input] # NoModel
  /\ SaveForecast(k)
  /\ UNCHANGED <<skill, released, bar, refitted>>

ModelGateStep ==
  \E m \in Models : EvaluateAndRegister(m) \/ TrainAndEvaluate(m)
-----------------------------------------------------------------------------
(***************************************************************************)
(* PROPERTY.  A release never makes a kind's average error worse than that *)
(* of the release before it, however often models are retrained.           *)
(***************************************************************************)
NoWorseRelease ==
  \A k \in Kinds :
    bar[k] # NoBar =>
      /\ bar'[k] # NoBar
      /\ ~Worse(bar'[k], bar[k])

ReleasesOnlyImprove == [][NoWorseRelease]_modelVars

(***************************************************************************)
(* PROPERTY.  A released model that would not meet its targets now, or     *)
(* would raise, was fitted again after its release: no other way leads     *)
(* round the gate.  (That way there is: the fit is in place.)              *)
(***************************************************************************)
OnlyARefitServesTheUncleared ==
  \A k \in Kinds :
    released[k] \notin refitted \cup {NoModel} =>
      \A s \in Examples : Clears(k, skill[released[k]], s)
=============================================================================
