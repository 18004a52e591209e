----------------------------- MODULE Confidence -----------------------------
(***************************************************************************)
(* ConfidenceEstimator: how sure the engine is of its inputs, in           *)
(* thousandths, and the band the score falls in.                           *)
(*                                                                         *)
(* The inputs: for each forecast that is available its confidence, or      *)
(* Unstated; the age of the reading in seconds; and the number of          *)
(* anomalies since a quarter of an hour ago.                               *)
(***************************************************************************)
EXTENDS Integers, FiniteSets

CONSTANT Unstated     \* ForecastMetadata.confidence is None

ASSUME UnstatedAssumption == Unstated \notin Int

ForecastKinds == {"SOLAR_GENERATION", "BUILDING_LOAD", "BATTERY_SOC"}

Confidences == 0..1000 \cup {Unstated}

Bands == {"LOW", "MEDIUM", "HIGH"}
FreshSeconds == 60
StaleSeconds == 900
Weights == [certainty |-> 200, freshness |-> 350, completeness |-> 100,
            anomalies |-> 350]
LowThreshold == 700
HighThreshold == 900

(***************************************************************************)
(* The sub-scores; the two about forecasts are sums over the kinds.        *)
(***************************************************************************)
Certainty(available, kind) ==
  IF kind \notin DOMAIN available       THEN 300
  ELSE IF available[kind] = Unstated    THEN 700
  ELSE available[kind]

CertaintySum(available) ==
  Certainty(available, "SOLAR_GENERATION")
    + Certainty(available, "BUILDING_LOAD") + Certainty(available, "BATTERY_SOC")

Completeness(available) == 1000 * Cardinality(DOMAIN available)

Freshness(age) ==
  CASE age <= FreshSeconds -> 1000
    [] age >= StaleSeconds -> 200
    [] OTHER -> 1000 - (800 * (age - FreshSeconds))
                         \div (StaleSeconds - FreshSeconds)

AnomalyScore(count) == IF count > 2 THEN 300 ELSE 1000 - 250 * count

(***************************************************************************)
(* The weighted sum, times 1000 * |ForecastKinds| to stay in the integers. *)
(***************************************************************************)
Score(available, age, count) ==
  LET kinds == Cardinality(ForecastKinds) IN
    Weights.certainty * CertaintySum(available)
  + Weights.completeness * Completeness(available)
  + kinds * (Weights.freshness * Freshness(age)
             + Weights.anomalies * AnomalyScore(count))

BandIgnoringAge(available, age, count) ==   \* mutant: age is not looked at
  LET unit == 1000 * Cardinality(ForecastKinds)
      score == Score(available, 0, count)
  IN CASE score > unit * HighThreshold -> "HIGH"
       [] score < unit * LowThreshold  -> "LOW"
       [] OTHER                        -> "MEDIUM"

BandEager(available, age, count) ==   \* mutant: four fifths are high
  LET unit == 1000 * Cardinality(ForecastKinds)
      score == Score(available, age, count)
  IN CASE score > unit * 800          -> "HIGH"
       [] score < unit * LowThreshold -> "LOW"
       [] OTHER                       -> "MEDIUM"

Band(available, age, count) ==
  LET unit == 1000 * Cardinality(ForecastKinds)
      score == Score(available, age, count)
  IN CASE score > unit * HighThreshold -> "HIGH"
       [] score < unit * LowThreshold  -> "LOW"
       [] OTHER                        -> "MEDIUM"
=============================================================================
