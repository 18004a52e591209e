--------------------------- MODULE ReadingAnalysis ---------------------------
(***************************************************************************)
(* What SystemComposition.refresh_telemetry does with a reading that it    *)
(* has taken in and published: it asks for a solar forecast, and has the   *)
(* reading scored by the live detectors against the readings before it.    *)
(* Models and detectors are trained, evaluated and released in between.    *)
(* (A refresh whose ingestion or state update raises does not get this     *)
(* far and changes nothing here: see AutoDecisionCycle.)                   *)
(***************************************************************************)
EXTENDS ModelGate, DetectorGate

CONSTANTS
  LiveReadings,     \* the readings that come in
  Like,             \* [LiveReadings -> Conditions] they are taken under
  HistoryLength,    \* maxlen of SystemComposition._history
  MaxGateCalls      \* bound: how often the gates are called

ASSUME AnalysisAssumption ==
  /\ \A r \in LiveReadings : r.load \in Nat
  /\ Like \in [LiveReadings -> Conditions]
  /\ HistoryLength \in Nat
  /\ MaxGateCalls \in Nat

VARIABLE gateCalls

vars == <<modelVars, detectorVars, gateCalls>>

TypeOK ==
  /\ ModelTypeOK
  /\ DetectorTypeOK
  /\ Len(history) <= HistoryLength
  /\ gateCalls \in 0..MaxGateCalls

Init == ModelInit /\ DetectorInit /\ gateCalls = 0

(***************************************************************************)
(* The history is lengthened before the analysis can raise.  A kind        *)
(* without a released model is passed over; a model that raises ends the   *)
(* analysis, and with it the refresh.                                      *)
(***************************************************************************)
Remember(r) ==
  history' = LET loads == Append(history, r.load)
             IN IF Len(loads) > HistoryLength THEN Tail(loads) ELSE loads

Solar == "SOLAR_GENERATION"

ForecastRaises(r) == CanForecast(Solar) /\ PredictRaises(Solar, Like[r])

ForecastSolar(r) ==
  IF CanForecast(Solar) /\ ~ForecastRaises(r) THEN SaveForecast(Solar)
                                              ELSE UNCHANGED latest

ReportEverything(r) ==   \* mutant: what a detector is not cleared for, too
  reported' =
    UNION {Fires(active[n], forest, r, history) :
             n \in {m \in Names : active[m] # NoDetector}}

Report(r) == reported' = Anomalies(r)

AnalysisRaises(r) == ForecastRaises(r) \/ ScoreRaises

Analyse(r) ==
  /\ Remember(r)
  /\ ForecastSolar(r)
  /\ \/ AnalysisRaises(r) /\ reported' = {}
     \/ ~AnalysisRaises(r) /\ Report(r)
  /\ UNCHANGED <<skill, released, bar, refitted, forest, active, covered,
                 recalls, retrained, gateCalls>>

CallGate ==
  /\ gateCalls < MaxGateCalls
  /\ gateCalls' = gateCalls + 1
  /\ \/ UNCHANGED detectorVars /\ ModelGateStep
     \/ UNCHANGED modelVars /\ DetectorGateStep

ForecastOther ==
  /\ \E k \in Kinds \ {Solar} : Forecast(k)
  /\ UNCHANGED <<detectorVars, gateCalls>>

Next ==
  \/ CallGate
  \/ ForecastOther
  \/ \E r \in LiveReadings : Analyse(r)

Spec == Init /\ [][Next]_vars
-----------------------------------------------------------------------------
(***************************************************************************)
(* PROPERTY.  The analysis of a reading raises only where the gates have   *)
(* not looked: no live detector raises on any reading, and a released      *)
(* model only when it was fitted again after its release, or on a reading  *)
(* taken under a condition that it was not tested in.                      *)
(***************************************************************************)
OnlyTheUntestedRaises ==
  \A r \in LiveReadings :
    AnalysisRaises(r) => released[Solar] \in refitted \/ Like[r] \notin Examples
=============================================================================
