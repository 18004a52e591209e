-------------------------- MODULE MCReadingAnalysis --------------------------
(***************************************************************************)
(* ReadingAnalysis with a solar baseline, a trained solar model and a      *)
(* trained load model, two primary scenarios and a third that must only    *)
(* not raise, a condition that no scenario has, and three rule detectors.  *)
(***************************************************************************)
EXTENDS ReadingAnalysis

CONSTANTS solarBaseline, solarTrained, loadTrained, batteryBaseline,
  clearDay, eveningPeak, outage, snow

SmallKind ==
  [m \in Models |->
     CASE m = loadTrained     -> "BUILDING_LOAD"
       [] m = batteryBaseline -> "BATTERY_SOC"
       [] OTHER               -> "SOLAR_GENERATION"]

SmallTarget == [k \in Kinds |-> 4]

Skill(clear, evening, robust, unseen) ==
  [s \in Conditions |-> CASE s = clearDay    -> clear
                          [] s = eveningPeak -> evening
                          [] s = outage      -> robust
                          [] s = snow        -> unseen]

SmallFirstSkill ==
  [m \in Models |-> IF m \in Trainable THEN Skill(Raises, Raises, Raises, Raises)
                                       ELSE Skill(3, 4, 9, 9)]

(* Better in all, good on average alone, as good but raising in the snow, *)
(* raising in the outage.                                                 *)
SmallFits ==
  {Skill(2, 3, 5, 5), Skill(1, 5, 0, 0), Skill(4, 3, 9, Raises),
   Skill(1, 1, Raises, 1)}

Warmup == <<2, 3, 2, 3>>

SmallForestFits ==
  {[ranking |-> <<"warmth", "grid">>, nervous |-> FALSE, usual |-> 2..3],
   [ranking |-> <<"solar", "load">>, nervous |-> FALSE, usual |-> 2..3],
   [ranking |-> <<"grid">>, nervous |-> TRUE, usual |-> 2..3]}

(* A load of nine after two and three is a spike. *)
SmallReadings ==
  {NormalReading(2), NormalReading(9),
   [NormalReading(3) EXCEPT !.grid = "OUTAGE"],
   [NormalReading(3) EXCEPT !.warmth = 4, !.solar = FALSE]}

SmallLike ==
  [r \in LiveReadings |-> CASE r.grid = "OUTAGE" -> outage
                           [] ~r.solar           -> snow
                           [] OTHER              -> clearDay]
=============================================================================
