-------------------------- MODULE MCSiteOperation --------------------------
(***************************************************************************)
(* SiteOperation on a small site: a battery of six units, of which the     *)
(* site uses the four in the middle, noon of a day off with a surplus of   *)
(* sun, and the evening of a day at work.                                  *)
(***************************************************************************)
EXTENDS SiteOperation

NoonAndEvening ==
  {[hour |-> 11, weekend |-> TRUE], [hour |-> 18, weekend |-> FALSE]}

SmallFaults ==
  [target : {"grid"}, fault : {"CONNECTED", "OUTAGE"}]
    \cup [target : {"inverter"}, fault : {"FAULT_OVERTEMP"}]
    \cup [target : {"battery"}, fault : {"OVERHEATING"}]

(***************************************************************************)
(* The defaults, which forbid shedding; a site whose policy and limits     *)
(* allow it; and one whose limits were forgotten.                          *)
(***************************************************************************)
SmallSites ==
  {[policyShed |-> 0, limitShed |-> 0, maintenance |-> FALSE],
   [policyShed |-> 3, limitShed |-> 2, maintenance |-> FALSE],
   [policyShed |-> 1, limitShed |-> 0, maintenance |-> TRUE]}

(***************************************************************************)
(* For the run about what a person asks for: the grid fails and returns of *)
(* an evening, at a site that sheds.                                       *)
(***************************************************************************)
EveningOnly == {m \in NoonAndEvening : m.hour = 18}

GridFaults == {f \in SmallFaults : f.target = "grid"}

SheddingSite == {s \in SmallSites : s.limitShed > 0}

(***************************************************************************)
(* No forecast, one that does not state its confidence, a perfect one.     *)
(***************************************************************************)
SolarOnly ==
  {<<>>} \cup [{"SOLAR_GENERATION"} -> {Unstated, 1000}]

(***************************************************************************)
(* What a person may ask for: far more than the rated power, and less than *)
(* nothing.                                                                *)
(***************************************************************************)
Amounts == {9, -3}

(***************************************************************************)
(* A reversed request moves the charge at every tick, without an end; it   *)
(* is followed until it is one unit out of the range of percentages.       *)
(***************************************************************************)
ChargeIsFollowed == twin.soc \in (EmptySoc - 1)..(FullSoc + 1)
=============================================================================
