------------------------ MODULE SiteOperationProofs -------------------------
(***************************************************************************)
(* Proofs about SiteOperation: for any site, weather, age of the readings, *)
(* number of anomalies and set of forecasts, and for any number, negative  *)
(* or not, that a person may put in place of the recommended amount.       *)
(***************************************************************************)
EXTENDS SiteOperation, SiteTheorems, FiniteSetTheorems

(***************************************************************************)
(* What can be said of a command until its route is found: the actions of  *)
(* an outage were recommended in one, shedding sheds something, and the    *)
(* band is LOW when the inputs are dubious, and never HIGH.                *)
(***************************************************************************)
Founded(c) ==
  /\ c \in Commands
  /\ c.action \in {"DISCHARGE", "SHED_LOAD"} => c.down
  /\ c.action = "SHED_LOAD" => c.amount > 0
  /\ c.dubious => c.band = "LOW"
  /\ c.band # "HIGH"

(***************************************************************************)
(* What can be said of it afterwards; only a person's amount is negative.  *)
(***************************************************************************)
Routed(c) ==
  /\ c \in Orders
  /\ c.sound /\ ~c.careless
  /\ c.action \in {"DISCHARGE", "SHED_LOAD"} => c.down
  /\ c.approval # "modified" => c.amount \in Nat
  /\ c.action = "SHED_LOAD" /\ c.approval # "modified" => c.amount > 0

(***************************************************************************)
(* The filter let the command pass on the reading it was recommended on.   *)
(***************************************************************************)
Filtered(c) ==
  /\ c.basis \in Readings
  /\ PolicyPasses(c, site)
  /\ \/ SafetyPasses(c, c.basis, site)
     \/ c.action \in BatteryPowerActions /\ c.basis.inverter # "NORMAL"
     \/ c.action = "SHED_LOAD" /\ c.amount > site.limitShed

(***************************************************************************)
(* What the cycle has in hand, by its phase; only a person modifies.       *)
(***************************************************************************)
InHand ==
  LET cycle == worker["cycle"] IN
  /\ cycle.phase = "judge" => Founded(cycle.command) /\ Filtered(cycle.command)
  /\ cycle.phase = "assess" => Founded(cycle.command)
  /\ cycle.phase = "send" => cycle.command.approval = "auto"

Sending ==
  \A t \in Workers : worker[t].phase = "send" => Routed(worker[t].command)

Waiting ==
  paused # NoCommand => Routed(paused) /\ paused.approval = "none"

(***************************************************************************)
(* As long as nobody has reversed a request, the one the battery follows   *)
(* moves it towards the limit it minds.                                    *)
(***************************************************************************)
Unreversed ==
  ~reversed => /\ twin.requested >= 0
               /\ twin.soc \in MinSoc..MaxSoc
               /\ store.soc \in MinSoc..MaxSoc

IInv ==
  TypeOK /\ Unreversed /\ InHand /\ Sending /\ Waiting
-----------------------------------------------------------------------------
(***************************************************************************)
(* What the engine looks at, with the solar forecast or with none.         *)
(***************************************************************************)
Inputs(forecasts, age, count) ==
  /\ DOMAIN forecasts \subseteq {"SOLAR_GENERATION"}
  /\ \A kind \in DOMAIN forecasts : forecasts[kind] \in Confidences
  /\ age \in Nat
  /\ count \in Nat

(***************************************************************************)
(* There are three kinds of forecast.                                      *)
(***************************************************************************)
LEMMA ThreeKinds == Cardinality(ForecastKinds) = 3
<1> DEFINE two == {"SOLAR_GENERATION", "BUILDING_LOAD"}
<1>1. IsFiniteSet({"SOLAR_GENERATION"}) /\ Cardinality({"SOLAR_GENERATION"}) = 1
  BY FS_Singleton
<1>2. two = {"SOLAR_GENERATION"} \cup {"BUILDING_LOAD"}
  OBVIOUS
<1>3. IsFiniteSet(two) /\ Cardinality(two) = 2
  BY <1>1, <1>2, FS_AddElement
<1>4. ForecastKinds = two \cup {"BATTERY_SOC"}
  BY DEF ForecastKinds
<1>5. "BATTERY_SOC" \notin two
  OBVIOUS
<1> HIDE DEF two
<1>6. QED
  BY <1>3, <1>4, <1>5, FS_AddElement

(***************************************************************************)
(* The two sub-scores about forecasts, without the solar forecast and with *)
(* it.                                                                     *)
(***************************************************************************)
LEMMA SolarSubScores ==
  ASSUME NEW forecasts, NEW age, NEW count, Inputs(forecasts, age, count)
  PROVE  /\ CertaintySum(forecasts) \in Nat /\ Completeness(forecasts) \in Nat
         /\ DOMAIN forecasts = {} =>
              CertaintySum(forecasts) = 900 /\ Completeness(forecasts) = 0
         /\ CertaintySum(forecasts) <= 1600 /\ Completeness(forecasts) <= 1000
<1>1. CASE DOMAIN forecasts = {}
  <2>1. Cardinality(DOMAIN forecasts) = 0
    BY <1>1, FS_EmptySet
  <2>2. CertaintySum(forecasts) = 900
    BY <1>1 DEF CertaintySum, Certainty
  <2>3. QED
    BY <2>1, <2>2 DEF Completeness
<1>2. CASE DOMAIN forecasts = {"SOLAR_GENERATION"}
  <2>1. Cardinality(DOMAIN forecasts) = 1
    BY <1>2, FS_Singleton
  <2>2. Certainty(forecasts, "SOLAR_GENERATION") \in 0..1000
    BY <1>2 DEF Inputs, Certainty, Confidences
  <2>3. /\ Certainty(forecasts, "BUILDING_LOAD") = 300
        /\ Certainty(forecasts, "BATTERY_SOC") = 300
    BY <1>2 DEF Certainty
  <2>4. QED
    BY <1>2, <2>1, <2>2, <2>3 DEF CertaintySum, Completeness
<1>3. QED
  BY <1>1, <1>2 DEF Inputs

(***************************************************************************)
(* The freshness of a reading and the score of its anomalies.              *)
(***************************************************************************)
LEMMA OtherSubScores ==
  ASSUME NEW age \in Nat, NEW count \in Nat
  PROVE  /\ Freshness(age) \in Int /\ Freshness(age) <= 1000
         /\ age >= 900 => Freshness(age) = 200
         /\ AnomalyScore(count) \in Int /\ AnomalyScore(count) <= 1000
         /\ count >= 1 => AnomalyScore(count) <= 750
         /\ count >= 2 => AnomalyScore(count) <= 500
<1>1. CASE age <= 60
  BY <1>1 DEF Freshness, FreshSeconds, StaleSeconds, AnomalyScore
<1>2. CASE age >= 900
  BY <1>2 DEF Freshness, FreshSeconds, StaleSeconds, AnomalyScore
<1>3. CASE age > 60 /\ age < 900
  <2>1. 800 * (age - 60) \in Nat
    BY <1>3
  <2>2. (800 * (age - 60)) \div 840 \in Nat
    BY <2>1
  <2>3. Freshness(age) = 1000 - (800 * (age - 60)) \div 840
    BY <1>3 DEF Freshness, FreshSeconds, StaleSeconds
  <2>4. QED
    BY <1>3, <2>2, <2>3 DEF AnomalyScore
<1>4. QED
  BY <1>1, <1>2, <1>3

(***************************************************************************)
(* Without the two other forecasts the score never reaches the HIGH band,  *)
(* and one fault of the inputs puts it in the LOW one.                     *)
(***************************************************************************)
LEMMA SolarAloneIsNeverHigh ==
  ASSUME NEW forecasts, NEW age, NEW count, Inputs(forecasts, age, count)
  PROVE  /\ Band(forecasts, age, count) \in {"LOW", "MEDIUM"}
         /\ Dubious(forecasts, age, count) => Band(forecasts, age, count) = "LOW"
<1> DEFINE
  certainty    == CertaintySum(forecasts)
  completeness == Completeness(forecasts)
  freshness    == Freshness(age)
  anomalies    == AnomalyScore(count)
  score        == Score(forecasts, age, count)
<1>1. score = 200 * certainty + 100 * completeness
                + 3 * (350 * freshness + 350 * anomalies)
  BY ThreeKinds DEF Score, Weights
<1>2. Band(forecasts, age, count) =
        CASE score > 2700000 -> "HIGH"
          [] score < 2100000 -> "LOW"
          [] OTHER           -> "MEDIUM"
  BY ThreeKinds DEF Band, HighThreshold, LowThreshold
<1>3. /\ certainty \in Nat /\ completeness \in Nat
      /\ DOMAIN forecasts = {} => certainty = 900 /\ completeness = 0
      /\ certainty <= 1600 /\ completeness <= 1000
  BY SolarSubScores
<1>4. /\ freshness \in Int /\ freshness <= 1000
      /\ age >= 900 => freshness = 200
      /\ anomalies \in Int /\ anomalies <= 1000
      /\ count >= 1 => anomalies <= 750
      /\ count >= 2 => anomalies <= 500
  BY OtherSubScores DEF Inputs
<1> HIDE DEF certainty, completeness, freshness, anomalies, score
<1>5. score \in Int /\ score <= 2700000
  BY <1>1, <1>3, <1>4
<1>6. Dubious(forecasts, age, count) => score < 2100000
  BY <1>1, <1>3, <1>4 DEF Dubious, Inputs, StaleSeconds
<1>7. QED
  BY <1>2, <1>5, <1>6

Works == [phase : Phases, command : Commands \cup Orders \cup {NoCommand}]

(***************************************************************************)
(* Goto gives one worker its phase and its command, and leaves the other   *)
(* be.                                                                     *)
(***************************************************************************)
LEMMA GotoFields ==
  ASSUME TypeOK, NEW t \in Workers, NEW phase \in Phases,
         NEW command \in Commands \cup Orders \cup {NoCommand},
         Goto(t, phase, command)
  PROVE  /\ worker' \in [Workers -> Works]
         /\ worker'[t].phase = phase /\ worker'[t].command = command
         /\ \A u \in Workers \ {t} : worker'[u] = worker[u]
BY DEF TypeOK, Works, Goto

(***************************************************************************)
(* Two workers: what is true of both is true of every one.                 *)
(***************************************************************************)
LEMMA TwoWorkers ==
  /\ "cycle" \in Workers /\ "person" \in Workers
  /\ Workers \ {"cycle"} = {"person"} /\ Workers \ {"person"} = {"cycle"}
BY DEF Workers

(***************************************************************************)
(* Readings are records, sites configurations.                             *)
(***************************************************************************)
LEMMA TypesOfState ==
  ASSUME TypeOK
  PROVE  /\ store \in Readings /\ site \in SiteConfigs
         /\ worker \in [Workers -> Works]
         /\ twin \in TwinStates
BY SiteAssumption DEF TypeOK, Works

(***************************************************************************)
(* A refresh, published or raised, keeps the twin and the store as they    *)
(* are to be.                                                              *)
(***************************************************************************)
LEMMA RefreshKeepsLimits ==
  ASSUME IInv, RefreshTelemetry, UNCHANGED reversed
  PROVE  /\ twin' \in TwinStates /\ RequestWithinPower' /\ store' \in Readings
         /\ Unreversed'
         /\ twin'.shed = twin.shed
<1>1. twin \in TwinStates /\ RequestWithinPower /\ store \in Readings
  BY DEF IInv, TypeOK
<1>2. CASE Published
  <2>1. Tick(store')
    BY <1>2 DEF Published
  <2>2. /\ store' \in Readings /\ store'.soc = twin'.soc
        /\ twin' \in TwinStates /\ RequestWithinPower'
        /\ twin'.requested = twin.requested /\ twin'.shed = twin.shed
        /\ twin.requested >= 0 /\ twin.soc \in MinSoc..MaxSoc =>
             twin'.soc \in MinSoc..MaxSoc
    BY <1>1, <2>1, TickTyped
  <2>3. QED
    BY <2>2 DEF IInv, Unreversed
<1>3. CASE Raised
  <2>1. PICK soc \in SocAfter, temp \in TempAfter : Advance(soc, temp)
    BY <1>3 DEF Raised, TickRaises
  <2>2. /\ twin' \in TwinStates /\ RequestWithinPower'
        /\ twin'.requested = twin.requested /\ twin'.shed = twin.shed
        /\ twin.requested >= 0 /\ twin.soc \in MinSoc..MaxSoc =>
             twin'.soc \in MinSoc..MaxSoc
    BY <1>1, <2>1, AdvanceTyped
  <2>3. UNCHANGED store
    BY <1>3 DEF Raised
  <2>4. QED
    BY <1>1, <2>2, <2>3 DEF IInv, Unreversed
<1>4. QED
  BY <1>2, <1>3 DEF RefreshTelemetry

(***************************************************************************)
(* A cycle begins with a refresh and nothing in hand, or not at all.       *)
(***************************************************************************)
LEMMA StartCycleStep ==
  ASSUME IInv, StartCycle
  PROVE  IInv'
<1>1. RefreshTelemetry /\ UNCHANGED <<site, paused, refresh, faults, reversed>>
  BY DEF StartCycle, RefreshTelemetry
<1>2. /\ twin' \in TwinStates /\ RequestWithinPower' /\ store' \in Readings
      /\ Unreversed'
  BY <1>1, RefreshKeepsLimits
<1>3. /\ worker' \in [Workers -> Works]
      /\ worker'["cycle"].phase \in {"idle", "decide"}
      /\ worker'["person"] = worker["person"]
  <2>1. CASE Goto("cycle", "decide", NoCommand)
    BY <2>1, GotoFields, TwoWorkers DEF IInv, Phases
  <2>2. CASE UNCHANGED worker
    BY <2>2, TypesOfState DEF StartCycle, IInv
  <2>3. QED
    BY <2>1, <2>2 DEF StartCycle
<1>4. TypeOK'
  BY <1>1, <1>2, <1>3 DEF IInv, TypeOK, Works
<1>5. InHand' /\ Sending' /\ Waiting'
  BY <1>1, <1>3 DEF IInv, InHand, Sending, Waiting, Workers
<1>6. QED
  BY <1>2, <1>4, <1>5 DEF IInv

(***************************************************************************)
(* What the engine recommends on the reading in the store is founded, and  *)
(* passes what the filter looks at.                                        *)
(***************************************************************************)
LEMMA DecideStep ==
  ASSUME IInv, Decide
  PROVE  IInv'
<1>1. PICK forecasts \in Forecasts, age \in Ages, count \in Nat :
        LET band == Band(forecasts, age, count)
        IN Goto("cycle", "judge",
                Recommendation(Recommended(store, site, band), band,
                               Dubious(forecasts, age, count)))
  <2>1. PICK age \in Ages, reported \in AnomalyCounts, forecasts \in Forecasts :
          LET count == ActiveAnomalies(age, reported)
              band  == Band(forecasts, age, count)
          IN Goto("cycle", "judge",
                  Recommendation(Recommended(store, site, band), band,
                                 Dubious(forecasts, age, count)))
    BY DEF Decide
  <2>2. ActiveAnomalies(age, reported) \in Nat
    BY SiteAssumption DEF ActiveAnomalies
  <2>3. QED
    BY <2>1, <2>2
<1> DEFINE
  band == Band(forecasts, age, count)
  top  == Recommended(store, site, band)
  dubious == Dubious(forecasts, age, count)
  c    == Recommendation(top, band, dubious)
<1>2. UNCHANGED <<twin, site, store, paused, refresh, faults, reversed>>
  BY DEF Decide
<1>3. store \in Readings /\ site \in SiteConfigs
  BY TypesOfState DEF IInv
<1>4. /\ Reasonable(top, store) /\ PolicyPasses(top, site)
      /\ \/ SafetyPasses(top, store, site)
         \/ top.action \in BatteryPowerActions /\ store.inverter # "NORMAL"
         \/ top.action = "SHED_LOAD" /\ top.amount > site.limitShed
  <2> HIDE DEF top
  <2>1. /\ Reasonable(top, store)
        /\ ~Vetoed(top, store, OperatingConstraints(site))
    BY <1>3, RecommendedReasonable DEF top
  <2>2. QED
    BY <1>3, <2>1, FilterImpliesGates
<1>5. /\ band \in Bands /\ band # "HIGH"
      /\ dubious => band = "LOW"
  BY SiteAssumption, SolarOnlyAssumption, SolarAloneIsNeverHigh
     DEF Bands, Inputs
<1>6. dubious \in BOOLEAN
  BY DEF Dubious
<1> HIDE DEF band, top, dubious
<1>7. Founded(c)
  <2>1. GridDown(store) \in BOOLEAN
    BY DEF GridDown
  <2>2. top \in Candidates
    BY <1>4 DEF Reasonable
  <2>3. c \in Commands
    BY <1>3, <1>5, <1>6, <2>1, <2>2 DEF Recommendation, Commands, Candidates
  <2>4. QED
    BY <1>4, <1>5, <2>3 DEF Recommendation, Founded, Reasonable
<1>8. c.basis = store /\ c.action = top.action /\ c.amount = top.amount
  BY DEF Recommendation
<1>9. Filtered(c)
  BY <1>3, <1>4, <1>8 DEF Filtered, PolicyPasses, SafetyPasses
<1>10. PICK d : Founded(d) /\ Filtered(d) /\ Goto("cycle", "judge", d)
  BY <1>1, <1>7, <1>9 DEF top, band, dubious
<1>11. /\ worker' \in [Workers -> Works] /\ worker'["cycle"].phase = "judge"
       /\ worker'["cycle"].command = d /\ worker'["person"] = worker["person"]
  BY <1>10, GotoFields, TwoWorkers DEF IInv, Phases, Founded
<1>12. TypeOK' /\ Unreversed'
  BY <1>2, <1>11 DEF IInv, TypeOK, RequestWithinPower, Works,
              Unreversed
<1>13. InHand'
  <2>1. Filtered(d)'
    BY <1>2, <1>10 DEF Filtered
  <2>2. QED
    BY <1>10, <1>11, <2>1 DEF InHand
<1>14. Sending' /\ Waiting'
  BY <1>2, <1>11 DEF IInv, Sending, Waiting, Workers
<1>15. QED
  BY <1>12, <1>13, <1>14 DEF IInv

(***************************************************************************)
(* The policy and the safety gate judge; what is judged is no longer bound *)
(* to its reading.                                                         *)
(***************************************************************************)
LEMMA JudgeStep ==
  ASSUME IInv, Judge
  PROVE  IInv'
<1> DEFINE
  c       == worker["cycle"].command
  judged  == [c EXCEPT !.basis = NoCommand]
  verdict == IF PolicyPasses(c, site) /\ SafetyPasses(c, store, site)
               THEN "assess" ELSE "rejected"
<1>1. /\ worker["cycle"].phase = "judge"
      /\ Goto("cycle", verdict, judged)
      /\ UNCHANGED <<twin, site, store, paused, refresh, faults, reversed>>
  BY DEF Judge
<1>2. Founded(c)
  BY <1>1 DEF IInv, InHand
<1>3. verdict \in {"assess", "rejected"}
  OBVIOUS
<1> HIDE DEF c, verdict
<1>4. Founded(judged)
  BY <1>2 DEF Founded, Commands
<1> HIDE DEF judged
<1>5. /\ worker' \in [Workers -> Works]
      /\ worker'["cycle"].phase \in {"assess", "rejected"}
      /\ worker'["cycle"].command = judged
      /\ worker'["person"] = worker["person"]
  BY <1>1, <1>3, <1>4, GotoFields, TwoWorkers DEF IInv, Phases, Founded
<1>6. TypeOK' /\ Unreversed'
  BY <1>1, <1>5 DEF IInv, TypeOK, RequestWithinPower, Works,
              Unreversed
<1>7. InHand' /\ Sending' /\ Waiting'
  BY <1>1, <1>4, <1>5 DEF IInv, InHand, Sending, Waiting, Workers
<1>8. QED
  BY <1>6, <1>7 DEF IInv

(***************************************************************************)
(* What passes the risk gate was assessed on a sound reading.              *)
(***************************************************************************)
LEMMA OrderRouted ==
  ASSUME TypeOK, NEW c, Founded(c), RiskLevel(c, store, site) # "CRITICAL",
         NEW approval \in {"none", "auto"},
         approval = "auto" => c.band # "LOW"
  PROVE  Routed(Order(c, approval)) /\ Order(c, approval).approval = approval
<1>1. Sound(store)
  BY DEF RiskLevel, Sound
<1>2. Sound(store) \in BOOLEAN /\ (c.dubious /\ approval = "auto") \in BOOLEAN
  BY DEF Sound
<1>3. Order(c, approval) \in Orders /\ Order(c, approval).amount \in Nat
  <2>1. c.amount \in Nat /\ c.amount \in Int
    BY DEF Founded, Commands
  <2>2. QED
    BY <1>2, <2>1 DEF Order, Orders, Founded, Commands
<1>4. QED
  BY <1>1, <1>3 DEF Order, Routed, Founded

(***************************************************************************)
(* The route: rejected, waiting for a person, or sent.                     *)
(***************************************************************************)
LEMMA AssessStep ==
  ASSUME IInv, Assess
  PROVE  IInv'
<1> DEFINE
  c     == worker["cycle"].command
  level == RiskLevel(c, store, site)
<1>1. /\ worker["cycle"].phase = "assess"
      /\ UNCHANGED <<twin, site, store, refresh, faults, reversed>>
  BY DEF Assess
<1>2. Founded(c) /\ TypeOK
  BY <1>1 DEF IInv, InHand
<1>3. Unreversed'
  BY <1>1 DEF IInv, Unreversed
<1>4. CASE level = "CRITICAL"
  <2>1. /\ Goto("cycle", "rejected", [c EXCEPT !.level = level])
        /\ UNCHANGED paused
    BY <1>4 DEF Assess
  <2>2. [c EXCEPT !.level = level] \in Commands
    BY <1>2, <1>4 DEF Founded, Commands
  <2> HIDE DEF c, level
  <2>3. /\ worker' \in [Workers -> Works] /\ worker'["cycle"].phase = "rejected"
        /\ worker'["person"] = worker["person"]
    BY <1>2, <2>1, <2>2, GotoFields, TwoWorkers DEF Phases
  <2>4. TypeOK'
    BY <1>1, <2>1, <2>3 DEF IInv, TypeOK, RequestWithinPower, Works
  <2>5. InHand' /\ Sending' /\ Waiting'
    BY <2>1, <2>3 DEF IInv, InHand, Sending, Waiting, Workers
  <2>6. QED
    BY <1>3, <2>4, <2>5 DEF IInv
<1>5. CASE /\ level # "CRITICAL"
           /\ Goto("cycle", "idle", NoCommand)
           /\ paused' = Order(c, "none") \/ (paused # NoCommand /\ UNCHANGED paused)
  <2>1. Routed(Order(c, "none")) /\ Order(c, "none").approval = "none"
    BY <1>2, <1>5, OrderRouted
  <2> HIDE DEF c, level
  <2>2. /\ worker' \in [Workers -> Works] /\ worker'["cycle"].phase = "idle"
        /\ worker'["person"] = worker["person"]
    BY <1>2, <1>5, GotoFields, TwoWorkers DEF Phases
  <2>3. TypeOK'
    BY <1>1, <1>5, <2>1, <2>2 DEF IInv, TypeOK, RequestWithinPower, Works, Routed
  <2>4. InHand' /\ Sending' /\ Waiting'
    BY <1>5, <2>1, <2>2 DEF IInv, InHand, Sending, Waiting, Workers
  <2>5. QED
    BY <1>3, <2>3, <2>4 DEF IInv
<1>6. CASE /\ level # "CRITICAL" /\ ~NeedsPerson(c, level)
           /\ Goto("cycle", "send", Order(c, "auto"))
           /\ UNCHANGED paused
  <2>1. Routed(Order(c, "auto")) /\ Order(c, "auto").approval = "auto"
    BY <1>2, <1>6, OrderRouted DEF NeedsPerson
  <2> HIDE DEF c, level
  <2>2. /\ worker' \in [Workers -> Works] /\ worker'["cycle"].phase = "send"
        /\ worker'["cycle"].command = Order(c, "auto")
        /\ worker'["person"] = worker["person"]
    BY <1>2, <1>6, <2>1, GotoFields, TwoWorkers DEF Phases, Routed
  <2>3. TypeOK'
    BY <1>1, <1>6, <2>2 DEF IInv, TypeOK, RequestWithinPower, Works
  <2>4. InHand' /\ Sending' /\ Waiting'
    BY <1>6, <2>1, <2>2 DEF IInv, InHand, Sending, Waiting, Workers
  <2>5. QED
    BY <1>3, <2>3, <2>4 DEF IInv
<1>7. QED
  BY <1>4, <1>5, <1>6 DEF Assess

(***************************************************************************)
(* A rejected command is closed.                                           *)
(***************************************************************************)
LEMMA CloseRejectedStep ==
  ASSUME IInv, CloseRejected
  PROVE  IInv'
<1>1. UNCHANGED <<twin, site, store, paused, refresh, faults, reversed>>
  BY DEF CloseRejected
<1>2. /\ worker' \in [Workers -> Works] /\ worker'["cycle"].phase = "idle"
      /\ worker'["person"] = worker["person"]
  BY GotoFields, TwoWorkers DEF CloseRejected, IInv, Phases
<1>3. TypeOK' /\ Unreversed'
  BY <1>1, <1>2 DEF IInv, TypeOK, RequestWithinPower, Works,
              Unreversed
<1>4. InHand' /\ Sending' /\ Waiting'
  BY <1>1, <1>2 DEF IInv, InHand, Sending, Waiting, Workers
<1>5. QED
  BY <1>3, <1>4 DEF IInv

(***************************************************************************)
(* What is sent changes what is asked of the battery or the load that is   *)
(* shed.  Only a person's amount turns a request negative, and only a      *)
(* person's amount brings the last of the shed load back.                  *)
(***************************************************************************)
LEMMA ObeyTyped ==
  ASSUME twin \in TwinStates, RequestWithinPower, NEW c, Routed(c),
         twin' = Obey(c)
  PROVE  /\ twin' \in TwinStates
         /\ RequestWithinPower'
         /\ twin'.soc = twin.soc
         /\ twin.requested >= 0 /\ ~Reverses(c) => twin'.requested >= 0
         /\ twin.shed > 0 /\ twin'.shed = 0 => c.approval = "modified"
<1>0. ~(twin.shed > 0 /\ twin.shed = 0)
  BY DEF TwinStates, Tenths
<1>1. /\ c.amount \in Int
      /\ c.approval # "modified" => c.amount \in Nat
      /\ c.action \in {"CHARGE", "DISCHARGE", "HOLD", "SHED_LOAD"}
  BY DEF Routed, Orders, Actions
<1>2. c.action \in BatteryPowerActions /\ ~Reverses(c) => c.amount >= 0
  BY <1>1 DEF Reverses
<1>3. CASE c.action = "CHARGE"
  <2>1. twin' = BatteryCommand("CHARGING", c.amount)
    BY <1>3 DEF Obey
  <2>2. ~Reverses(c) => c.amount >= 0
    BY <1>2, <1>3 DEF BatteryPowerActions
  <2>3. QED
    BY <1>0, <1>1, <2>1, <2>2, BatteryCommandTyped
<1>4. CASE c.action = "DISCHARGE"
  <2>1. twin' = BatteryCommand("DISCHARGING", c.amount)
    BY <1>4 DEF Obey
  <2>2. ~Reverses(c) => c.amount >= 0
    BY <1>2, <1>4 DEF BatteryPowerActions
  <2>3. QED
    BY <1>0, <1>1, <2>1, <2>2, BatteryCommandTyped
<1>5. CASE c.action = "HOLD"
  <2>1. twin' = BatteryCommand("IDLE", 0)
    BY <1>5 DEF Obey
  <2>2. QED
    BY <1>0, <2>1, BatteryCommandTyped
<1>6. CASE c.action = "SHED_LOAD"
  <2>1. twin' = ShedLoad(c.amount)
    BY <1>6 DEF Obey
  <2>2. c.approval # "modified" => c.amount > 0
    BY <1>6 DEF Routed
  <2>3. /\ twin' \in TwinStates /\ SameBattery(twin')
        /\ c.amount > 0 => twin'.shed > 0
    BY <1>1, <2>1, ShedLoadTyped
  <2>4. twin'.shed > 0 => twin'.shed # 0
    BY <2>3 DEF TwinStates, Tenths
  <2>5. RequestWithinPower'
    BY <2>3 DEF SameBattery, RequestWithinPower
  <2>6. QED
    BY <2>2, <2>3, <2>4, <2>5 DEF SameBattery
<1>7. QED
  BY <1>1, <1>3, <1>4, <1>5, <1>6

(***************************************************************************)
(* The worker that sends goes on to verify.                                *)
(***************************************************************************)
LEMMA SendStep ==
  ASSUME IInv, NEW t \in Workers, Send(t)
  PROVE  IInv'
<1> DEFINE c == worker[t].command
<1>1. /\ worker[t].phase = "send" /\ twin' = Obey(c)
      /\ reversed' = (reversed \/ Reverses(c))
      /\ UNCHANGED <<site, store, paused, refresh, faults>>
  BY DEF Send
<1>2. Routed(c) /\ twin \in TwinStates /\ RequestWithinPower
  BY <1>1 DEF IInv, Sending, TypeOK
<1> HIDE DEF c
<1>3. /\ twin' \in TwinStates /\ RequestWithinPower' /\ twin'.soc = twin.soc
      /\ twin.requested >= 0 /\ ~Reverses(c) => twin'.requested >= 0
  BY <1>1, <1>2, ObeyTyped
<1>4. /\ worker' \in [Workers -> Works] /\ worker'[t].phase = "verify"
      /\ \A u \in Workers \ {t} : worker'[u] = worker[u]
  BY GotoFields DEF Send, IInv, Phases
<1>5. reversed' \in BOOLEAN
  BY <1>1 DEF IInv, TypeOK, Reverses
<1>6. TypeOK'
  BY <1>1, <1>3, <1>4, <1>5 DEF IInv, TypeOK, Works
<1>7. Unreversed'
  BY <1>1, <1>3 DEF IInv, Unreversed
<1>8. InHand' /\ Sending' /\ Waiting'
  <2>1. worker'["cycle"] = worker["cycle"] \/ worker'["cycle"].phase = "verify"
    BY <1>4, TwoWorkers
  <2>2. InHand'
    BY <1>1, <2>1 DEF IInv, InHand, Filtered
  <2>3. QED
    BY <1>1, <1>4, <2>2 DEF IInv, Sending, Waiting
<1>9. QED
  BY <1>6, <1>7, <1>8 DEF IInv

(***************************************************************************)
(* The worker that verifies is done.                                       *)
(***************************************************************************)
LEMMA VerifyStep ==
  ASSUME IInv, NEW t \in Workers, Verify(t)
  PROVE  IInv'
<1>1. /\ twin' \in TwinStates /\ RequestWithinPower' /\ store' \in Readings
      /\ Unreversed'
      /\ UNCHANGED <<site, paused, refresh, faults, reversed>>
  BY RefreshKeepsLimits DEF Verify
<1>2. /\ worker' \in [Workers -> Works] /\ worker'[t].phase = "idle"
      /\ \A u \in Workers \ {t} : worker'[u] = worker[u]
  BY GotoFields DEF Verify, IInv, Phases
<1>3. TypeOK'
  BY <1>1, <1>2 DEF IInv, TypeOK, Works
<1>4. InHand' /\ Sending' /\ Waiting'
  <2>1. worker'["cycle"] = worker["cycle"] \/ worker'["cycle"].phase = "idle"
    BY <1>2, TwoWorkers
  <2>2. InHand'
    BY <1>1, <2>1 DEF IInv, InHand, Filtered
  <2>3. QED
    BY <1>1, <1>2, <2>2 DEF IInv, Sending, Waiting
<1>5. QED
  BY <1>1, <1>3, <1>4 DEF IInv

(***************************************************************************)
(* A person's approval, with the amount or with another, leaves the action *)
(* as it was routed.                                                       *)
(***************************************************************************)
LEMMA ApproveStep ==
  ASSUME IInv, Approve
  PROVE  IInv'
<1>1. /\ paused # NoCommand /\ paused' = NoCommand
      /\ UNCHANGED <<twin, site, store, refresh, faults, reversed>>
  BY DEF Approve
<1>2. Routed(paused)
  BY <1>1 DEF IInv, Waiting
<1>3. PICK order :
        Routed(order) /\ Goto("person", "send", order)
  <2>1. CASE Goto("person", "send", [paused EXCEPT !.approval = "approved"])
    <3>1. paused.approval = "none"
      BY <1>1 DEF IInv, Waiting
    <3>2. Routed([paused EXCEPT !.approval = "approved"])
      BY <1>2, <3>1 DEF Routed, Orders
    <3>3. QED
      BY <2>1, <3>2
  <2>2. ASSUME NEW n \in ModifiedAmounts,
               Goto("person", "send",
                    [paused EXCEPT !.approval = "modified", !.amount = n])
        PROVE  \E order : Routed(order) /\ Goto("person", "send", order)
    <3>1. Routed([paused EXCEPT !.approval = "modified", !.amount = n])
      BY <1>2, SiteAssumption DEF Routed, Orders
    <3>2. QED
      BY <2>2, <3>1
  <2>3. QED
    BY <2>1, <2>2 DEF Approve
<1>4. /\ worker' \in [Workers -> Works] /\ worker'["person"].phase = "send"
      /\ worker'["person"].command = order
      /\ worker'["cycle"] = worker["cycle"]
  BY <1>3, GotoFields, TwoWorkers DEF IInv, Phases, Routed
<1>5. TypeOK' /\ Unreversed'
  BY <1>1, <1>4 DEF IInv, TypeOK, RequestWithinPower, Works,
              Unreversed
<1>6. InHand' /\ Waiting'
  BY <1>1, <1>4 DEF IInv, InHand, Filtered, Waiting
<1>7. Sending'
  BY <1>3, <1>4 DEF IInv, Sending, Workers
<1>8. QED
  BY <1>5, <1>6, <1>7 DEF IInv

(***************************************************************************)
(* A rejection, a fault and the refresh after it leave the workers alone.  *)
(***************************************************************************)
LEMMA AsideStep ==
  ASSUME IInv, Reject \/ SimulateFault \/ RefreshAfterFault
  PROVE  IInv'
<1>1. UNCHANGED <<site, worker>>
  BY DEF Reject, SimulateFault, RefreshAfterFault
<1>2. InHand' /\ Sending'
  BY <1>1 DEF IInv, InHand, Filtered, Sending
<1>3. CASE Reject
  <2>1. TypeOK' /\ Unreversed' /\ Waiting'
    BY <1>3 DEF Reject, IInv, TypeOK, RequestWithinPower, Unreversed, Waiting
  <2>2. QED
    BY <1>2, <2>1 DEF IInv
<1>4. CASE SimulateFault
  <2>1. twin' \in TwinStates /\ SameBattery(twin')
    BY <1>4, InjectFaultTyped, TypesOfState DEF SimulateFault, IInv
  <2>2. faults' \in 0..MaxFaults
    BY <1>4, SiteAssumption DEF SimulateFault, IInv, TypeOK
  <2>3. RequestWithinPower' /\ Unreversed'
    BY <1>4, <2>1 DEF SimulateFault, SameBattery, IInv, TypeOK,
                      RequestWithinPower, Unreversed
  <2>4. TypeOK' /\ Waiting'
    BY <1>4, <2>1, <2>2, <2>3 DEF SimulateFault, IInv, TypeOK, Waiting
  <2>5. QED
    BY <1>2, <2>3, <2>4 DEF IInv
<1>5. CASE RefreshAfterFault
  <2>1. /\ twin' \in TwinStates /\ RequestWithinPower' /\ store' \in Readings
        /\ Unreversed'
        /\ UNCHANGED <<site, worker, paused, faults, reversed>>
        /\ refresh' \in BOOLEAN
    BY <1>5, RefreshKeepsLimits DEF RefreshAfterFault
  <2>2. TypeOK' /\ Waiting'
    BY <2>1 DEF IInv, TypeOK, Waiting
  <2>3. QED
    BY <1>2, <2>1, <2>2 DEF IInv
<1>6. QED
  BY <1>3, <1>4, <1>5

-----------------------------------------------------------------------------
(***************************************************************************)
(* The constructor's refresh is over: a first reading, nothing in hand.    *)
(***************************************************************************)
LEMMA InitInductive == Init => IInv
<1> SUFFICES ASSUME Init PROVE IInv
  OBVIOUS
<1>1. twin \in TwinStates /\ twin.soc = StartSoc /\ twin.requested = 0
  <2>1. StartSoc \in Int
    BY TwinAssumption
  <2>2. QED
    BY <2>1 DEF Init, TwinInit, TwinStates, TemperatureLevels, InverterStatuses,
                GridStatuses, Tenths
<1>2. store \in Readings /\ store.soc = StartSoc
  <2>1. PICK w \in Weather : store = TickResult(w, StartSoc, 0)
    BY DEF Init
  <2>2. StartSoc \in StateOfCharge /\ 0 \in TemperatureLevels
    BY TwinAssumption, TwinLimits DEF TemperatureLevels
  <2>3. QED
    BY <1>1, <2>1, <2>2, TickResultTyped
<1>3. worker \in [Workers -> Works] /\ \A t \in Workers : worker[t].phase = "idle"
  BY DEF Init, NoWork, Works, Phases
<1>4. TypeOK
  <2>1. faults \in 0..MaxFaults
    BY SiteAssumption DEF Init
  <2>2. RequestWithinPower
    BY DEF Init, TwinInit, RequestWithinPower
  <2>3. QED
    BY <1>1, <1>2, <1>3, <2>1, <2>2 DEF Init, TypeOK, Works
<1>5. Unreversed
  BY <1>1, <1>2, TwinAssumption DEF Unreversed
<1>6. InHand /\ Sending /\ Waiting
  BY <1>3 DEF Init, InHand, Sending, Waiting, Workers
<1>7. QED
  BY <1>4, <1>5, <1>6 DEF IInv

(***************************************************************************)
(* Every step of the cycle, of a person and of the fault endpoint keeps    *)
(* the invariant.                                                          *)
(***************************************************************************)
LEMMA NextInductive == IInv /\ [Next]_vars => IInv'
<1> SUFFICES ASSUME IInv, [Next]_vars PROVE IInv'
  OBVIOUS
<1>1. CASE StartCycle \/ Decide \/ Judge \/ Assess \/ CloseRejected
  BY <1>1, StartCycleStep, DecideStep, JudgeStep, AssessStep, CloseRejectedStep
<1>2. ASSUME NEW t \in Workers, Send(t) \/ Verify(t)
      PROVE  IInv'
  BY <1>2, SendStep, VerifyStep
<1>3. CASE Approve \/ Reject \/ SimulateFault \/ RefreshAfterFault
  BY <1>3, ApproveStep, AsideStep
<1>4. CASE UNCHANGED vars
  BY <1>4 DEF vars, IInv, TypeOK, RequestWithinPower, Unreversed, InHand,
              Filtered, Sending, Waiting
<1>5. QED
  BY <1>1, <1>2, <1>3, <1>4 DEF Next

(***************************************************************************)
(* The inductive invariant holds in every state the site reaches.          *)
(***************************************************************************)
LEMMA Inductive == Spec => []IInv
BY InitInductive, NextInductive, PTL DEF Spec

(***************************************************************************)
(* The twin, the store, what the workers hold and what waits for a person  *)
(* keep their types; in particular a request to the battery never exceeds  *)
(* the rated power of its direction, whatever number, negative ones        *)
(* included, a person puts in place of the amount.                         *)
(***************************************************************************)
THEOREM TypeCorrect == Spec => []TypeOK
<1>1. IInv => TypeOK
  BY DEF IInv
<1>2. QED
  BY Inductive, <1>1, PTL

(***************************************************************************)
(* The battery and what is read of it stay within the site's limits,       *)
(* however late a command comes and however much it asks for, as long as   *)
(* no person has put a negative power in place of a recommended one: that, *)
(* and nothing else, takes them out.                                       *)
(***************************************************************************)
THEOREM OnlyAReversalBreaksLimits == Spec => []LimitsHoldUntilReversed
<1>1. IInv => LimitsHoldUntilReversed
  BY DEF IInv, Unreversed, LimitsHoldUntilReversed
<1>2. QED
  BY Inductive, <1>1, PTL

(***************************************************************************)
(* A reading that is too old, two anomalies, or one without a forecast,    *)
(* each alone puts a recommendation in the LOW band, and so before a       *)
(* person.                                                                 *)
(***************************************************************************)
THEOREM NoUnattendedDoubt == Spec => []UnattendedSendsAreConfident
<1>1. IInv => UnattendedSendsAreConfident
  BY DEF IInv, Sending, Routed, UnattendedSendsAreConfident
<1>2. QED
  BY Inductive, <1>1, PTL

(***************************************************************************)
(* With the solar forecast alone, at any confidence, age and number of     *)
(* anomalies, the band is never HIGH.                                      *)
(***************************************************************************)
THEOREM HighBandIsEmpty == Spec => []ConfidenceIsNeverHigh
<1>1. IInv => ConfidenceIsNeverHigh
  BY DEF IInv, InHand, Founded, ConfidenceIsNeverHigh
<1>2. QED
  BY Inductive, <1>1, PTL

(***************************************************************************)
(* What the optimiser recommends, the gates let pass on the same reading,  *)
(* but for the inverter's status and the hard ceiling on shedding, which   *)
(* its filter does not know.                                               *)
(***************************************************************************)
THEOREM FilterMatchesGates == Spec => []FilterAgreesWithSafety
<1>1. IInv => FilterAgreesWithSafety
  BY DEF IInv, InHand, Filtered, FilterAgreesWithSafety
<1>2. QED
  BY Inductive, <1>1, PTL

(***************************************************************************)
(* What is sent was assessed on a reading with inverter and grid in order, *)
(* also when a person approved it much later.                              *)
(***************************************************************************)
THEOREM SendsAreAssessedSound == Spec => []SentOnSoundReading
<1>1. IInv => SentOnSoundReading
  BY DEF IInv, Sending, Routed, SentOnSoundReading
<1>2. QED
  BY Inductive, <1>1, PTL

(***************************************************************************)
(* To discharge or to shed is recommended in an outage, and sent only      *)
(* after an assessment that saw none.                                      *)
(***************************************************************************)
THEOREM OutageActionsAreLate == Spec => []OutageActionsComeTooLate
<1>1. IInv => OutageActionsComeTooLate
  BY DEF IInv, Sending, Routed, OutageActionsComeTooLate
<1>2. QED
  BY Inductive, <1>1, PTL

(***************************************************************************)
(* Only a person's changed amount brings the last of the shed load back.   *)
(***************************************************************************)
THEOREM ShedLoadNeedsAPerson == Spec => ShedLoadStaysShed
<1>1. IInv /\ [Next]_vars =>
        [twin.shed > 0 /\ twin'.shed = 0 =>
           worker["person"].phase = "send"
             /\ worker["person"].command.approval = "modified"]_vars
  <2> SUFFICES ASSUME IInv, Next, twin.shed > 0, twin'.shed = 0
               PROVE  /\ worker["person"].phase = "send"
                      /\ worker["person"].command.approval = "modified"
    OBVIOUS
  <2> DEFINE restored == /\ worker["person"].phase = "send"
                         /\ worker["person"].command.approval = "modified"
  <2>1. twin'.shed # twin.shed
    BY DEF IInv, TypeOK, TwinStates, Tenths
  <2>2. ~(StartCycle \/ Decide \/ Judge \/ Assess \/ CloseRejected)
    <3>1. ~StartCycle
      BY <2>1, RefreshKeepsLimits DEF StartCycle, RefreshTelemetry
    <3>2. ~(Decide \/ Judge \/ Assess \/ CloseRejected)
      BY <2>1 DEF Decide, Judge, Assess, CloseRejected
    <3>3. QED
      BY <3>1, <3>2
  <2>3. ASSUME NEW t \in Workers, Send(t) \/ Verify(t)
        PROVE  restored
    <3>1. Send(t)
      BY <2>1, <2>3, RefreshKeepsLimits DEF Verify
    <3>2. worker[t].phase = "send" /\ twin' = Obey(worker[t].command)
      BY <3>1 DEF Send
    <3>3. worker[t].command.approval = "modified"
      BY <3>2, ObeyTyped, TypesOfState DEF IInv, Sending, TypeOK
    <3>4. t = "person"
      BY <3>2, <3>3 DEF IInv, InHand, Workers
    <3>5. QED
      BY <3>2, <3>3, <3>4
  <2>4. ~(Approve \/ Reject \/ SimulateFault \/ RefreshAfterFault)
    <3>1. ~SimulateFault
      BY <2>1, InjectFaultTyped, TypesOfState DEF SimulateFault, IInv
    <3>2. ~(Approve \/ Reject \/ RefreshAfterFault)
      BY <2>1, RefreshKeepsLimits DEF Approve, Reject, RefreshAfterFault
    <3>3. QED
      BY <3>1, <3>2
  <2>5. restored
    <3> HIDE DEF restored
    <3>1. QED
      BY <2>2, <2>3, <2>4 DEF Next
  <2>6. QED
    BY <2>5
<1>2. QED
  BY Inductive, <1>1, PTL DEF Spec, ShedLoadStaysShed
=============================================================================
