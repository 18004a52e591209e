----------------------- MODULE ReadingAnalysisProofs ------------------------
(***************************************************************************)
(* Proofs about the release of forecast models and anomaly detectors, and  *)
(* about what a refresh makes of a reading: TypeOK, the safety properties  *)
(* and the action properties of ModelGate, DetectorGate and                *)
(* ReadingAnalysis, for every set of models, scenarios, thresholds and     *)
(* fits.                                                                   *)
(***************************************************************************)
EXTENDS ReadingAnalysis, FiniteSetTheorems, WellFoundedInduction, TLAPS

(***************************************************************************)
(* The inductive invariant. A kind whose release was measured has          *)
(* scenarios to be measured on, so no later release of it goes unmeasured; *)
(* a detector is cleared for exactly the tested types it has a recall for, *)
(* and earns its record unless it was fitted again; and a live forest is a *)
(* fitted one.                                                             *)
(***************************************************************************)
BarsAreMeasured ==
  \A k \in Kinds : bar[k] # NoBar => Examples \cap Primary # {}

ModelInv == ModelTypeOK /\ OnlyARefitServesTheUncleared /\ BarsAreMeasured

ClearedAreTested ==
  \A n \in Names :
    /\ covered[n] \subseteq Tested
    /\ covered[n] = {t \in AnomalyTypes : recalls[n][t] # NoRecall}

Forest == "isolation-forest-detector"

LiveForestIsFitted == active[Forest] # NoDetector => forest # Unfitted

DetectorInv ==
  /\ DetectorTypeOK
  /\ ClearedAreTested
  /\ LiveForestIsFitted
  /\ UntestedIsNeverReported
  /\ OnlyARefitBeliesTheRecord

IInv ==
  /\ ModelInv
  /\ DetectorInv
  /\ Len(history) <= HistoryLength
  /\ gateCalls \in 0..MaxGateCalls

-----------------------------------------------------------------------------
(***************************************************************************)
(* Sums over a finite set. MapThenSumSet is a fold, that is a recursive    *)
(* function on the subsets of the set. That such a function exists is      *)
(* shown with families of subsets on which the sums can be told: the       *)
(* largest of them is all the subsets.                                     *)
(***************************************************************************)
IsSum(g, f, D) ==
  g = [s \in D |->
         IF s = {} THEN 0
         ELSE f[CHOOSE x \in s : TRUE] + g[s \ {CHOOSE x \in s : TRUE}]]

(***************************************************************************)
(* A family of subsets of a finite set has a smallest member.              *)
(***************************************************************************)
LEMMA SomeSetIsSmallest ==
  ASSUME NEW S, IsFiniteSet(S), NEW T \in SUBSET SUBSET S, T # {}
  PROVE  \E a \in T : \A b \in T : b \subseteq a => b = a
<1>1. IsWellFoundedOn(StrictSubsetOrdering(S), SUBSET S)
  BY FS_StrictSubsetOrderingWellFounded, FS_FiniteSubsetsOfFinite
<1>2. PICK a \in T : \A b \in T : <<b, a>> \notin StrictSubsetOrdering(S)
  BY <1>1, WFMin
<1>. QED
  BY <1>2 DEF StrictSubsetOrdering

PartialSums(f, S) ==
  {D \in SUBSET SUBSET S : \E g \in [D -> Nat] :
     /\ \A s \in D : s # {} => s \ {CHOOSE x \in s : TRUE} \in D
     /\ IsSum(g, f, D)}

(***************************************************************************)
(* Where the sum of a set without its first element can be told, so can    *)
(* the sum of the set.                                                     *)
(***************************************************************************)
LEMMA SumsExtend ==
  ASSUME NEW S, NEW f, \A x \in S : f[x] \in Nat,
         NEW D \in PartialSums(f, S), NEW t \in SUBSET S, t \notin D,
         t # {} => t \ {CHOOSE x \in t : TRUE} \in D
  PROVE  D \cup {t} \in PartialSums(f, S)
<1> DEFINE E == D \cup {t}
           First(s) == CHOOSE x \in s : TRUE
<1>1. PICK g \in [D -> Nat] :
        /\ \A s \in D : s # {} => s \ {First(s)} \in D
        /\ IsSum(g, f, D)
  BY DEF PartialSums
<1> DEFINE last == IF t = {} THEN 0 ELSE f[First(t)] + g[t \ {First(t)}]
           h == [s \in E |-> IF s = t THEN last ELSE g[s]]
<1>2. last \in Nat
  <2>1. CASE t = {}
    BY <2>1
  <2>2. CASE t # {}
    <3>1. First(t) \in t
      BY <2>2
    <3>2. f[First(t)] \in Nat
      BY <3>1
    <3>3. g[t \ {First(t)}] \in Nat
      BY <2>2, <1>1
    <3>. QED
      BY <2>2, <3>2, <3>3
  <2>. QED
    BY <2>1, <2>2
<1>3. h \in [E -> Nat]
  BY <1>1, <1>2
<1>4. \A s \in E : s # {} => s \ {First(s)} \in D
  <2>1. t # {} => t \ {First(t)} \in D
    OBVIOUS
  <2> HIDE DEF First, h, last
  <2>. QED
    BY <1>1, <2>1
<1>5. \A s \in D : h[s] = g[s]
  OBVIOUS
<1>6. \A s \in E : h[s] = IF s = {} THEN 0
                          ELSE f[First(s)] + h[s \ {First(s)}]
  <2> SUFFICES ASSUME NEW s \in E
               PROVE  h[s] = IF s = {} THEN 0
                             ELSE f[First(s)] + h[s \ {First(s)}]
    OBVIOUS
  <2>0. s # {} => h[s \ {First(s)}] = g[s \ {First(s)}]
    BY <1>4, <1>5
  <2>1. CASE s = t
    <3>1. h[s] = last
      BY <2>1
    <3> HIDE DEF h
    <3>. QED
      BY <2>0, <2>1, <3>1
  <2>2. CASE s \in D
    <3>1. h[s] = g[s]
      BY <1>5, <2>2
    <3>2. g[s] = IF s = {} THEN 0
                 ELSE f[First(s)] + g[s \ {First(s)}]
      BY <1>1, <2>2 DEF IsSum
    <3> HIDE DEF h
    <3>. QED
      BY <2>0, <3>1, <3>2
  <2>. QED
    BY <2>1, <2>2
<1>7. IsSum(h, f, E)
  <2>1. h = [s \in E |-> h[s]]
    OBVIOUS
  <2> HIDE DEF h
  <2>. QED
    BY <1>6, <2>1 DEF IsSum
<1> HIDE DEF h
<1>. QED
  BY <1>3, <1>4, <1>7 DEF PartialSums

(***************************************************************************)
(* The sums of all the subsets can be told.                                *)
(***************************************************************************)
LEMMA SumsAreComplete ==
  ASSUME NEW S, IsFiniteSet(S), NEW f, \A x \in S : f[x] \in Nat
  PROVE  SUBSET S \in PartialSums(f, S)
<1> DEFINE Rests == {(SUBSET S) \ D : D \in PartialSums(f, S)}
<1>1. {} \in PartialSums(f, S)
  <2>1. PICK g : g = [s \in {} |-> 0]
    OBVIOUS
  <2>. QED
    BY <2>1 DEF PartialSums, IsSum
<1>2. Rests \in SUBSET SUBSET (SUBSET S) /\ Rests # {}
  BY <1>1
<1>3. PICK rest \in Rests : \A b \in Rests : b \subseteq rest => b = rest
  <2>1. IsFiniteSet(SUBSET S)
    BY FS_SUBSET
  <2> HIDE DEF Rests
  <2>. QED
    BY <1>2, <2>1, SomeSetIsSmallest
<1>4. PICK D \in PartialSums(f, S) : rest = (SUBSET S) \ D
  OBVIOUS
<1>5. D \subseteq SUBSET S
  BY DEF PartialSums
<1>6. ASSUME rest # {} PROVE FALSE
  <2>1. PICK t \in rest : \A b \in rest : b \subseteq t => b = t
    <3>1. rest \in SUBSET SUBSET S
      BY <1>4
    <3>. QED
      BY <1>6, <3>1, SomeSetIsSmallest
  <2>2. t # {} => t \ {CHOOSE x \in t : TRUE} \in D
    BY <1>4, <2>1
  <2>3. D \cup {t} \in PartialSums(f, S)
    BY <1>4, <2>1, <2>2, SumsExtend
  <2>4. (SUBSET S) \ (D \cup {t}) = rest
    <3>1. PICK b : b = (SUBSET S) \ (D \cup {t})
      OBVIOUS
    <3>2. b \in Rests
      BY <2>3, <3>1
    <3>3. b \subseteq rest
      BY <1>4, <3>1
    <3> HIDE DEF Rests
    <3>. QED
      BY <1>3, <3>1, <3>2, <3>3
  <2>. QED
    BY <1>4, <2>1, <2>4
<1>. QED
  BY <1>4, <1>5, <1>6

SumOver(f, S) == MapThenSumSet(LAMBDA x : f[x], S)

(***************************************************************************)
(* A sum of naturals is a natural.                                         *)
(***************************************************************************)
LEMMA SumIsNatural ==
  ASSUME NEW S, IsFiniteSet(S), NEW f, \A x \in S : f[x] \in Nat
  PROVE  SumOver(f, S) \in Nat
<1> DEFINE iter == CHOOSE g : IsSum(g, f, SUBSET S)
<1>1. SumOver(f, S) = iter[S]
  BY DEF SumOver, MapThenSumSet, MapThenFoldSet, IsSum
<1>2. \E g : IsSum(g, f, SUBSET S)
  <2>1. SUBSET S \in PartialSums(f, S)
    BY SumsAreComplete
  <2> HIDE DEF iter
  <2>. QED
    BY <2>1 DEF PartialSums
<1>3. IsSum(iter, f, SUBSET S)
  BY <1>2
<1>4. ASSUME NEW g, IsSum(g, f, SUBSET S)
      PROVE  \A s \in SUBSET S : g[s] \in Nat
  <2> DEFINE bad == {s \in SUBSET S : g[s] \notin Nat}
  <2>1. ASSUME bad # {} PROVE FALSE
    <3>1. PICK s \in bad : \A b \in bad : b \subseteq s => b = s
      <4>1. bad \in SUBSET SUBSET S
        OBVIOUS
      <4> HIDE DEF bad
      <4>. QED
        BY <2>1, <4>1, SomeSetIsSmallest
    <3>2. g[s] = IF s = {} THEN 0
                 ELSE f[CHOOSE x \in s : TRUE]
                        + g[s \ {CHOOSE x \in s : TRUE}]
      BY <1>4 DEF IsSum
    <3>3. s # {}
      BY <3>2
    <3>4. PICK x : x = (CHOOSE y \in s : TRUE) /\ x \in s
      BY <3>3
    <3>5. f[x] \in Nat
      BY <3>4
    <3>6. g[s \ {x}] \in Nat
      BY <3>1, <3>4
    <3>7. g[s] = f[x] + g[s \ {x}]
      BY <3>2, <3>3, <3>4
    <3>. QED
      BY <3>5, <3>6, <3>7
  <2>. QED
    BY <2>1
<1>5. iter[S] \in Nat
  <2> HIDE DEF iter
  <2>. QED
    BY <1>3, <1>4
<1>. QED
  BY <1>1, <1>5

-----------------------------------------------------------------------------
(***************************************************************************)
(* What a model scores on average is none or a fraction with a             *)
(* denominator, and a fraction where it has run at all.                    *)
(***************************************************************************)
Ran(sk) == {s \in Examples \cap Primary : sk[s] # Raises}

(***************************************************************************)
(* The average of a skill that ran somewhere is a bar.                     *)
(***************************************************************************)
LEMMA AverageWhereItRan ==
  ASSUME NEW sk \in Skills, Ran(sk) # {}
  PROVE  Average(sk) \in Bars
<1>1. Ran(sk) \subseteq Scenarios
  BY DEF Ran, Examples
<1>2. IsFiniteSet(Ran(sk))
  BY <1>1, FS_Subset, ModelAssumption
<1>3. \A s \in Ran(sk) : sk[s] \in Nat
  BY <1>1 DEF Skills, Conditions, Ran
<1>4. SumOver(sk, Ran(sk)) \in Nat
  BY <1>2, <1>3, SumIsNatural
<1>5. Cardinality(Ran(sk)) \in Nat
  BY <1>2, FS_CardinalityType
<1>6. Cardinality(Ran(sk)) # 0
  BY <1>2, FS_EmptySet
<1>7. Average(sk) = [sum   |-> SumOver(sk, Ran(sk)),
                     count |-> Cardinality(Ran(sk))]
  BY Zenon DEF Average, SumOver, Ran
<1>. QED
  BY <1>4, <1>5, <1>6, <1>7 DEF Bars

(***************************************************************************)
(* The average of a skill that ran nowhere is none.                        *)
(***************************************************************************)
LEMMA AverageWhereNoneRan ==
  ASSUME NEW sk, Ran(sk) = {}
  PROVE  Average(sk) = NoBar
BY Zenon DEF Average, Ran

(***************************************************************************)
(* So the average is a bar or none.                                        *)
(***************************************************************************)
LEMMA AverageTyped ==
  ASSUME NEW sk \in Skills
  PROVE  Average(sk) \in Bars \cup {NoBar}
BY AverageWhereItRan, AverageWhereNoneRan

(***************************************************************************)
(* Only where a primary scenario has an example is there an average, and   *)
(* there a model that raises nowhere has one.                              *)
(***************************************************************************)
LEMMA AverageIsMeasured ==
  ASSUME NEW sk \in Skills, Average(sk) # NoBar
  PROVE  Examples \cap Primary # {}
<1>1. Ran(sk) # {}
  BY AverageWhereNoneRan
<1>. QED
  BY <1>1 DEF Ran

(***************************************************************************)
(* A model that clears every example has an average that is a bar, if a    *)
(* primary scenario has an example.                                        *)
(***************************************************************************)
LEMMA ClearedHasAverage ==
  ASSUME NEW k \in Kinds, NEW sk \in Skills, ClearsAll(k, sk),
         Examples \cap Primary # {}
  PROVE  Average(sk) \in Bars /\ Average(sk) # NoBar
<1>1. Ran(sk) # {}
  BY DEF ClearsAll, Clears, Ran
<1>. QED
  BY <1>1, AverageWhereItRan, NoBarAssumption

(***************************************************************************)
(* A bar is no worse than itself.                                          *)
(***************************************************************************)
LEMMA NoBarIsWorseThanItself ==
  ASSUME NEW b \in Bars
  PROVE  ~Worse(b, b)
<1>1. b.sum \in Nat /\ b.count \in Nat
  BY DEF Bars
<1>2. b.sum * b.count \in Int
  BY <1>1
<1>. QED
  BY <1>2 DEF Worse

(***************************************************************************)
(* One model may change its skill at a time, and that of one that changes  *)
(* is a new fit.                                                           *)
(***************************************************************************)
OneIsFitted(m) ==
  /\ skill' \in [Models -> Skills]
  /\ \A other \in Models \ {m} : skill'[other] = skill[other]

(***************************************************************************)
(* A release replaces its kind's model with one that is cleared as it is   *)
(* now. No other kind has it, a model having one kind.                     *)
(***************************************************************************)
LEMMA ReleaseStep ==
  ASSUME ModelInv, NEW m \in Models, OneIsFitted(m), UNCHANGED latest,
         Release(m)
  PROVE  ModelInv' /\ NoWorseRelease
<1> DEFINE k == Kind[m]
           sk == skill'[m]
<1> USE DEF ModelInv, ModelTypeOK
<1>1. k \in Kinds
  BY ModelAssumption
<1>2. sk \in Skills
  BY DEF OneIsFitted
<1>3. /\ Passed(k, sk)
      /\ released' = [released EXCEPT ![k] = m]
      /\ bar' = [bar EXCEPT ![k] = Average(sk)]
      /\ refitted' = refitted \ {m}
  BY DEF Release
<1>4. Average(sk) \in Bars \cup {NoBar}
  BY <1>2, AverageTyped
<1> HIDE DEF k, sk
<1>5. ModelTypeOK'
  <2>1. skill' \in [Models -> Skills]
    BY DEF OneIsFitted
  <2>2. /\ released' \in [Kinds -> Models \cup {NoModel}]
        /\ \A kind \in Kinds :
             released'[kind] # NoModel => Kind[released'[kind]] = kind
    BY <1>1, <1>3 DEF k
  <2>3. bar' \in [Kinds -> Bars \cup {NoBar}]
    BY <1>1, <1>3, <1>4
  <2>4. refitted' \subseteq Trainable
    BY <1>3
  <2>. QED
    BY <2>1, <2>2, <2>3, <2>4
<1>6. OnlyARefitServesTheUncleared'
  <2> SUFFICES ASSUME NEW kind \in Kinds,
                      released'[kind] \notin refitted' \cup {NoModel},
                      NEW s \in Examples
               PROVE  Clears(kind, skill'[released'[kind]], s)
    BY DEF OnlyARefitServesTheUncleared, Examples, SomethingIsTested,
           Clears
  <2>1. CASE kind = k
    <3>1. released'[kind] = m
      BY <1>1, <1>3, <2>1
    <3>. QED
      BY <1>3, <2>1, <3>1 DEF Passed, ClearsAll, sk
  <2>2. CASE kind # k
    <3>1. released'[kind] = released[kind]
      BY <1>1, <1>3, <2>2
    <3>2. released[kind] \in Models /\ released[kind] # m
      BY <2>2, <3>1 DEF k
    <3>3. released[kind] \notin refitted \cup {NoModel}
      BY <1>3, <3>1, <3>2
    <3>4. Clears(kind, skill[released[kind]], s)
      BY <3>3 DEF OnlyARefitServesTheUncleared
    <3>5. skill'[released[kind]] = skill[released[kind]]
      BY <3>2 DEF OneIsFitted
    <3>. QED
      BY <3>1, <3>4, <3>5
  <2>. QED
    BY <2>1, <2>2
<1>7. BarsAreMeasured'
  <2> SUFFICES ASSUME NEW kind \in Kinds, bar'[kind] # NoBar
               PROVE  Examples \cap Primary # {}
    BY DEF BarsAreMeasured, Examples, SomethingIsTested
  <2>1. CASE kind = k
    BY <1>1, <1>2, <1>3, <2>1, AverageIsMeasured
  <2>2. CASE kind # k
    BY <1>1, <1>3, <2>2 DEF BarsAreMeasured
  <2>. QED
    BY <2>1, <2>2
<1>8. NoWorseRelease
  <2> SUFFICES ASSUME NEW kind \in Kinds, bar[kind] # NoBar
               PROVE  bar'[kind] # NoBar /\ ~Worse(bar'[kind], bar[kind])
    BY DEF NoWorseRelease
  <2>1. CASE kind = k
    <3>1. Average(sk) # NoBar
      BY <1>1, <1>2, <1>3, ClearedHasAverage DEF BarsAreMeasured, Passed
    <3>2. bar'[kind] = Average(sk)
      BY <1>1, <1>3, <2>1
    <3>. QED
      BY <1>3, <2>1, <3>1, <3>2 DEF Passed, WorseThanReleased
  <2>2. CASE kind # k
    <3>1. bar'[kind] = bar[kind]
      BY <1>1, <1>3, <2>2
    <3>. QED
      BY <3>1, NoBarIsWorseThanItself
  <2>. QED
    BY <2>1, <2>2
<1>. QED
  BY <1>5, <1>6, <1>7, <1>8

(***************************************************************************)
(* Withheld, a model that was fitted is marked, and one that was not is as *)
(* it was.                                                                 *)
(***************************************************************************)
LEMMA WithholdStep ==
  ASSUME ModelInv, NEW m \in Models, OneIsFitted(m), UNCHANGED latest,
         NEW fitted \in SUBSET Trainable, Withhold(m, fitted),
         skill' = skill \/ m \in fitted
  PROVE  ModelInv' /\ NoWorseRelease
<1> USE DEF ModelInv, ModelTypeOK
<1>1. /\ UNCHANGED <<released, bar>>
      /\ refitted' = refitted \cup fitted
  BY DEF Withhold
<1>2. ModelTypeOK'
  BY <1>1 DEF OneIsFitted
<1>3. OnlyARefitServesTheUncleared'
  <2> SUFFICES ASSUME NEW k \in Kinds,
                      released[k] \notin refitted' \cup {NoModel},
                      NEW s \in Examples
               PROVE  Clears(k, skill'[released[k]], s)
    BY <1>1 DEF OnlyARefitServesTheUncleared, Examples,
                SomethingIsTested, Clears
  <2>1. Clears(k, skill[released[k]], s)
    BY <1>1 DEF OnlyARefitServesTheUncleared
  <2>2. skill'[released[k]] = skill[released[k]]
    BY <1>1 DEF OneIsFitted
  <2>. QED
    BY <2>1, <2>2
<1>4. BarsAreMeasured'
  BY <1>1 DEF BarsAreMeasured, Examples, SomethingIsTested
<1>5. NoWorseRelease
  BY <1>1, NoBarIsWorseThanItself DEF NoWorseRelease
<1>. QED
  BY <1>2, <1>3, <1>4, <1>5

(***************************************************************************)
(* Every step of the model gate keeps its invariant, and releases nothing  *)
(* worse than what it replaces.                                            *)
(***************************************************************************)
LEMMA ModelGateSteps ==
  ASSUME ModelInv, ModelGateStep
  PROVE  ModelInv' /\ NoWorseRelease
<1>1. ASSUME NEW m \in Models, EvaluateAndRegister(m)
      PROVE  ModelInv' /\ NoWorseRelease
  <2>1. OneIsFitted(m) /\ UNCHANGED <<skill, latest>>
    BY <1>1 DEF EvaluateAndRegister, OneIsFitted, ModelInv, ModelTypeOK
  <2>2. CASE Release(m)
    BY <2>1, <2>2, ReleaseStep
  <2>3. CASE Withhold(m, {})
    BY <2>1, <2>3, WithholdStep
  <2>. QED
    BY <1>1, <2>2, <2>3 DEF EvaluateAndRegister
<1>2. ASSUME NEW m \in Models, TrainAndEvaluate(m)
      PROVE  ModelInv' /\ NoWorseRelease
  <2>1. PICK fit \in Fits : skill' = [skill EXCEPT ![m] = fit]
    BY <1>2 DEF TrainAndEvaluate
  <2>2. OneIsFitted(m)
    BY <2>1, ModelAssumption DEF OneIsFitted, ModelInv, ModelTypeOK
  <2>3. UNCHANGED latest /\ m \in Trainable
    BY <1>2 DEF TrainAndEvaluate
  <2>4. CASE Release(m)
    BY <2>2, <2>3, <2>4, ReleaseStep
  <2>5. CASE Withhold(m, {m})
    BY <2>2, <2>3, <2>5, WithholdStep
  <2>. QED
    BY <1>2, <2>4, <2>5 DEF TrainAndEvaluate
<1>. QED
  BY <1>1, <1>2 DEF ModelGateStep

(***************************************************************************)
(* A forecast changes who made the latest one and nothing else.            *)
(***************************************************************************)
LEMMA ModelFrame ==
  ASSUME ModelInv, UNCHANGED <<skill, released, bar, refitted>>,
         \/ UNCHANGED latest
         \/ \E k \in Kinds : SaveForecast(k)
  PROVE  ModelInv' /\ NoWorseRelease
<1> USE DEF ModelInv
<1>1. latest' \in [Kinds -> Models \cup {NoModel}]
  BY DEF ModelTypeOK, SaveForecast
<1>2. ModelTypeOK'
  BY <1>1 DEF ModelTypeOK
<1>3. OnlyARefitServesTheUncleared' /\ BarsAreMeasured'
  BY DEF OnlyARefitServesTheUncleared, BarsAreMeasured, Examples,
         SomethingIsTested, Clears
<1>4. NoWorseRelease
  BY NoBarIsWorseThanItself DEF NoWorseRelease, ModelTypeOK
<1>. QED
  BY <1>2, <1>3, <1>4

-----------------------------------------------------------------------------
(***************************************************************************)
(* What a detector catches in a trial is some of the fault's ticks; a      *)
(* forest that was never fitted catches nothing, and is cleared for        *)
(* nothing.                                                                *)
(***************************************************************************)
LEMMA HitsTyped ==
  ASSUME NEW d \in Detectors, NEW fit \in ForestFits \cup {Unfitted},
         NEW t \in Tested
  PROVE  Trials[d][fit][t].hits \in 0..FaultTicks
<1>1. Trials[d][fit][t].hits = Cardinality(Caught(d, fit, t))
  BY DEF Trials
<1>2. Caught(d, fit, t) \in SUBSET (1..FaultTicks)
  BY DEF Caught
<1>3. /\ IsFiniteSet(1..FaultTicks)
      /\ Cardinality(1..FaultTicks) = FaultTicks
  <2>1. 1 \in Int /\ FaultTicks \in Int /\ 1 <= FaultTicks
    BY DetectorAssumption
  <2>2. IsFiniteSet(1..FaultTicks)
    BY <2>1, FS_Interval
  <2>3. Cardinality(1..FaultTicks) =
          IF 1 > FaultTicks THEN 0 ELSE FaultTicks - 1 + 1
    BY <2>1, FS_Interval
  <2>. QED
    BY <2>1, <2>2, <2>3
<1>4. /\ IsFiniteSet(Caught(d, fit, t))
      /\ Cardinality(Caught(d, fit, t)) <= FaultTicks
  BY <1>2, <1>3, FS_Subset
<1>5. Cardinality(Caught(d, fit, t)) \in Nat
  BY <1>4, FS_CardinalityType
<1>. QED
  BY <1>1, <1>4, <1>5, DetectorAssumption

(***************************************************************************)
(* An unfitted forest catches nothing, so it meets no target.              *)
(***************************************************************************)
LEMMA UnfittedMeetsNothing ==
  ASSUME NEW d \in Detectors, d.name = Forest, NEW t \in Tested
  PROVE  ~Trials[d][Unfitted][t].meets
<1>1. /\ Caught(d, Unfitted, t) = {}
      /\ FalseAlarms(d, Unfitted) = {}
  BY DEF Caught, FalseAlarms, DetectRaises, Forest
<1>2. Trials[d][Unfitted][t].meets = MeetsTargets({}, {})
  BY <1>1 DEF Trials
<1>3. Cardinality({}) = 0
  BY FS_EmptySet
<1>. QED
  BY <1>2, <1>3, DetectorAssumption DEF MeetsTargets

(***************************************************************************)
(* An unfitted forest is cleared for no type.                              *)
(***************************************************************************)
LEMMA UnfittedIsNotCleared ==
  ASSUME NEW d \in Detectors, d.name = Forest
  PROVE  Cleared(d, Unfitted) = {}
BY UnfittedMeetsNothing DEF Cleared

(***************************************************************************)
(* The fit of the forest does not tell in the trial of another detector.   *)
(***************************************************************************)
LEMMA OthersIgnoreTheForest ==
  ASSUME NEW d \in Detectors, d.name # Forest, NEW t \in Tested,
         NEW fit \in ForestFits \cup {Unfitted},
         NEW other \in ForestFits \cup {Unfitted}
  PROVE  Trials[d][fit][t] = Trials[d][other][t]
<1>1. ~DetectRaises(d, fit) /\ ~DetectRaises(d, other)
  BY DEF DetectRaises, Forest
<1>2. d.name \in {"rule-detector", "statistical-detector"}
  BY DEF Detectors, Names, Forest
<1>3. ASSUME NEW r, NEW loads
      PROVE  Fires(d, fit, r, loads) = Fires(d, other, r, loads)
  BY <1>2 DEF Fires
<1>4. Caught(d, fit, t) = Caught(d, other, t)
  BY <1>1, <1>3 DEF Caught
<1>5. FalseAlarms(d, fit) = FalseAlarms(d, other)
  BY <1>1, <1>3 DEF FalseAlarms
<1>. QED
  BY <1>4, <1>5 DEF Trials

(***************************************************************************)
(* What a detector's record says stays true when nothing about it changes  *)
(* but the fit of the forest, which is then marked unless it is the same.  *)
(***************************************************************************)
LEMMA RecordStaysTrue ==
  ASSUME DetectorInv, NEW n \in Names \ retrained', active[n] # NoDetector,
         active'[n] = active[n], covered'[n] = covered[n],
         recalls'[n] = recalls[n], n \notin retrained,
         forest' \in ForestFits \cup {Unfitted},
         forest' = forest \/ n # Forest,
         NEW t \in covered[n]
  PROVE  EarnsItsRecord(n, t)'
<1> USE DEF DetectorInv
<1>1. /\ active[n] \in Detectors /\ active[n].name = n
      /\ forest \in ForestFits \cup {Unfitted}
      /\ t \in Tested
  BY DEF DetectorTypeOK, ClearedAreTested
<1>2. EarnsItsRecord(n, t)
  BY DEF OnlyARefitBeliesTheRecord
<1>3. Trials[active[n]][forest'][t] = Trials[active[n]][forest][t]
  BY <1>1, OthersIgnoreTheForest
<1>. QED
  BY <1>2, <1>3 DEF EarnsItsRecord, Trials

(***************************************************************************)
(* Registering a detector replaces what was known under its name by the    *)
(* types it is cleared for now, at the recalls of this trial; a type it    *)
(* keeps is caught no less often than before.                              *)
(***************************************************************************)
LEMMA RegisterStep ==
  ASSUME DetectorInv, NEW d \in Detectors,
         NEW fitted \in SUBSET Names, Register(d, fitted),
         forest' \in ForestFits \cup {Unfitted},
         (forest' # Unfitted /\ Forest \in fitted) \/ forest' = forest,
         d.name = Forest \/ forest' = forest,
         UNCHANGED <<history, reported>>
  PROVE  DetectorInv' /\ NoRecallLost
<1> USE DEF DetectorInv
<1> DEFINE types == Cleared(d, forest')
           n == d.name
<1>0. n \in Names /\ d \in Detectors \cup {NoDetector}
  BY DEF Detectors, Names
<1>1. CASE KeepRegistered(fitted)
  <2>0. /\ UNCHANGED <<active, covered, recalls>>
        /\ retrained' = retrained \cup fitted
    BY <1>1 DEF KeepRegistered
  <2>1. DetectorTypeOK'
    BY <2>0 DEF DetectorTypeOK
  <2>2. ClearedAreTested' /\ LiveForestIsFitted'
    BY <2>0 DEF ClearedAreTested, LiveForestIsFitted, DetectorTypeOK
  <2>3. UntestedIsNeverReported'
    BY DEF UntestedIsNeverReported
  <2>4. NoRecallLost
    <3> SUFFICES ASSUME NEW m \in Names, NEW t \in covered[m]
                 PROVE  recalls[m][t] >= recalls[m][t]
      BY <2>0 DEF NoRecallLost
    <3>1. recalls[m][t] \in 0..FaultTicks
      BY DEF DetectorTypeOK, ClearedAreTested
    <3>. QED
      BY <3>1, DetectorAssumption
  <2>5. OnlyARefitBeliesTheRecord'
    <3> SUFFICES ASSUME NEW m \in Names \ retrained',
                        active'[m] # NoDetector, NEW t \in covered'[m]
                 PROVE  EarnsItsRecord(m, t)'
      BY DEF OnlyARefitBeliesTheRecord
    <3>1. forest' = forest \/ m # Forest
      BY <2>0
    <3>. QED
      BY <2>0, <3>1, RecordStaysTrue
  <2>. QED
    BY <2>1, <2>2, <2>3, <2>4, <2>5
<1>2. CASE types # {} /\ Replace(d, types, forest')
  <2> DEFINE now == [t \in AnomalyTypes |->
                       IF t \in types THEN Trials[d][forest'][t].hits
                                      ELSE NoRecall]
  <2>1. /\ active' = [active EXCEPT ![n] = d]
        /\ covered' = [covered EXCEPT ![n] = types]
        /\ recalls' = [recalls EXCEPT ![n] = now]
        /\ retrained' = retrained \ {n}
    BY <1>2 DEF Replace
  <2>2. types \subseteq SupportedTypes(d) \cap Tested
    BY DEF Cleared
  <2>3. types \subseteq AnomalyTypes
    BY <2>2 DEF Tested
  <2>4. \A t \in types : now[t] \in 0..FaultTicks
    BY <2>2, <2>3, HitsTyped
  <2>5. now \in [AnomalyTypes -> (0..FaultTicks) \cup {NoRecall}]
    BY <2>4
  <2>6. types = {t \in AnomalyTypes : now[t] # NoRecall}
    <3>1. \A t \in AnomalyTypes \ types : now[t] = NoRecall
      OBVIOUS
    <3> HIDE DEF types, now
    <3>2. \A t \in types : now[t] # NoRecall
      BY <2>4, DetectorAssumption
    <3>. QED
      BY <2>3, <3>1, <3>2
  <2>7. \A t \in types : ~Regressed(now[t], recalls[n][t])
    BY <2>3 DEF Cleared
  <2>8. n = Forest => forest' # Unfitted
    BY <1>2, UnfittedIsNotCleared
  <2>17. \A t \in types : /\ Trials[d][forest'][t].meets
                          /\ Trials[d][forest'][t].hits = now[t]
    BY <2>3 DEF Cleared
  <2> HIDE DEF types, now, n
  <2>9. \A m \in Names : m # n => /\ active'[m] = active[m]
                                  /\ covered'[m] = covered[m]
                                  /\ recalls'[m] = recalls[m]
    BY <2>1 DEF DetectorTypeOK
  <2>10. active'[n] = d /\ covered'[n] = types /\ recalls'[n] = now
    BY <1>0, <2>1 DEF DetectorTypeOK
  <2>11. DetectorTypeOK'
    <3>1. active' \in [Names -> Detectors \cup {NoDetector}]
      BY <1>0, <2>1 DEF DetectorTypeOK
    <3>2. covered' \in [Names -> SUBSET AnomalyTypes]
      BY <2>1, <2>3 DEF DetectorTypeOK
    <3>3. recalls' \in [Names ->
                          [AnomalyTypes -> (0..FaultTicks) \cup {NoRecall}]]
      BY <2>1, <2>5 DEF DetectorTypeOK
    <3>4. ASSUME NEW m \in Names, active'[m] # NoDetector
          PROVE  /\ active'[m].name = m
                 /\ covered'[m] \subseteq SupportedTypes(active'[m])
                 /\ covered'[m] =
                      {t \in AnomalyTypes : recalls'[m][t] # NoRecall}
      <4>1. CASE m = n
        BY <2>2, <2>6, <2>10, <4>1 DEF n
      <4>2. CASE m # n
        BY <2>9, <3>4, <4>2 DEF DetectorTypeOK
      <4>. QED
        BY <4>1, <4>2
    <3>5. retrained' \subseteq Names
      BY <2>1 DEF DetectorTypeOK
    <3>. QED
      BY <3>1, <3>2, <3>3, <3>4, <3>5 DEF DetectorTypeOK
  <2>12. ClearedAreTested'
    BY <2>2, <2>6, <2>9, <2>10 DEF ClearedAreTested
  <2>13. LiveForestIsFitted'
    BY <2>8, <2>9, <2>10 DEF LiveForestIsFitted, Names, Forest
  <2>14. UntestedIsNeverReported'
    BY DEF UntestedIsNeverReported
  <2>15. NoRecallLost
    <3> SUFFICES ASSUME NEW m \in Names,
                        NEW t \in covered[m] \cap covered'[m]
                 PROVE  recalls'[m][t] >= recalls[m][t]
      BY DEF NoRecallLost
    <3>1. /\ t \in AnomalyTypes
          /\ recalls[m][t] # NoRecall
          /\ recalls[m][t] \in 0..FaultTicks
      BY DEF DetectorTypeOK, ClearedAreTested
    <3>2. CASE m = n
      <4>1. now[t] \in 0..FaultTicks /\ ~Regressed(now[t], recalls[n][t])
        BY <2>4, <2>7, <2>10, <3>2
      <4>. QED
        BY <2>10, <3>1, <3>2, <4>1, DetectorAssumption DEF Regressed
    <3>3. CASE m # n
      BY <2>9, <3>1, <3>3, DetectorAssumption
    <3>. QED
      BY <3>2, <3>3
  <2>16. OnlyARefitBeliesTheRecord'
    <3> SUFFICES ASSUME NEW m \in Names \ retrained',
                        active'[m] # NoDetector, NEW t \in covered'[m]
                 PROVE  EarnsItsRecord(m, t)'
      BY DEF OnlyARefitBeliesTheRecord
    <3>1. CASE m = n
      BY <2>10, <2>17, <3>1 DEF EarnsItsRecord, Trials
    <3>2. CASE m # n
      <4>1. forest' = forest \/ m # Forest
        BY <3>2 DEF n
      <4>2. m \notin retrained
        BY <2>1, <3>2
      <4>. QED
        BY <2>9, <3>2, <4>1, <4>2, RecordStaysTrue
    <3>. QED
      BY <3>1, <3>2
  <2>. QED
    BY <2>11, <2>12, <2>13, <2>14, <2>15, <2>16
<1>. QED
  BY <1>1, <1>2 DEF Register

(***************************************************************************)
(* Every step of the detector gate keeps its invariant, and loses no       *)
(* recall of a type that stays cleared. The history it leaves alone.       *)
(***************************************************************************)
LEMMA DetectorGateSteps ==
  ASSUME DetectorInv, DetectorGateStep
  PROVE  DetectorInv' /\ NoRecallLost /\ UNCHANGED history
<1>1. CASE TrainForest
  <2>1. forest' \in ForestFits /\ UNCHANGED <<history, reported>>
    BY <1>1 DEF TrainForest
  <2>2. PICK d \in Detectors : d.name = Forest /\ Register(d, {d.name})
    BY <1>1 DEF TrainForest, Forest
  <2>3. forest' # Unfitted /\ {d.name} \in SUBSET Names
    BY <2>1, <2>2, DetectorAssumption DEF Forest, Names
  <2>. QED
    BY <2>1, <2>2, <2>3, RegisterStep
<1>2. ASSUME NEW d \in Detectors, EvaluateDetector(d)
      PROVE  DetectorInv' /\ NoRecallLost /\ UNCHANGED history
  <2>1. UNCHANGED <<forest, history, reported>> /\ Register(d, {})
    BY <1>2 DEF EvaluateDetector
  <2>2. forest' \in ForestFits \cup {Unfitted}
    BY <2>1 DEF DetectorInv, DetectorTypeOK
  <2>. QED
    BY <2>1, <2>2, RegisterStep
<1>. QED
  BY <1>1, <1>2 DEF DetectorGateStep

(***************************************************************************)
(* Scoring a reading changes the history and what is reported, which is of *)
(* types that a detector is cleared for.                                   *)
(***************************************************************************)
LEMMA DetectorFrame ==
  ASSUME DetectorInv,
         UNCHANGED <<forest, active, covered, recalls, retrained>>,
         history' \in Seq(Nat), reported' \subseteq Tested
  PROVE  DetectorInv' /\ NoRecallLost
<1> USE DEF DetectorInv
<1>1. DetectorTypeOK'
  BY DEF DetectorTypeOK, Tested
<1>2. ClearedAreTested' /\ LiveForestIsFitted' /\ UntestedIsNeverReported'
  BY DEF ClearedAreTested, LiveForestIsFitted, UntestedIsNeverReported
<1>5. OnlyARefitBeliesTheRecord'
  <2> SUFFICES ASSUME NEW n \in Names \ retrained, active[n] # NoDetector,
                      NEW t \in covered[n]
               PROVE  EarnsItsRecord(n, t)'
    BY DEF OnlyARefitBeliesTheRecord
  <2>1. EarnsItsRecord(n, t)
    BY DEF OnlyARefitBeliesTheRecord
  <2>. QED
    BY <2>1 DEF EarnsItsRecord, Trials
<1>3. ASSUME NEW n \in Names, NEW t \in covered[n]
      PROVE  recalls[n][t] >= recalls[n][t]
  <2>1. recalls[n][t] \in 0..FaultTicks
    BY DEF DetectorTypeOK, ClearedAreTested
  <2>. QED
    BY <2>1, DetectorAssumption
<1>4. NoRecallLost
  BY <1>3 DEF NoRecallLost
<1>. QED
  BY <1>1, <1>2, <1>4, <1>5

(***************************************************************************)
(* What the released detectors report of a reading is of tested types.     *)
(***************************************************************************)
LEMMA AnomaliesAreTested ==
  ASSUME DetectorInv, NEW r
  PROVE  Anomalies(r) \subseteq Tested
BY Zenon DEF DetectorInv, ClearedAreTested, Anomalies

-----------------------------------------------------------------------------
(***************************************************************************)
(* Before anything was fitted or released.                                 *)
(***************************************************************************)
LEMMA InitInductive == Init => IInv
<1> SUFFICES ASSUME Init PROVE IInv
  OBVIOUS
<1> USE DEF Init
<1>1. ModelInv
  <2>1. ModelTypeOK
    BY ModelAssumption DEF ModelInit, ModelTypeOK
  <2>2. OnlyARefitServesTheUncleared /\ BarsAreMeasured
    BY DEF ModelInit, OnlyARefitServesTheUncleared, BarsAreMeasured
  <2>. QED
    BY <2>1, <2>2 DEF ModelInv
<1>2. DetectorInv
  <2>1. DetectorTypeOK
    BY DEF DetectorInit, DetectorTypeOK
  <2>2. ClearedAreTested
    BY DEF DetectorInit, ClearedAreTested
  <2>3. LiveForestIsFitted /\ UntestedIsNeverReported
    BY DEF DetectorInit, LiveForestIsFitted, UntestedIsNeverReported,
           Names, Forest
  <2>4. OnlyARefitBeliesTheRecord
    BY DEF DetectorInit, OnlyARefitBeliesTheRecord
  <2>. QED
    BY <2>1, <2>2, <2>3, <2>4 DEF DetectorInv
<1>3. Len(history) <= HistoryLength /\ gateCalls \in 0..MaxGateCalls
  BY AnalysisAssumption DEF DetectorInit
<1>. QED
  BY <1>1, <1>2, <1>3 DEF IInv

(***************************************************************************)
(* The history never outgrows its length.                                  *)
(***************************************************************************)
LEMMA RememberKeepsLength ==
  ASSUME history \in Seq(Nat), Len(history) <= HistoryLength,
         NEW r \in LiveReadings, Remember(r)
  PROVE  history' \in Seq(Nat) /\ Len(history') <= HistoryLength
<1> DEFINE loads == Append(history, r.load)
<1>1. r.load \in Nat /\ HistoryLength \in Nat
  BY AnalysisAssumption
<1>2. /\ loads \in Seq(Nat) /\ Len(loads) = Len(history) + 1
      /\ Len(history) \in Nat
  BY <1>1
<1>3. history' = IF Len(loads) > HistoryLength THEN Tail(loads) ELSE loads
  BY DEF Remember
<1>4. CASE Len(loads) > HistoryLength
  <2> HIDE DEF loads
  <2>1. loads # <<>>
    BY <1>1, <1>4
  <2>2. Tail(loads) \in Seq(Nat) /\ Len(Tail(loads)) = Len(loads) - 1
    BY <1>2, <2>1
  <2>. QED
    BY <1>1, <1>2, <1>3, <1>4, <2>2
<1>5. CASE ~(Len(loads) > HistoryLength)
  <2> HIDE DEF loads
  <2>. QED
    BY <1>1, <1>2, <1>3, <1>5
<1>. QED
  BY <1>4, <1>5

(***************************************************************************)
(* A call of a gate, a forecast and the analysis of a reading keep the     *)
(* invariant, and what the two action properties say of a step holds of    *)
(* each.                                                                   *)
(***************************************************************************)
LEMMA CallGateStep ==
  ASSUME IInv, CallGate
  PROVE  IInv' /\ NoWorseRelease /\ NoRecallLost
<1> USE DEF IInv
<1>1. gateCalls' \in 0..MaxGateCalls
  BY AnalysisAssumption DEF CallGate
<1>2. CASE UNCHANGED detectorVars /\ ModelGateStep
  <2>1. ModelInv' /\ NoWorseRelease
    BY <1>2, ModelGateSteps
  <2>2. UNCHANGED <<forest, active, covered, recalls, history, reported,
                    retrained>>
    BY <1>2 DEF detectorVars
  <2>3. DetectorInv' /\ NoRecallLost
    BY <2>2, DetectorFrame
       DEF DetectorInv, DetectorTypeOK, UntestedIsNeverReported
  <2>. QED
    BY <1>1, <2>1, <2>2, <2>3
<1>3. CASE UNCHANGED modelVars /\ DetectorGateStep
  <2>1. DetectorInv' /\ NoRecallLost /\ UNCHANGED history
    BY <1>3, DetectorGateSteps
  <2>2. ModelInv' /\ NoWorseRelease
    BY <1>3, ModelFrame DEF modelVars
  <2>. QED
    BY <1>1, <2>1, <2>2
<1>. QED
  BY <1>2, <1>3 DEF CallGate

(***************************************************************************)
(* Forecasting another quantity keeps the invariant and releases nothing.  *)
(***************************************************************************)
LEMMA ForecastOtherStep ==
  ASSUME IInv, ForecastOther
  PROVE  IInv' /\ NoWorseRelease /\ NoRecallLost
<1> USE DEF IInv
<1>1. /\ UNCHANGED <<skill, released, bar, refitted>>
      /\ \E k \in Kinds : SaveForecast(k)
      /\ UNCHANGED <<forest, active, covered, recalls, history, reported,
                     retrained, gateCalls>>
  BY DEF ForecastOther, Forecast, detectorVars
<1>2. ModelInv' /\ NoWorseRelease
  BY <1>1, ModelFrame
<1>3. DetectorInv' /\ NoRecallLost
  BY <1>1, DetectorFrame
     DEF DetectorInv, DetectorTypeOK, UntestedIsNeverReported
<1>. QED
  BY <1>1, <1>2, <1>3

(***************************************************************************)
(* Analysing a reading keeps the invariant and releases nothing.           *)
(***************************************************************************)
LEMMA AnalyseStep ==
  ASSUME IInv, NEW r \in LiveReadings, Analyse(r)
  PROVE  IInv' /\ NoWorseRelease /\ NoRecallLost
<1> USE DEF IInv
<1>1. UNCHANGED <<skill, released, bar, refitted, forest, active, covered,
                  recalls, retrained, gateCalls>>
  BY DEF Analyse
<1>2. UNCHANGED latest \/ \E k \in Kinds : SaveForecast(k)
  BY DEF Analyse, ForecastSolar, Solar, Kinds
<1>3. history' \in Seq(Nat) /\ Len(history') <= HistoryLength
  BY RememberKeepsLength DEF Analyse, DetectorInv, DetectorTypeOK
<1>4. reported' \subseteq Tested
  <2>1. reported' = {} \/ reported' = Anomalies(r)
    BY DEF Analyse, Report
  <2>. QED
    BY <2>1, AnomaliesAreTested
<1>5. ModelInv' /\ NoWorseRelease
  BY <1>1, <1>2, ModelFrame
<1>6. DetectorInv' /\ NoRecallLost
  BY <1>1, <1>3, <1>4, DetectorFrame
<1>. QED
  BY <1>1, <1>3, <1>5, <1>6

(***************************************************************************)
(* Every step keeps the invariant and obeys the two rules of a release.    *)
(***************************************************************************)
LEMMA NextInductive ==
  ASSUME IInv, [Next]_vars
  PROVE  IInv' /\ NoWorseRelease /\ NoRecallLost
<1>1. CASE UNCHANGED vars
  <2>1. UNCHANGED <<skill, released, bar, latest, refitted, forest, active,
                    covered, recalls, history, reported, retrained,
                    gateCalls>>
    BY <1>1 DEF vars, modelVars, detectorVars
  <2>2. ModelInv' /\ NoWorseRelease
    BY <2>1, ModelFrame DEF IInv
  <2>3. DetectorInv' /\ NoRecallLost
    BY <2>1, DetectorFrame
       DEF IInv, DetectorInv, DetectorTypeOK, UntestedIsNeverReported
  <2>. QED
    BY <2>1, <2>2, <2>3 DEF IInv
<1>. QED
  BY <1>1, CallGateStep, ForecastOtherStep, AnalyseStep DEF Next

(***************************************************************************)
(* The inductive invariant holds in every reachable state.                 *)
(***************************************************************************)
LEMMA Inductive == Spec => []IInv
<1>1. IInv /\ [Next]_vars => IInv'
  BY NextInductive
<1>. QED
  BY <1>1, InitInductive, PTL DEF Spec

-----------------------------------------------------------------------------
(***************************************************************************)
(* Every variable keeps its type: what is registered for a kind is a model *)
(* of that kind, what a detector is cleared for is what it supports.       *)
(***************************************************************************)
THEOREM TypeCorrect == Spec => []TypeOK
<1>1. IInv => TypeOK
  BY DEF IInv, ModelInv, DetectorInv, TypeOK
<1>. QED
  BY <1>1, Inductive, PTL

(***************************************************************************)
(* No way round the gate but a fit in place: a released model that was not *)
(* fitted since meets its targets in every example and raises in none.     *)
(***************************************************************************)
THEOREM GateHolds == Spec => []OnlyARefitServesTheUncleared
<1>1. IInv => OnlyARefitServesTheUncleared
  BY DEF IInv, ModelInv
<1>. QED
  BY <1>1, Inductive, PTL

(***************************************************************************)
(* What no scenario tests is never reported.                               *)
(***************************************************************************)
THEOREM OnlyTheTestedIsReported == Spec => []UntestedIsNeverReported
<1>1. IInv => UntestedIsNeverReported
  BY DEF IInv, DetectorInv
<1>. QED
  BY <1>1, Inductive, PTL

(***************************************************************************)
(* A live detector never raises: the only one that can is a forest that    *)
(* was never fitted.                                                       *)
(***************************************************************************)
LEMMA NoDetectorRaises == IInv => ~ScoreRaises
<1> SUFFICES ASSUME IInv, NEW n \in Names, active[n] # NoDetector,
                    DetectRaises(active[n], forest)
             PROVE  FALSE
  BY DEF ScoreRaises
<1>1. active[n].name = n
  BY DEF IInv, DetectorInv, DetectorTypeOK
<1>2. n = Forest /\ forest = Unfitted
  BY <1>1 DEF DetectRaises, Forest
<1>. QED
  BY <1>2 DEF IInv, DetectorInv, LiveForestIsFitted

(***************************************************************************)
(* Only a model that was fitted since its release, or that meets a         *)
(* condition it was not tested in, makes the analysis of a reading raise;  *)
(* no live detector does.                                                  *)
(***************************************************************************)
THEOREM TheTestedDoesNotRaise == Spec => []OnlyTheUntestedRaises
<1>1. ASSUME IInv PROVE OnlyTheUntestedRaises
  <2> SUFFICES ASSUME NEW r \in LiveReadings, AnalysisRaises(r),
                      released[Solar] \notin refitted, Like[r] \in Examples
               PROVE  FALSE
    BY DEF OnlyTheUntestedRaises
  <2>1. ForecastRaises(r)
    BY <1>1, NoDetectorRaises DEF AnalysisRaises
  <2>2. /\ released[Solar] # NoModel
        /\ skill[released[Solar]][Like[r]] = Raises
    BY <2>1 DEF ForecastRaises, CanForecast, PredictRaises
  <2>3. Solar \in Kinds
    BY DEF Solar, Kinds
  <2>4. Clears(Solar, skill[released[Solar]], Like[r])
    BY <1>1, <2>2, <2>3 DEF IInv, ModelInv, OnlyARefitServesTheUncleared
  <2>. QED
    BY <2>2, <2>4 DEF Clears
<1>. QED
  BY <1>1, Inductive, PTL

(***************************************************************************)
(* A release never makes a kind's average error worse than that of the     *)
(* release before it, and never leaves it without one.                     *)
(***************************************************************************)
THEOREM ReleasesImprove == Spec => ReleasesOnlyImprove
<1>1. IInv /\ [Next]_vars => [NoWorseRelease]_modelVars
  BY NextInductive
<1>. QED
  BY <1>1, Inductive, PTL DEF Spec, ReleasesOnlyImprove

(***************************************************************************)
(* The recall on record for a type that a detector stays cleared for never *)
(* falls.                                                                  *)
(***************************************************************************)
THEOREM RecordedRecallsHold == Spec => RecallNeverFalls
<1>1. IInv /\ [Next]_vars => [NoRecallLost]_detectorVars
  BY NextInductive
<1>. QED
  BY <1>1, Inductive, PTL DEF Spec, RecallNeverFalls

(***************************************************************************)
(* A live detector meets its targets for every type it is cleared for, and *)
(* catches what is on record, as long as it is not fitted again.           *)
(***************************************************************************)
THEOREM RecordsAreEarned == Spec => []OnlyARefitBeliesTheRecord
<1>1. IInv => OnlyARefitBeliesTheRecord
  BY DEF IInv, DetectorInv
<1>. QED
  BY <1>1, Inductive, PTL
=============================================================================
