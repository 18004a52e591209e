SPECIFICATION Spec
CONSTANTS
  solarBaseline = solarBaseline
  solarTrained = solarTrained
  loadTrained = loadTrained
  batteryBaseline = batteryBaseline
  clearDay = clearDay
  eveningPeak = eveningPeak
  outage = outage
  snow = snow
  Models = {solarBaseline, solarTrained, loadTrained, batteryBaseline}
  Kind <- SmallKind
  Trainable = {solarTrained, loadTrained}
  Scenarios = {clearDay, eveningPeak, outage}
  Primary = {clearDay, eveningPeak}
  Unseen = {snow}
  Horizons = {15, 30, 60, 360}
  Resolution = 15
  Target <- SmallTarget
  FirstSkill <- SmallFirstSkill
  Fits <- SmallFits
  Raises = Raises
  NoModel = NoModel
  NoBar = NoBar
  Thresholds = {0, 1, 3}
  Sigma = 3
  MinHistory = 2
  WarmupLoads <- Warmup
  FaultTicks = 10
  MaxLateTicks = 2
  ForestFits <- SmallForestFits
  Unfitted = Unfitted
  NoDetector = NoDetector
  NoRecall = NoRecall
  LiveReadings <- SmallReadings
  Like <- SmallLike
  HistoryLength = 2
  MaxGateCalls = 3
INVARIANTS TypeOK OnlyARefitServesTheUncleared UntestedIsNeverReported OnlyTheUntestedRaises OnlyARefitBeliesTheRecord
PROPERTIES ReleasesOnlyImprove RecallNeverFalls
