SPECIFICATION Spec
CONSTANTS
  MinSoc = 1
  MaxSoc = 5
  StartSoc = 2
  EmptySoc = 0
  FullSoc = 6
  MaxCharge = 2
  MaxDischarge = 2
  Moments <- EveningOnly
  Clouds = {0}
  PeakSun = 4
  BaseLoad = 1
  PeakLoad = 4
  Faults <- GridFaults
  CriticalMargin = 2
  MediumMargin = 3
  ReliabilityMargin = 2
  HealthyMinSoc = 3
  HealthyMaxSoc = 4
  ReservePower = 1
  ShedOnOutage = 2
  CostMargin = 2
  CostPower = 1
  Unstated = unstated
  SiteChoices <- SheddingSite
  Ages = {5, 1000}
  AnomalyCounts = {0, 1}
  Forecasts <- SolarOnly
  ModifiedAmounts <- Amounts
  MaxFaults = 2
  NoCommand = nocommand
CONSTRAINT ChargeIsFollowed
INVARIANTS TypeOK LimitsHoldUntilReversed
PROPERTY ShedLoadStaysShed
