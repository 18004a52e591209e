SPECIFICATION Spec
CONSTANTS
  MinSoc = 1
  MaxSoc = 5
  StartSoc = 2
  EmptySoc = 0
  FullSoc = 6
  MaxCharge = 2
  MaxDischarge = 2
  Moments <- NoonAndEvening
  Clouds = {0}
  PeakSun = 4
  BaseLoad = 1
  PeakLoad = 4
  Faults <- SmallFaults
  CriticalMargin = 2
  MediumMargin = 3
  ReliabilityMargin = 2
  HealthyMinSoc = 3
  HealthyMaxSoc = 4
  ReservePower = 1
  ShedOnOutage = 2
  CostMargin = 2
  CostPower = 1
  Unstated = unstated
  SiteChoices <- SmallSites
  Ages = {5, 420, 1000}
  AnomalyCounts = {0, 1, 2}
  Forecasts <- SolarOnly
  ModifiedAmounts = {9}
  MaxFaults = 2
  NoCommand = nocommand
INVARIANTS
  FilterAgreesWithSafety SentOnSoundReading OutageActionsComeTooLate
  UnattendedSendsAreConfident ConfidenceIsNeverHigh
