SPECIFICATION FairEventSpec
CONSTANTS
  Data = {ep0, ep1}
  NoData = none
  kStages = 2
  PulsedValid = FALSE
  Shapes <- ResetShapes
  UlpiPeriod = 10
  AxiPeriod = 6
INVARIANTS ReportMatches
PROPERTIES EveryEventReported ReporterReadyAgain
