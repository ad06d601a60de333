SPECIFICATION FairLinkSpec
CONSTANTS
  Data = {d1, d2}
  NoData = none
  kStages = 2
  PulsedValid = TRUE
INVARIANTS TypeOK OneFront ReadyMeansIdle PulseShowsPending
PROPERTIES EveryPushTaken ReadyAgain StableWhileCrossing ImplementsChannel
