CONSTANTS
  NumFrames = 2
  Modes = {m1, m2}
  NoMode = none
  FirstMode = m1
SPECIFICATION FairSpec
INVARIANTS VideoTypeOK MenuIsCurrent DisplayShowsFrame StreamIsParked
PROPERTY ShowsInput
CHECK_DEADLOCK FALSE
