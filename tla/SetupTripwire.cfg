CONSTANTS
  MaxSetups = 3
  MaxOther = 2
  Spaced = TRUE
SPECIFICATION FairSpec
INVARIANTS SetupWhole HandledInOrder
 
CHECK_DEADLOCK FALSE
