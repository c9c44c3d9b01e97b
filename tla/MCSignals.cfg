SPECIFICATION FairSpec
CONSTANTS
    Processes <- AB
    Programs <- Working
    MaxNum = 5
INVARIANTS
    TypeOK CountsShrink  RealTimeLosesNothing
PROPERTIES
    OneAtATime BothEnd
CHECK_DEADLOCK FALSE
