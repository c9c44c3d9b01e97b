SPECIFICATION Spec
CONSTANTS
    Records = {1, 2, 3, 4}
    Key <- keys
    MaxRecords = 4
    threads_num = 2
    max_val = 3
    Sizes <- sizes
    w1 = w1
    w2 = w2
    Workers = {w1, w2}
    None = None
    Base = 2
    MaxLines = 3
    MaxCols = 4
    MaxKills = 1
    Files = {3, 4, 5}
    Rounds = 12
    MaxCommands = 3
    Wants = {0, 1, All}
    Makes = {0, 1, 2}
    All = All
    Capacity = 1
SYMMETRY Symmetry
INVARIANTS
    JobDone NothingLost   OneWorkerRight FreedOnce LineGoesOn
PROPERTIES
    SeeksBetween
CHECK_DEADLOCK FALSE
