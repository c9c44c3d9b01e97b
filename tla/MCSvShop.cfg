SPECIFICATION FairSpec
CONSTANTS
    MAX_ORDERS = 2
    Orders = {o1, o2}
    Empty = Empty
    Receivers = {r1, r2}
    Packers = {p1}
    Senders = {s1}
    SEMAEM = 2
    MaxKills = 1
INVARIANTS
    TypeOK MutualExclusion CreditsAgree
PROPERTIES
    PipelineWhileAllLive CriticalSectionEnds
CHECK_DEADLOCK FALSE
