SPECIFICATION FairSpec
CONSTANTS
    MAX_ORDERS = 2
    Orders = {o1, o2}
    Empty = Empty
    Receivers = {r1, r2}
    Packers = {p1, p2}
    Senders = {s1}
    MaxKills = 1
INVARIANTS
    TypeOK MutualExclusion CreditsConserved IndicesAgree NoUnsentOverwritten GetNFindsAnOrder
PROPERTIES
    ImplementsPipeline OrdersAreSent
CHECK_DEADLOCK FALSE
