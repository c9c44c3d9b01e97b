SPECIFICATION Spec
CONSTANTS
    MAX_ORDERS = 2
    Orders = {o1, o2}
    Empty = Empty
    Receivers = {r1, r2}
    Packers = {p1}
    Senders = {s1}
    SEMAEM = 3
    MaxKills = 0
INVARIANT
    WaitingWithinTable
CHECK_DEADLOCK FALSE
