SPECIFICATION Spec
CONSTANTS
    Clients = {c1, c2, c3}
    None = None
    Names <- QueueNames
    MAX_CLIENTS = 2
    MaxCommands = 2
INVARIANTS
    TypeOK  ServerLeavesLast
SYMMETRY Users
CHECK_DEADLOCK FALSE
