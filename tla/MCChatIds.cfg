SPECIFICATION Spec
CONSTANTS
    Clients = {c1, c2, c3, c4, c5}
    None = None
    Names <- QueueNames
    MAX_CLIENTS = 3
    MaxCommands = 0
INVARIANTS
    UniqueIds
SYMMETRY Users
CHECK_DEADLOCK FALSE
