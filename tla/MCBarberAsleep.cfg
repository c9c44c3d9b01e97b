SPECIFICATION Spec
CONSTANTS
    Clients = {c1, c2, c3}
    NULL = NULL
    max_clients = 1
INVARIANT
    NotAsleepWithClients
CHECK_DEADLOCK FALSE
