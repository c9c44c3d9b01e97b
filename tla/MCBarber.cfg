SPECIFICATION FairSpec
CONSTANTS
    Clients = {c1, c2, c3, c4, c5}
    NULL = NULL
    max_clients = 2
INVARIANTS
    TypeOK ListIntact CountdownAgrees
PROPERTIES
    ImplementsRoom CabinetIsServed
CHECK_DEADLOCK FALSE
