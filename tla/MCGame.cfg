SPECIFICATION MCSpec
CONSTANTS
    c1 = c1
    c2 = c2
    c3 = c3
    c4 = c4
    d1 = d1
    d2 = d2
    d3 = d3
    d4 = d4
    Clients = {c1, c2, c3, c4}
    Names = {c1, c2, c3}
    client_name <- names
    Local = {c2}
    None = None
    MAX_CLIENTS = 2
    Fields = {1, 2}
    Lines <- line
    MaxPings = 0
    MaxCrashes = 1
VIEW View
SYMMETRY Symmetry
INVARIANTS
    Typed   Alternate
CHECK_DEADLOCK FALSE
