\* Programs, people, the server and the window manager share one focus.
SPECIFICATION FocusSpec
CONSTANTS
    c1 = c1
    c2 = c2
    c3 = c3
    Clients = {c1, c2, c3}
    Adopted = {c1, c3}
    Direct = {c2,c3}
    Takers = {c2}
    Families <- ChainOrSiblings
    Nobody = Nobody
    MaxTime = 2
    MaxMappings = 1
INVARIANTS
    FocusAgrees
PROPERTIES
    FocusSettles
CHECK_DEADLOCK FALSE
