SPECIFICATION Spec
CONSTANTS
    c1 = c1
    s1 = s1
    NoClient = NoClient
    Clients = {c1}
    Sessions = {s1}
    Watched = s1
    Titles = {"plain", "secret", "private"}
    Workspaces = {1, 2}
    Places = {1, 2}
    Rule <- MCRule
    Deals <- MCDeals
    MaxQueuedEvents = 2
    WriterQueue = 2
    MaxChanges = 3
    MaxRequests = 2
INVARIANTS
    ViewTracksDesktop
    GenerationTells
PROPERTIES
    StreamPromise
CHECK_DEADLOCK FALSE
