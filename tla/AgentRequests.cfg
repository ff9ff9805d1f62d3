SPECIFICATION Spec
CONSTANTS
    c1 = c1
    s1 = s1
    s2 = s2
    NoClient = NoClient
    Clients = {c1}
    Sessions = {s1}
    Requests = {1, 2}
    Titles = {"plain", "secret"}
    Workspaces = {1}
    Places = {1}
    Rule <- MCRule
    MaxQueuedEvents = 1
    WriterQueue = 2
    Strokes = 2
    MaxRequests = 3
    MaxChanges = 1
INVARIANTS
    PendingHasTimer
    PreemptedNeverSucceeds
PROPERTIES
    RequestsAnswered
CHECK_DEADLOCK FALSE
