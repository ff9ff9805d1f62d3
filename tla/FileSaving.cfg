\* The configuration and the session, two processes, and everything that may go wrong.
SPECIFICATION FileSpec
CONSTANTS
    Files = {"configuration", "session"}
    SyncsDirectory = {"configuration"}
    Pids = {1, 2}
    MaxSaves = 3
    MaxDeaths = 2
    MaxFailures = 1
    MaxLosses = 1
INVARIANTS
    LeftoverBlocksOnce
PROPERTIES
    ReplacedAtomically
