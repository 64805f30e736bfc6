SPECIFICATION Spec
CONSTANTS
    Hosts = {h1, h2}
    MaxRollbacks = 1
    MaxDeaths = 1
    MaxRequests = 1
SYMMETRY Symmetry
INVARIANTS
    ServingSchemaComplete
    SettlementsKept
    DrainedBeforeClosing
CHECK_DEADLOCK FALSE
