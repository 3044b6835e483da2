SPECIFICATION Spec

CONSTANTS
    h1 = h1
    h2 = h2
    e1 = e1
    e2 = e2
    Handlers <- OneHandler
    Ops <- TwoOps
    MAX_RETAINED_EDIT_JOBS = 1
    MAX_ACTIVE_EDITS = 2
    MAX_HISTORY_SNAPSHOTS = 3
    Faults <- CrashFaults
    MaxJobs = 2
    MaxGraphs = 2
    MaxVersion = 3
    MaxRestarts = 1

SYMMETRY OpSymmetry

\* The system stops when every request is answered and the bounds are used up.
CHECK_DEADLOCK FALSE

INVARIANTS
    TypeOK
    NoLostUpdate
    VersionIdentifiesGraph
    NothingShownIsLost
    AtMostOnce
    CompletedJobIsDurable

PROPERTIES
    KeepsLedger
