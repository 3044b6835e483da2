SPECIFICATION Spec

CONSTANTS
    h1 = h1
    h2 = h2
    e1 = e1
    e2 = e2
    Handlers <- TwoHandlers
    Ops <- TwoOps
    MAX_RETAINED_EDIT_JOBS = 1
    MAX_ACTIVE_EDITS = 2
    MAX_HISTORY_SNAPSHOTS = 2
    Faults <- ThreadFaults
    MaxJobs = 3
    MaxGraphs = 1
    MaxVersion = 2
    MaxRestarts = 0

SYMMETRY Symmetry

\* The system stops when every request is answered and the bounds are used up.
CHECK_DEADLOCK FALSE

INVARIANTS
    JobOutlivesWorker
    PermitsBalance
    RunningHasWorker
