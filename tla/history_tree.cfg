SPECIFICATION Spec

CONSTANTS
    a = a
    q = q
    Character <- Characters
    Escaped <- Quotes
    FirstSource <- NewProject
    Sources <- Graphs
    MAX_HISTORY_SNAPSHOTS = 4
    MAX_PROJECT_BYTES = 6
    MAX_PROJECT_DOCUMENT_BYTES = 53
    MAX_VERSION_BYTES = 4
    RADIX = 2
    MaxVersion = 7
    MaxOperations = 1

INVARIANTS
    MaximumIsExact
    EverySnapshotCanBeVisited

PROPERTIES
    KeepsLedger
