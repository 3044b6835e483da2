SPECIFICATION Spec
CONSTANTS
    Sessions = {1, 2, 3}
    Passes = {"worker", "viewer"}
    Worker = "worker"
    Viewer = "viewer"
    RUNNING_SESSION_LEASE = 1
    MAXIMUM_AGE = 2
    MAXIMUM_COUNT = 2
    MAXIMUM_BYTES = 3
    PASS_TIME = 1
    LAST_TIME = 3
    FirstRecords <- MCFirstRecords
    Requirements <- MCRequirements
    Requests <- MCRequests
    MAX_MUTATIONS_WITHOUT_FEEDBACK = 2
    TOOL_GROUPS = {"arrangement"}
    EDIT_TIMEOUT = 1
    RETRIES = 1
    SLACK = 0
    MUTATIONS = 3
    EDITS = 1
    VIEWS = 1
    CRASHES = 1
INVARIANTS
    ListenedBeforeCompletion
    FeedbackInTime
    LiveSessionKeepsItsRecord
PROPERTIES
    PlannerEnds
    PassClosesTheAbandoned
    AudioGoesFirst
CHECK_DEADLOCK FALSE
