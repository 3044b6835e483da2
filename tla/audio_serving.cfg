SPECIFICATION FairServing

CONSTANTS
    e1 = e1
    p1 = p1
    t1 = t1
    u1 = u1
    u2 = u2
    Callers <- EditAndStreams
    Streams <- PlaybackAndSpectrum
    Background <- Spectrum
    Users <- TwoUsers
    Cookies <- OneVisitor
    MAX_CACHED_USERS = 1
    MAX_PERSISTED_USERS = 2
    MAX_ACTIVE_HTTP_CONNECTIONS = 2
    MAX_ACTIVE_HTTP_STREAMS = 1
    ChannelCapacity = 1
    Chunks = 1

INVARIANTS
    CountsExact
    NoMissedWakeup
    PermitsFollowBodies
    OneOwner

PROPERTIES
    KeepsQueue
    NobodyIsForgotten
    StreamWorkerEnds
    ServerStops
