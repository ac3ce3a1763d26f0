SPECIFICATION PartsSpec
CONSTANTS
    Entrypoints = {"door", "gate"}
    Dialogs = {d1, d2}
    Streams = {m1, m2}
    None = None
    RevisionLimit = 2
    RingFrames <- PartsRingFrames
    EntrypointAt <- PartsEntrypointAt
    MapperDoorbell = None
    DuplicateWindow = 1
    StopBurstBeforeRing = 2
    StaleStopWindow = 3
    BurstGap = 1
    BurstTail = 3
    Streaming = {"door"}
    MaxGeneration = 4
    MaxPending = 2
    Requests = {r1, r2}
    BusCalls = {view, ring}
    NoBusCall = NoBusCall
    Hangups = {h1, h2}
    MaxChannels = 3
    Commanders = {k1}
    Budget = 3
    AccountRequests = {q1, q2}
    ConfigEntrypoints = {e1, e2}
    MainUnit = e1
    MaxOwners = 2
    MaxTokens = 2
    MaxDoubts = 1
    Watchers = {w1, w2}
    MaxPackets = 4
    CacheLimit = 3
    KeyPackets = 2
    SessionIds = {"s1"}
    MaxOffers = 2
    MaxCandidates = 1
    Sessions = {s1, s2}
    RtspEntrypoints = {door, gate}
    MaxLeases = 3
    MaxCaptures = 2
    MaxDecoders = 2
    ClipEntrypoints = {door}
    MaxClips = 2
    AccessUnits <- PartsUnits
    NoSps = "none"
    PacketBuffer = 1
    ClipMaxTicks = 3
    ClipMinTicks = 1
    DefaultTicks = 1
    ClipMaxBytes = 3
    TimestampWrap = 8
    RestartLimit = 3
    MaxCameraSessions = 2
    MaxUnlocks = 3
    Appliers = {a1, a2}
    Viewers = {v1}
    MaxRevisions = 3
    Signallers = {g1, g2}
    CardIds = {c1, c2}
    NoCard = NoCard
SYMMETRY PartsSymmetry
INVARIANTS
    PartsTypes
    OneCall
    NothingForgotten
    NextStreamReachesWaiters
    PressFitsBudget
    AckedSurvives
    WholePicture
    LeaseFollowsItsSession
    NoCandidateStranded
    StreamHasReader
    FileEndsNewest
    SavedClipPlays
    EveryPipelineOwned
    CameraLeaseReleased
    LockFollowsLastUnlock
    NewestStateReached
    SessionHasSocket
PROPERTIES
    NoPhantomRing
    AnnouncedRingStays
    OwnerKept
CHECK_DEADLOCK FALSE
