CONSTANTS
    Session = "s1"
    Tools = {"apply_change", "simulate"}
    Offered <- MCOffered
    DefaultTier = 1
    AllowWriteTools = TRUE
    MaxGrantQuestions = 2
    MaxGrantAge = 2
    MaxTime = 2
    MaxTrail = 3
    Threads = {t1, t2}
    ThreadGrants <- MCThreadGrants
    ThreadTool = "config"
    MaxThreadTime = 2
    MaxRequests = 3
    ToolSpecs <- MCToolSpecs
    Selections <- MCSelections
    MetricFiles <- MCMetricFiles
    MaxRetries <- MCMaxRetries
    Adapters <- MCAdapters
    LoopbackHosts = {"localhost"}
    MaxCalls = 2
    EPC_LENGTH = 2
    HexDigits = {0, 1}
    Reader <- MCReader
    AirReads <- MCAirReads
    PortalTicks = 3
    MaxReads = 3
    ABSOLUTE_ZERO_C <- MCABSOLUTE_ZERO_C
    Band <- MCBand
    EwmaAlpha <- MCEwmaAlpha
    RawReadings <- MCRawReadings
    MaxReadings = 4
    Clients = {c1, c2}
    Identities = {"x", "y"}
    Topics <- MCTopics
    Filters <- MCFilters
    WillTopic <- MCWillTopic
    MaxSubs = 2
    MaxFrames = 2
    MaxSessions = 2
    CallerFilters <- MCCallerFilters
    MessageTopics <- MCMessageTopics
    MaxSubscriptions = 2
    MaxReconnects = 3
    MaxMessages = 2
    StreamNames <- MCStreamNames
    Slugs = {"a", "b"}
    BadIds = {"a.b"}
    STREAM_COUNT_CEILING = 2
    Word = 2
    BaseSeed = 3
    ReplicationIndex = 1
    HookNames = {"h"}
    BadHookNames = {"H"}
    MaxHandouts = 3
    TickResolution = {2, 4}
    TickHz = 2
    NanosPerSecond = 4
    Speeds <- MCSpeeds
    MIN_SPEED <- MCMIN_SPEED
    MAX_SPEED <- MCMAX_SPEED
    MaxInstant = 3
    MaxWall = 8
    MaxEmitted = 2
    StationLists <- MCStationLists
    StationIds = {"u", "d"}
    Epoch = 7
    MaxArrivals = 2
    FormOf <- MCFormOf
    NameRank <- MCNameRank
    ParameterLists <- MCParameterLists
    EquipmentIds = {"dock", "temp"}
    LineIds = {"dock", "any"}
    AreaIds = {"acme", "dock"}
    Enterprises = {"acme", "A"}
    MaxDeclared = 2
    ZoneNames = {"z1", "z2"}
    StationNames = {"s1", "s2"}
    MetricIds = {"m1", "m2"}
    MaxEdits = 3
    PropertyNames = {"a", "b"}
    PropertyForms <- MCPropertyForms
    Values = {0, 1, 2, 3}
    MaxVersions = 3
    Recordings <- MCRecordings
    MaxWrites = 3
    Phases <- MCPhases
    TierOf <- MCTierOf
    Roadmaps <- MCRoadmaps
    SyncConfigs <- MCSyncConfigs
    ApplyContexts = {"release-workflow", "nightly"}
    Runners = {"r1", "r2"}
    ListLimit = 2
    MaxSyncs = 2
    MaxTrackerEdits = 1
    MaxFailures = 1
    PHASE_IDS = {"P0", "P1"}
    PhaseForms <- MCPhaseForms
    PackageForms <- MCPackageForms
    Requirements = {"C1"}
    Quotes = {"q1", "q2"}
    MaxRevisions = 4
SPECIFICATION PartsSpec
CHECK_DEADLOCK FALSE
INVARIANTS
    AuditTellsGrant
    ElevationIsCovered
    ToolsAreGoverned
    SensorsTellTheReadings
    NetworksDeliver
    RunsRepeat
    ConfigurationResolves
    ArchiveReadsBack
    RoadmapIsProjected
