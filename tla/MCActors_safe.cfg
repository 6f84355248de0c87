SPECIFICATION ActorsSpec
CONSTANTS
    \* updates
    u1 = u1  u2 = u2
    UIs = {u1, u2}
    MaxRelease = 2
    MaxUpdates = 2
    MaxConnections = 2
    AskerMayVanish = FALSE
    \* lifecycle events of plugins
    PluginWorlds = {w1}
    NoWorld = noworld
    Handlers = {h1}
    MaxActivity = 2
    MaxChanges = 2
    MaxActivations = 1
    \* registrations of plugins
    Enabled <- MCEnabled
    Speaker = "speaker_effects"
    Discovered = {"speaker_effects", "p"}
    RegistrationNames = {n1, n2}
    MaxCalls = 2
    MaxRules = 2
    \* agents
    PerMinute = 2
    Minute = 2
    Cooldown = 1
    MaxTime = 3
    MaxGenerations = 2
    MaxPauses = 1
    MaxHeard = 3
    \* display
    MaxRows = 5
    Lengths = {1, 3, 4}
    Widths = {1, 2}
    Heights = {2, 3}
    Overlap = 1
    MaxOutput = 4
    MaxMoves = 3
    \* text of a world
    FrameLimit = 2
    Supported = {"naws"}
    Unsupported = {"mccp"}
    MaxItems = 3
    \* the page of a browser
    SnapshotLimit = 2
    FitLimit = 1
    QueueLimit = 1
    MaxLog = 3
    MaxWorldGenerations = 2
    MaxConnects = 2
    MaxEvicted = 2
    \* transfers
    TransferLines = 3
    MaxTransfers = 2
    MaxTyped = 1
    MaxWorldChanges = 2
    MaxGatewayLosses = 1
SYMMETRY UiSymmetry
INVARIANTS
    HandlersUpToDate RegistrySound TurnsSound  LinesSound TranscriptHasNoHole
    
PROPERTIES ActivatedTogether
CHECK_DEADLOCK FALSE
