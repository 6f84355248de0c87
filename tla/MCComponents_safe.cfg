SPECIFICATION ComponentsSpec
CONSTANTS
    a = a  b = b
    d1 = d1  d2 = d2  s1 = s1  s2 = s2
    \* web Gateway
    Devices = {d1, d2}
    Codes = {c1}
    NoDevice = nd
    MaxSaveFailures = 1
    Sockets = {s1, s2}
    NoSocket = ns
    MaxClients = 2
    MaxPerDevice = 2
    PipelinedCancel = FALSE
    \* records of UIs
    UiIds = {u1, u2}
    Names = {n1, n2, n3}
    DefaultName = n1
    NoName = nn
    Imported = {q1}
    NoProfile = noprofile
    Starters = {x1, x2}
    MaxUiFailures = 1
    \* installations
    Installers = {i1, i2}
    Releases <- MCReleases
    NoRelease = norelease
    NoInstaller = noinstaller
    MaxInstallFaults = 1
    \* plugin sources
    Processes = {p1, p2}
    PluginVersions = {1, 2, 3}
    Compatible = {1, 2}
    NoVersion = 0
    NoProcess = noprocess
    MaxPluginFaults = 1
    \* update checks
    Hosts = {h1, h2}
    Manifests = {m1, m2, m3}
    Invalid = {m3}
    NoManifest = nomanifest
    MaxUpdateFaults = 1
    \* command line and setup assistant
    MaxOptions = 2
    MaxRuns = 2
    MaxEdits = 2
SYMMETRY ComponentSymmetry
INVARIANTS
    DevicesSound  UiRecordsSound   EtagNamesManifest
     EditsSurvive
PROPERTIES VersionsOnlyGrow
CHECK_DEADLOCK FALSE
