CONSTANTS
    h1 = h1
    h2 = h2
    p1 = p1
    p2 = p2
    s1 = s1
    s2 = s2
    Projects = {p1, p2}
    NoProject = NoProject
    Subs = {s1, s2}
    NoSub = NoSub
    Hosts = {h1, h2}
    NoHost = NoHost
    Detected = {h1, NoHost}
    Keys = {k1, k2}
    Braces = Braces
    NoKey = NoKey
    Absent = Absent
    Empty = Empty
    Placeholder = Placeholder
    Loopback = Loopback
    NoTokens = NoTokens
    Requests = {r1, r2}
    Callbacks = {c1, c2, c3}
    MaxAuths = 2
    MaxCalls = 4
    MaxMAC = 2
    Slug <- MCSlug
    GoogleInputs <- MCGoogleInputs
    CameraLists <- MCCameraLists
    Scenarios <- MCScenarios
CHECK_DEADLOCK FALSE
SPECIFICATION FairSpec
INVARIANTS TypeOK NothingUnsaved StreamsResolve KeyInstalled FailsForCause
PROPERTIES RestartKeeps CallbackAnswered
