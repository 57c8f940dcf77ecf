CONSTANTS
    cam1 = cam1
    m1 = m1
    m2 = m2
    v1 = v1
    outside = outside
    Cameras = {cam1}
    Linger <- MCLinger
    MaxDuration = 2
    MaxLag = 1
    Lossy = {cam1}
    Recorded = {cam1}
    Restarts = TRUE
    Messages = {m1, m2}
    Device <- MCDevice
    Kinds <- MCKinds
    Known = {"Motion", "Person"}
    Devices = {cam1}
    MaxMessages = 2
    Viewers = {v1}
    Publishers = {"subscriber", "sweeper"}
    Places = 1
    Scenarios <- MCScenarios
SPECIFICATION PathFairSpec
INVARIANTS SettlesWithoutRace NoDetectionLost NoSendOnClosed ViewersInformed
PROPERTIES HeldForLinger EveryWindowEnds EveryMessageLeaves
