CONSTANTS
    cam1 = cam1
    Cameras = {cam1}
    Linger <- MCLinger
    MaxDuration = 1
    MaxLag = 0
    Lossy = {cam1}
    Restarts = TRUE
    Recorded = {cam1}
    Watched = cam1
    Topics <- MCTopics
    PullLimit = 3
    Lifetime = 1
    MaxSubs = 2
    Limits <- MCLimits
    MaxQueue = 6
SPECIFICATION RecorderSpec
INVARIANTS RecordersInformed LastWord EdgesAlternate
PROPERTIES LiveSubscriberKept
