CONSTANTS
    t1 = t1
    t2 = t2
    t3 = t3
    cam1 = cam1
    cam2 = cam2
    NoToken = NoToken
    Tokens = {t1, t2}
    Cameras = {cam1, cam2}
    RestartDelay = 1
    MaxRestartDelay = 2
    HealthyAfter = 1
SPECIFICATION FairSpec
CHECK_DEADLOCK FALSE
INVARIANTS UsedTokenIsSaved
PROPERTIES RestartsBackOff ShutdownEnds
