CONSTANTS
    t1 = t1
    t2 = t2
    t3 = t3
    cam1 = cam1
    cam2 = cam2
    NoToken = NoToken
    Tokens = {t1, t2, t3}
    Cameras = {cam1}
    RestartDelay = 1
    MaxRestartDelay = 2
    HealthyAfter = 2
SPECIFICATION Spec
CHECK_DEADLOCK FALSE
INVARIANTS CancelledRunStopsRemote
