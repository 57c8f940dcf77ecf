CONSTANTS
    cam1 = cam1
    Cameras = {cam1}
    LingerTicks = 2
    Linger <- MCLinger
    MaxDuration = 3
    MaxLag = 1
    Lossy = {cam1}
    Recorded = {cam1}
    Restarts = FALSE
SPECIFICATION Spec
INVARIANTS SettlesOnCurrentLevel
