CONSTANTS
    ren1 = ren1
    con1 = con1
    con2 = con2
    cam1 = cam1
    cam2 = cam2
    Callers = {ren1, con1}
    Devices = {cam1}
    DeviceOf <- MCDeviceOf
    PriorityOf <- MCPriorityOf
    GlobalQPM = 3
    DeviceQPH = 4
    Minute = 2
    Hour = 3
    RecoveryInterval = 2
    Horizon = 3
    MaxCalls = 3
SPECIFICATION FairSpec
INVARIANTS BackoffHolds
PROPERTIES EveryCallReturns
