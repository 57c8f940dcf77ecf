CONSTANTS
    ren1 = ren1
    con1 = con1
    con2 = con2
    cam1 = cam1
    cam2 = cam2
    Callers = {ren1, con1, con2}
    Devices = {cam1, cam2}
    DeviceOf <- MCDeviceOf
    PriorityOf <- MCPriorityOf
    GlobalQPM = 1
    DeviceQPH = 1
    Minute = 2
    Hour = 3
    RecoveryInterval = 2
    Horizon = 2
    MaxCalls = 3
SPECIFICATION Spec
INVARIANTS TypeOK SlotKept WireQuota QuotaKept
PROPERTIES QueueOrder ImplementsGate
