CONSTANTS
    Clients = {c1}
    Privileged = {c1}
    Readers = {c1}
    Kapmd = kapmd
    APM_MAX_EVENTS <- MCMaxEvents
    BiosEvents <- MCBiosEvents
    MaxBiosEvents = 1
    MaxIoctls = 1
    d1 = d1  d2 = d2  cbA = cbA  cbB = cbB  t1 = t1
    Devices = {d1, d2}
    Callbacks = {cbA, cbB}
    NoCallback = NoCallback
    Unlocked = Unlocked
    PM_UNKNOWN_DEV = PM_UNKNOWN_DEV
    Types = {t1}
    PM_SUSPEND = PM_SUSPEND  PM_RESUME = PM_RESUME  PM_OTHER = PM_OTHER
    Callback <- MCCallback
    DevType <- MCDevType
SPECIFICATION FairSpec
INVARIANT AwakeAfterSuspend
PROPERTY SleepsWithDevicesSettled CallsReturn
