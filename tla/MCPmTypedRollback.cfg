CONSTANTS
    d1 = d1  d2 = d2  d3 = d3
    cbA = cbA  cbB = cbB  t1 = t1  t2 = t2
    Devices = {d1, d2, d3}
    Callers = {kapmd, user}
    Callbacks = {cbA, cbB}
    NoCallback = NoCallback
    Unlocked = Unlocked
    PM_UNKNOWN_DEV = PM_UNKNOWN_DEV
    Types = {t1, t2}
    PM_SUSPEND = PM_SUSPEND  PM_RESUME = PM_RESUME  PM_OTHER = PM_OTHER
    Callback <- MCCallback
    DevType <- MCDevType
    PowerStates <- MCPowerStates
    Selections <- MCTypedSelections
SPECIFICATION Spec
PROPERTY RollbackRestores
