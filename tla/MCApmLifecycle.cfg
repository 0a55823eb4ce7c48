SPECIFICATION Spec
PROPERTY UnloadCompletesIfApmStarts
CHECK_DEADLOCK FALSE
