SPECIFICATION Spec
INVARIANT NoCodeAfterUnload
CHECK_DEADLOCK FALSE
