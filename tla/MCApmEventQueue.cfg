CONSTANTS
    Events = {e1, e2}
    APM_MAX_EVENTS <- MCMaxEvents
SPECIFICATION Spec
INVARIANT TypeOK
PROPERTY FifoSpec
