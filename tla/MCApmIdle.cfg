CONSTANTS
    W = 3
    IDLE_CALC_LIMIT = 5
    IDLE_LEAKY_MAX = 2
    idle_period = 2
    idle_threshold = 50
SPECIFICATION Spec
INVARIANT TypeOK ClockRestored LeakyBound
