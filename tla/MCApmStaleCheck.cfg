CONSTANTS
    Clients = {c1, c2}
    Privileged = {c1, c2}
    Readers = {c1, c2}
    Kapmd = kapmd
    APM_MAX_EVENTS <- MCMaxEvents
    BiosEvents <- MCBiosEvents
    MaxBiosEvents = 2
    MaxIoctls = 1
SYMMETRY Perms
SPECIFICATION Spec
PROPERTY SuspendOnlyWhenAcked
