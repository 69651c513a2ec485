SPECIFICATION Spec
CONSTANTS
    MaxSockets = 3
    ClientRequests = {rc}
    ServerRequests = {rs}
    MaxCalls = 1
    Waiters = {w}
    MaxDelay = 1
INVARIANTS TypeOK OneConnection ConnectedMeansRegistered NoSleeper AgreeWhenSettled LostWithSocket
PROPERTIES Reconnects EventuallyReady
CHECK_DEADLOCK FALSE
