SPECIFICATION Spec
CONSTANTS
    a = a
    b = b
    Clients = {c}
    Tracks <- MCTracks
    Library <- MCLibrary
    Failures = TRUE
    MaxIndex = 1
    MaxCalls = 4
INVARIANT NoTrackMeansNone
CHECK_DEADLOCK FALSE
