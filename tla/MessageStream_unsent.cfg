SPECIFICATION Spec
CONSTANTS
    list = list
    reply = reply
    track = track
    silence = silence
    Garbage = Garbage
    Messages <- MCPairMessages
    BodySize <- MCPairSizes
    Bare = {}
    Pipelined = TRUE
    GarbageSizes = {0}
INVARIANT LeavesQueueOnlyWritten
CHECK_DEADLOCK FALSE
