SPECIFICATION FairSpec
CONSTANTS
    list = list
    reply = reply
    track = track
    silence = silence
    Garbage = Garbage
    Messages <- MCShortMessages
    BodySize <- MCShortSizes
    Bare <- MCBare
    Pipelined = TRUE
    GarbageSizes = {0, 2}
INVARIANTS OneWriteAtATime WrittenBufferIsQueued
PROPERTIES BurstOpenerIsWritten QueueDrains
CHECK_DEADLOCK FALSE
