SPECIFICATION FairSpec
CONSTANTS
    list = list
    reply = reply
    track = track
    silence = silence
    Garbage = Garbage
    Messages <- MCMessages
    BodySize <- MCSizes
    Bare <- MCBare
    Pipelined = FALSE
    GarbageSizes = {0, 1, 2}
INVARIANT TypeOK
PROPERTIES StreamImplementsFifo SentArrives
CHECK_DEADLOCK FALSE
