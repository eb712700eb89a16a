SPECIFICATION Spec
CONSTANTS
    a = a
    b = b
    Clients = {c1, c2}
    Tracks <- MCTracks
    Library <- MCLibrary
    Failures = FALSE
    MaxIndex = 2
    MaxCalls = 4
INVARIANTS AnswersOwnRequest OneAnswerQueued ListShowsOwnUploads DownloadsWhatItSaw
CHECK_DEADLOCK FALSE
