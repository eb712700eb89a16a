SPECIFICATION Spec
CONSTANTS
    Base = 3
    Width = 2
    HeaderBytes = 12
    IntLimit = 100
    Tracks <- MCTracks
    Library <- MCLibrary
    Indices <- MCIndices
    Paths <- MCPaths
    Uploads <- MCUploads
    MaxListed = 5
INVARIANTS
    AssertionsHold
    DecodesListReversed
    ServesWhatWasAsked
    InstallsTerminated
    AnnouncesItsBody
CHECK_DEADLOCK FALSE
