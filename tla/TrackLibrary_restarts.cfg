SPECIFICATION FairSpec
CONSTANTS
    a = a
    b = b
    c = c
    Tracks <- MCTracks
    NoTrack = NoTrack
    Uploads = {c}
    FLAC = "flac"
    Extensions = {"flac", "wav"}
    Libraries <- MCLibraries
    MaxFds = 2
    MaxIndex = 4
    MaxRuns = 2
INVARIANTS UploadIsServedWhole ListedIsDownloadable
PROPERTIES LostToUploadsOnly IndexingFinishes
CHECK_DEADLOCK FALSE
