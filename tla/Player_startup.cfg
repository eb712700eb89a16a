SPECIFICATION FairSpec
CONSTANTS
    Names <- MCNames
    Upper <- MCUpper
    Lower <- MCLower
    AllButLast <- MCAllButLast
    Libraries <- MCLibraries
    MaxClicks = 2
INVARIANTS ShowsTitlesOnce ReadersAgree
PROPERTY StartupEnds
CHECK_DEADLOCK FALSE
