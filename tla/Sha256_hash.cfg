SPECIFICATION FairSpec
CONSTANTS
    Garbage = Garbage
    Messages <- MCMessages
    Sizes = {0, 3, 52, 54, 55, 56, 59, 60, 63, 64, 65, 68, 119, 120, 128}
INVARIANTS TypeOK SizeHasItsPlace BlocksArePadded HashesAsDocumented
PROPERTIES ImplementsStandard Returns
CHECK_DEADLOCK FALSE
