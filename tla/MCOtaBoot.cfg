\* Sectors of two pages, three sectors for each image, three faults.
CONSTANTS
    v1 = v1
    v2 = v2
    big = big
    Firmware <- MCFirmware
    First = v1
    Size <- MCSize
    Area = 6
    SectorPages = 2
    StartPages = 1
    Blank = Blank
    Mixed = Mixed
    MaxFaults = 3
SPECIFICATION FairSpec
INVARIANTS
    TypeOK
    WholeImageRuns
    UnstartableOnlyAtTheEnd
PROPERTIES
    UpdateCompletes
\* A chip that hangs or cannot start does stop.
CHECK_DEADLOCK FALSE
