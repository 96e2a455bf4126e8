\* Two bonds at most, a sector of six cells cleaned from its fourth cell on.
CONSTANTS
    Addr = {a1, a2}
    Garbled = Garbled
    Blank = Blank
    Dead = Dead
    MaxSlaves = 2
    SectorCells = 6
    CleanCells = 3
    FlashCells = 6
SPECIFICATION Spec
INVARIANTS
    TypeOK
    NeverOverfull
    TableMatchesFlash
PROPERTIES
    PowerCycleKeepsBonds
    StoreSpec
