\* As BondTable.cfg, with cells behind the sector for the index to run into.
CONSTANTS
    Addr = {a1}
    Garbled = Garbled
    Blank = Blank
    Dead = Dead
    MaxSlaves = 1
    SectorCells = 4
    CleanCells = 2
    FlashCells = 6
SPECIFICATION Spec
INVARIANTS
    IndexStaysInSector
