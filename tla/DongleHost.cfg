\* Two slaves, a table of two rows, so that a device could be in it twice.
CONSTANTS
    Device = {d1, d2}
    None = None
    Absent = Absent
    MaxSlaves = 2
SPECIFICATION FairSpec
INVARIANTS
    TypeOK
    ResponseBufferLive
    HandlersOfSavedDevice
    UpdateForItsSlave
PROPERTIES
    UnpairedStaysAway
    BusyEnds
