\* Two slaves and the table of one row the code has.
CONSTANTS
    Device = {d1, d2}
    None = None
    Absent = Absent
    MaxSlaves = 1
SPECIFICATION Spec
INVARIANTS
    NewDeviceDiscovered
