\* Three keys on two lines; contacts bounce for at most three calls.
CONSTANTS
    k1 = k1
    k2 = k2
    k3 = k3
    Keys = {k1, k2, k3}
    Line <- TwoLines
    Bounce = 3
    Hold = 5
    Rest = 6
SPECIFICATION FairScanSpec
INVARIANT ScanTypeOK
PROPERTIES
    NoChatter
    KeysAreReported
