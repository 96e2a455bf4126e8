\* Two packets of firmware, two sent ahead in a queue of three.
CONSTANTS
    Size <- MCSize
    MaxSize = 3
    TxMax = 2
    Queue = 3
SPECIFICATION FairSpec
INVARIANTS
    TypeOK
    HandleOfThisSlave
PROPERTIES
    SuccessMeansReceived
    OtaEnds
