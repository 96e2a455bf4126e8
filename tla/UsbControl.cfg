\* Packets of two bytes.  A descriptor of four ends on a packet, and is asked for
\* with its length and with more; one of five is asked for with less and more.
CONSTANTS
    DeviceDesc = {4}
    IntfDesc = {5}
    Packet = 2
    Lengths = {4, 6}
    Short = {"proto"}
    Long = {"mic", "command"}
    WriteOnly = {"command"}
    Fixed = {frequency}
    Value = {v0, v1}
    Default = v0
    Boot = v1
    Junk = Junk
SPECIFICATION FairSpec
INVARIANTS
    TypeOK
    AnswerAsAsked
PROPERTY TransferEnds
