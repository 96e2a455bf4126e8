\* Twelve pointer values (three turns of the rings), frames of one packet and a
\* half, so that both alignments and the wrap of the read pointer occur.
CONSTANTS
    Slots = 4
    Ptr = 12
    Frame = 3
    Reset = 2
    Backlog = 5
SPECIFICATION FairAudioSpec
INVARIANT AudioTypeOK
PROPERTIES
    SendsWhatIsDue
    Recovers
