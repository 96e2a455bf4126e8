\* The receive fifo of the code, two transmit slots, pointers that wrap at 4.
CONSTANTS
    RxNum = 2
    TxNum = 2
    PtrMod = 4
    Window = 2
    SeqMod = 4
    Event = Event
    None = None
    Partial = Partial
SPECIFICATION FairSpec
INVARIANTS
    TypeOK
    SuspendLosesNothing
    McuAwakeForData
PROPERTIES
    HandledInOrder
    CommandsHandled
    SleepsWhenIdle
