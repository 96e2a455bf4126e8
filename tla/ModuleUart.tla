----------------------------- MODULE ModuleUart -----------------------------
(***************************************************************************)
(* The serial module (vendor/826x_module: main.c, spp.c, app.c, with       *)
(* my_fifo of proj/common/utility.c): an MCU sends commands over the UART, *)
(* the module answers them and reports events of the radio, and sleeps     *)
(* whenever the UART is idle.  Two pins tell each side that the other is   *)
(* busy: GPIO_WAKEUP_MODULE and GPIO_WAKEUP_MCU.                           *)
(*                                                                         *)
(* The main thread runs blt_sdk_main_loop (pc = "sdk"), which calls the    *)
(* handlers in an order of its own, and app_power_management ("pm" and     *)
(* "mask"), which looks at the UART twice.                                 *)
(* The receive interrupt and the DMA run at any point of it.  The MCU has  *)
(* at most Window commands it has no answer to.  Commands are numbers      *)
(* modulo SeqMod, everything else the module sends is an Event.            *)
(***************************************************************************)
EXTENDS Integers, FiniteSets

CONSTANTS
    RxNum, TxNum,  \* slots of hci_rx_fifo and hci_tx_fifo: 2 and 8
    PtrMod,        \* the pointers of a fifo are u8: 256
    Window,        \* commands the MCU sends ahead
    SeqMod,        \* numbers of commands
    Event,         \* a message that is no answer
    None, Partial  \* a slot nothing was received in, or half of a frame

ASSUME UartAssumption ==
    /\ {RxNum, TxNum, PtrMod, Window, SeqMod} \subseteq Nat \ {0}
    /\ PtrMod % RxNum = 0 /\ PtrMod % TxNum = 0
    /\ RxNum < PtrMod /\ TxNum < PtrMod
    /\ Window <= RxNum /\ Window < SeqMod
    /\ {Event, None, Partial} \cap Nat = {}

VARIABLES
    rx, tx,    \* hci_rx_fifo, hci_tx_fifo
    rcv,       \* the command the DMA is receiving, or None
    txBuf,     \* T_txdata_buf
    uart,      \* transmitter: "idle", "dma", or "tail" behind the interrupt
    pc,        \* main thread: "sdk", "handle", "send", "pm", "mask", "sleep"
    dataFlg,   \* module_uart_data_flg
    wakeTick,  \* module_wakeup_module_tick is set
    wakeMcu,   \* GPIO_WAKEUP_MCU: "low", "rising" (not yet 100 us), "high"
    pullUp,    \* the pull-up of GPIO_WAKEUP_MODULE
    mask,      \* the suspend mask allows to suspend
    tick,      \* tick_wakeup: "none", "running", "over" (500 us)
    mcuPin,    \* the MCU holds GPIO_WAKEUP_MODULE high
    sent,      \* the next command of the MCU
    acked,     \* the command whose answer the MCU expects
    handled    \* history: the command bls_uart_handler has to get next

mcu == <<mcuPin, sent, acked>>
pins == <<dataFlg, wakeTick, wakeMcu>>
power == <<pullUp, mask, tick>>
vars == <<rx, tx, rcv, txBuf, uart, pc, pins, power, mcu, handled>>

Commands == 0..SeqMod - 1
Messages == Commands \cup {Event, None, Partial}
Later(n) == (n + 1) % SeqMod
Ahead(n, m) == (n - m) % SeqMod

----------------------------------------------------------------------------
\* my_fifo: free-running u8 pointers, masked to a slot.
Fifos(num) == [num : {num}, w : 0..PtrMod - 1, r : 0..PtrMod - 1,
               slot : [0..num - 1 -> Messages]]
EmptyFifo(num) == [num |-> num, w |-> 0, r |-> 0,
                   slot |-> [i \in 0..num - 1 |-> None]]

\* Mutant of Waiting: the pointers are compared by size.
WaitingBySize(f) == f.r < f.w

Waiting(f) == f.r # f.w
Full(f) == (f.w - f.r) % PtrMod >= f.num
WriteSlot(f) == f.w % f.num
MyFifoGet(f) == f.slot[f.r % f.num]
\* Mutant of MyFifoNext: a pointer wider than the u8 of the others.
MyFifoNextWide(f) == [f EXCEPT !.w = @ + 1]

MyFifoNext(f) == [f EXCEPT !.w = (@ + 1) % PtrMod]
MyFifoPop(f) == [f EXCEPT !.r = (@ + 1) % PtrMod]

\* The messages of a fifo.
Queued(f) == {f.slot[(f.r + i) % f.num] : i \in 0..((f.w - f.r) % PtrMod) - 1}

----------------------------------------------------------------------------
ModuleInit ==
    /\ rx = EmptyFifo(RxNum) /\ tx = EmptyFifo(TxNum)
    /\ rcv = None /\ txBuf = None /\ uart = "idle" /\ pc = "sdk"
    /\ dataFlg = FALSE /\ wakeTick = FALSE /\ wakeMcu = "low"
    /\ pullUp = FALSE /\ mask = FALSE /\ tick = "none"

Init ==
    /\ ModuleInit
    /\ mcuPin = FALSE /\ sent = 0 /\ acked = 0 /\ handled = 0

----------------------------------------------------------------------------
(***************************************************************************)
(* Main thread, spp.c.                                                     *)
(***************************************************************************)
\* Mutant of HciSendData: the pin is raised and no tick is taken.
HciSendDataNoTick(m) ==
    IF Full(tx)
      THEN UNCHANGED <<tx, pins>>
      ELSE /\ tx' = MyFifoNext([tx EXCEPT !.slot[WriteSlot(tx)] = m])
           /\ dataFlg' = TRUE
           /\ wakeMcu' = IF dataFlg THEN wakeMcu ELSE "rising"
           /\ UNCHANGED wakeTick

\* hci_send_data: a message is dropped when all slots wait; the first one of
\* a burst raises GPIO_WAKEUP_MCU.
HciSendData(m) ==
    IF Full(tx)
      THEN UNCHANGED <<tx, pins>>
      ELSE /\ tx' = MyFifoNext([tx EXCEPT !.slot[WriteSlot(tx)] = m])
           /\ dataFlg' = TRUE
           /\ wakeTick' = (dataFlg => wakeTick)
           /\ wakeMcu' = IF dataFlg THEN wakeMcu ELSE "rising"

\* rx_from_uart_cb: the oldest frame is looked at ...
RxFromUart ==
    /\ pc = "sdk" /\ Waiting(rx) /\ MyFifoGet(rx) # None
    /\ pc' = "handle"
    /\ UNCHANGED <<rx, tx, rcv, txBuf, uart, pins, power, mcu, handled>>

\* Mutant of UartHandler: the frame is not popped.
UartHandlerNoPop ==
    /\ pc = "handle"
    /\ HciSendData(MyFifoGet(rx))
    /\ handled' = Later(handled)
    /\ pc' = "sdk"
    /\ UNCHANGED <<rx, rcv, txBuf, uart, power, mcu>>

\* ... bls_uart_handler acts on it and answers, and its slot is given back.
UartHandler ==
    /\ pc = "handle"
    /\ HciSendData(MyFifoGet(rx))
    /\ handled' = Later(handled)
    /\ rx' = MyFifoPop(rx)
    /\ pc' = "sdk"
    /\ UNCHANGED <<rcv, txBuf, uart, power, mcu>>

\* SPP_CMD_RESTART_MOD: deep sleep and a new start, which the MCU waits for.
RestartModule ==
    /\ pc = "handle"
    /\ rx' = EmptyFifo(RxNum) /\ tx' = EmptyFifo(TxNum)
    /\ rcv' = None /\ txBuf' = None /\ uart' = "idle" /\ pc' = "sdk"
    /\ dataFlg' = FALSE /\ wakeTick' = FALSE /\ wakeMcu' = "low"
    /\ pullUp' = FALSE /\ mask' = FALSE /\ tick' = "none"
    /\ mcuPin' = FALSE /\ sent' = 0 /\ acked' = 0 /\ handled' = 0

\* tx_to_uart_cb: the oldest message is copied to the one buffer ...
TxToUart ==
    /\ pc = "sdk" /\ Waiting(tx) /\ uart = "idle"
    /\ txBuf' = MyFifoGet(tx)
    /\ pc' = "send"
    /\ UNCHANGED <<rx, tx, rcv, uart, pins, power, mcu, handled>>

\* ... and sent when the pin has been high for 100 us.
UartSend ==
    /\ pc = "send"
    /\ wakeTick => wakeMcu # "rising"
    /\ uart' = "dma"
    /\ tx' = MyFifoPop(tx)
    /\ pc' = "sdk"
    /\ UNCHANGED <<rx, rcv, txBuf, pins, power, mcu, handled>>

\* event_handler and module_onReceiveData: something for the MCU.
EventHandler ==
    /\ pc = "sdk"
    /\ HciSendData(Event)
    /\ UNCHANGED <<rx, rcv, txBuf, uart, pc, power, mcu, handled>>

----------------------------------------------------------------------------
(***************************************************************************)
(* Power management, app.c.                                                *)
(***************************************************************************)
UartWorking == Waiting(tx) \/ uart # "idle" \/ Waiting(rx)

\* Mutant of AppModuleBusy: only the fifos are looked at.
AppModuleBusyNoPin == UartWorking

\* The pin reads high by the MCU or by the module's own pull-up.
AppModuleBusy == mcuPin \/ pullUp \/ UartWorking

AppSuspendExit == pullUp' = TRUE /\ mask' = FALSE /\ tick' = "running"

\* The library is about to suspend and asks app_suspend_enter.
Suspend ==
    /\ pc = "sdk" /\ mask
    /\ IF AppModuleBusy
         THEN AppSuspendExit /\ UNCHANGED pc
         ELSE pc' = "sleep" /\ UNCHANGED power
    /\ UNCHANGED <<rx, tx, rcv, txBuf, uart, pins, mcu, handled>>

\* The pin or the next radio event ends the sleep: BLT_EV_FLAG_SUSPEND_EXIT.
WakeUp ==
    /\ pc = "sleep"
    /\ AppSuspendExit
    /\ pc' = "sdk"
    /\ UNCHANGED <<rx, tx, rcv, txBuf, uart, pins, mcu, handled>>

SdkDone ==
    /\ pc = "sdk"
    /\ pc' = "pm"
    /\ UNCHANGED <<rx, tx, rcv, txBuf, uart, pins, power, mcu, handled>>

\* app_power_management: GPIO_WAKEUP_MCU falls when all is sent.
LowerWakeupMcu ==
    /\ pc = "pm"
    /\ IF dataFlg /\ ~UartWorking
         THEN dataFlg' = FALSE /\ wakeTick' = FALSE /\ wakeMcu' = "low"
         ELSE UNCHANGED pins
    /\ pc' = "mask"
    /\ UNCHANGED <<rx, tx, rcv, txBuf, uart, power, mcu, handled>>

\* Mutant of AppPowerManagement: the pull-up stays.
AppPowerManagementKeepsPullUp ==
    /\ pc = "mask"
    /\ mask' = (mask \/ (~AppModuleBusy /\ tick = "none"))
    /\ tick' = IF tick = "over" THEN "none" ELSE tick
    /\ pc' = "sdk"
    /\ UNCHANGED <<pullUp, rx, tx, rcv, txBuf, uart, pins, mcu, handled>>

\* ... and sleep is allowed when nobody is busy, which is looked at anew, and
\* the last wake-up is over.
AppPowerManagement ==
    /\ pc = "mask"
    /\ mask' = (mask \/ (~AppModuleBusy /\ tick = "none"))
    /\ pullUp' = (pullUp /\ tick # "over")
    /\ tick' = IF tick = "over" THEN "none" ELSE tick
    /\ pc' = "sdk"
    /\ UNCHANGED <<rx, tx, rcv, txBuf, uart, pins, mcu, handled>>

----------------------------------------------------------------------------
(***************************************************************************)
(* Interrupts and time.                                                    *)
(***************************************************************************)
\* The frame is complete: irq_handler moves the DMA on if its slot has data,
\* without a look at the read pointer.
RxIrq ==
    /\ rcv # None
    /\ rx' = MyFifoNext([rx EXCEPT !.slot[WriteSlot(rx)] = rcv])
    /\ rcv' = None
    /\ UNCHANGED <<tx, txBuf, uart, pc, pins, power, mcu, handled>>

\* The DMA has read the buffer; the UART is still busy (uart_tx_done_delay_us).
TxIrq ==
    /\ uart = "dma"
    /\ uart' = "tail"
    /\ UNCHANGED <<rx, tx, rcv, txBuf, pc, pins, power, mcu, handled>>

\* The last bit is out: the MCU has the message.
TxDone ==
    /\ uart = "tail"
    /\ uart' = "idle"
    /\ acked' = IF txBuf \in Commands THEN Later(txBuf) ELSE acked
    /\ UNCHANGED <<rx, tx, rcv, txBuf, pc, pins, power, mcuPin, sent, handled>>

WakeTime ==
    /\ wakeMcu = "rising"
    /\ wakeMcu' = "high"
    /\ UNCHANGED <<rx, tx, rcv, txBuf, uart, pc, dataFlg, wakeTick, power, mcu, handled>>

TickOver ==
    /\ tick = "running"
    /\ tick' = "over"
    /\ UNCHANGED <<rx, tx, rcv, txBuf, uart, pc, pins, pullUp, mask, mcu, handled>>

----------------------------------------------------------------------------
(***************************************************************************)
(* The MCU.                                                                *)
(***************************************************************************)
RaisePin ==
    /\ ~mcuPin
    /\ mcuPin' = TRUE
    /\ UNCHANGED <<rx, tx, rcv, txBuf, uart, pc, pins, power, sent, acked, handled>>

\* The pin stays high until the frame has arrived.
LowerPin ==
    /\ mcuPin /\ rcv = None
    /\ mcuPin' = FALSE
    /\ UNCHANGED <<rx, tx, rcv, txBuf, uart, pc, pins, power, sent, acked, handled>>

\* A command begins to arrive in the slot the DMA points to.
SendCommand ==
    /\ mcuPin /\ pc # "sleep" /\ rcv = None
    /\ Ahead(sent, acked) < Window
    /\ rcv' = sent
    /\ sent' = Later(sent)
    /\ rx' = [rx EXCEPT !.slot[WriteSlot(rx)] = Partial]
    /\ UNCHANGED <<tx, txBuf, uart, pc, pins, power, mcuPin, acked, handled>>

\* A command is on its way until it is handled, its answer until it is out.
OnTheWay(n) ==
    \/ rcv = n \/ n \in Queued(rx) \/ n \in Queued(tx)
    \/ uart # "idle" /\ txBuf = n

\* The answer was dropped: the MCU gives up waiting for it.
GiveUpAnswer ==
    /\ sent # acked /\ ~OnTheWay(acked)
    /\ acked' = Later(acked)
    /\ UNCHANGED <<rx, tx, rcv, txBuf, uart, pc, pins, power, mcuPin, sent, handled>>

----------------------------------------------------------------------------
Main ==
    \/ RxFromUart \/ UartHandler \/ RestartModule \/ TxToUart \/ UartSend
    \/ EventHandler \/ Suspend \/ WakeUp \/ SdkDone
    \/ LowerWakeupMcu \/ AppPowerManagement
Interrupts == RxIrq \/ TxIrq \/ TxDone \/ WakeTime \/ TickOver
Mcu == RaisePin \/ LowerPin \/ SendCommand \/ GiveUpAnswer
Next == Main \/ Interrupts \/ Mcu

Spec == Init /\ [][Next]_vars

\* The loop runs, time passes, and blt_sdk_main_loop calls both handlers and
\* tries to suspend in each of its passes; commands other than the restart are
\* answered.
FairSpec ==
    /\ Spec
    /\ SF_vars(RxFromUart) /\ WF_vars(UartHandler)
    /\ SF_vars(TxToUart) /\ WF_vars(UartSend)
    /\ SF_vars(Suspend) /\ WF_vars(WakeUp)
    /\ WF_vars(SdkDone) /\ WF_vars(LowerWakeupMcu) /\ WF_vars(AppPowerManagement)
    /\ WF_vars(RxIrq) /\ WF_vars(TxIrq) /\ WF_vars(TxDone)
    /\ WF_vars(WakeTime) /\ WF_vars(TickOver)

----------------------------------------------------------------------------
\* The types of the variables.
TypeOK ==
    /\ rx \in Fifos(RxNum) /\ tx \in Fifos(TxNum)
    /\ rcv \in Commands \cup {None}
    /\ txBuf \in Messages
    /\ uart \in {"idle", "dma", "tail"}
    /\ pc \in {"sdk", "handle", "send", "pm", "mask", "sleep"}
    /\ {dataFlg, wakeTick, pullUp, mask, mcuPin} \subseteq BOOLEAN
    /\ wakeMcu \in {"low", "rising", "high"}
    /\ tick \in {"none", "running", "over"}
    /\ {sent, acked, handled} \subseteq Commands

\* Without any test for a full fifo in irq_handler, a window of RxNum commands
\* is enough: each command is handled once, whole and in the order sent, while
\* the DMA fills the other slot and the u8 pointers wrap around.
HandledInOrder ==
    [][pc = "handle" /\ pc' = "sdk" => MyFifoGet(rx) = handled]_vars

\* The module never sleeps with a command it has not handled, a message it has
\* not sent, a transmitter that still shifts, or a frame that is arriving: the
\* mask was set earlier, app_suspend_enter looks again.
SuspendLosesNothing ==
    pc = "sleep" => rcv = None /\ ~Waiting(rx) /\ ~Waiting(tx) /\ uart = "idle"

\* While anything is queued or being sent to the MCU its wake-up pin is up, and
\* when the transmitter starts the pin has been up for the 100 us the MCU needs.
McuAwakeForData ==
    /\ Waiting(tx) \/ uart # "idle" => wakeMcu # "low"
    /\ uart = "dma" => wakeMcu = "high"

\* A command that arrived is handled, also when the module is about to sleep
\* and when the transmit fifo is full.
CommandsHandled ==
    \A n \in Commands : n \in Queued(rx) ~> n \notin Queued(rx)

\* With no traffic and the MCU's pin low the module goes to sleep again and
\* again: its own pull-up on the pin does not keep it awake.
SleepsWhenIdle ==
    []<>(pc = "sleep" \/ mcuPin \/ rcv # None \/ UartWorking)
=============================================================================
