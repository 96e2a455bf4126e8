-------------------------- MODULE ModuleUartProofs --------------------------
(***************************************************************************)
(* For any number of slots, any width of the pointers and any window: the  *)
(* module loses nothing by suspending, wakes the MCU for all it sends, and *)
(* handles every command once, whole and in the order sent.                *)
(***************************************************************************)
EXTENDS ModuleUart, TLAPS

\* The flag of spp.c, its tick and the pin GPIO_WAKEUP_MCU rise and fall together.
PinInv == wakeTick = dataFlg /\ (dataFlg <=> wakeMcu # "low")

\* The pin is not lowered between the copy of a message and its transmission.
SendInv == pc = "send" => Waiting(tx) /\ uart = "idle"

\* A frame arrives only while the MCU holds GPIO_WAKEUP_MODULE high.
ArrivalInv == rcv # None => mcuPin

IInv ==
    /\ TypeOK /\ PinInv /\ SendInv /\ ArrivalInv
    /\ SuspendLosesNothing /\ McuAwakeForData

----------------------------------------------------------------------------
\* A fifo stays one when a message is put into it or taken from it.
LEMMA FifoKept ==
    ASSUME NEW num \in {RxNum, TxNum}, NEW f \in Fifos(num), NEW m \in Messages
    PROVE  /\ [f EXCEPT !.slot[WriteSlot(f)] = m] \in Fifos(num)
           /\ MyFifoNext([f EXCEPT !.slot[WriteSlot(f)] = m]) \in Fifos(num)
           /\ MyFifoPop(f) \in Fifos(num)
           /\ MyFifoGet(f) \in Messages
  <1>1. num \in Nat \ {0} /\ PtrMod \in Nat \ {0}
    BY UartAssumption
  <1>2. /\ f.num = num /\ f.w \in 0..PtrMod - 1 /\ f.r \in 0..PtrMod - 1
        /\ f.slot \in [0..num - 1 -> Messages]
    BY DEF Fifos
  <1>3. \A n \in Nat : n % num \in 0..num - 1 /\ (n + 1) % PtrMod \in 0..PtrMod - 1
    BY <1>1
  <1>4. /\ f.r % num \in 0..num - 1
        /\ (f.r + 1) % PtrMod \in 0..PtrMod - 1 /\ (f.w + 1) % PtrMod \in 0..PtrMod - 1
    <2>1. f.r \in Nat /\ f.w \in Nat
      BY <1>2
    <2> QED BY <2>1, <1>3
  <1>5. [f EXCEPT !.slot[WriteSlot(f)] = m] \in Fifos(num)
    BY DEF Fifos
  <1>6. \A g \in Fifos(num) : (g.w + 1) % PtrMod \in 0..PtrMod - 1 => MyFifoNext(g) \in Fifos(num)
    BY DEF MyFifoNext, Fifos
  <1>7. [f EXCEPT !.slot[WriteSlot(f)] = m].w = f.w
    OBVIOUS
  <1>8. MyFifoNext([f EXCEPT !.slot[WriteSlot(f)] = m]) \in Fifos(num)
    BY <1>4, <1>5, <1>6, <1>7
  <1>9. MyFifoPop(f) \in Fifos(num)
    BY <1>4 DEF MyFifoPop, Fifos
  <1>10. MyFifoGet(f) \in Messages
    BY <1>2, <1>4 DEF MyFifoGet
  <1> QED BY <1>5, <1>8, <1>9, <1>10

\* The number after a command is the number of a command.
LEMMA LaterCommand == ASSUME NEW n \in Commands PROVE Later(n) \in Commands
  <1>1. n \in Nat /\ SeqMod \in Nat \ {0}
    BY UartAssumption DEF Commands
  <1> QED BY <1>1 DEF Later, Commands

\* A message is queued with the pin up, or dropped and nothing changes.
LEMMA DataSent ==
    ASSUME IInv, NEW m \in Messages, HciSendData(m), uart' = uart
    PROVE  /\ tx' \in Fifos(TxNum) /\ {dataFlg', wakeTick'} \subseteq BOOLEAN
           /\ wakeMcu' \in {"low", "rising", "high"}
           /\ PinInv' /\ McuAwakeForData'
  <1>1. CASE Full(tx)
    BY <1>1 DEF HciSendData, pins, IInv, TypeOK, PinInv, McuAwakeForData
  <1>2. CASE ~Full(tx)
    <2>1. tx' \in Fifos(TxNum)
      BY FifoKept DEF HciSendData, IInv, TypeOK
    <2>2. dataFlg' /\ wakeTick' /\ wakeMcu' = IF dataFlg THEN wakeMcu ELSE "rising"
      BY <1>2 DEF HciSendData, IInv, PinInv
    <2> QED BY <2>1, <2>2 DEF IInv, TypeOK, PinInv, McuAwakeForData
  <1> QED BY <1>1, <1>2

----------------------------------------------------------------------------
(***************************************************************************)
(* One lemma for each action: the step keeps every conjunct of IInv.       *)
(***************************************************************************)

LEMMA RxFromUartStep == ASSUME IInv, RxFromUart PROVE IInv'
  <1>1. TypeOK'
    BY DEF IInv, TypeOK, RxFromUart, pins, power, mcu
  <1>2. PinInv' /\ SendInv' /\ ArrivalInv'
    BY DEF IInv, PinInv, SendInv, ArrivalInv, RxFromUart, pins, mcu
  <1>3. SuspendLosesNothing' /\ McuAwakeForData'
    BY DEF IInv, SuspendLosesNothing, McuAwakeForData, RxFromUart, pins
  <1> QED BY <1>1, <1>2, <1>3 DEF IInv

LEMMA UartHandlerStep == ASSUME IInv, UartHandler PROVE IInv'
  <1> DEFINE m == MyFifoGet(rx)
  <1>1. m \in Messages /\ MyFifoPop(rx) \in Fifos(RxNum)
    BY FifoKept DEF IInv, TypeOK
  <1>2. uart' = uart /\ HciSendData(m)
    BY DEF UartHandler
  <1> HIDE DEF m
  <1>3. /\ tx' \in Fifos(TxNum) /\ {dataFlg', wakeTick'} \subseteq BOOLEAN
        /\ wakeMcu' \in {"low", "rising", "high"} /\ PinInv' /\ McuAwakeForData'
    BY <1>1, <1>2, DataSent
  <1>4. Later(handled) \in Commands
    BY LaterCommand DEF IInv, TypeOK
  <1>5. TypeOK'
    BY <1>1, <1>3, <1>4 DEF IInv, TypeOK, UartHandler, power, mcu
  <1>6. SendInv' /\ ArrivalInv' /\ SuspendLosesNothing'
    BY DEF IInv, SendInv, ArrivalInv, SuspendLosesNothing, UartHandler, mcu
  <1> QED BY <1>3, <1>5, <1>6 DEF IInv

LEMMA RestartModuleStep == ASSUME IInv, RestartModule PROVE IInv'
  <1>1. \A num \in {RxNum, TxNum} : EmptyFifo(num) \in Fifos(num) /\ ~Waiting(EmptyFifo(num))
    BY UartAssumption DEF EmptyFifo, Fifos, Waiting, Messages
  <1>2. 0 \in Commands
    BY UartAssumption DEF Commands
  <1>3. TypeOK'
    BY <1>1, <1>2 DEF TypeOK, RestartModule, Messages
  <1>4. PinInv' /\ SendInv' /\ ArrivalInv' /\ SuspendLosesNothing' /\ McuAwakeForData'
    BY <1>1 DEF RestartModule, PinInv, SendInv, ArrivalInv, SuspendLosesNothing, McuAwakeForData
  <1> QED BY <1>3, <1>4 DEF IInv

LEMMA TxToUartStep == ASSUME IInv, TxToUart PROVE IInv'
  <1>1. MyFifoGet(tx) \in Messages
    BY FifoKept DEF IInv, TypeOK
  <1>2. TypeOK'
    BY <1>1 DEF IInv, TypeOK, TxToUart, pins, power, mcu
  <1>3. PinInv' /\ SendInv' /\ ArrivalInv'
    BY DEF IInv, PinInv, SendInv, ArrivalInv, TxToUart, pins, mcu
  <1>4. SuspendLosesNothing' /\ McuAwakeForData'
    BY DEF IInv, SuspendLosesNothing, McuAwakeForData, TxToUart, pins
  <1> QED BY <1>2, <1>3, <1>4 DEF IInv

LEMMA UartSendStep == ASSUME IInv, UartSend PROVE IInv'
  <1>1. MyFifoPop(tx) \in Fifos(TxNum)
    BY FifoKept DEF IInv, TypeOK
  <1>2. TypeOK'
    BY <1>1 DEF IInv, TypeOK, UartSend, pins, power, mcu
  <1>3. PinInv' /\ SendInv' /\ ArrivalInv' /\ SuspendLosesNothing'
    BY DEF IInv, PinInv, SendInv, ArrivalInv, SuspendLosesNothing, UartSend, pins, mcu
  <1>4. wakeMcu = "high"
    <2>1. Waiting(tx)
      BY DEF IInv, SendInv, UartSend
    <2>2. wakeMcu # "low" /\ wakeTick
      BY <2>1 DEF IInv, McuAwakeForData, PinInv
    <2> QED BY <2>2 DEF IInv, TypeOK, UartSend
  <1>5. McuAwakeForData'
    BY <1>4 DEF McuAwakeForData, UartSend, pins
  <1> QED BY <1>2, <1>3, <1>5 DEF IInv

LEMMA EventHandlerStep == ASSUME IInv, EventHandler PROVE IInv'
  <1>1. Event \in Messages /\ uart' = uart /\ HciSendData(Event)
    BY DEF EventHandler, Messages
  <1>2. /\ tx' \in Fifos(TxNum) /\ {dataFlg', wakeTick'} \subseteq BOOLEAN
        /\ wakeMcu' \in {"low", "rising", "high"} /\ PinInv' /\ McuAwakeForData'
    BY <1>1, DataSent
  <1>3. TypeOK'
    BY <1>2 DEF IInv, TypeOK, EventHandler, power, mcu
  <1>4. SendInv' /\ ArrivalInv' /\ SuspendLosesNothing'
    BY DEF IInv, SendInv, ArrivalInv, SuspendLosesNothing, EventHandler, mcu
  <1> QED BY <1>2, <1>3, <1>4 DEF IInv

LEMMA SuspendStep == ASSUME IInv, Suspend PROVE IInv'
  <1>1. TypeOK'
    BY DEF IInv, TypeOK, Suspend, AppSuspendExit, pins, power, mcu
  <1>2. PinInv' /\ SendInv' /\ ArrivalInv' /\ McuAwakeForData'
    BY DEF IInv, PinInv, SendInv, ArrivalInv, McuAwakeForData, Suspend, pins, mcu
  <1>3. SuspendLosesNothing'
    BY DEF IInv, SuspendLosesNothing, ArrivalInv, Suspend, AppModuleBusy, UartWorking
  <1> QED BY <1>1, <1>2, <1>3 DEF IInv

LEMMA WakeUpStep == ASSUME IInv, WakeUp PROVE IInv'
  <1>1. TypeOK'
    BY DEF IInv, TypeOK, WakeUp, AppSuspendExit, pins, mcu
  <1>2. PinInv' /\ SendInv' /\ ArrivalInv'
    BY DEF IInv, PinInv, SendInv, ArrivalInv, WakeUp, pins, mcu
  <1>3. SuspendLosesNothing' /\ McuAwakeForData'
    BY DEF IInv, SuspendLosesNothing, McuAwakeForData, WakeUp
  <1> QED BY <1>1, <1>2, <1>3 DEF IInv

LEMMA SdkDoneStep == ASSUME IInv, SdkDone PROVE IInv'
  <1>1. TypeOK'
    BY DEF IInv, TypeOK, SdkDone, pins, power, mcu
  <1>2. PinInv' /\ SendInv' /\ ArrivalInv'
    BY DEF IInv, PinInv, SendInv, ArrivalInv, SdkDone, pins, mcu
  <1>3. SuspendLosesNothing' /\ McuAwakeForData'
    BY DEF IInv, SuspendLosesNothing, McuAwakeForData, SdkDone, pins
  <1> QED BY <1>1, <1>2, <1>3 DEF IInv

LEMMA LowerWakeupMcuStep == ASSUME IInv, LowerWakeupMcu PROVE IInv'
  <1>1. TypeOK'
    BY DEF IInv, TypeOK, LowerWakeupMcu, pins, power, mcu
  <1>2. PinInv'
    BY DEF IInv, PinInv, LowerWakeupMcu, pins
  <1>3. SendInv' /\ ArrivalInv' /\ SuspendLosesNothing'
    BY DEF IInv, SendInv, ArrivalInv, SuspendLosesNothing, LowerWakeupMcu, mcu
  <1>4. McuAwakeForData'
    BY DEF IInv, McuAwakeForData, LowerWakeupMcu, UartWorking, pins
  <1> QED BY <1>1, <1>2, <1>3, <1>4 DEF IInv

LEMMA AppPowerManagementStep == ASSUME IInv, AppPowerManagement PROVE IInv'
  <1>1. TypeOK'
    BY DEF IInv, TypeOK, AppPowerManagement, pins, mcu
  <1>2. PinInv' /\ SendInv' /\ ArrivalInv'
    BY DEF IInv, PinInv, SendInv, ArrivalInv, AppPowerManagement, pins, mcu
  <1>3. SuspendLosesNothing' /\ McuAwakeForData'
    BY DEF IInv, SuspendLosesNothing, McuAwakeForData, AppPowerManagement, pins
  <1> QED BY <1>1, <1>2, <1>3 DEF IInv

LEMMA RxIrqStep == ASSUME IInv, RxIrq PROVE IInv'
  <1>1. rx' \in Fifos(RxNum)
    BY FifoKept DEF IInv, TypeOK, RxIrq, Messages
  <1>2. TypeOK'
    BY <1>1 DEF IInv, TypeOK, RxIrq, pins, power, mcu
  <1>3. PinInv' /\ SendInv' /\ ArrivalInv'
    BY DEF IInv, PinInv, SendInv, ArrivalInv, RxIrq, pins
  <1>4. SuspendLosesNothing' /\ McuAwakeForData'
    BY DEF IInv, SuspendLosesNothing, McuAwakeForData, RxIrq, pins
  <1> QED BY <1>2, <1>3, <1>4 DEF IInv

LEMMA TxIrqStep == ASSUME IInv, TxIrq PROVE IInv'
  <1>1. TypeOK'
    BY DEF IInv, TypeOK, TxIrq, pins, power, mcu
  <1>2. PinInv' /\ SendInv' /\ ArrivalInv'
    BY DEF IInv, PinInv, SendInv, ArrivalInv, TxIrq, pins, mcu
  <1>3. SuspendLosesNothing' /\ McuAwakeForData'
    BY DEF IInv, SuspendLosesNothing, McuAwakeForData, TxIrq, pins
  <1> QED BY <1>1, <1>2, <1>3 DEF IInv

LEMMA TxDoneStep == ASSUME IInv, TxDone PROVE IInv'
  <1>1. txBuf \in Commands => Later(txBuf) \in Commands
    BY LaterCommand
  <1>2. TypeOK'
    BY <1>1 DEF IInv, TypeOK, TxDone, pins, power
  <1>3. PinInv' /\ SendInv' /\ ArrivalInv'
    BY DEF IInv, PinInv, SendInv, ArrivalInv, TxDone, pins
  <1>4. SuspendLosesNothing' /\ McuAwakeForData'
    BY DEF IInv, SuspendLosesNothing, McuAwakeForData, TxDone, pins
  <1> QED BY <1>2, <1>3, <1>4 DEF IInv

LEMMA WakeTimeStep == ASSUME IInv, WakeTime PROVE IInv'
  <1>1. TypeOK'
    BY DEF IInv, TypeOK, WakeTime, power, mcu
  <1>2. PinInv' /\ SendInv' /\ ArrivalInv'
    BY DEF IInv, PinInv, SendInv, ArrivalInv, WakeTime, mcu
  <1>3. SuspendLosesNothing' /\ McuAwakeForData'
    BY DEF IInv, SuspendLosesNothing, McuAwakeForData, WakeTime
  <1> QED BY <1>1, <1>2, <1>3 DEF IInv

LEMMA TickOverStep == ASSUME IInv, TickOver PROVE IInv'
  <1>1. TypeOK'
    BY DEF IInv, TypeOK, TickOver, pins, mcu
  <1>2. PinInv' /\ SendInv' /\ ArrivalInv'
    BY DEF IInv, PinInv, SendInv, ArrivalInv, TickOver, pins, mcu
  <1>3. SuspendLosesNothing' /\ McuAwakeForData'
    BY DEF IInv, SuspendLosesNothing, McuAwakeForData, TickOver, pins
  <1> QED BY <1>1, <1>2, <1>3 DEF IInv

LEMMA RaisePinStep == ASSUME IInv, RaisePin PROVE IInv'
  <1>1. TypeOK'
    BY DEF IInv, TypeOK, RaisePin, pins, power
  <1>2. PinInv' /\ SendInv' /\ ArrivalInv'
    BY DEF IInv, PinInv, SendInv, ArrivalInv, RaisePin, pins
  <1>3. SuspendLosesNothing' /\ McuAwakeForData'
    BY DEF IInv, SuspendLosesNothing, McuAwakeForData, RaisePin, pins
  <1> QED BY <1>1, <1>2, <1>3 DEF IInv

LEMMA LowerPinStep == ASSUME IInv, LowerPin PROVE IInv'
  <1>1. TypeOK'
    BY DEF IInv, TypeOK, LowerPin, pins, power
  <1>2. PinInv' /\ SendInv' /\ ArrivalInv'
    BY DEF IInv, PinInv, SendInv, ArrivalInv, LowerPin, pins
  <1>3. SuspendLosesNothing' /\ McuAwakeForData'
    BY DEF IInv, SuspendLosesNothing, McuAwakeForData, LowerPin, pins
  <1> QED BY <1>1, <1>2, <1>3 DEF IInv

LEMMA SendCommandStep == ASSUME IInv, SendCommand PROVE IInv'
  <1>1. Later(sent) \in Commands
    BY LaterCommand DEF IInv, TypeOK
  <1>2. rx' \in Fifos(RxNum)
    BY FifoKept DEF IInv, TypeOK, SendCommand, Messages
  <1>3. TypeOK'
    BY <1>1, <1>2 DEF IInv, TypeOK, SendCommand, pins, power
  <1>4. PinInv' /\ SendInv' /\ ArrivalInv'
    BY DEF IInv, PinInv, SendInv, ArrivalInv, SendCommand, pins
  <1>5. SuspendLosesNothing' /\ McuAwakeForData'
    BY DEF IInv, SuspendLosesNothing, McuAwakeForData, SendCommand, pins
  <1> QED BY <1>3, <1>4, <1>5 DEF IInv

LEMMA GiveUpAnswerStep == ASSUME IInv, GiveUpAnswer PROVE IInv'
  <1>1. Later(acked) \in Commands
    BY LaterCommand DEF IInv, TypeOK
  <1>2. TypeOK'
    BY <1>1 DEF IInv, TypeOK, GiveUpAnswer, pins, power
  <1>3. PinInv' /\ SendInv' /\ ArrivalInv'
    BY DEF IInv, PinInv, SendInv, ArrivalInv, GiveUpAnswer, pins
  <1>4. SuspendLosesNothing' /\ McuAwakeForData'
    BY DEF IInv, SuspendLosesNothing, McuAwakeForData, GiveUpAnswer, pins
  <1> QED BY <1>2, <1>3, <1>4 DEF IInv

----------------------------------------------------------------------------

\* The pins, the transmitter and the suspend go together in every reachable state.
THEOREM Invariant == Spec => []IInv
  <1>1. Init => IInv
    <2> SUFFICES ASSUME Init
                 PROVE  IInv
      OBVIOUS
    <2>1. \A num \in {RxNum, TxNum} : EmptyFifo(num) \in Fifos(num) /\ ~Waiting(EmptyFifo(num))
      BY UartAssumption DEF EmptyFifo, Fifos, Waiting, Messages
    <2>2. 0 \in Commands
      BY UartAssumption DEF Commands
    <2>3. TypeOK
      BY <2>1, <2>2 DEF TypeOK, Init, ModuleInit, Messages
    <2> QED BY <2>1, <2>3 DEF Init, ModuleInit, IInv, PinInv, SendInv, ArrivalInv,
       SuspendLosesNothing, McuAwakeForData
  <1>2. IInv /\ [Next]_vars => IInv'
    <2> SUFFICES ASSUME IInv, [Next]_vars
                 PROVE  IInv'
      OBVIOUS
    <2>1. CASE Main
      BY <2>1, RxFromUartStep, UartHandlerStep, RestartModuleStep, TxToUartStep, UartSendStep,
         EventHandlerStep, SuspendStep, WakeUpStep, SdkDoneStep, LowerWakeupMcuStep,
         AppPowerManagementStep DEF Main
    <2>2. CASE Interrupts
      BY <2>2, RxIrqStep, TxIrqStep, TxDoneStep, WakeTimeStep, TickOverStep DEF Interrupts
    <2>3. CASE Mcu
      BY <2>3, RaisePinStep, LowerPinStep, SendCommandStep, GiveUpAnswerStep DEF Mcu
    <2>4. CASE UNCHANGED vars
      BY <2>4 DEF vars, pins, power, mcu, IInv, TypeOK, PinInv, SendInv, ArrivalInv,
         SuspendLosesNothing, McuAwakeForData
    <2> QED BY <2>1, <2>2, <2>3, <2>4 DEF Next
  <1> QED BY <1>1, <1>2, PTL DEF Spec

\* The types of the variables; the pointers of the fifos stay in their width.
THEOREM TypeCorrect == Spec => []TypeOK
  BY Invariant, PTL DEF IInv

\* A sleeping module has handled, sent and received everything.
THEOREM NothingLostAsleep == Spec => []SuspendLosesNothing
  BY Invariant, PTL DEF IInv

\* The MCU is awake for everything that is queued and sent to it.
THEOREM McuIsAwake == Spec => []McuAwakeForData
  BY Invariant, PTL DEF IInv

----------------------------------------------------------------------------
(***************************************************************************)
(* Remainders.                                                             *)
(***************************************************************************)
\* Division with a remainder.
LEMMA Division ==
    ASSUME NEW n \in Nat \ {0}, NEW x \in Int
    PROVE  \E q \in Int, r \in 0..n - 1 : x = n * q + r /\ r = x % n
  <1>1. x % n \in 0..n - 1 /\ x \div n \in Int
    OBVIOUS
  <1>2. x = n * (x \div n) + (x % n)
    OBVIOUS
  <1> QED BY <1>1, <1>2

\* The remainder is unique.
LEMMA Remainder ==
    ASSUME NEW n \in Nat \ {0}, NEW q \in Int, NEW r \in 0..n - 1
    PROVE  (n * q + r) % n = r
  <1>1. PICK p \in Int, t \in 0..n - 1 : n * q + r = n * p + t /\ t = (n * q + r) % n
    <2>1. n * q + r \in Int
      OBVIOUS
    <2> QED BY ONLY <2>1, n \in Nat \ {0}, Division
  <1>2. n * (p - q) = r - t
    BY <1>1
  <1>3. CASE p > q
    <2>1. n * (p - q) >= n
      BY <1>3
    <2> QED BY <2>1, <1>2
  <1>4. CASE p < q
    <2>1. n * (q - p) >= n
      BY <1>4
    <2>2. n * (p - q) = - (n * (q - p))
      OBVIOUS
    <2> QED BY <2>1, <2>2, <1>2
  <1> QED BY <1>1, <1>3, <1>4

\* A number that is at most one turn off.
LEMMA Turn ==
    ASSUME NEW n \in Nat \ {0}, NEW x \in Int
    PROVE  /\ x % n \in 0..n - 1
           /\ 0 <= x /\ x < n => x % n = x
           /\ n <= x /\ x < 2 * n => x % n = x - n
           /\ -n <= x /\ x < 0 => x % n = x + n
  <1>1. x % n \in 0..n - 1 /\ (0 <= x /\ x < n => x % n = x)
    OBVIOUS
  <1>2. n <= x /\ x < 2 * n => x % n = x - n
    BY Remainder
  <1>3. -n <= x /\ x < 0 => x % n = x + n
    BY Remainder
  <1> QED BY <1>1, <1>2, <1>3

\* Whole turns of m are whole turns of n.
LEMMA Turns ==
    ASSUME NEW n \in Nat \ {0}, NEW m \in Nat \ {0}, m % n = 0, NEW x \in Int
    PROVE  (x % m) % n = x % n
  <1>1. PICK q \in Int, y \in 0..m - 1 : x = m * q + y /\ y = x % m
    BY Division
  <1>2. PICK k \in Int : m = n * k
    <2>1. m \in Int
      OBVIOUS
    <2>2. PICK k \in Int, t \in 0..n - 1 : m = n * k + t /\ t = m % n
      BY <2>1, Division
    <2>3. m = n * k
      BY <2>2
    <2> QED BY ONLY <2>3, k \in Int
  <1>3. y \in Int
    OBVIOUS
  <1>4. PICK p \in Int, r \in 0..n - 1 : y = n * p + r /\ r = y % n
    BY <1>3, Division
  <1>5. k * q + p \in Int /\ x = n * (k * q + p) + r
    <2>1. m * q = n * (k * q)
      BY <1>2
    <2>2. n * (k * q) + n * p = n * (k * q + p)
      OBVIOUS
    <2>3. x = m * q + (n * p + r)
      BY ONLY <1>1, <1>4
    <2> QED BY ONLY <2>1, <2>2, <2>3, n \in Int, k \in Int, q \in Int, p \in Int, m \in Int, r \in Int
  <1>6. (n * (k * q + p) + r) % n = r
    BY <1>5, Remainder
  <1> QED BY <1>1, <1>4, <1>5, <1>6

\* Two numbers less than a turn apart.
LEMMA TurnsApart ==
    ASSUME NEW n \in Nat \ {0}, NEW x \in Int, NEW y \in Int, x < y, y < x + n
    PROVE  x % n # y % n
  <1> SUFFICES ASSUME x % n = y % n PROVE FALSE
    OBVIOUS
  <1>1. PICK q \in Int, r \in 0..n - 1 : x = n * q + r /\ r = x % n
    BY Division
  <1>2. PICK p \in Int, t \in 0..n - 1 : y = n * p + t /\ t = y % n
    BY Division
  <1>3. y - x = n * (p - q)
    BY <1>1, <1>2
  <1>4. CASE p <= q
    <2>1. n * (q - p) >= 0
      BY <1>4
    <2> QED BY <2>1, <1>3
  <1>5. CASE p > q
    <2>1. n * (p - q) >= n
      BY <1>5
    <2> QED BY <2>1, <1>3
  <1> QED BY <1>4, <1>5

----------------------------------------------------------------------------
(***************************************************************************)
(* What a fifo holds.                                                      *)
(***************************************************************************)
\* The number of messages, and the k-th of them.
Count(f) == (f.w - f.r) % PtrMod
Nth(f, k) == f.slot[(f.r + k) % f.num]

\* x modulo n, for what counts around.
Mod(x, n) == x % n

LEMMA ModIs ==
    \A n \in Nat \ {0} : \A x \in -n..2 * n - 1 :
        Mod(x, n) = IF x < 0 THEN x + n ELSE IF x < n THEN x ELSE x - n
  <1> SUFFICES ASSUME NEW n \in Nat \ {0}, NEW x \in -n..2 * n - 1
               PROVE  Mod(x, n) = IF x < 0 THEN x + n ELSE IF x < n THEN x ELSE x - n
    OBVIOUS
  <1>1. x \in Int /\ -n <= x /\ x < 2 * n
    OBVIOUS
  <1>2. /\ 0 <= x /\ x < n => Mod(x, n) = x
        /\ n <= x /\ x < 2 * n => Mod(x, n) = x - n
        /\ -n <= x /\ x < 0 => Mod(x, n) = x + n
    BY ONLY <1>1, n \in Nat \ {0}, Turn DEF Mod
  <1> QED BY <1>1, <1>2

LEMMA WrapTurns ==
    ASSUME NEW num \in {RxNum, TxNum}, NEW x \in Int
    PROVE  Mod(x, PtrMod) % num = x % num
  <1>1. num \in Nat \ {0} /\ PtrMod \in Nat \ {0} /\ PtrMod % num = 0
    BY UartAssumption
  <1> QED BY ONLY <1>1, x \in Int, Turns DEF Mod

\* The pointers of a fifo and the number of its messages.
LEMMA Pointers ==
    ASSUME NEW num \in {RxNum, TxNum}, NEW f \in Fifos(num)
    PROVE  /\ num \in Nat \ {0} /\ PtrMod \in Nat \ {0} /\ num < PtrMod /\ f.num = num
           /\ f.w \in 0..PtrMod - 1 /\ f.r \in 0..PtrMod - 1
           /\ Count(f) = IF f.w < f.r THEN f.w - f.r + PtrMod ELSE f.w - f.r
  <1>1. /\ num \in Nat \ {0} /\ PtrMod \in Nat \ {0} /\ num < PtrMod /\ f.num = num
        /\ f.w \in 0..PtrMod - 1 /\ f.r \in 0..PtrMod - 1
    BY UartAssumption DEF Fifos
  <1>2. Count(f) = Mod(f.w - f.r, PtrMod)
    BY DEF Count, Mod
  <1> QED BY <1>1, <1>2, ModIs

\* The slot behind the messages, and the slots of the messages.
LEMMA Slots ==
    ASSUME NEW num \in {RxNum, TxNum}, NEW f \in Fifos(num)
    PROVE  /\ WriteSlot(f) = (f.r + Count(f)) % num
           /\ \A k \in Nat : (f.r + k) % num \in 0..num - 1
           /\ \A k \in Nat : k < Count(f) /\ Count(f) < num + k
                  => (f.r + k) % num # WriteSlot(f)
  <1>1. /\ num \in Nat \ {0} /\ PtrMod \in Nat \ {0} /\ f.num = num
        /\ f.w \in 0..PtrMod - 1 /\ f.r \in 0..PtrMod - 1
        /\ Count(f) = IF f.w < f.r THEN f.w - f.r + PtrMod ELSE f.w - f.r
    BY Pointers
  <1>2. PICK c \in Nat : c = Count(f) /\ f.r + c \in Int /\ c < PtrMod
    BY <1>1
  <1>3. Mod(f.r + c, PtrMod) = f.w
    BY <1>1, <1>2, ModIs
  <1>4. (f.r + c) % num = f.w % num
    BY <1>2, <1>3, WrapTurns
  <1>5. ASSUME NEW k \in Nat
        PROVE  (f.r + k) % num \in 0..num - 1
    <2>1. f.r + k \in Int
      BY <1>1
    <2> QED BY ONLY <1>1, <2>1, Turn
  <1>6. ASSUME NEW k \in Nat, k < c, c < num + k
        PROVE  (f.r + k) % num # (f.r + c) % num
    <2>1. f.r + k \in Int /\ f.r + c \in Int /\ f.r + k < f.r + c /\ f.r + c < f.r + k + num
      BY <1>1, <1>6
    <2> QED BY ONLY <1>1, <2>1, TurnsApart
  <1> QED BY <1>1, <1>2, <1>4, <1>5, <1>6 DEF WriteSlot

\* The first message is the one my_fifo_get returns.
LEMMA FirstOf ==
    ASSUME NEW num \in {RxNum, TxNum}, NEW f \in Fifos(num)
    PROVE  /\ Waiting(f) <=> Count(f) > 0
           /\ MyFifoGet(f) = Nth(f, 0)
           /\ Full(f) <=> Count(f) >= num
  <1>1. Waiting(f) <=> Count(f) > 0
    BY Pointers DEF Waiting
  <1>2. f.r + 0 = f.r
    BY Pointers
  <1> QED BY <1>1, <1>2, Pointers DEF MyFifoGet, Nth, Full, Count

\* Writing the slot behind the last message changes none of them.
LEMMA SlotWritten ==
    ASSUME NEW num \in {RxNum, TxNum}, NEW f \in Fifos(num), NEW m \in Messages,
           Count(f) < num, NEW g, g = [f EXCEPT !.slot[WriteSlot(f)] = m]
    PROVE  /\ Count(g) = Count(f) /\ Nth(g, Count(f)) = m
           /\ \A k \in 0..Count(f) - 1 : Nth(g, k) = Nth(f, k)
  <1>1. f.slot \in [0..num - 1 -> Messages] /\ num \in Nat /\ f.num = num
    BY Pointers DEF Fifos
  <1>2. g.num = num /\ g.w = f.w /\ g.r = f.r /\ g.slot = [f.slot EXCEPT ![WriteSlot(f)] = m]
    BY <1>1 DEF Fifos
  <1>3. Count(g) = Count(f)
    BY <1>2 DEF Count
  <1>4. PICK c \in Nat : c = Count(f) /\ c < num
    BY Pointers
  <1>5. Nth(g, c) = m
    <2>1. WriteSlot(f) = (f.r + c) % num /\ (f.r + c) % num \in 0..num - 1
      BY <1>4, Slots
    <2> QED BY <1>1, <1>2, <2>1 DEF Nth
  <1>6. ASSUME NEW k \in 0..c - 1
        PROVE  Nth(g, k) = Nth(f, k)
    <2>1. k \in Nat /\ k < c /\ c < num + k
      BY <1>4, <1>1
    <2>2. (f.r + k) % num \in 0..num - 1 /\ (f.r + k) % num # WriteSlot(f)
      BY <2>1, <1>4, Slots
    <2> QED BY <1>1, <1>2, <2>2 DEF Nth
  <1> QED BY <1>3, <1>4, <1>5, <1>6

\* A message is put behind the others.
LEMMA Put ==
    ASSUME NEW num \in {RxNum, TxNum}, NEW f \in Fifos(num), NEW m \in Messages,
           Count(f) < num, NEW g, g = MyFifoNext([f EXCEPT !.slot[WriteSlot(f)] = m])
    PROVE  /\ Count(g) = Count(f) + 1 /\ Nth(g, Count(f)) = m
           /\ \A k \in 0..Count(f) - 1 : Nth(g, k) = Nth(f, k)
  <1> DEFINE h == [f EXCEPT !.slot[WriteSlot(f)] = m]
  <1>1. h \in Fifos(num)
    BY FifoKept
  <1>2. g \in Fifos(num)
    BY FifoKept
  <1>3. /\ Count(h) = Count(f) /\ Nth(h, Count(f)) = m
        /\ \A k \in 0..Count(f) - 1 : Nth(h, k) = Nth(f, k)
    BY SlotWritten
  <1> HIDE DEF h
  <1>4. g.num = h.num /\ g.w = Mod(h.w + 1, PtrMod) /\ g.r = h.r /\ g.slot = h.slot
    BY <1>1 DEF MyFifoNext, Fifos, Mod, h
  <1>5. Count(g) = Count(h) + 1
    BY <1>1, <1>2, <1>3, <1>4, Pointers, ModIs
  <1>6. \A k : Nth(g, k) = Nth(h, k)
    BY <1>4 DEF Nth
  <1> QED BY <1>3, <1>5, <1>6

\* The first message is taken away.
LEMMA Pop ==
    ASSUME NEW num \in {RxNum, TxNum}, NEW f \in Fifos(num), Waiting(f)
    PROVE  /\ Count(MyFifoPop(f)) = Count(f) - 1
           /\ \A k \in 0..Count(f) - 2 : Nth(MyFifoPop(f), k) = Nth(f, k + 1)
  <1> DEFINE g == MyFifoPop(f)
  <1>1. g \in Fifos(num)
    <2>1. PICK m \in Messages : TRUE
      BY DEF Messages
    <2> QED BY FifoKept, <2>1
  <1>2. g.num = num /\ g.r = Mod(f.r + 1, PtrMod) /\ g.w = f.w /\ g.slot = f.slot /\ f.num = num
    BY DEF MyFifoPop, Fifos, Mod
  <1> HIDE DEF g
  <1>3. Count(g) = Count(f) - 1
    BY <1>1, <1>2, Pointers, FirstOf, ModIs
  <1>4. ASSUME NEW k \in 0..Count(f) - 2
        PROVE  Nth(g, k) = Nth(f, k + 1)
    <2>1. /\ f.r \in 0..PtrMod - 1 /\ PtrMod \in Nat \ {0}
          /\ g.r = IF f.r + 1 = PtrMod THEN 0 ELSE f.r + 1
      BY <1>2, Pointers, ModIs
    <2>2. k \in Nat /\ k < PtrMod
      BY Pointers
    <2>3. Mod(g.r + k, PtrMod) = Mod(f.r + (k + 1), PtrMod)
      BY <2>1, <2>2, ModIs
    <2>4. g.r + k \in Int /\ f.r + (k + 1) \in Int
      BY <2>1, <2>2
    <2>5. (g.r + k) % num = (f.r + (k + 1)) % num
      BY <2>3, <2>4, WrapTurns
    <2> QED BY <1>2, <2>5 DEF Nth
  <1> QED BY <1>3, <1>4 DEF g

----------------------------------------------------------------------------
(***************************************************************************)
(* The commands from the MCU to bls_uart_handler, and the answers back.    *)
(***************************************************************************)
\* A command that is arriving counts as one.
Arriving == IF rcv # None THEN 1 ELSE 0

\* Commands handled that the MCU has no answer to.
Open == Ahead(handled, acked)

\* The commands the MCU sent are, one after the other, those handled, those that
\* wait and the one that arrives; all it has no answer to are within its window.
ReceiveInv ==
    /\ Count(rx) + Arriving + Open <= Window
    /\ \A k \in 0..Count(rx) - 1 : Nth(rx, k) = Mod(handled + k, SeqMod)
    /\ rcv # None => rcv = Mod(handled + Count(rx), SeqMod)
    /\ sent = Mod(handled + Count(rx) + Arriving, SeqMod)

\* The MCU waits for answer m; and for answer m before answer n.
Due(m) == m \in Commands => Ahead(handled, m) \in 1..Open
Before(m, n) == {m, n} \subseteq Commands => Ahead(handled, n) < Ahead(handled, m)

\* The answers go out in the order of the commands.
AnswerInv ==
    /\ Count(tx) <= TxNum
    /\ \A k \in 0..Count(tx) - 1 : Due(Nth(tx, k))
    /\ \A j, k \in 0..Count(tx) - 1 : j < k => Before(Nth(tx, j), Nth(tx, k))
    /\ uart # "idle" =>
           Due(txBuf) /\ \A k \in 0..Count(tx) - 1 : Before(txBuf, Nth(tx, k))
    /\ pc = "send" => txBuf = MyFifoGet(tx)
    /\ pc = "handle" => Waiting(rx)

OrderInv == IInv /\ ReceiveInv /\ AnswerInv

\* What the arithmetic needs.
LEMMA Numbers ==
    ASSUME IInv
    PROVE  /\ SeqMod \in Nat \ {0} /\ Window \in Nat /\ RxNum \in Nat /\ TxNum \in Nat
           /\ Window < SeqMod /\ Window <= RxNum
           /\ Commands = 0..SeqMod - 1 /\ {sent, acked, handled} \subseteq Commands
           /\ rx \in Fifos(RxNum) /\ tx \in Fifos(TxNum)
           /\ Count(rx) \in Nat /\ Count(tx) \in Nat /\ Open \in Commands
           /\ None \notin Commands /\ Event \notin Commands /\ rcv \in Commands \cup {None}
           /\ txBuf \in Messages
  <1>1. /\ SeqMod \in Nat \ {0} /\ Window \in Nat /\ RxNum \in Nat /\ TxNum \in Nat
        /\ Window < SeqMod /\ Window <= RxNum /\ None \notin Nat /\ Event \notin Nat
    BY UartAssumption
  <1>2. /\ {sent, acked, handled} \subseteq Commands /\ rx \in Fifos(RxNum)
        /\ tx \in Fifos(TxNum) /\ rcv \in Commands \cup {None} /\ txBuf \in Messages
    BY DEF IInv, TypeOK
  <1>3. Count(rx) \in Nat /\ Count(tx) \in Nat
    BY <1>2, Pointers
  <1>4. Open \in Commands
    <2>1. handled - acked \in Int
      BY <1>1, <1>2 DEF Commands
    <2> QED BY ONLY <1>1, <2>1, Turn DEF Open, Ahead, Commands
  <1> QED BY <1>1, <1>2, <1>3, <1>4 DEF Commands

\* How far a command is ahead of another, and the number after a command.
LEMMA AheadIs ==
    ASSUME IInv, NEW n \in Commands, NEW m \in Commands
    PROVE  /\ Ahead(n, m) = IF n < m THEN n - m + SeqMod ELSE n - m
           /\ Later(n) = IF n = SeqMod - 1 THEN 0 ELSE n + 1
  <1>1. SeqMod \in Nat \ {0} /\ n \in 0..SeqMod - 1 /\ m \in 0..SeqMod - 1
    BY Numbers
  <1>2. Ahead(n, m) = Mod(n - m, SeqMod) /\ Later(n) = Mod(n + 1, SeqMod)
    BY DEF Ahead, Later, Mod
  <1> QED BY <1>1, <1>2, ModIs

\* The next command is handled: every answer is due one command longer.
LEMMA Handled ==
    ASSUME IInv, Open < Window, handled' = Later(handled), acked' = acked
    PROVE  /\ Open' = Open + 1
           /\ \A m \in Messages : Due(m) => Due(m)' /\ (m \in Commands => Ahead(handled', m) > 1)
           /\ \A m, n \in Messages : Due(m) /\ Due(n) /\ Before(m, n) => Before(m, n)'
           /\ Ahead(handled', handled) = 1
  <1>1. Later(handled) \in Commands
    BY LaterCommand, Numbers
  <1>2. /\ SeqMod \in Nat \ {0} /\ Window \in Nat /\ Window < SeqMod /\ Open \in 0..SeqMod - 1
        /\ handled \in 0..SeqMod - 1 /\ acked \in 0..SeqMod - 1
    BY Numbers
  <1>3. ASSUME NEW m \in Commands, Ahead(handled, m) < SeqMod - 1
        PROVE  Ahead(Later(handled), m) = Ahead(handled, m) + 1
    <2>1. m \in 0..SeqMod - 1 /\ handled \in Commands
      BY Numbers
    <2>2. /\ Ahead(handled, m) = IF handled < m THEN handled - m + SeqMod ELSE handled - m
          /\ Later(handled) = IF handled = SeqMod - 1 THEN 0 ELSE handled + 1
      BY <2>1, AheadIs
    <2>3. Ahead(Later(handled), m) = IF Later(handled) < m THEN Later(handled) - m + SeqMod
                                     ELSE Later(handled) - m
      BY <1>1, AheadIs
    <2> QED BY <1>2, <1>3, <2>1, <2>2, <2>3
  <1>4. Open' = Open + 1
    <2>1. acked \in Commands /\ Open < SeqMod - 1
      BY <1>2, Numbers
    <2> QED BY <2>1, <1>3 DEF Open
  <1>5. Ahead(Later(handled), handled) = 1
    <2>1. handled \in Commands /\ SeqMod > 1
      BY <1>2, Numbers
    <2>2. Ahead(handled, handled) = 0
      BY <2>1, <1>2, AheadIs
    <2> QED BY <1>2, <2>1, <2>2, <1>3
  <1>6. ASSUME NEW m \in Messages, Due(m)
        PROVE  /\ Due(m)'
               /\ m \in Commands => /\ Ahead(handled', m) = Ahead(handled, m) + 1
                                    /\ Ahead(handled, m) \in Nat \ {0}
    <2>1. CASE m \in Commands
      <3>1. Ahead(handled, m) \in 1..Open /\ Ahead(handled, m) < SeqMod - 1
        BY <1>2, <1>6, <2>1 DEF Due
      <3> QED BY <3>1, <1>2, <1>3, <1>4, <2>1 DEF Due
    <2>2. CASE m \notin Commands
      BY <2>2 DEF Due
    <2> QED BY <2>1, <2>2
  <1>7. \A m, n \in Messages : Due(m) /\ Due(n) /\ Before(m, n) => Before(m, n)'
    BY <1>6 DEF Before
  <1> QED BY <1>4, <1>5, <1>6, <1>7

\* The oldest frame is the next command, whole.
LEMMA NextFrame ==
    ASSUME OrderInv, Waiting(rx)
    PROVE  MyFifoGet(rx) = handled /\ Open < Window
  <1>1. /\ Count(rx) \in Nat /\ Count(rx) > 0 /\ MyFifoGet(rx) = Nth(rx, 0)
        /\ SeqMod \in Nat \ {0} /\ handled \in 0..SeqMod - 1 /\ Window \in Nat
        /\ Open \in Nat
    BY Numbers, FirstOf DEF OrderInv
  <1>2. Nth(rx, 0) = Mod(handled + 0, SeqMod)
    BY <1>1 DEF OrderInv, ReceiveInv
  <1>3. Mod(handled + 0, SeqMod) = handled
    BY <1>1, ModIs
  <1>4. Open < Window
    BY <1>1 DEF OrderInv, ReceiveInv, Arriving
  <1> QED BY <1>1, <1>2, <1>3, <1>4

\* HciSendData puts the message behind the others, or drops it.
LEMMA Queueing ==
    ASSUME IInv, Count(tx) <= TxNum, NEW m \in Messages, HciSendData(m)
    PROVE  \/ tx' = tx
           \/ /\ Count(tx') = Count(tx) + 1 /\ Count(tx') <= TxNum
              /\ Nth(tx', Count(tx)) = m
              /\ \A k \in 0..Count(tx) - 1 : Nth(tx', k) = Nth(tx, k)
  <1>1. CASE Full(tx)
    BY <1>1 DEF HciSendData
  <1>2. CASE ~Full(tx)
    <2>1. Count(tx) < TxNum
      BY <1>2, Numbers, FirstOf
    <2>2. tx' = MyFifoNext([tx EXCEPT !.slot[WriteSlot(tx)] = m])
      BY <1>2 DEF HciSendData
    <2>3. /\ Count(tx') = Count(tx) + 1 /\ Nth(tx', Count(tx)) = m
          /\ \A k \in 0..Count(tx) - 1 : Nth(tx', k) = Nth(tx, k)
      BY <2>1, <2>2, Numbers, Put
    <2> QED BY <2>1, <2>3, Numbers
  <1> QED BY <1>1, <1>2

\* Every command is handled whole and in its turn: one more is handled, ...
LEMMA UartHandlerReceive == ASSUME OrderInv, UartHandler PROVE ReceiveInv'
  <1>1. /\ rx' = MyFifoPop(rx) /\ handled' = Later(handled) /\ Waiting(rx)
        /\ UNCHANGED <<rcv, acked, sent>>
    BY DEF UartHandler, mcu, OrderInv, AnswerInv
  <1>2. /\ Count(rx) \in Nat \ {0} /\ Count(rx') = Count(rx) - 1
        /\ \A k \in 0..Count(rx) - 2 : Nth(rx', k) = Nth(rx, k + 1)
    BY <1>1, Numbers, FirstOf, Pop DEF OrderInv
  <1>3. Open' = Open + 1
    BY <1>1, NextFrame, Handled DEF OrderInv
  <1>4. /\ SeqMod \in Nat \ {0} /\ Window \in Nat /\ Window < SeqMod /\ Open \in Nat
        /\ handled \in 0..SeqMod - 1 /\ Arriving \in {0, 1} /\ Arriving' = Arriving
        /\ Later(handled) = IF handled = SeqMod - 1 THEN 0 ELSE handled + 1
    BY <1>1, Numbers, AheadIs DEF OrderInv, Arriving
  <1>5. Count(rx) + Arriving + Open <= Window
    BY DEF OrderInv, ReceiveInv
  <1>6. \A k \in 0..Count(rx) : Mod(handled' + k, SeqMod) = Mod(handled + (k + 1), SeqMod)
    BY <1>1, <1>2, <1>4, <1>5, ModIs
  <1>7. (Count(rx) + Arriving + Open)' <= Window
    BY <1>2, <1>3, <1>4, <1>5
  <1>8. \A k \in 0..Count(rx') - 1 : Nth(rx', k) = Mod(handled' + k, SeqMod)
    <2>1. \A k \in 0..Count(rx) - 1 : Nth(rx, k) = Mod(handled + k, SeqMod)
      BY DEF OrderInv, ReceiveInv
    <2> QED BY <2>1, <1>2, <1>6
  <1>9. rcv # None => rcv = Mod(handled' + Count(rx'), SeqMod)
    <2>1. rcv # None => rcv = Mod(handled + Count(rx), SeqMod)
      BY DEF OrderInv, ReceiveInv
    <2>2. Count(rx') \in 0..Count(rx) /\ Count(rx') + 1 = Count(rx)
      BY <1>2
    <2> QED BY <2>1, <2>2, <1>6
  <1>10. sent = Mod(handled' + Count(rx') + Arriving, SeqMod)
    <2>1. sent = Mod(handled + Count(rx) + Arriving, SeqMod)
      BY DEF OrderInv, ReceiveInv
    <2> DEFINE k == Count(rx') + Arriving
    <2>2. /\ k \in 0..Count(rx)
          /\ Count(rx) \in Int /\ Count(rx') \in Int /\ Arriving \in Int /\ k + 1 = Count(rx) + Arriving
      BY <1>2, <1>4
    <2>3. handled \in Int /\ handled' \in Int
      BY <1>1, <1>4
    <2>4. Mod(handled' + k, SeqMod) = Mod(handled + (k + 1), SeqMod)
      BY <2>2, <1>6
    <2>5. /\ handled' + k = handled' + Count(rx') + Arriving
          /\ handled + (k + 1) = handled + Count(rx) + Arriving
      BY <2>2, <2>3
    <2> QED BY <2>1, <2>4, <2>5
  <1> QED BY <1>1, <1>4, <1>7, <1>8, <1>9, <1>10 DEF ReceiveInv

\* ... a frame is complete, ...
LEMMA RxIrqReceive == ASSUME OrderInv, RxIrq PROVE ReceiveInv'
  <1>1. /\ rx' = MyFifoNext([rx EXCEPT !.slot[WriteSlot(rx)] = rcv])
        /\ rcv # None /\ rcv' = None /\ UNCHANGED <<handled, acked, sent>>
    BY DEF RxIrq, mcu
  <1>2. /\ SeqMod \in Nat \ {0} /\ Window \in Nat /\ Window <= RxNum /\ RxNum \in Nat
        /\ handled \in Nat /\ Open \in Nat /\ Count(rx) \in Nat
    BY Numbers DEF OrderInv
  <1>3. Count(rx) + 1 + Open <= Window /\ Arriving = 1 /\ Arriving' = 0 /\ Open' = Open
    BY <1>1 DEF OrderInv, ReceiveInv, Arriving, Open
  <1>4. /\ Count(rx') = Count(rx) + 1 /\ Nth(rx', Count(rx)) = rcv
        /\ \A k \in 0..Count(rx) - 1 : Nth(rx', k) = Nth(rx, k)
    <2>1. rcv \in Messages /\ rx \in Fifos(RxNum) /\ Count(rx) < RxNum
      BY <1>1, <1>2, <1>3, Numbers DEF OrderInv, Messages
    <2> QED BY <2>1, <1>1, Put
  <1>5. /\ \A k \in 0..Count(rx) - 1 : Nth(rx, k) = Mod(handled + k, SeqMod)
        /\ rcv = Mod(handled + Count(rx), SeqMod)
        /\ sent = Mod(handled + Count(rx) + Arriving, SeqMod)
    BY <1>1 DEF OrderInv, ReceiveInv
  <1>6. \A k \in 0..Count(rx') - 1 : Nth(rx', k) = Mod(handled + k, SeqMod)
    BY <1>2, <1>4, <1>5
  <1>7. handled + Count(rx') + Arriving' = handled + Count(rx) + Arriving
    BY <1>2, <1>3, <1>4
  <1> QED BY <1>1, <1>2, <1>3, <1>4, <1>5, <1>6, <1>7 DEF ReceiveInv

\* ... the MCU sends one more, ...
LEMMA SendCommandReceive == ASSUME OrderInv, SendCommand PROVE ReceiveInv'
  <1>1. /\ rx' = [rx EXCEPT !.slot[WriteSlot(rx)] = Partial]
        /\ rcv = None /\ rcv' = sent /\ sent' = Later(sent) /\ UNCHANGED <<handled, acked>>
        /\ Ahead(sent, acked) < Window
    BY DEF SendCommand, mcu
  <1>2. /\ SeqMod \in Nat \ {0} /\ Window \in Nat /\ Window <= RxNum /\ Window < SeqMod
        /\ RxNum \in Nat /\ handled \in 0..SeqMod - 1 /\ acked \in 0..SeqMod - 1
        /\ sent \in 0..SeqMod - 1 /\ Count(rx) \in Nat
        /\ Commands = 0..SeqMod - 1 /\ None \notin Commands
    BY Numbers DEF OrderInv
  <1>3. /\ Count(rx) + Open <= Window /\ sent = Mod(handled + Count(rx), SeqMod)
        /\ Arriving' = 1 /\ Open' = Open
    <2>1. Arriving = 0 /\ Arriving' = 1 /\ Open' = Open
      BY <1>1, <1>2 DEF Arriving, Open
    <2>2. handled + Count(rx) + Arriving = handled + Count(rx) /\ Open \in Nat
      BY <1>2, <2>1, Numbers DEF OrderInv
    <2> QED BY <2>1, <2>2, <1>2 DEF OrderInv, ReceiveInv
  <1>4. /\ Ahead(sent, acked) = IF sent < acked THEN sent - acked + SeqMod ELSE sent - acked
        /\ Open = IF handled < acked THEN handled - acked + SeqMod ELSE handled - acked
        /\ Later(sent) = IF sent = SeqMod - 1 THEN 0 ELSE sent + 1
    BY <1>2, AheadIs DEF OrderInv, Open
  <1>5. Ahead(sent, acked) = Open + Count(rx)
    BY <1>2, <1>3, <1>4, ModIs
  <1>6. /\ Count(rx') = Count(rx)
        /\ \A k \in 0..Count(rx) - 1 : Nth(rx', k) = Nth(rx, k)
    <2>1. Partial \in Messages
      BY DEF Messages
    <2>2. rx \in Fifos(RxNum) /\ Open \in Nat
      BY <1>2, Numbers DEF OrderInv
    <2>3. Count(rx) < RxNum
      BY <1>1, <1>2, <1>5, <2>2
    <2> QED BY <2>1, <2>2, <2>3, <1>1, SlotWritten
  <1>7. Count(rx) + 1 + Open <= Window /\ Open \in Nat
    <2>1. Open \in Nat
      BY <1>2, Numbers DEF OrderInv
    <2> HIDE DEF Open
    <2> QED BY ONLY <1>1, <1>2, <1>5, <2>1
  <1>8. sent' = Mod(handled + Count(rx) + 1, SeqMod)
    <2>1. sent = IF handled + Count(rx) < SeqMod THEN handled + Count(rx)
                 ELSE handled + Count(rx) - SeqMod
      BY <1>2, <1>3, <1>7, ModIs
    <2>2. Mod(handled + Count(rx) + 1, SeqMod) =
              IF handled + Count(rx) + 1 < SeqMod THEN handled + Count(rx) + 1
              ELSE handled + Count(rx) + 1 - SeqMod
      BY <1>2, <1>7, ModIs
    <2>3. sent' = IF sent = SeqMod - 1 THEN 0 ELSE sent + 1
      BY <1>1, <1>4
    <2>4. handled + Count(rx) + 1 < 2 * SeqMod - 1 /\ handled + Count(rx) \in Nat
      BY <1>2, <1>7
    <2> QED BY <1>2, <2>1, <2>2, <2>3, <2>4
  <1>9. \A k \in 0..Count(rx) - 1 : Nth(rx, k) = Mod(handled + k, SeqMod)
    BY DEF OrderInv, ReceiveInv
  <1> QED BY <1>1, <1>3, <1>6, <1>7, <1>8, <1>9 DEF ReceiveInv

\* ... or an answer comes or is given up, which makes room in the window.
LEMMA ReceiveKept ==
    ASSUME OrderInv, UNCHANGED <<rx, rcv, sent, handled>>, Open' \in Nat, Open' <= Open
    PROVE  ReceiveInv'
  <1>1. Arriving' = Arriving /\ Arriving \in {0, 1}
    BY DEF Arriving
  <1>2. Count(rx') = Count(rx) /\ (\A k : Nth(rx', k) = Nth(rx, k)) /\ Count(rx) \in Nat
    BY Numbers DEF OrderInv
  <1>3. Open \in Nat /\ Window \in Nat
    BY Numbers DEF OrderInv
  <1>4. Count(rx) + Arriving + Open' <= Window
    BY <1>1, <1>2, <1>3 DEF OrderInv, ReceiveInv
  <1> QED BY <1>1, <1>2, <1>4 DEF OrderInv, ReceiveInv

LEMMA OpenKept ==
    ASSUME OrderInv, UNCHANGED <<handled, acked>>
    PROVE  Open' = Open /\ Open' \in Nat /\ Open' <= Open
  <1>1. Open \in Nat
    BY Numbers DEF OrderInv
  <1>2. Open' = Open
    BY DEF Open
  <1> QED BY <1>1, <1>2

\* The MCU goes on behind answer a.
LEMMA Answered ==
    ASSUME OrderInv, NEW a \in Commands, Ahead(handled, a) \in 1..Open,
           acked' = Later(a), handled' = handled
    PROVE  Open' = Ahead(handled, a) - 1 /\ Open' \in Nat /\ Open' <= Open
  <1>1. /\ SeqMod \in Nat \ {0} /\ Window \in Nat /\ Window < SeqMod /\ Open \in 0..SeqMod - 1
        /\ handled \in 0..SeqMod - 1 /\ a \in 0..SeqMod - 1 /\ handled \in Commands
    BY Numbers DEF OrderInv
  <1>2. Later(a) \in Commands /\ Later(a) \in 0..SeqMod - 1
    BY LaterCommand, Numbers DEF OrderInv
  <1>3. /\ Ahead(handled, a) = IF handled < a THEN handled - a + SeqMod ELSE handled - a
        /\ Later(a) = IF a = SeqMod - 1 THEN 0 ELSE a + 1
    BY <1>1, AheadIs DEF OrderInv
  <1>4. Ahead(handled, Later(a)) = IF handled < Later(a) THEN handled - Later(a) + SeqMod
                                   ELSE handled - Later(a)
    BY <1>1, <1>2, AheadIs DEF OrderInv
  <1>5. Open' = Ahead(handled, Later(a))
    BY DEF Open
  <1>6. Ahead(handled, Later(a)) = Ahead(handled, a) - 1
    BY <1>1, <1>2, <1>3, <1>4
  <1> QED BY <1>1, <1>5, <1>6

\* What waits in a fifo is queued there.
LEMMA IsQueued ==
    ASSUME NEW f, NEW k \in 0..Count(f) - 1
    PROVE  Nth(f, k) \in Queued(f)
  BY DEF Nth, Queued, Count

LEMMA TxDoneReceive == ASSUME OrderInv, TxDone PROVE ReceiveInv'
  <1>1. CASE txBuf \in Commands
    <2>1. Ahead(handled, txBuf) \in 1..Open
      BY <1>1 DEF OrderInv, AnswerInv, TxDone, Due
    <2>2. acked' = Later(txBuf) /\ handled' = handled
      BY <1>1 DEF TxDone
    <2> QED BY <1>1, <2>1, <2>2, Answered, ReceiveKept DEF TxDone
  <1>2. CASE txBuf \notin Commands
    BY <1>2, OpenKept, ReceiveKept DEF TxDone
  <1> QED BY <1>1, <1>2

\* Only the answer to a command that was handled is given up.
LEMMA GivenUp ==
    ASSUME OrderInv, GiveUpAnswer
    PROVE  /\ Open' = Open - 1 /\ Open' \in Nat /\ Open' <= Open
           /\ acked \in Commands /\ acked \notin Queued(tx)
           /\ uart # "idle" => txBuf # acked
  <1>1. /\ sent # acked /\ rcv # acked /\ acked \notin Queued(rx)
        /\ acked \notin Queued(tx) /\ (uart # "idle" => txBuf # acked)
        /\ acked' = Later(acked) /\ handled' = handled
    BY DEF GiveUpAnswer, OnTheWay
  <1>2. /\ SeqMod \in Nat \ {0} /\ handled \in 0..SeqMod - 1 /\ acked \in 0..SeqMod - 1
        /\ acked \in Commands /\ handled \in Commands /\ Open \in Nat /\ Count(rx) \in Nat
    BY Numbers DEF OrderInv
  <1>3. Mod(handled + 0, SeqMod) = handled
    BY <1>2, ModIs
  <1>4. Open # 0
    <2> SUFFICES ASSUME Open = 0 PROVE FALSE
      OBVIOUS
    <2>1. handled = acked
      BY <1>2, AheadIs DEF OrderInv, Open
    <2>2. CASE Count(rx) > 0
      <3>1. 0 \in 0..Count(rx) - 1
        BY <1>2, <2>2
      <3>2. Nth(rx, 0) = handled
        BY <1>3, <3>1 DEF OrderInv, ReceiveInv
      <3> QED BY <1>1, <2>1, <3>1, <3>2, IsQueued
    <2>3. CASE Count(rx) = 0 /\ rcv # None
      <3>1. rcv = Mod(handled + 0, SeqMod)
        BY <2>3 DEF OrderInv, ReceiveInv
      <3> QED BY <1>1, <1>3, <2>1, <3>1
    <2>4. CASE Count(rx) = 0 /\ rcv = None
      <3>1. sent = Mod(handled + 0 + 0, SeqMod)
        BY <2>4 DEF OrderInv, ReceiveInv, Arriving
      <3>2. handled + 0 + 0 = handled + 0
        BY <1>2
      <3> QED BY <1>1, <1>3, <2>1, <3>1, <3>2
    <2> QED BY <1>2, <2>2, <2>3, <2>4
  <1>5. Ahead(handled, acked) \in 1..Open /\ Ahead(handled, acked) = Open
    BY <1>2, <1>4 DEF Open
  <1> QED BY <1>1, <1>2, <1>5, Answered

LEMMA GiveUpAnswerReceive == ASSUME OrderInv, GiveUpAnswer PROVE ReceiveInv'
  BY GivenUp, ReceiveKept DEF GiveUpAnswer

\* The answers are the same ones.
LEMMA AnswerKept ==
    ASSUME OrderInv, UNCHANGED <<tx, txBuf, handled>>,
           \A k \in 0..Count(tx) - 1 : Due(Nth(tx, k)) => Due(Nth(tx, k))',
           uart' # "idle" => uart # "idle" /\ (Due(txBuf) => Due(txBuf)'),
           pc' = "send" => pc = "send", pc' = "handle" => Waiting(rx')
    PROVE  AnswerInv'
  <1>1. Count(tx') = Count(tx) /\ MyFifoGet(tx') = MyFifoGet(tx)
        /\ \A k : Nth(tx', k) = Nth(tx, k)
    OBVIOUS
  <1>2. \A m, n : Before(m, n) => Before(m, n)'
    BY DEF Before
  <1>3. \A k \in 0..Count(tx') - 1 : Due(Nth(tx, k))'
    BY <1>1 DEF OrderInv, AnswerInv
  <1> QED BY <1>1, <1>2, <1>3 DEF OrderInv, AnswerInv

\* What waits is a message.
LEMMA NthMessage ==
    ASSUME NEW num \in {RxNum, TxNum}, NEW f \in Fifos(num), NEW k \in Nat
    PROVE  Nth(f, k) \in Messages
  <1>1. (f.r + k) % num \in 0..num - 1 /\ f.num = num
    BY Slots, Pointers
  <1>2. f.slot \in [0..num - 1 -> Messages]
    BY DEF Fifos
  <1> QED BY <1>1, <1>2 DEF Nth

\* A message that is put behind the others is due after them.
LEMMA AnswerQueued ==
    ASSUME OrderInv, NEW m \in Messages, HciSendData(m), UNCHANGED <<uart, txBuf>>,
           \A n \in Messages : Due(n) => Due(n)',
           \A j, n \in Messages : Due(j) /\ Due(n) /\ Before(j, n) => Before(j, n)',
           Due(m)', \A n \in Messages : Due(n) => Before(n, m)',
           pc' # "send", pc' # "handle"
    PROVE  AnswerInv'
  <1> DEFINE c == Count(tx)
  <1>1. /\ c \in Nat /\ TxNum \in Nat /\ c <= TxNum /\ txBuf \in Messages
        /\ \A k \in 0..c - 1 : Nth(tx, k) \in Messages
    <2>1. c \in Nat /\ TxNum \in Nat /\ c <= TxNum /\ txBuf \in Messages /\ tx \in Fifos(TxNum)
      BY Numbers DEF OrderInv, AnswerInv
    <2>2. \A k \in 0..c - 1 : Nth(tx, k) \in Messages
      BY <2>1, NthMessage
    <2> QED BY <2>1, <2>2
  <1>2. /\ \A k \in 0..c - 1 : Due(Nth(tx, k))
        /\ \A j, k \in 0..c - 1 : j < k => Before(Nth(tx, j), Nth(tx, k))
        /\ uart # "idle" => Due(txBuf) /\ \A k \in 0..c - 1 : Before(txBuf, Nth(tx, k))
    BY DEF OrderInv, AnswerInv
  <1> HIDE DEF c
  <1>3. PICK d \in {c, c + 1} :
            /\ Count(tx') = d /\ d <= TxNum
            /\ d = c + 1 => Nth(tx', c) = m
            /\ \A k \in 0..c - 1 : Nth(tx', k) = Nth(tx, k)
    <2>1. \/ tx' = tx
          \/ /\ Count(tx') = c + 1 /\ Count(tx') <= TxNum /\ Nth(tx', c) = m
             /\ \A k \in 0..c - 1 : Nth(tx', k) = Nth(tx, k)
      BY <1>1, Queueing DEF OrderInv, c
    <2> QED BY <1>1, <2>1 DEF c
  <1>4. \A k \in 0..d - 1 : IF k = c THEN d = c + 1 ELSE k \in 0..c - 1
    BY <1>1
  <1>5. \A k \in 0..Count(tx)' - 1 : Due(Nth(tx, k))'
    <2> SUFFICES ASSUME NEW k \in 0..d - 1
                 PROVE  Due(Nth(tx, k))'
      BY <1>3
    <2>1. CASE k = c
      BY <1>3, <1>4, <2>1
    <2>2. CASE k # c
      <3>1. PICK n \in Messages : n = Nth(tx, k) /\ Nth(tx', k) = n /\ Due(n)
        BY <1>1, <1>2, <1>3, <1>4, <2>2
      <3>2. Due(n)'
        BY <3>1
      <3> QED BY <3>1, <3>2 DEF Due
    <2> QED BY <2>1, <2>2
  <1>6. \A j, k \in 0..Count(tx)' - 1 : j < k => Before(Nth(tx, j), Nth(tx, k))'
    <2> SUFFICES ASSUME NEW j \in 0..d - 1, NEW k \in 0..d - 1, j < k
                 PROVE  Before(Nth(tx, j), Nth(tx, k))'
      BY <1>3
    <2>1. j \in 0..c - 1
      BY <1>1, <1>3
    <2>2. PICK i \in Messages : i = Nth(tx, j) /\ Nth(tx', j) = i /\ Due(i)
      BY <1>1, <1>2, <1>3, <2>1
    <2>3. PICK n \in Messages : Nth(tx', k) = n /\ Before(i, n)'
      <3>1. CASE k = c
        BY <1>3, <1>4, <2>2, <3>1
      <3>2. CASE k # c
        <4>1. PICK n \in Messages : n = Nth(tx, k) /\ Nth(tx', k) = n /\ Due(n)
          BY <1>1, <1>2, <1>3, <1>4, <3>2
        <4>2. Before(i, n)
          BY <1>2, <1>4, <2>1, <2>2, <3>2, <4>1
        <4> QED BY <2>2, <4>1, <4>2
      <3> QED BY <3>1, <3>2
    <2> QED BY <2>2, <2>3 DEF Before
  <1>7. (uart # "idle")' => /\ Due(txBuf)'
                            /\ \A k \in 0..Count(tx)' - 1 : Before(txBuf, Nth(tx, k))'
    <2> SUFFICES ASSUME uart # "idle"
                 PROVE  Due(txBuf)' /\ \A k \in 0..d - 1 : Before(txBuf, Nth(tx, k))'
      BY <1>3
    <2>1. PICK i \in Messages : i = txBuf /\ txBuf' = i /\ Due(i)
      BY <1>1, <1>2
    <2>2. Due(txBuf)'
      <3>1. Due(i)'
        BY <2>1
      <3> QED BY <2>1, <3>1 DEF Due
    <2>3. ASSUME NEW k \in 0..d - 1
          PROVE  Before(txBuf, Nth(tx, k))'
      <3>1. PICK n \in Messages : Nth(tx', k) = n /\ Before(i, n)'
        <4>1. CASE k = c
          BY <1>3, <1>4, <2>1, <4>1
        <4>2. CASE k # c
          <5>1. PICK n \in Messages : n = Nth(tx, k) /\ Nth(tx', k) = n /\ Due(n)
            BY <1>1, <1>2, <1>3, <1>4, <4>2
          <5>2. Before(i, n)
            BY <1>2, <1>4, <2>1, <4>2, <5>1
          <5> QED BY <2>1, <5>1, <5>2
        <4> QED BY <4>1, <4>2
      <3> QED BY <2>1, <3>1 DEF Before
    <2> QED BY <2>2, <2>3
  <1>8. Count(tx)' <= TxNum
    BY <1>3
  <1> QED BY <1>5, <1>6, <1>7, <1>8 DEF AnswerInv

LEMMA UartHandlerAnswer == ASSUME OrderInv, UartHandler PROVE AnswerInv'
  <1>1. PICK m \in Messages : m = MyFifoGet(rx)
    BY Numbers, FifoKept DEF OrderInv
  <1>2. m = handled /\ Open < Window /\ handled \in Commands
    BY <1>1, NextFrame, Numbers DEF OrderInv, AnswerInv, UartHandler
  <1>3. /\ HciSendData(m) /\ handled' = Later(handled) /\ UNCHANGED <<uart, txBuf, acked>>
        /\ pc' = "sdk"
    BY <1>1 DEF UartHandler, mcu
  <1>4. /\ Open' = Open + 1 /\ Ahead(handled', m) = 1
        /\ \A n \in Messages : Due(n) => Due(n)' /\ (n \in Commands => Ahead(handled', n) > 1)
        /\ \A j, n \in Messages : Due(j) /\ Due(n) /\ Before(j, n) => Before(j, n)'
    BY <1>2, <1>3, Handled DEF OrderInv
  <1>5. Due(m)'
    BY <1>4, Numbers DEF OrderInv, Due, Commands
  <1>6. \A n \in Messages : Due(n) => Before(n, m)'
    BY <1>4 DEF Before
  <1> QED BY <1>3, <1>4, <1>5, <1>6, AnswerQueued

LEMMA EventHandlerAnswer == ASSUME OrderInv, EventHandler PROVE AnswerInv'
  <1>1. /\ HciSendData(Event) /\ UNCHANGED <<uart, txBuf, handled, acked>> /\ pc' = "sdk"
    BY DEF EventHandler, mcu
  <1>2. Event \in Messages /\ Event \notin Commands
    BY Numbers DEF OrderInv, Messages
  <1>3. \A n : (Due(n) => Due(n)') /\ \A j : Before(j, n) => Before(j, n)'
    BY <1>1 DEF Due, Before, Open
  <1>4. Due(Event)' /\ \A n : Before(n, Event)'
    BY <1>2 DEF Due, Before
  <1> QED BY <1>1, <1>2, <1>3, <1>4, AnswerQueued

\* The oldest message waits for the pin, ...
LEMMA TxToUartAnswer == ASSUME OrderInv, TxToUart PROVE AnswerInv'
  <1>1. /\ UNCHANGED <<rx, tx, uart, handled, acked>> /\ uart = "idle" /\ pc' = "send"
        /\ txBuf' = MyFifoGet(tx)
    BY DEF TxToUart, mcu
  <1>2. \A n, j : (Due(n) => Due(n)') /\ (Before(j, n) => Before(j, n)')
    BY <1>1 DEF Due, Before, Open
  <1>3. /\ Count(tx)' = Count(tx) /\ MyFifoGet(tx)' = MyFifoGet(tx)
        /\ \A k : Nth(tx, k)' = Nth(tx, k)
    BY <1>1
  <1>4. \A k \in 0..Count(tx)' - 1 : Due(Nth(tx, k))'
    BY <1>1, <1>3 DEF OrderInv, AnswerInv, Due, Open
  <1>5. \A j, k \in 0..Count(tx)' - 1 : j < k => Before(Nth(tx, j), Nth(tx, k))'
    BY <1>1, <1>3 DEF OrderInv, AnswerInv, Before
  <1> QED BY <1>1, <1>3, <1>4, <1>5 DEF OrderInv, AnswerInv

\* ... and is the one that is sent.
LEMMA UartSendAnswer == ASSUME OrderInv, UartSend PROVE AnswerInv'
  <1> DEFINE c == Count(tx)
  <1>1. /\ UNCHANGED <<rx, txBuf, handled, acked>> /\ tx' = MyFifoPop(tx) /\ pc' = "sdk"
        /\ pc = "send" /\ Waiting(tx) /\ txBuf = MyFifoGet(tx) /\ tx \in Fifos(TxNum)
    BY Numbers DEF UartSend, mcu, OrderInv, AnswerInv, IInv, SendInv
  <1>2. /\ c \in Nat \ {0} /\ c <= TxNum /\ TxNum \in Nat /\ txBuf = Nth(tx, 0)
        /\ Count(tx') = c - 1
        /\ \A k \in 0..c - 2 : Nth(tx', k) = Nth(tx, k + 1)
    BY <1>1, Pop, FirstOf, Numbers DEF OrderInv, AnswerInv
  <1>3. /\ \A k \in 0..c - 1 : Due(Nth(tx, k))
        /\ \A j, k \in 0..c - 1 : j < k => Before(Nth(tx, j), Nth(tx, k))
    BY DEF OrderInv, AnswerInv
  <1> HIDE DEF c
  <1>4. \A n, j : (Due(n) => Due(n)') /\ (Before(j, n) => Before(j, n)')
    BY <1>1 DEF Due, Before, Open
  <1>5. \A k \in 0..Count(tx)' - 1 : Due(Nth(tx, k))'
    <2> SUFFICES ASSUME NEW k \in 0..c - 2
                 PROVE  Due(Nth(tx, k))'
      BY <1>2
    <2>1. PICK n : n = Nth(tx, k + 1) /\ Nth(tx', k) = n /\ Due(n)
      BY <1>2, <1>3
    <2>2. Due(n)'
      BY <1>4, <2>1
    <2> QED BY <2>1, <2>2 DEF Due
  <1>6. \A j, k \in 0..Count(tx)' - 1 : j < k => Before(Nth(tx, j), Nth(tx, k))'
    <2> SUFFICES ASSUME NEW j \in 0..c - 2, NEW k \in 0..c - 2, j < k
                 PROVE  Before(Nth(tx, j), Nth(tx, k))'
      BY <1>2
    <2>1. PICK i, n : Nth(tx', j) = i /\ Nth(tx', k) = n /\ Before(i, n)
      BY <1>2, <1>3
    <2>2. Before(i, n)'
      BY <1>4, <2>1
    <2> QED BY <2>1, <2>2 DEF Before
  <1>7. Due(txBuf)'
    <2>1. PICK n : n = txBuf /\ txBuf' = n /\ Due(n)
      BY <1>1, <1>2, <1>3
    <2>2. Due(n)'
      BY <1>4, <2>1
    <2> QED BY <2>1, <2>2 DEF Due
  <1>8. \A k \in 0..Count(tx)' - 1 : Before(txBuf, Nth(tx, k))'
    <2> SUFFICES ASSUME NEW k \in 0..c - 2
                 PROVE  Before(txBuf, Nth(tx, k))'
      BY <1>2
    <2>1. PICK i, n : txBuf' = i /\ Nth(tx', k) = n /\ Before(i, n)
      BY <1>1, <1>2, <1>3
    <2>2. Before(i, n)'
      BY <1>4, <2>1
    <2> QED BY <2>1, <2>2 DEF Before
  <1>9. Count(tx)' <= TxNum
    BY <1>2
  <1> QED BY <1>1, <1>5, <1>6, <1>7, <1>8, <1>9 DEF AnswerInv

\* The MCU has the answer; those behind it are still due.
LEMMA TxDoneAnswer == ASSUME OrderInv, TxDone PROVE AnswerInv'
  <1>1. /\ UNCHANGED <<rx, tx, txBuf, pc, handled>> /\ uart = "tail" /\ uart' = "idle"
        /\ acked' = IF txBuf \in Commands THEN Later(txBuf) ELSE acked
    BY DEF TxDone
  <1>2. /\ Due(txBuf)
        /\ \A k \in 0..Count(tx) - 1 : Due(Nth(tx, k)) /\ Before(txBuf, Nth(tx, k))
    BY <1>1 DEF OrderInv, AnswerInv
  <1>3. (\A k : Nth(tx, k)' = Nth(tx, k)) /\ (pc' = "handle" => Waiting(rx'))
    BY <1>1 DEF OrderInv, AnswerInv
  <1>4. ASSUME NEW k \in 0..Count(tx) - 1
        PROVE  Due(Nth(tx, k))'
    <2>1. PICK n : n = Nth(tx, k) /\ Nth(tx, k)' = n /\ Due(n) /\ Before(txBuf, n)
      BY <1>2, <1>3
    <2>2. CASE txBuf \in Commands /\ n \in Commands
      <3>1. Ahead(handled, txBuf) \in 1..Open /\ Ahead(handled, n) \in 1..Open
            /\ Ahead(handled, n) < Ahead(handled, txBuf)
        BY <1>2, <2>1, <2>2 DEF Due, Before
      <3>2. Open' = Ahead(handled, txBuf) - 1
        BY <1>1, <2>2, <3>1, Answered
      <3>3. Ahead(handled, n) \in 1..Open'
        BY <3>1, <3>2, Numbers DEF OrderInv, Commands
      <3> QED BY <1>1, <2>1, <3>3 DEF Due
    <2>3. CASE txBuf \notin Commands
      BY <1>1, <2>1, <2>3 DEF Due, Open
    <2>4. CASE n \notin Commands
      BY <2>1, <2>4 DEF Due
    <2> QED BY <2>2, <2>3, <2>4
  <1> QED BY <1>1, <1>3, <1>4, AnswerKept

LEMMA GiveUpAnswerAnswer == ASSUME OrderInv, GiveUpAnswer PROVE AnswerInv'
  <1>1. /\ UNCHANGED <<rx, tx, txBuf, uart, pc, handled>>
        /\ Open' = Open - 1 /\ Open' \in Nat /\ acked \in Commands /\ handled \in Commands
        /\ Open \in Nat /\ acked \notin Queued(tx) /\ (uart # "idle" => txBuf # acked)
    BY GivenUp, Numbers DEF OrderInv, GiveUpAnswer
  <1>2. ASSUME NEW n, Due(n), n # acked
        PROVE  Due(n)'
    <2>1. CASE n \in Commands
      <3>1. Ahead(handled, n) # Open
        <4>1. /\ SeqMod \in Nat \ {0} /\ handled \in 0..SeqMod - 1 /\ acked \in 0..SeqMod - 1
              /\ n \in 0..SeqMod - 1
          BY <1>1, <2>1, Numbers DEF OrderInv
        <4>2. /\ Ahead(handled, n) = IF handled < n THEN handled - n + SeqMod ELSE handled - n
              /\ Open = IF handled < acked THEN handled - acked + SeqMod ELSE handled - acked
          BY <1>1, <2>1, AheadIs DEF OrderInv, Open
        <4> QED BY ONLY <4>1, <4>2, n # acked, <1>2
      <3>2. Ahead(handled, n) \in 1..Open'
        BY <1>1, <1>2, <2>1, <3>1 DEF Due
      <3> QED BY <1>1, <3>2 DEF Due
    <2>2. CASE n \notin Commands
      BY <2>2 DEF Due
    <2> QED BY <2>1, <2>2
  <1>3. ASSUME NEW k \in 0..Count(tx) - 1, Due(Nth(tx, k))
        PROVE  Due(Nth(tx, k))'
    <2>1. PICK n : n = Nth(tx, k) /\ Nth(tx', k) = n /\ Due(n) /\ n # acked
      BY <1>1, <1>3, IsQueued
    <2>2. Due(n)'
      BY <1>2, <2>1
    <2> QED BY <2>1, <2>2 DEF Due
  <1>4. uart # "idle" /\ Due(txBuf) => Due(txBuf)'
    <2> SUFFICES ASSUME uart # "idle", Due(txBuf)
                 PROVE  Due(txBuf)'
      OBVIOUS
    <2>1. PICK n : n = txBuf /\ txBuf' = n /\ Due(n) /\ n # acked
      BY <1>1
    <2>2. Due(n)'
      BY <1>2, <2>1
    <2> QED BY <2>1, <2>2 DEF Due
  <1>5. pc' = "handle" => Waiting(rx')
    BY <1>1 DEF OrderInv, AnswerInv
  <1> QED BY <1>1, <1>3, <1>4, <1>5, AnswerKept

\* What happens to the frames leaves the answers alone.
LEMMA RxIrqAnswer == ASSUME OrderInv, RxIrq PROVE AnswerInv'
  <1>1. /\ UNCHANGED <<tx, txBuf, uart, pc, handled, acked>>
        /\ rx' = MyFifoNext([rx EXCEPT !.slot[WriteSlot(rx)] = rcv]) /\ rcv # None
    BY DEF RxIrq, mcu
  <1>2. \A n : Due(n) => Due(n)'
    BY <1>1 DEF Due, Open
  <1>3. Waiting(rx')
    <2>1. /\ Count(rx) < RxNum /\ rx \in Fifos(RxNum) /\ rcv \in Messages /\ Count(rx) \in Nat
      BY <1>1, Numbers DEF OrderInv, ReceiveInv, Arriving, Messages, Commands
    <2>2. Count(rx') > 0
      BY <1>1, <2>1, Put
    <2>3. rx' \in Fifos(RxNum)
      BY <1>1, <2>1, FifoKept
    <2> QED BY <2>2, <2>3, FirstOf
  <1>4. /\ \A k \in 0..Count(tx) - 1 : Due(Nth(tx, k)) => Due(Nth(tx, k))'
        /\ Due(txBuf) => Due(txBuf)'
    BY <1>1 DEF Due, Open, Nth
  <1> QED BY <1>1, <1>3, <1>4, AnswerKept

LEMMA SendCommandAnswer == ASSUME OrderInv, SendCommand PROVE AnswerInv'
  <1>1. /\ UNCHANGED <<tx, txBuf, uart, pc, handled, acked>>
        /\ rx' = [rx EXCEPT !.slot[WriteSlot(rx)] = Partial]
    BY DEF SendCommand
  <1>2. /\ \A k \in 0..Count(tx) - 1 : Due(Nth(tx, k)) => Due(Nth(tx, k))'
        /\ Due(txBuf) => Due(txBuf)'
    BY <1>1 DEF Due, Open, Nth
  <1>3. Waiting(rx') <=> Waiting(rx)
    BY <1>1, Numbers DEF OrderInv, Waiting, Fifos
  <1>4. pc' = "handle" => Waiting(rx')
    BY <1>1, <1>3 DEF OrderInv, AnswerInv
  <1> QED BY <1>1, <1>2, <1>4, AnswerKept

\* A start of the module and of its MCU.
LEMMA Started ==
    ASSUME rx = EmptyFifo(RxNum), tx = EmptyFifo(TxNum), rcv = None, uart = "idle", pc = "sdk",
           sent = 0, acked = 0, handled = 0
    PROVE  ReceiveInv /\ AnswerInv
  <1>1. /\ RxNum \in Nat /\ TxNum \in Nat /\ SeqMod \in Nat \ {0} /\ Window \in Nat
        /\ PtrMod \in Nat \ {0}
    BY UartAssumption
  <1>2. Mod(0, PtrMod) = 0 /\ Mod(0, SeqMod) = 0
    BY <1>1, ModIs
  <1>3. Count(rx) = 0 /\ Count(tx) = 0 /\ Open = 0
    BY <1>2 DEF EmptyFifo, Count, Open, Ahead, Mod
  <1>4. ReceiveInv
    BY <1>1, <1>2, <1>3 DEF ReceiveInv, Arriving
  <1>5. AnswerInv
    BY <1>1, <1>3 DEF AnswerInv
  <1> QED BY <1>4, <1>5

LEMMA RestartModuleOrder == ASSUME RestartModule PROVE ReceiveInv' /\ AnswerInv'
  <1>1. /\ RxNum \in Nat /\ TxNum \in Nat /\ SeqMod \in Nat \ {0} /\ Window \in Nat
        /\ PtrMod \in Nat \ {0}
    BY UartAssumption
  <1>2. Mod(0, PtrMod) = 0 /\ Mod(0, SeqMod) = 0
    BY <1>1, ModIs
  <1>3. Count(rx') = 0 /\ Count(tx') = 0 /\ Open' = 0
    BY <1>2 DEF RestartModule, EmptyFifo, Count, Open, Ahead, Mod
  <1>4. ReceiveInv'
    BY <1>1, <1>2, <1>3 DEF RestartModule, ReceiveInv, Arriving
  <1>5. AnswerInv'
    BY <1>1, <1>3 DEF RestartModule, AnswerInv
  <1> QED BY <1>4, <1>5

\* Everything else leaves the fifos, the commands and the answers as they are.
LEMMA OrderKept ==
    ASSUME OrderInv, UNCHANGED <<rx, tx, rcv, txBuf, sent, acked, handled>>,
           uart' # "idle" => uart # "idle", pc' = "send" => pc = "send",
           pc' = "handle" => Waiting(rx)
    PROVE  ReceiveInv' /\ AnswerInv'
  <1>1. ReceiveInv'
    BY OpenKept, ReceiveKept
  <1>2. /\ \A k \in 0..Count(tx) - 1 : Due(Nth(tx, k)) => Due(Nth(tx, k))'
        /\ Due(txBuf) => Due(txBuf)'
    BY DEF Due, Open, Nth
  <1>3. AnswerInv'
    BY <1>2, AnswerKept
  <1> QED BY <1>1, <1>3

\* The commands and their answers stay in order.
THEOREM OrderInvariant == Spec => []OrderInv
  <1>1. Init => ReceiveInv /\ AnswerInv
    BY Started DEF Init, ModuleInit
  <1>2. OrderInv /\ IInv' /\ [Next]_vars => ReceiveInv' /\ AnswerInv'
    <2> SUFFICES ASSUME OrderInv, [Next]_vars
                 PROVE  ReceiveInv' /\ AnswerInv'
      OBVIOUS
    <2>1. CASE RxFromUart \/ Suspend \/ WakeUp \/ SdkDone \/ LowerWakeupMcu
               \/ AppPowerManagement
      <3>1. /\ UNCHANGED <<rx, tx, rcv, txBuf, uart, sent, acked, handled>> /\ pc' # "send"
            /\ pc' = "handle" => Waiting(rx)
        BY <2>1 DEF RxFromUart, Suspend, WakeUp, SdkDone, LowerWakeupMcu,
           AppPowerManagement, mcu
      <3> QED BY <3>1, OrderKept
    <2>2. CASE TxIrq \/ WakeTime \/ TickOver \/ RaisePin \/ LowerPin \/ UNCHANGED vars
      <3>1. /\ UNCHANGED <<rx, tx, rcv, txBuf, sent, acked, handled, pc>>
            /\ uart' # "idle" => uart # "idle"
        BY <2>2 DEF TxIrq, WakeTime, TickOver, RaisePin, LowerPin, mcu, vars
      <3>2. pc' = "handle" => Waiting(rx)
        BY <3>1 DEF OrderInv, AnswerInv
      <3> QED BY <3>1, <3>2, OrderKept
    <2>3. CASE TxToUart \/ UartSend \/ EventHandler
      <3>1. UNCHANGED <<rx, rcv, sent, acked, handled>>
        BY <2>3 DEF TxToUart, UartSend, EventHandler, mcu
      <3>2. ReceiveInv'
        BY <3>1, OpenKept, ReceiveKept
      <3> QED BY <2>3, <3>2, TxToUartAnswer, UartSendAnswer, EventHandlerAnswer
    <2>4. CASE UartHandler \/ RestartModule
      BY <2>4, UartHandlerReceive, UartHandlerAnswer, RestartModuleOrder
    <2>5. CASE RxIrq \/ TxDone
      BY <2>5, RxIrqReceive, RxIrqAnswer, TxDoneReceive, TxDoneAnswer
    <2>6. CASE SendCommand \/ GiveUpAnswer
      BY <2>6, SendCommandReceive, SendCommandAnswer, GiveUpAnswerReceive, GiveUpAnswerAnswer
    <2> QED BY <2>1, <2>2, <2>3, <2>4, <2>5, <2>6 DEF Next, Main, Interrupts, Mcu
  <1> QED BY <1>1, <1>2, Invariant, PTL DEF Spec, OrderInv

\* bls_uart_handler gets every command once, whole and in the order sent, with as
\* many commands on their way as the window allows.
THEOREM InOrder == Spec => HandledInOrder
  <1>1. OrderInv /\ [Next]_vars => [pc = "handle" /\ pc' = "sdk" => MyFifoGet(rx) = handled]_vars
    BY NextFrame DEF OrderInv, AnswerInv
  <1> QED BY <1>1, OrderInvariant, PTL DEF Spec, HandledInOrder

=============================================================================
