--------------------------- MODULE DongleHostProofs ---------------------------
(***************************************************************************)
(* For any devices and any size of the bond table: what one slave answers, *)
(* asks for or is bonded as is never used for another, and an unpaired     *)
(* slave stays away.                                                       *)
(***************************************************************************)
EXTENDS DongleHost, TLAPS

\* The controller and the host agree on the device they talk to.
LinkInv ==
    /\ handle => link = "conn"
    /\ link \in {"initiate", "complete", "conn"} => peer \in Device /\ curAdr = peer

\* A device that is about to be bonded is not in the table yet.
PairingInv ==
    /\ BondedOnce
    /\ link \in {"initiate", "complete"} /\ ~auto => ~Bonded(peer)

\* An answer that is to come is the answer of the slave that is connected, and
\* one that has come is used before a report of another slave is taken.
AnswerInv ==
    /\ asked => link = "conn"
    /\ disc = "wait" /\ reqBusy /\ asked => heard \subseteq {peer}
    /\ disc = "wait" /\ ~reqBusy => /\ curAdr \in Device /\ heard = {curAdr}
                                    /\ pc = "sdk" => link \in {"conn", "rescan"}

\* After an unpairing there is no bond, no connection under way, and no key.
AwayInv == away => table = <<>> /\ ~pairing /\ link \in {"conn", "rescan", "scan"}

IInv ==
    /\ TypeOK /\ LinkInv /\ PairingInv /\ AnswerInv /\ AwayInv
    /\ ResponseBufferLive /\ HandlersOfSavedDevice /\ UpdateForItsSlave

\* A device that is not in the table goes behind the bonds of others; a full table
\* gives up its oldest row.
LEMMA AddBond ==
    ASSUME TypeOK, NEW d \in Device, ~Bonded(d), table' = Add(table, d)
    PROVE  /\ table' \in Seq(Device \cup {Absent}) /\ Len(table') <= MaxSlaves
           /\ BondedOnce'
  <1>1. /\ table \in Seq(Device \cup {Absent}) /\ Len(table) <= MaxSlaves /\ Len(table) \in Nat
        /\ MaxSlaves \in Nat \ {0} /\ \A k \in 1..Len(table) : table[k] # d
        /\ \A i, j \in 1..Len(table) : table[i] = table[j] => i = j
    BY HostAssumption DEF TypeOK, BondedOnce, Bonded
  <1>2. CASE Len(table) >= MaxSlaves
    <2> DEFINE t == Tail(table)
    <2>1. /\ t \in Seq(Device \cup {Absent}) /\ Len(t) = Len(table) - 1
          /\ \A k \in 1..Len(t) : t[k] = table[k + 1]
      BY <1>1, <1>2
    <2>2. table' = Append(t, d)
      BY <1>2 DEF Add
    <2> HIDE DEF t
    <2>3. /\ table' \in Seq(Device \cup {Absent}) /\ Len(table') = Len(table)
          /\ \A k \in 1..Len(t) : table'[k] = table[k + 1]
          /\ table'[Len(table)] = d
      BY <1>1, <1>2, <2>1, <2>2
    <2> QED BY <1>1, <1>2, <2>1, <2>3, SMTT(20) DEF BondedOnce
  <1>3. CASE Len(table) < MaxSlaves
    <2>1. table' = Append(table, d)
      BY <1>1, <1>3 DEF Add
    <2>2. /\ table' \in Seq(Device \cup {Absent}) /\ Len(table') = Len(table) + 1
          /\ \A k \in 1..Len(table) : table'[k] = table[k]
          /\ table'[Len(table) + 1] = d
      BY <1>1, <2>1
    <2> QED BY <1>1, <1>3, <2>2 DEF BondedOnce
  <1> QED BY <1>1, <1>2, <1>3

----------------------------------------------------------------------------
(***************************************************************************)
(* One lemma for each action: the step keeps every conjunct of IInv.       *)
(***************************************************************************)

LEMMA AdvReportStep ==
    ASSUME IInv, NEW d \in Device, NEW near \in BOOLEAN, AdvReport(d, near)
    PROVE  IInv'
  <1>1. TypeOK'
    BY DEF IInv, TypeOK, BondedOnce, Bonded, AdvReport, discVars, keyVars
  <1>2. LinkInv'
    BY DEF IInv, LinkInv, AdvReport, discVars, keyVars
  <1>3. PairingInv'
    BY DEF IInv, PairingInv, BondedOnce, Bonded, LinkInv, AdvReport, discVars, keyVars
  <1>4. AnswerInv'
    BY DEF IInv, AnswerInv, LinkInv, AdvReport, discVars, keyVars
  <1>5. AwayInv'
    BY DEF IInv, AwayInv, Bonded, TypeOK, LinkInv, AdvReport, discVars, keyVars
  <1>6. UpdateForItsSlave'
    BY DEF IInv, UpdateForItsSlave, AdvReport, discVars, keyVars
  <1>7. ResponseBufferLive' /\ HandlersOfSavedDevice'
    BY DEF IInv, ResponseBufferLive, HandlersOfSavedDevice, AdvReport, discVars, keyVars
  <1> QED BY <1>1, <1>2, <1>3, <1>4, <1>5, <1>6, <1>7 DEF IInv

LEMMA ConnectionCompleteStep ==
    ASSUME IInv, ConnectionComplete
    PROVE  IInv'
  <1>1. TypeOK'
    BY DEF IInv, TypeOK, BondedOnce, ConnectionComplete, discVars, pairVars, keyVars
  <1>2. LinkInv'
    BY DEF IInv, LinkInv, ConnectionComplete, discVars, pairVars, keyVars
  <1>3. PairingInv'
    BY DEF IInv, PairingInv, BondedOnce, Bonded, ConnectionComplete, discVars, pairVars,
       keyVars
  <1>4. AnswerInv'
    BY DEF IInv, AnswerInv, ConnectionComplete, discVars, pairVars, keyVars
  <1>5. AwayInv'
    BY DEF IInv, AwayInv, ConnectionComplete, discVars, pairVars, keyVars
  <1>6. UpdateForItsSlave'
    BY DEF IInv, UpdateForItsSlave, ConnectionComplete, discVars, pairVars, keyVars
  <1>7. ResponseBufferLive' /\ HandlersOfSavedDevice'
    BY DEF IInv, ResponseBufferLive, HandlersOfSavedDevice, ConnectionComplete,
       discVars, pairVars, keyVars
  <1> QED BY <1>1, <1>2, <1>3, <1>4, <1>5, <1>6, <1>7 DEF IInv

LEMMA ConnectionEstablishStep ==
    ASSUME IInv, ConnectionEstablish
    PROVE  IInv'
  <1>1. TypeOK'
    <2>1. peer \in Device
      BY DEF IInv, LinkInv, ConnectionEstablish
    <2>2. /\ table' \in Seq(Device \cup {Absent}) /\ Len(table') <= MaxSlaves
          /\ BondedOnce'
      <3>1. CASE manual /\ ~auto
        BY <2>1, <3>1, AddBond DEF IInv, PairingInv, ConnectionEstablish
      <3>2. CASE ~(manual /\ ~auto)
        BY <3>2 DEF IInv, TypeOK, BondedOnce, ConnectionEstablish
      <3> QED BY <3>1, <3>2
    <2>3. /\ handle' \in BOOLEAN /\ sdBusy' \in BOOLEAN /\ service' \in BOOLEAN
          /\ tried' \in BOOLEAN
      BY DEF IInv, TypeOK, ConnectionEstablish
    <2> QED BY <2>2, <2>3 DEF IInv, TypeOK, ConnectionEstablish, keyVars
  <1>2. LinkInv'
    BY DEF IInv, LinkInv, ConnectionEstablish, keyVars
  <1>3. PairingInv'
    BY <1>1 DEF TypeOK, PairingInv, ConnectionEstablish
  <1>4. AnswerInv'
    BY DEF IInv, AnswerInv, ConnectionEstablish, keyVars
  <1>5. AwayInv'
    BY DEF IInv, AwayInv, ConnectionEstablish, keyVars
  <1>6. UpdateForItsSlave'
    BY DEF IInv, UpdateForItsSlave, ConnectionEstablish, keyVars
  <1>7. ResponseBufferLive' /\ HandlersOfSavedDevice'
    BY DEF IInv, ResponseBufferLive, HandlersOfSavedDevice, ConnectionEstablish, keyVars
  <1> QED BY <1>1, <1>2, <1>3, <1>4, <1>5, <1>6, <1>7 DEF IInv

LEMMA DisconnectStep ==
    ASSUME IInv, Disconnect
    PROVE  IInv'
  <1>1. TypeOK'
    BY DEF IInv, TypeOK, BondedOnce, Disconnect, pairVars, keyVars
  <1>2. LinkInv'
    BY DEF IInv, LinkInv, Disconnect, pairVars, keyVars
  <1>3. PairingInv'
    BY DEF IInv, PairingInv, BondedOnce, Bonded, Disconnect, pairVars, keyVars
  <1>4. AnswerInv'
    BY DEF IInv, AnswerInv, Disconnect, pairVars, keyVars
  <1>5. AwayInv'
    BY DEF IInv, AwayInv, Disconnect, pairVars, keyVars
  <1>6. UpdateForItsSlave'
    BY DEF IInv, UpdateForItsSlave, Disconnect, pairVars, keyVars
  <1>7. ResponseBufferLive' /\ HandlersOfSavedDevice'
    BY DEF IInv, ResponseBufferLive, HandlersOfSavedDevice, Disconnect, pairVars,
       keyVars
  <1> QED BY <1>1, <1>2, <1>3, <1>4, <1>5, <1>6, <1>7 DEF IInv

LEMMA ParamRequestStep ==
    ASSUME IInv, NEW ok \in BOOLEAN, ParamRequest(ok)
    PROVE  IInv'
  <1>1. TypeOK'
    BY DEF IInv, TypeOK, BondedOnce, LinkInv, ParamRequest, linkVars, discVars,
       pairVars, keyVars
  <1>2. UpdateForItsSlave'
    BY DEF IInv, UpdateForItsSlave, LinkInv, ParamRequest, linkVars, discVars, pairVars,
       keyVars
  <1>3. LinkInv' /\ PairingInv' /\ AnswerInv' /\ AwayInv' /\ ResponseBufferLive' /\ HandlersOfSavedDevice'
    BY DEF IInv, LinkInv, PairingInv, AnswerInv, AwayInv, ResponseBufferLive,
       HandlersOfSavedDevice, BondedOnce, Bonded, ParamRequest, linkVars, discVars,
       pairVars, keyVars
  <1> QED BY <1>1, <1>2, <1>3 DEF IInv

LEMMA AttAnswerStep ==
    ASSUME IInv, AttAnswer
    PROVE  IInv'
  <1>1. TypeOK'
    <2>1. peer \in Device
      BY DEF IInv, LinkInv, AttAnswer
    <2>2. heard' \in SUBSET Device
      BY <2>1 DEF IInv, TypeOK, AttAnswer
    <2>3. asked' \in BOOLEAN /\ reqBusy' \in BOOLEAN
      BY DEF IInv, TypeOK, AttAnswer
    <2>4. /\ pc' = pc /\ link' = link /\ table' = table /\ disc' = disc
          /\ {peer, curAdr, sdAdr, update}' = {peer, curAdr, sdAdr, update}
          /\ handlersOf' = handlersOf
      BY DEF AttAnswer, linkVars, pairVars, keyVars
    <2> QED BY <2>2, <2>3, <2>4 DEF IInv, TypeOK, BondedOnce, AttAnswer, linkVars, pairVars, keyVars
  <1>2. AnswerInv'
    BY DEF IInv, AnswerInv, LinkInv, ResponseBufferLive, AttAnswer, linkVars, pairVars,
       keyVars
  <1>3. LinkInv' /\ PairingInv' /\ AwayInv' /\ ResponseBufferLive' /\ HandlersOfSavedDevice' /\ UpdateForItsSlave'
    BY DEF IInv, LinkInv, PairingInv, AwayInv, ResponseBufferLive,
       HandlersOfSavedDevice, UpdateForItsSlave, BondedOnce, Bonded, AttAnswer,
       linkVars, pairVars, keyVars
  <1> QED BY <1>1, <1>2, <1>3 DEF IInv

LEMMA SdkDoneStep ==
    ASSUME IInv, SdkDone
    PROVE  IInv'
  <1>1. TypeOK'
    BY DEF IInv, TypeOK, BondedOnce, SdkDone, discVars, pairVars, keyVars
  <1>2. LinkInv'
    BY DEF IInv, LinkInv, SdkDone, discVars, pairVars, keyVars
  <1>3. PairingInv'
    BY DEF IInv, PairingInv, BondedOnce, Bonded, SdkDone, discVars, pairVars, keyVars
  <1>4. AnswerInv'
    BY DEF IInv, AnswerInv, SdkDone, discVars, pairVars, keyVars
  <1>5. AwayInv'
    BY DEF IInv, AwayInv, SdkDone, discVars, pairVars, keyVars
  <1>6. UpdateForItsSlave'
    BY DEF IInv, UpdateForItsSlave, SdkDone, discVars, pairVars, keyVars
  <1>7. ResponseBufferLive' /\ HandlersOfSavedDevice'
    BY DEF IInv, ResponseBufferLive, HandlersOfSavedDevice, SdkDone, discVars, pairVars,
       keyVars
  <1> QED BY <1>1, <1>2, <1>3, <1>4, <1>5, <1>6, <1>7 DEF IInv

LEMMA ButtonStep ==
    ASSUME IInv, NEW p \in BOOLEAN, NEW u \in BOOLEAN, Button(p, u)
    PROVE  IInv'
  <1>1. TypeOK'
    BY DEF IInv, TypeOK, BondedOnce, Button, linkVars, discVars, pairVars
  <1>2. AnswerInv'
    BY DEF IInv, AnswerInv, Button, linkVars, discVars, pairVars
  <1>3. AwayInv'
    BY DEF IInv, AwayInv, Button, linkVars, discVars, pairVars
  <1>4. LinkInv' /\ PairingInv' /\ ResponseBufferLive' /\ HandlersOfSavedDevice' /\ UpdateForItsSlave'
    BY DEF IInv, LinkInv, PairingInv, ResponseBufferLive, HandlersOfSavedDevice,
       UpdateForItsSlave, BondedOnce, Bonded, Button, linkVars, discVars, pairVars
  <1> QED BY <1>1, <1>2, <1>3, <1>4 DEF IInv

LEMMA UnpairStep ==
    ASSUME IInv, NEW ok \in BOOLEAN, Unpair(ok)
    PROVE  IInv'
  <1>1. TypeOK'
    BY HostAssumption DEF IInv, TypeOK, BondedOnce, Unpair, linkVars, discVars, keyVars
  <1>2. PairingInv'
    BY DEF IInv, PairingInv, BondedOnce, Bonded, LinkInv, Unpair, linkVars, discVars,
       keyVars
  <1>3. AnswerInv'
    BY DEF IInv, AnswerInv, Unpair, linkVars, discVars, keyVars
  <1>4. AwayInv'
    BY DEF IInv, AwayInv, LinkInv, Unpair, linkVars, discVars, keyVars
  <1>5. LinkInv' /\ ResponseBufferLive' /\ HandlersOfSavedDevice' /\ UpdateForItsSlave'
    BY DEF IInv, LinkInv, ResponseBufferLive, HandlersOfSavedDevice, UpdateForItsSlave,
       Unpair, linkVars, discVars, keyVars
  <1> QED BY <1>1, <1>2, <1>3, <1>4, <1>5 DEF IInv

LEMMA UpdateConnectionStep ==
    ASSUME IInv, NEW late \in BOOLEAN, UpdateConnection(late)
    PROVE  IInv'
  <1>1. TypeOK'
    BY DEF IInv, TypeOK, BondedOnce, UpdateConnection, linkVars, discVars, pairVars,
       keyVars
  <1>2. AnswerInv'
    BY DEF IInv, AnswerInv, UpdateConnection, linkVars, discVars, pairVars, keyVars
  <1>3. UpdateForItsSlave'
    BY DEF IInv, UpdateForItsSlave, UpdateConnection, linkVars, discVars, pairVars,
       keyVars
  <1>4. LinkInv' /\ PairingInv' /\ AwayInv' /\ ResponseBufferLive' /\ HandlersOfSavedDevice'
    BY DEF IInv, LinkInv, PairingInv, AwayInv, ResponseBufferLive,
       HandlersOfSavedDevice, BondedOnce, Bonded, UpdateConnection, linkVars, discVars,
       pairVars, keyVars
  <1> QED BY <1>1, <1>2, <1>3, <1>4 DEF IInv

LEMMA NoServiceStep ==
    ASSUME IInv, NoService
    PROVE  IInv'
  <1>1. TypeOK'
    BY DEF IInv, TypeOK, BondedOnce, NoService, linkVars, discVars, pairVars, keyVars
  <1>2. AnswerInv'
    BY DEF IInv, AnswerInv, NoService, linkVars, discVars, pairVars, keyVars
  <1>3. LinkInv' /\ PairingInv' /\ AwayInv' /\ ResponseBufferLive' /\ HandlersOfSavedDevice' /\ UpdateForItsSlave'
    BY DEF IInv, LinkInv, PairingInv, AwayInv, ResponseBufferLive,
       HandlersOfSavedDevice, UpdateForItsSlave, BondedOnce, Bonded, NoService,
       linkVars, discVars, pairVars, keyVars
  <1> QED BY <1>1, <1>2, <1>3 DEF IInv

LEMMA StartDiscoveryStep ==
    ASSUME IInv, StartDiscovery
    PROVE  IInv'
  <1>1. TypeOK'
    BY DEF IInv, TypeOK, BondedOnce, StartDiscovery, Ask, linkVars, pairVars, keyVars
  <1>2. AnswerInv'
    BY DEF IInv, AnswerInv, StartDiscovery, Ask, linkVars, pairVars, keyVars
  <1>3. ResponseBufferLive'
    BY DEF IInv, ResponseBufferLive, StartDiscovery, Ask, linkVars, pairVars, keyVars
  <1>4. LinkInv' /\ PairingInv' /\ AwayInv' /\ HandlersOfSavedDevice' /\ UpdateForItsSlave'
    BY DEF IInv, LinkInv, PairingInv, AwayInv, HandlersOfSavedDevice, UpdateForItsSlave,
       BondedOnce, Bonded, StartDiscovery, Ask, linkVars, pairVars, keyVars
  <1> QED BY <1>1, <1>2, <1>3, <1>4 DEF IInv

LEMMA AskNextStep ==
    ASSUME IInv, AskNext
    PROVE  IInv'
  <1>1. TypeOK'
    BY DEF IInv, TypeOK, BondedOnce, AskNext, Ask, linkVars, pairVars, keyVars
  <1>2. AnswerInv'
    BY DEF IInv, AnswerInv, LinkInv, AskNext, Ask, linkVars, pairVars, keyVars
  <1>3. ResponseBufferLive'
    BY DEF IInv, ResponseBufferLive, AskNext, Ask, linkVars, pairVars, keyVars
  <1>4. LinkInv' /\ PairingInv' /\ AwayInv' /\ HandlersOfSavedDevice' /\ UpdateForItsSlave'
    BY DEF IInv, LinkInv, PairingInv, AwayInv, HandlersOfSavedDevice, UpdateForItsSlave,
       BondedOnce, Bonded, AskNext, Ask, linkVars, pairVars, keyVars
  <1> QED BY <1>1, <1>2, <1>3, <1>4 DEF IInv

LEMMA WaitOnStep ==
    ASSUME IInv, WaitOn
    PROVE  IInv'
  <1>1. TypeOK'
    BY DEF IInv, TypeOK, BondedOnce, WaitOn, linkVars, discVars, pairVars, keyVars
  <1>2. AnswerInv'
    BY DEF IInv, AnswerInv, WaitOn, linkVars, discVars, pairVars, keyVars
  <1>3. LinkInv' /\ PairingInv' /\ AwayInv' /\ ResponseBufferLive' /\ HandlersOfSavedDevice' /\ UpdateForItsSlave'
    BY DEF IInv, LinkInv, PairingInv, AwayInv, ResponseBufferLive,
       HandlersOfSavedDevice, UpdateForItsSlave, BondedOnce, Bonded, WaitOn, linkVars,
       discVars, pairVars, keyVars
  <1> QED BY <1>1, <1>2, <1>3 DEF IInv

LEMMA DiscoveryDoneStep ==
    ASSUME IInv, DiscoveryDone
    PROVE  IInv'
  <1>1. TypeOK'
    BY DEF IInv, TypeOK, BondedOnce, AnswerInv, DiscoveryDone, Ended, linkVars,
       pairVars, keyVars
  <1>2. AnswerInv'
    BY DEF IInv, AnswerInv, DiscoveryDone, Ended, linkVars, pairVars, keyVars
  <1>3. ResponseBufferLive'
    BY DEF IInv, ResponseBufferLive, DiscoveryDone, Ended, linkVars, pairVars, keyVars
  <1>4. HandlersOfSavedDevice'
    BY DEF IInv, HandlersOfSavedDevice, AnswerInv, DiscoveryDone, Ended, linkVars,
       pairVars, keyVars
  <1>5. LinkInv' /\ PairingInv' /\ AwayInv' /\ UpdateForItsSlave'
    BY DEF IInv, LinkInv, PairingInv, AwayInv, UpdateForItsSlave, BondedOnce, Bonded,
       DiscoveryDone, Ended, linkVars, pairVars, keyVars
  <1> QED BY <1>1, <1>2, <1>3, <1>4, <1>5 DEF IInv

LEMMA DiscoveryTimeoutStep ==
    ASSUME IInv, DiscoveryTimeout
    PROVE  IInv'
  <1>1. TypeOK'
    BY DEF IInv, TypeOK, BondedOnce, DiscoveryTimeout, Ended, linkVars, pairVars,
       keyVars
  <1>2. AnswerInv'
    BY DEF IInv, AnswerInv, DiscoveryTimeout, Ended, linkVars, pairVars, keyVars
  <1>3. ResponseBufferLive'
    BY DEF IInv, ResponseBufferLive, DiscoveryTimeout, Ended, linkVars, pairVars,
       keyVars
  <1>4. HandlersOfSavedDevice'
    BY DEF IInv, HandlersOfSavedDevice, DiscoveryTimeout, Ended, linkVars, pairVars,
       keyVars
  <1>5. LinkInv' /\ PairingInv' /\ AwayInv' /\ UpdateForItsSlave'
    BY DEF IInv, LinkInv, PairingInv, AwayInv, UpdateForItsSlave, BondedOnce, Bonded,
       DiscoveryTimeout, Ended, linkVars, pairVars, keyVars
  <1> QED BY <1>1, <1>2, <1>3, <1>4, <1>5 DEF IInv

----------------------------------------------------------------------------

\* The link, the pairing, the answers of the discovery and the handles stay with the
\* device they belong to, in every reachable state.
THEOREM Invariant == Spec => []IInv
  <1>1. Init => IInv
    <2> SUFFICES ASSUME Init
                 PROVE  IInv
      OBVIOUS
    <2>1. table \in Seq(Device \cup {Absent}) /\ Len(table) \in 0..1
      <3>1. CASE table = <<>>
        BY <3>1
      <3>2. ASSUME NEW d \in Device \cup {Absent}, table = <<d>>
            PROVE  table \in Seq(Device \cup {Absent}) /\ Len(table) \in 0..1
        BY <3>2
      <3> QED BY <3>1, <3>2 DEF Init
    <2>2. BondedOnce
      BY <2>1 DEF BondedOnce
    <2>3. Len(table) <= MaxSlaves
      BY <2>1, HostAssumption
    <2>4. TypeOK
      BY <2>1, <2>2, <2>3 DEF Init, TypeOK
    <2>5. LinkInv /\ PairingInv /\ AnswerInv /\ AwayInv
      BY <2>2 DEF Init, LinkInv, PairingInv, AnswerInv, AwayInv
    <2> QED BY <2>4, <2>5 DEF Init, IInv, ResponseBufferLive, HandlersOfSavedDevice,
         UpdateForItsSlave
  <1>2. IInv /\ [Next]_vars => IInv'
    <2> SUFFICES ASSUME IInv, [Next]_vars
                 PROVE  IInv'
      OBVIOUS
    <2>1. CASE Loop
      BY <2>1, SdkDoneStep, ButtonStep, UnpairStep, UpdateConnectionStep, NoServiceStep,
         StartDiscoveryStep, AskNextStep, WaitOnStep, DiscoveryDoneStep, DiscoveryTimeoutStep
         DEF Loop
    <2>2. CASE Air
      BY <2>2, AdvReportStep, ConnectionCompleteStep, ConnectionEstablishStep, DisconnectStep,
         ParamRequestStep, AttAnswerStep DEF Air
    <2>3. CASE UNCHANGED vars
      BY <2>3 DEF vars, linkVars, discVars, pairVars, keyVars, IInv, TypeOK, LinkInv, PairingInv,
         AnswerInv, AwayInv, Bonded, BondedOnce, ResponseBufferLive, HandlersOfSavedDevice,
         UpdateForItsSlave
    <2> QED BY <2>1, <2>2, <2>3 DEF Next
  <1> QED BY <1>1, <1>2, PTL DEF Spec

\* The types of the variables; no device is bonded twice.
THEOREM TypeCorrect == Spec => []TypeOK
  BY Invariant, PTL DEF IInv

\* No answer is copied into the stack frame of a discovery that is over.
THEOREM BufferIsLive == Spec => []ResponseBufferLive
  BY Invariant, PTL DEF IInv

\* The handles saved with an address are those of the device with that address.
THEOREM HandlersAreOfTheirDevice == Spec => []HandlersOfSavedDevice
  BY Invariant, PTL DEF IInv

\* Parameters are applied to the connection of the slave that asked for them.
THEOREM UpdateIsForItsSlave == Spec => []UpdateForItsSlave
  BY Invariant, PTL DEF IInv

\* An unpaired slave is not connected again before the pairing key is pressed.
THEOREM StaysAway == Spec => UnpairedStaysAway
  <1>1. IInv /\ [Next]_vars => [away /\ away' => ~(link # "conn" /\ link' = "conn")]_vars
    <2> SUFFICES ASSUME IInv, Next, away, link # "conn"
                 PROVE  link' # "conn"
      OBVIOUS
    <2>1. link \in {"rescan", "scan"}
      BY DEF IInv, AwayInv
    <2> QED BY <2>1 DEF Next, Loop, Air, SdkDone, Button, Unpair, UpdateConnection, NoService,
       StartDiscovery, AskNext, WaitOn, DiscoveryDone, DiscoveryTimeout, Ended, AdvReport,
       ConnectionComplete, ConnectionEstablish, Disconnect, ParamRequest, AttAnswer, linkVars
  <1> QED BY Invariant, <1>1, PTL DEF Spec, UnpairedStaysAway
=============================================================================
