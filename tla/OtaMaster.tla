------------------------------ MODULE OtaMaster ------------------------------
(***************************************************************************)
(* The KMA dongle as master of a slave's firmware update                   *)
(* (vendor/826x_master_kma_dongle/app_ota.c, with app.c:1111-1146): a      *)
(* state machine polled by main_idle_loop that changes the connection      *)
(* parameters, looks up the OTA handle of the slave, and sends it the      *)
(* firmware in order.                                                      *)
(*                                                                         *)
(* Poll is proc_ota; the parameter updates follow it in the same pass of   *)
(* the loop.  The link, the controller's update procedure, its Tx queue    *)
(* and the slave are the environment.  The 20 s of OTA_TIMEOUT_S and the   *)
(* 50 ms behind the start command may be over at any poll.                 *)
(***************************************************************************)
EXTENDS Integers, Sequences

CONSTANTS
    Size,      \* n_firmware of the two firmwares, in packets of 16 bytes
    MaxSize,   \* FW_SIZE_MAX
    TxMax,     \* packets sent ahead: 4
    Queue      \* packets the Tx queue of the library takes

ASSUME OtaAssumption ==
    /\ Size \in [1..2 -> Nat \ {0}]
    /\ MaxSize \in Nat /\ TxMax \in Nat \ {0} /\ Queue \in Nat /\ TxMax <= Queue

VARIABLES
    cmd,       \* master_ota_cmd
    start,     \* host_ota_start
    pending,   \* host_ota_update_pending
    fw,        \* flash_adr_ota_master: the firmware that is sent
    adr,       \* ota_adr, in packets
    otaHandle, \* slave_ota_handle: the connection it was read in
    conn,      \* number of the connection, 0 when there is none
    polled,    \* the loss of the last connection was seen by a poll
    busy,      \* att_serviceDiscovery_busy
    req,       \* host_update_conn_param_req
    upd,       \* the update the controller is about to complete
    asked,     \* the slave has the read_by_type request to answer
    tx,        \* packets in the Tx queue of the connection
    got,       \* history: OTA packets the slave received in the connection,
               \* from the last start command on
    result     \* history: the last ota_set_result, with the firmware sent

ota == <<cmd, start, pending, fw, adr, otaHandle>>
air == <<conn, polled, busy, req, upd, asked, tx, got>>
vars == <<ota, air, result>>

\* Packets: the start command, a block of a firmware, the end with its index.
StartPacket == <<"start">>
Block(f, a) == <<"data", f, a>>
EndPacket(a) == <<"end", a>>

\* What a slave has to have received of firmware f.
Image(f) ==
    [i \in 1..Size[f] + 2 |->
        IF i = 1 THEN StartPacket
        ELSE IF i = Size[f] + 2 THEN EndPacket(Size[f] - 1)
        ELSE Block(f, i - 2)]

----------------------------------------------------------------------------
Init ==
    /\ cmd = 0 /\ start = 0 /\ pending = 0 /\ fw = 1 /\ adr = 0 /\ otaHandle = 0
    /\ conn = 0 /\ polled = TRUE /\ busy = FALSE /\ req = FALSE
    /\ upd = "none" /\ asked = FALSE
    /\ tx = <<>> /\ got = <<>>
    /\ result = <<"none", 0>>

----------------------------------------------------------------------------
\* host_button_trigger_ota_start: a key chooses the firmware, at any time.
Trigger(k) ==
    /\ conn # 0
    /\ cmd' = k
    /\ UNCHANGED <<start, pending, fw, adr, otaHandle, air, result>>

\* Mutant of SetResult: the pending parameter update is not given up.
SetResultKeepsPending(r) ==
    /\ start' = 0
    /\ cmd' = 0
    /\ pending' = pending
    /\ result' = r

SetResult(r) ==
    /\ start' = 0
    /\ cmd' = 0
    /\ pending' = 0
    /\ result' = r

\* Every poll sees whether there is a connection.
Polls == polled' = TRUE /\ UNCHANGED <<conn, busy, req, upd, asked, got>>

\* Mutants of MustGiveUp: the loss of the connection is not looked at; there is
\* no timeout.
MustGiveUpLate(late) == start # 0 /\ late
MustGiveUpLost(late) == start # 0 /\ conn = 0

\* Before anything else proc_ota looks at the timeout and the connection.
MustGiveUp(late) == start # 0 /\ (late \/ conn = 0)

GiveUp ==
    /\ SetResult(<<"fail", fw>>)
    /\ Polls
    /\ UNCHANGED <<fw, adr, otaHandle, tx>>

Idle ==
    /\ start = 0 /\ cmd = 0
    /\ Polls
    /\ UNCHANGED <<ota, tx, result>>

\* A firmware was chosen: its size is read and tested.
Begin ==
    /\ start = 0 /\ cmd # 0
    /\ fw' = cmd
    /\ IF Size[cmd] > MaxSize
         THEN SetResult(<<"fail", cmd>>)
         ELSE /\ start' = 1 /\ pending' = 1
              /\ UNCHANGED <<cmd, result>>
    /\ Polls
    /\ UNCHANGED <<adr, otaHandle, tx>>

\* States 1, 3 and 5 wait; the wait of state 5 ends by itself.
Wait(over) ==
    /\ start \in {1, 3, 5}
    /\ start' = IF start = 5 /\ over THEN 6 ELSE start
    /\ Polls
    /\ UNCHANGED <<cmd, pending, fw, adr, otaHandle, tx, result>>

\* The request for the OTA handle; `ok` is the answer of blm_push_fifo.
AskHandle(ok) ==
    /\ start = 2
    /\ start' = IF ok THEN 3 ELSE start
    /\ asked' = (asked \/ ok)
    /\ polled' = TRUE
    /\ UNCHANGED <<cmd, pending, fw, adr, otaHandle, conn, busy, req, upd, got, tx, result>>

SendStart(ok) ==
    /\ start = 4
    /\ ok => Len(tx) < Queue
    /\ adr' = 0
    /\ start' = IF ok THEN 5 ELSE start
    /\ tx' = IF ok THEN Append(tx, StartPacket) ELSE tx
    /\ Polls
    /\ UNCHANGED <<cmd, pending, fw, otaHandle, result>>

\* Mutant of SendData: the address advances over a packet the queue refused.
SendDataSkips(ok) ==
    /\ start = 6
    /\ Len(tx) < TxMax
    /\ LET last == adr >= Size[fw]
           packet == IF last THEN EndPacket(adr - 1) ELSE Block(fw, adr)
       IN  /\ tx' = IF ok THEN Append(tx, packet) ELSE tx
           /\ adr' = IF last THEN adr ELSE adr + 1
           /\ start' = IF ok /\ last THEN 7 ELSE start
    /\ Polls
    /\ UNCHANGED <<cmd, pending, fw, otaHandle, result>>

\* A block, or the end command behind the last one.  ota_adr advances in both
\* cases; its value is not used once the end is sent.
SendData(ok) ==
    /\ start = 6
    /\ Len(tx) < TxMax
    /\ LET last == adr >= Size[fw]
           packet == IF last THEN EndPacket(adr - 1) ELSE Block(fw, adr)
       IN  /\ tx' = IF ok THEN Append(tx, packet) ELSE tx
           /\ adr' = IF ok THEN adr + 1 ELSE adr
           /\ start' = IF ok /\ last THEN 7 ELSE start
    /\ Polls
    /\ UNCHANGED <<cmd, pending, fw, otaHandle, result>>

\* The Tx queue is not short enough.
HoldBack ==
    /\ \/ start = 6 /\ Len(tx) >= TxMax
       \/ start = 7 /\ tx # <<>>
    /\ Polls
    /\ UNCHANGED <<ota, tx, result>>

\* Mutant of Finish: the queue may still hold packets.
FinishEarly ==
    /\ start = 7
    /\ SetResult(<<"ok", fw>>)
    /\ Polls
    /\ UNCHANGED <<fw, adr, otaHandle, tx>>

\* Everything was acknowledged.
Finish ==
    /\ start = 7
    /\ tx = <<>>
    /\ SetResult(<<"ok", fw>>)
    /\ Polls
    /\ UNCHANGED <<fw, adr, otaHandle, tx>>

Continue ==
    \/ Idle \/ Begin
    \/ \E over \in BOOLEAN : Wait(over)
    \/ \E ok \in BOOLEAN : AskHandle(ok) \/ SendStart(ok) \/ SendData(ok)
    \/ HoldBack \/ Finish

Poll ==
    \E late \in BOOLEAN :
        \/ MustGiveUp(late) /\ GiveUp
        \/ ~MustGiveUp(late) /\ Continue

\* main_idle_loop asks the controller for the OTA parameters when no other
\* update is waiting.  Its answer is not looked at: the controller may be busy
\* with the update of the slave.
UpdateForOta(ok) ==
    /\ pending = 1 /\ ~req /\ ~busy /\ conn # 0
    /\ upd = "none" => ok
    /\ pending' = 2
    /\ upd' = IF ok THEN "ota" ELSE upd
    /\ UNCHANGED <<cmd, start, fw, adr, otaHandle, conn, polled, busy, req, asked, tx, got, result>>

\* The update the slave asked for (app.c:1119-1128).
UpdateForSlave ==
    /\ req /\ ~busy
    /\ req' = FALSE
    /\ upd' = IF conn # 0 /\ upd = "none" THEN "slave" ELSE upd
    /\ UNCHANGED <<ota, conn, polled, busy, asked, tx, got, result>>

----------------------------------------------------------------------------
\* The environment: external but for the handlers it calls.

\* HCI_SUB_EVT_LE_CONNECTION_UPDATE_COMPLETE and host_ota_update_conn_complete,
\* which looks at the parameters only: the slave may have asked for the same.
UpdateComplete(same) ==
    /\ upd # "none"
    /\ upd' = "none"
    /\ IF pending = 2 /\ (upd = "ota" \/ same)
         THEN pending' = 0 /\ start' = IF start = 1 THEN 2 ELSE start
         ELSE UNCHANGED <<pending, start>>
    /\ UNCHANGED <<cmd, fw, adr, otaHandle, conn, polled, busy, req, asked, tx, got, result>>

\* The slave answers, and host_find_slave_ota_attHandle reads the handle.
HandleAnswer ==
    /\ asked
    /\ asked' = FALSE
    /\ IF start = 3
         THEN otaHandle' = conn /\ start' = 4
         ELSE UNCHANGED <<otaHandle, start>>
    /\ UNCHANGED <<cmd, pending, fw, adr, conn, polled, busy, req, upd, tx, got, result>>

\* The slave refuses: nothing is done with the error response.
HandleRefused ==
    /\ asked
    /\ asked' = FALSE
    /\ UNCHANGED <<ota, conn, polled, busy, req, upd, tx, got, result>>

\* A packet is delivered and acknowledged.
Deliver ==
    /\ tx # <<>>
    /\ tx' = Tail(tx)
    /\ got' = IF Head(tx) = StartPacket THEN <<StartPacket>> ELSE Append(got, Head(tx))
    /\ UNCHANGED <<ota, conn, polled, busy, req, upd, asked, result>>

\* A connection is lost: the controller drops its queue and its procedures.
LinkDown ==
    /\ conn # 0
    /\ conn' = 0
    /\ polled' = FALSE
    /\ busy' = FALSE /\ req' = FALSE /\ upd' = "none" /\ asked' = FALSE
    /\ tx' = <<>>
    /\ UNCHANGED <<ota, got, result>>

\* The next connection takes longer to make than one pass of the loop.  Its
\* number tells it from the one before.
LinkUp(discover) ==
    /\ conn = 0 /\ polled
    /\ conn' = IF otaHandle = 1 THEN 2 ELSE 1
    /\ busy' = discover
    /\ got' = <<>>
    /\ UNCHANGED <<ota, polled, req, upd, asked, tx, result>>

DiscoveryEnds ==
    /\ busy
    /\ busy' = FALSE
    /\ UNCHANGED <<ota, conn, polled, req, upd, asked, tx, got, result>>

ParamRequest ==
    /\ conn # 0
    /\ req' = TRUE
    /\ UNCHANGED <<ota, conn, polled, busy, upd, asked, tx, got, result>>

Next ==
    \/ \E k \in 1..2 : Trigger(k)
    \/ Poll
    \/ \E ok \in BOOLEAN : UpdateForOta(ok)
    \/ UpdateForSlave
    \/ \E same \in BOOLEAN : UpdateComplete(same)
    \/ HandleAnswer \/ HandleRefused \/ Deliver
    \/ LinkDown
    \/ \E discover \in BOOLEAN : LinkUp(discover)
    \/ DiscoveryEnds \/ ParamRequest

Spec == Init /\ [][Next]_vars

\* The loop polls for ever, and the clock it reads runs.
FairSpec == Spec /\ WF_vars(MustGiveUp(TRUE) /\ GiveUp)

----------------------------------------------------------------------------
\* The types of the variables.  The parameter update of an update that is over
\* does not go on (app.c:1133).
TypeOK ==
    /\ cmd \in 0..2 /\ start \in 0..7 /\ pending \in 0..2 /\ fw \in 1..2
    /\ adr \in Nat /\ (start >= 5 => adr <= Size[fw] + 1)
    /\ otaHandle \in 0..2 /\ conn \in 0..2
    /\ {polled, busy, req, asked} \subseteq BOOLEAN
    /\ upd \in {"none", "ota", "slave"}
    /\ Len(tx) <= Queue /\ (pending # 0 => start = 1)
    /\ result[1] \in {"none", "ok", "fail"} /\ result[2] \in 0..2

\* The dongle reports success only when the slave it is connected to received
\* the start command, every block of the chosen firmware in order, and the end.
SuccessMeansReceived ==
    [][start # 0 /\ start' = 0 /\ result'[1] = "ok" => got = Image(fw)]_vars

\* No firmware is sent to a handle that was read from another slave.
HandleOfThisSlave == start >= 4 /\ conn # 0 => otaHandle = conn

\* Every update comes to an end, also when the answer to the parameter update,
\* to the request for the handle or to a packet never comes.
OtaEnds == start # 0 ~> start = 0
=============================================================================
