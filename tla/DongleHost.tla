------------------------------ MODULE DongleHost ------------------------------
(***************************************************************************)
(* The host of the KMA dongle: scanning, connecting, pairing, unpairing,   *)
(* service discovery and connection parameter updates                      *)
(* (vendor/826x_master_kma_dongle/app.c:82-128, 584-881, 1044-1169 and     *)
(* app_att.c:55-238).                                                      *)
(*                                                                         *)
(* There is one thread.  main_idle_loop runs the library, which calls      *)
(* app_event_callback and app_l2cap_handler, and then its polls; main_loop *)
(* runs main_idle_loop and then a registered service.  The only service,   *)
(* app_service_discovery, waits for every answer of the slave by running   *)
(* main_idle_loop again: what is a fresh pass of the loop for the link is  *)
(* a nested one for the discovery.  pc is the place in the pass, disc the  *)
(* state of the discovery under way.                                       *)
(*                                                                         *)
(* The bond table is the first-in first-out sequence that BondTable shows  *)
(* it to be.  Times (1 s for an answer, 50 ms before an update) are        *)
(* choices: a timer may expire at any check.                               *)
(***************************************************************************)
EXTENDS Integers, Sequences

CONSTANTS
    Device,      \* addresses of the slaves around
    Absent,      \* the address of a bonded slave that is not
    None,        \* the zero address, no device
    MaxSlaves    \* USER_PAIR_SLAVE_MAX_NUM

ASSUME HostAssumption ==
    /\ MaxSlaves \in Nat \ {0}
    /\ None \notin Device /\ Absent \notin Device

VARIABLES
    pc,        \* place in main_idle_loop, or behind it
    link,      \* state of the controller
    peer,      \* the device it is connected to, or is to connect to
    handle,    \* current_connHandle is valid
    curAdr,    \* current_conn_address
    sdAdr,     \* serviceDiscovery_address
    sdBusy,    \* att_serviceDiscovery_busy
    service,   \* main_service is set
    disc,      \* the discovery under way: none, or waiting for an answer
    respBuf,   \* p_att_response points to the buffer of host_att_discoveryService
    reqBusy,   \* host_att_req_busy: the answer is outstanding
    asked,     \* the slave that is connected has a request to answer
    table,     \* user_tbl_slaveMac
    manual, auto,   \* user_manual_paring, master_auto_connect
    pairing, unpairing,   \* dongle_pairing_enable, dongle_unpair_enable
    leaving,   \* master_disconnect_flag
    update,    \* host_update_conn_param_req and the parameters: who asked for them
    heard,     \* history: slaves whose answers the discovery under way used
    handlersOf,   \* history: slaves whose answers conn_char_handler comes from
    tried,     \* history: a discovery was started in this connection
    away       \* history: unpaired, and no pairing key pressed since

linkVars == <<link, peer, handle>>
discVars == <<sdAdr, sdBusy, service, disc, respBuf, reqBusy, heard, handlersOf>>
pairVars == <<table, manual, auto>>
keyVars == <<pairing, unpairing>>
vars == <<pc, linkVars, curAdr, discVars, asked, pairVars, keyVars, leaving, update,
          tried, away>>

Bonded(d) == \E i \in 1..Len(table) : table[i] = d

\* user_tbl_slave_mac_add, by what BondTable shows of it.
Add(t, d) == Append(IF Len(t) >= MaxSlaves THEN Tail(t) ELSE t, d)

----------------------------------------------------------------------------
Init ==
    /\ pc = "sdk"
    /\ link = "scan" /\ peer = None /\ handle = FALSE
    /\ curAdr = None
    /\ sdAdr = None /\ sdBusy = FALSE /\ service = FALSE
    /\ disc = "none" /\ respBuf = FALSE /\ reqBusy = FALSE
    /\ heard = {} /\ handlersOf = {}
    /\ asked = FALSE
    /\ table \in {<<>>} \cup {<<d>> : d \in Device \cup {Absent}}
    /\ manual = FALSE /\ auto = FALSE
    /\ pairing = FALSE /\ unpairing = FALSE
    /\ leaving = FALSE
    /\ update = None
    /\ tried = FALSE /\ away = FALSE

----------------------------------------------------------------------------
\* blt_sdk_main_loop: the library reports what happened, in any number.

\* An advertising packet while the controller scans.
AdvReport(d, near) ==
    /\ pc = "sdk"
    /\ link = "scan"
    /\ manual' = (pairing /\ near)
    /\ auto' = Bonded(d)
    /\ IF manual' \/ auto'
         THEN link' = "initiate" /\ peer' = d /\ curAdr' = d
         ELSE UNCHANGED <<link, peer, curAdr>>
    /\ UNCHANGED <<pc, handle, discVars, asked, table, keyVars, leaving, update, tried, away>>

\* External: the controller sent its connection request.
ConnectionComplete ==
    /\ pc = "sdk"
    /\ link = "initiate"
    /\ link' = "complete"
    /\ UNCHANGED <<pc, peer, handle, curAdr, discVars, asked, pairVars, keyVars, leaving,
                   update, tried, away>>

\* Mutant of ConnectionEstablish: a bonded device that comes back while the
\* pairing key is pressed is bonded again.
ConnectionEstablishAddsAgain ==
    /\ pc = "sdk"
    /\ link = "complete"
    /\ link' = "conn"
    /\ handle' = TRUE
    /\ IF curAdr # sdAdr
         THEN service' = TRUE /\ sdBusy' = TRUE
         ELSE UNCHANGED <<service, sdBusy>>
    /\ table' = IF manual THEN Add(table, peer) ELSE table
    /\ tried' = FALSE
    /\ UNCHANGED <<pc, peer, curAdr, sdAdr, disc, respBuf, reqBusy, heard, handlersOf, asked,
                   manual, auto, keyVars, leaving, update, away>>

\* The slave answered in time.  A device other than the one discovered last
\* is to be discovered; one paired by hand is bonded.
ConnectionEstablish ==
    /\ pc = "sdk"
    /\ link = "complete"
    /\ link' = "conn"
    /\ handle' = TRUE
    /\ IF curAdr # sdAdr
         THEN service' = TRUE /\ sdBusy' = TRUE
         ELSE UNCHANGED <<service, sdBusy>>
    /\ table' = IF manual /\ ~auto THEN Add(table, peer) ELSE table
    /\ tried' = FALSE
    /\ UNCHANGED <<pc, peer, curAdr, sdAdr, disc, respBuf, reqBusy, heard, handlersOf, asked,
                   manual, auto, keyVars, leaving, update, away>>

\* Mutant of Disconnect: the request for an update outlives the connection.
DisconnectKeepsUpdate ==
    /\ pc = "sdk"
    /\ link \in {"complete", "conn"}
    /\ link' = "rescan" /\ peer' = None /\ handle' = FALSE
    /\ sdBusy' = FALSE
    /\ asked' = FALSE
    /\ UNCHANGED <<pc, curAdr, sdAdr, service, disc, respBuf, reqBusy, heard, handlersOf,
                   pairVars, keyVars, leaving, update, tried, away>>

\* The connection is lost, refused or terminated by either side.  Scanning is
\* enabled again: its first report comes in a later pass.
Disconnect ==
    /\ pc = "sdk"
    /\ link \in {"complete", "conn"}
    /\ link' = "rescan" /\ peer' = None /\ handle' = FALSE
    /\ sdBusy' = FALSE
    /\ update' = None
    /\ asked' = FALSE
    /\ UNCHANGED <<pc, curAdr, sdAdr, service, disc, respBuf, reqBusy, heard, handlersOf,
                   pairVars, keyVars, leaving, tried, away>>

\* The slave asks for connection parameters; `ok` says whether they pass the
\* three tests of app_l2cap_handler.  Others are dropped.
ParamRequest(ok) ==
    /\ pc = "sdk"
    /\ link = "conn"
    /\ update' = IF ok THEN peer ELSE update
    /\ UNCHANGED <<pc, linkVars, curAdr, discVars, asked, pairVars, keyVars, leaving, tried, away>>

\* An answer of the slave.  While the discovery is busy host_att_client_handler
\* copies it to the buffer that waits for it; otherwise it is not looked at.
AttAnswer ==
    /\ pc = "sdk"
    /\ link = "conn" /\ asked
    /\ asked' = FALSE
    /\ IF sdBusy /\ respBuf /\ reqBusy
         THEN reqBusy' = FALSE /\ heard' = heard \cup {peer}
         ELSE UNCHANGED <<reqBusy, heard>>
    /\ UNCHANGED <<pc, linkVars, curAdr, sdAdr, sdBusy, service, disc, respBuf, handlersOf,
                   pairVars, keyVars, leaving, update, tried, away>>

SdkDone ==
    /\ pc = "sdk"
    /\ link' = IF link = "rescan" THEN "scan" ELSE link
    /\ pc' = "button"
    /\ UNCHANGED <<peer, handle, curAdr, discVars, asked, pairVars, keyVars, leaving, update,
                   tried, away>>

----------------------------------------------------------------------------
\* The polls of main_idle_loop.

\* proc_button: a key may set a flag, a release clears both.
Button(p, u) ==
    /\ pc = "button"
    /\ \/ p = pairing /\ u = unpairing
       \/ p /\ ~pairing /\ u = unpairing
       \/ u /\ ~unpairing /\ p = pairing
       \/ ~p /\ ~u
    /\ pairing' = p /\ unpairing' = u
    /\ away' = (away /\ ~p)
    /\ pc' = "unpair"
    /\ UNCHANGED <<linkVars, curAdr, discVars, asked, pairVars, leaving, update, tried>>

\* Mutant of Unpair: the slave is sent away with its bond left in the table.
UnpairKeepsBonds(ok) ==
    /\ pc = "unpair"
    /\ LET now == unpairing /\ ~leaving /\ link \in {"complete", "conn"} /\ handle /\ ok
       IN  /\ leaving' = ((leaving \/ now) /\ link \in {"complete", "conn"})
           /\ table' = table
           /\ away' = IF now THEN ~pairing ELSE away
    /\ pc' = "update"
    /\ UNCHANGED <<linkVars, curAdr, discVars, asked, manual, auto, keyVars, update, tried>>

\* The slave is disconnected, once, and all bonds deleted.  `ok` is the answer
\* of blm_ll_disconnect, which refuses an invalid handle.
Unpair(ok) ==
    /\ pc = "unpair"
    /\ LET now == unpairing /\ ~leaving /\ link \in {"complete", "conn"} /\ handle /\ ok
       IN  /\ leaving' = ((leaving \/ now) /\ link \in {"complete", "conn"})
           /\ table' = IF now THEN <<>> ELSE table
           /\ away' = IF now THEN ~pairing ELSE away
    /\ pc' = "update"
    /\ UNCHANGED <<linkVars, curAdr, discVars, asked, manual, auto, keyVars, update, tried>>

\* The update the slave asked for goes out 50 ms later, not during a discovery.
UpdateConnection(late) ==
    /\ pc = "update"
    /\ update' = IF late /\ ~sdBusy THEN None ELSE update
    /\ pc' = "end"
    /\ UNCHANGED <<linkVars, curAdr, discVars, asked, pairVars, keyVars, leaving, tried, away>>

----------------------------------------------------------------------------
\* main_loop and app_service_discovery.

\* host_att_service_wait_event sends a request; without a connection it is lost.
Ask ==
    /\ reqBusy' = TRUE
    /\ respBuf' = TRUE
    /\ asked' = (link = "conn")
    /\ disc' = "wait"
    /\ pc' = "sdk"

NoService ==
    /\ pc = "end" /\ disc = "none" /\ ~service
    /\ pc' = "sdk"
    /\ UNCHANGED <<linkVars, curAdr, discVars, asked, pairVars, keyVars, leaving, update,
                   tried, away>>

\* main_service is called.
StartDiscovery ==
    /\ pc = "end" /\ disc = "none" /\ service
    /\ Ask
    /\ heard' = {}
    /\ tried' = TRUE
    /\ UNCHANGED <<linkVars, curAdr, sdAdr, sdBusy, service, handlersOf, pairVars, keyVars,
                   leaving, update, away>>

\* The answer came and another request follows it.
AskNext ==
    /\ pc = "end" /\ disc = "wait" /\ ~reqBusy
    /\ Ask
    /\ UNCHANGED <<linkVars, curAdr, sdAdr, sdBusy, service, heard, handlersOf, pairVars,
                   keyVars, leaving, update, tried, away>>

\* No answer yet, and time is not up.
WaitOn ==
    /\ pc = "end" /\ disc = "wait" /\ reqBusy
    /\ pc' = "sdk"
    /\ UNCHANGED <<linkVars, curAdr, discVars, asked, pairVars, keyVars, leaving, update,
                   tried, away>>

\* Mutants of Ended: the buffer of the discovery stays registered; the busy
\* flag stays up; the address is saved for a discovery that failed, too.
EndedKeepsBuffer(success) ==
    /\ IF success
         THEN sdAdr' = curAdr /\ handlersOf' = heard
         ELSE UNCHANGED <<sdAdr, handlersOf>>
    /\ respBuf' = respBuf
    /\ sdBusy' = FALSE
    /\ disc' = "none"
    /\ service' = FALSE
    /\ pc' = "sdk"
    /\ UNCHANGED <<linkVars, curAdr, reqBusy, heard, asked, pairVars, keyVars, leaving, update,
                   tried, away>>

EndedKeepsBusy(success) ==
    /\ IF success
         THEN sdAdr' = curAdr /\ handlersOf' = heard
         ELSE UNCHANGED <<sdAdr, handlersOf>>
    /\ respBuf' = FALSE
    /\ sdBusy' = sdBusy
    /\ disc' = "none"
    /\ service' = FALSE
    /\ pc' = "sdk"
    /\ UNCHANGED <<linkVars, curAdr, reqBusy, heard, asked, pairVars, keyVars, leaving, update,
                   tried, away>>

EndedSavesAlways(success) ==
    /\ sdAdr' = curAdr
    /\ handlersOf' = IF success THEN heard ELSE handlersOf
    /\ respBuf' = FALSE
    /\ sdBusy' = FALSE
    /\ disc' = "none"
    /\ service' = FALSE
    /\ pc' = "sdk"
    /\ UNCHANGED <<linkVars, curAdr, reqBusy, heard, asked, pairVars, keyVars, leaving, update,
                   tried, away>>

\* host_att_discoveryService returns to app_service_discovery, which returns to
\* main_loop, which clears main_service.
Ended(success) ==
    /\ IF success
         THEN sdAdr' = curAdr /\ handlersOf' = heard
         ELSE UNCHANGED <<sdAdr, handlersOf>>
    /\ respBuf' = FALSE
    /\ sdBusy' = FALSE
    /\ disc' = "none"
    /\ service' = FALSE
    /\ pc' = "sdk"
    /\ UNCHANGED <<linkVars, curAdr, reqBusy, heard, asked, pairVars, keyVars, leaving, update,
                   tried, away>>

DiscoveryDone ==
    /\ pc = "end" /\ disc = "wait" /\ ~reqBusy
    /\ Ended(TRUE)

\* The second is over; the clock is looked at before the answer is.
DiscoveryTimeout ==
    /\ pc = "end" /\ disc = "wait"
    /\ Ended(FALSE)

----------------------------------------------------------------------------
\* The thread goes round and round.
Loop ==
    \/ SdkDone
    \/ \E p, u \in BOOLEAN : Button(p, u)
    \/ \E ok \in BOOLEAN : Unpair(ok)
    \/ \E late \in BOOLEAN : UpdateConnection(late)
    \/ NoService \/ StartDiscovery
    \/ AskNext \/ WaitOn \/ DiscoveryDone \/ DiscoveryTimeout

Air ==
    \/ \E d \in Device, near \in BOOLEAN : AdvReport(d, near)
    \/ ConnectionComplete \/ ConnectionEstablish \/ Disconnect
    \/ \E ok \in BOOLEAN : ParamRequest(ok)
    \/ AttAnswer

Next == Loop \/ Air

Spec == Init /\ [][Next]_vars

\* The loop turns; a wait is not checked for ever before its second is over, a
\* slave does not have the dongle ask it for ever.
FairSpec ==
    /\ Spec
    /\ WF_vars(Loop)
    /\ SF_vars(SdkDone)
    /\ SF_vars(reqBusy /\ DiscoveryTimeout)
    /\ SF_vars(DiscoveryDone)

----------------------------------------------------------------------------
\* No device is bonded twice: with one row for each bond, a second record of a
\* device would push another one out (app.c:819).
BondedOnce == \A i, j \in 1..Len(table) : table[i] = table[j] => i = j

\* The types of the variables.
TypeOK ==
    /\ pc \in {"sdk", "button", "unpair", "update", "end"}
    /\ link \in {"scan", "initiate", "complete", "conn", "rescan"}
    /\ {peer, curAdr, sdAdr, update} \subseteq Device \cup {None}
    /\ {handle, sdBusy, service, respBuf, reqBusy, asked, manual, auto, pairing, unpairing,
        leaving, tried, away} \subseteq BOOLEAN
    /\ disc \in {"none", "wait"}
    /\ table \in Seq(Device \cup {Absent}) /\ Len(table) <= MaxSlaves /\ BondedOnce
    /\ {heard, handlersOf} \subseteq SUBSET Device

\* p_att_response is only set while the frame of host_att_discoveryService it
\* points into is alive: no answer is copied over somebody else's stack
\* (app_att.c:63, 96).
ResponseBufferLive == respBuf => disc = "wait"

\* The handles in conn_char_handler are those of the device whose address is
\* saved with them (app.c:94-116), whatever devices came and went while the
\* discovery was waiting.
HandlersOfSavedDevice == sdAdr # None => handlersOf = {sdAdr}

\* Parameters a slave asked for are never applied to the connection of another
\* (app.c:763, 1119-1127).
UpdateForItsSlave == update # None => link = "conn" /\ peer = update

\* After an unpairing nobody gets connected until the pairing key is pressed
\* again: no bond, and no address of an earlier report, lets a device back in
\* (app.c:844, 1095-1103).
UnpairedStaysAway ==
    [][away /\ away' => ~(link # "conn" /\ link' = "conn")]_vars

\* The busy flag, which takes all data of the slave away from the keyboard and
\* the microphone (app.c:600), comes down.
BusyEnds == sdBusy ~> ~sdBusy

\* What app.c:807 says, "new slave device, should do service discovery again":
\* when the loop is outside of a discovery, a device that is connected and is not the
\* one discovered last is about to be discovered, or that was tried.
NewDeviceDiscovered ==
    disc = "none" /\ link = "conn" /\ curAdr # sdAdr => service \/ tried
=============================================================================
