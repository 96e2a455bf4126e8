------------------------------ MODULE UsbControl ------------------------------
(***************************************************************************)
(* Control transfers of the USB device (proj/drivers/usb.c,                *)
(* proj/app/usbaud.c), as the KMA dongle is built: keyboard, mouse and     *)
(* microphone, with the custom report.                                     *)
(*                                                                         *)
(* The main loop polls the interrupt flags of the control endpoint         *)
(* (usb_handle_irq).  A transfer is a SETUP packet, the packets of its     *)
(* data stage and a status stage; the hardware raises a flag for each and  *)
(* answers the PC with NAK until the handler says ACK or STALL.  The PC    *)
(* may give a transfer up, and may reset the bus at any time.              *)
(*                                                                         *)
(* A descriptor is known by its length.  An answer that is not a           *)
(* descriptor fits in one packet, and the PC asks for its length.  A       *)
(* setting is one of the device: the handlers do not look at the interface *)
(* the PC names.  The PC selects interfaces that exist, as                 *)
(* usb_handle_set_intf asserts.                                            *)
(***************************************************************************)
EXTENDS Naturals

CONSTANTS
    DeviceDesc, \* descriptors of the device: device, configuration, strings
    IntfDesc,   \* HID and report descriptors of keyboard and mouse
    Packet,     \* bytes in a packet (8)
    Lengths,    \* lengths the PC asks for
    Short,      \* settings that come with the SETUP packet: g_rate,
                \* usb_mouse_report_proto, usb_alt_intf of an interface
    Long,       \* settings that come in the data stage: mic_setting,
                \* host_keyboard_status (SET_REPORT of a feature), host_cmd (of
                \* the custom report)
    WriteOnly,  \* those that no request reads: the last two
    Fixed,      \* other answers: the sampling frequency, limits of the volume,
                \* the custom report, a zero byte for class request 0
    Value,      \* values of a setting
    Default,    \* the initial one, and the report protocol
    Boot,       \* the boot protocol, which is set before the first reset
    Junk        \* what reading the endpoint gives when no data has come, and
                \* what is in memory after usb_alt_intf

ASSUME UsbAssumption ==
    /\ DeviceDesc \cup IntfDesc \cup Lengths \subseteq Nat \ {0}
    /\ DeviceDesc \cap IntfDesc = {}
    /\ Packet \in Nat \ {0}
    /\ "proto" \in Short /\ "mic" \in Long /\ Short \cap Long = {}
    /\ WriteOnly \subseteq Long /\ "mic" \notin WriteOnly
    /\ Fixed \cap (Short \cup Long) = {}
    /\ {"refused", "ignored", "stray"} \cap (Short \cup Long \cup Fixed) = {}
    /\ {Default, Boot} \subseteq Value /\ Default # Boot /\ Junk \notin Value

VARIABLES
    request, \* control_request
    resp,    \* g_response: the descriptor and the place in it
    respLen, \* g_response_len
    stall,   \* g_stall
    setting, \* the settings
    irq,     \* flags of the control endpoint
    rst,     \* FLD_IRQ_USB_RST_EN
    dat,     \* answer to the data stage: NAK, STALL or ACK
    sta,     \* answer to the status stage
    buf,     \* the endpoint's buffer
    phase,   \* where the PC is in its transfer
    got,     \* bytes it has received, in order and of what it asked for
    fault,   \* it received something else, or a STALL it should not get
    told,    \* what it last set, Junk when it gave the transfer up
    cut      \* it gave up a descriptor half read

driver == <<request, resp, respLen, stall, setting>>
hardware == <<irq, rst, dat, sta, buf>>
host == <<phase, got, fault, told, cut>>
vars == <<driver, hardware, host>>

Setting == Short \cup Long

Unknown == 0

\* The requests of a PC.  "device", "interface" and "report" ask for a
\* descriptor; an unknown one of an interface is a HID descriptor of an
\* interface that has none, or of a type the device does not know, and an
\* unknown "report" a report descriptor.  "stray" is GET_INTERFACE of an
\* interface that does not exist.
\*
\* The requests the device does not know are of two kinds.  Those with a
\* bmRequestType without a case, other requests to set a report, and other
\* class requests to an interface are "refused".  Other standard requests to an
\* interface or to read from the device, other reports to get, the In and Out
\* reports to set, other class requests to an endpoint, and other controls of
\* the microphone to set are "ignored".
Request ==
    [type : {"device"}, desc : DeviceDesc \cup {Unknown}, len : Lengths]
    \cup [type : {"interface"}, desc : IntfDesc \cup {Unknown}, len : Lengths]
    \cup [type : {"report"}, desc : {Unknown}, len : Lengths]
    \cup [type : {"get"}, len : {1},
          what : (Setting \ WriteOnly) \cup Fixed \cup {"refused", "ignored", "stray"}]
    \cup [type : {"set"}, what : Setting \cup {"refused", "ignored"}, value : Value]

Descriptor(r) == r.type \in {"device", "interface", "report"}
Nothing == [of |-> Unknown, from |-> 0, n |-> 0]
Smaller(a, b) == IF a <= b THEN a ELSE b

\* The PC resets the bus before it asks for anything.
Init ==
    /\ request = [type |-> "get", what |-> "refused", len |-> 1]
    /\ resp = [of |-> Unknown, from |-> 0] /\ respLen = 0 /\ stall = FALSE
    /\ setting = [s \in Setting |-> IF s = "proto" THEN Boot ELSE Default]
    /\ irq = {} /\ rst = TRUE /\ dat = "nak" /\ sta = "nak" /\ buf = Nothing
    /\ phase = "idle" /\ got = 0 /\ fault = FALSE
    /\ told = [s \in Setting |-> Default] /\ cut = FALSE

----------------------------------------------------------------------------
(***************************************************************************)
(* The requests.                                                           *)
(***************************************************************************)
\* usb_prepare_desc_data: the response and its length.
PrepareDescData(r) == <<[of |-> r.desc, from |-> 0], Smaller(r.desc, r.len)>>

\* usb_handle_std_intf_req, which leaves both alone when there is no such
\* descriptor.
StdIntfReq(r) ==
    IF r.desc # Unknown THEN <<[of |-> r.desc, from |-> 0], Smaller(r.desc, r.len)>>
    ELSE <<resp, Smaller(respLen, r.len)>>

\* Mutant of SendResponse: g_response_len is not counted down.
SendResponseOn(p, n) ==
    LET m == Smaller(n, Packet)
    IN /\ buf' = [of |-> p.of, from |-> p.from, n |-> m]
       /\ resp' = [p EXCEPT !.from = @ + m]
       /\ respLen' = n

\* usb_send_response: the next packet of p, of which n bytes are left.
SendResponse(p, n) ==
    LET m == Smaller(n, Packet)
    IN /\ buf' = [of |-> p.of, from |-> p.from, n |-> m]
       /\ resp' = [p EXCEPT !.from = @ + m]
       /\ respLen' = n - m

\* What the device answers to a "get".
AnswerOf(r) ==
    IF r.what \in Setting THEN setting[r.what] ELSE IF r.what \in Fixed THEN r.what ELSE Junk

\* usb_handle_in_class_intf_req, usb_handle_in_class_endp_req and
\* usb_handle_get_intf.  The pointer of the endpoint was reset before: where
\* they write nothing, no bytes are sent.
GetSetting(r) ==
    /\ buf' = IF r.what \in {"refused", "ignored"} THEN Nothing
              ELSE [of |-> AnswerOf(r), from |-> 0, n |-> 1]
    /\ UNCHANGED <<resp, respLen, setting>>

\* usbaud_handle_set_mic_cmd reads the endpoint in the SETUP stage, too.
SetMicCmd(data) == IF data THEN buf.of ELSE Junk

\* usb_handle_out_class_intf_req, usb_handle_out_class_endp_req and
\* usb_handle_set_intf.
SetSetting(r, data) ==
    /\ setting' = IF r.what \in Short THEN [setting EXCEPT ![r.what] = r.value]
                  ELSE IF r.what = "mic" THEN [setting EXCEPT !.mic = SetMicCmd(data)]
                  ELSE IF r.what \in Long /\ data THEN [setting EXCEPT ![r.what] = buf.of]
                  ELSE setting
    /\ UNCHANGED <<resp, respLen, buf>>

\* The requests that are answered with STALL.
Stalls(r) ==
    \/ r.type \in {"device", "report"} /\ r.desc = Unknown
    \/ r.type \in {"get", "set"} /\ r.what = "refused"

\* Mutant of StallOf: a stall stays.
StallOfOld(r, data) == stall \/ (Stalls(r) /\ (~data \/ ~Descriptor(r)))

\* g_stall after the request; it is cleared before.
StallOf(r, data) == Stalls(r) /\ (~data \/ ~Descriptor(r))

\* usb_handle_request, in the SETUP stage (data is FALSE) or for a packet of
\* the data stage, and the answer to the PC.
HandleRequest(r, data) ==
    /\ \/ r.type = "device" /\ ~data
            /\ LET p == PrepareDescData(r) IN SendResponse(p[1], p[2])
            /\ UNCHANGED setting
       \/ r.type \in {"interface", "report"} /\ ~data
            /\ LET p == StdIntfReq(r) IN SendResponse(p[1], p[2])
            /\ UNCHANGED setting
       \/ Descriptor(r) /\ data /\ SendResponse(resp, respLen) /\ UNCHANGED setting
       \/ r.type = "get" /\ GetSetting(r)
       \/ r.type = "set" /\ SetSetting(r, data)
    /\ stall' = StallOf(r, data)
    /\ dat' = IF stall' THEN "stall" ELSE "ack"
    /\ UNCHANGED <<request, rst, sta, host>>

(***************************************************************************)
(* usb_handle_irq.                                                         *)
(***************************************************************************)
\* usb_handle_ctl_ep_setup.  The SETUP packet is in request already.
HandleSetup ==
    /\ "setup" \in irq
    /\ irq' = irq \ {"setup"}
    /\ HandleRequest(request, FALSE)

\* Mutant of HandleData: nothing is answered when nothing is left.
HandleDataQuiet ==
    /\ "data" \in irq /\ "setup" \notin irq /\ (Descriptor(request) => respLen # 0)
    /\ irq' = irq \ {"data"}
    /\ HandleRequest(request, TRUE)

\* usb_handle_ctl_ep_data.
HandleData ==
    /\ "data" \in irq /\ "setup" \notin irq
    /\ irq' = irq \ {"data"}
    /\ HandleRequest(request, TRUE)

\* usb_handle_ctl_ep_status.
HandleStatus ==
    /\ irq = {"status"}
    /\ irq' = {}
    /\ sta' = IF stall THEN "stall" ELSE "ack"
    /\ UNCHANGED <<driver, rst, dat, buf, host>>

\* The bus was reset: the report protocol again.
HandleReset ==
    /\ rst /\ irq = {}
    /\ rst' = FALSE
    /\ setting' = [setting EXCEPT !.proto = Default]
    /\ UNCHANGED <<request, resp, respLen, stall, irq, dat, sta, buf, host>>

----------------------------------------------------------------------------
(***************************************************************************)
(* The PC and the hardware.                                                *)
(***************************************************************************)
\* The first stage of a transfer after the SETUP packet.  What the device does
\* not know may have data, or none.
FirstStage(r) ==
    IF r.type # "set" THEN {"in"}
    ELSE IF r.what \in Long THEN {"out"}
    ELSE IF r.what \in Short THEN {"status"} ELSE {"out", "status"}

\* A new transfer; by then the main loop has seen what was before.
HostSetup(r) ==
    /\ phase = "idle" /\ irq = {} /\ ~rst
    /\ request' = r
    /\ irq' = {"setup"} /\ dat' = "nak" /\ sta' = "nak"
    /\ phase' \in FirstStage(r)
    /\ got' = 0
    /\ cut' = (cut /\ (~Descriptor(r) \/ (r.type # "device" /\ r.desc = Unknown)))
    /\ told' = IF r.type = "set" /\ r.what \in Setting THEN [told EXCEPT ![r.what] = Junk] ELSE told
    /\ UNCHANGED <<resp, respLen, stall, setting, rst, buf, fault>>

\* What the PC may get.
Wanted ==
    IF Descriptor(request) THEN {request.desc}
    ELSE IF request.what \in Fixed THEN {request.what}
    ELSE IF request.what \notin Setting THEN {Junk}
    ELSE IF told[request.what] = Junk THEN Value \cup {Junk} ELSE {told[request.what]}

\* The device may answer with the rest of a descriptor given up.
Rest == cut /\ Descriptor(request) /\ request.desc = Unknown

\* The bytes there are of it, and that it asked for.
Size == IF Descriptor(request) THEN Smaller(request.desc, request.len)
        ELSE IF request.what = "ignored" THEN 0 ELSE 1

\* The PC has set something, and the device has acknowledged it.
Accepted == request.type = "set" /\ request.what \in Setting /\ sta = "ack"

\* The PC takes the packet that is ready.  A short one ends the data stage.
HostIn ==
    /\ phase = "in" /\ dat = "ack"
    /\ dat' = "nak" /\ irq' = irq \cup {"data"}
    /\ got' = got + buf.n
    /\ fault' = (fault \/ (buf.n > 0 /\ ~Rest /\ (buf.from # got \/ buf.of \notin Wanted)))
    /\ phase' = IF buf.n < Packet \/ got' >= request.len THEN "status" ELSE "in"
    /\ UNCHANGED <<driver, rst, sta, buf, told, cut>>

\* The PC sends the data of a setting.
HostOut ==
    /\ phase = "out" /\ dat = "ack"
    /\ dat' = "nak" /\ irq' = irq \cup {"data"}
    /\ buf' = [of |-> request.value, from |-> 0, n |-> 1]
    /\ phase' = "status"
    /\ UNCHANGED <<driver, rst, sta, got, fault, told, cut>>

\* It goes on to the status stage.
HostStatus ==
    /\ phase = "status"
    /\ irq' = irq \cup {"status"}
    /\ phase' = "answer"
    /\ UNCHANGED <<driver, rst, dat, sta, buf, got, fault, told, cut>>

\* The transfer is over, acknowledged or with a STALL.
HostDone ==
    /\ \/ phase = "answer" /\ sta # "nak"
       \/ phase \in {"in", "out"} /\ dat = "stall"
    /\ phase' = "idle"
    /\ fault' = (fault \/ ((dat = "stall" \/ sta = "stall") # Stalls(request))
                       \/ (phase = "answer" /\ sta = "ack" /\ request.type # "set"
                             /\ ~Rest /\ got # Size)
                       \/ (Accepted /\ setting[request.what] # request.value))
    /\ told' = IF request.type = "set" /\ request.what \in Setting
                 THEN [told EXCEPT ![request.what] = request.value] ELSE told
    /\ UNCHANGED <<driver, hardware, got, cut>>

Leave ==
    /\ phase' = "idle"
    /\ cut' = (cut \/ (Descriptor(request) /\ phase = "in"))
    /\ UNCHANGED <<got, fault>>

\* The PC gives a transfer up, after a time in which the main loop has run.
HostGivesUp ==
    /\ phase # "idle" /\ irq = {}
    /\ Leave
    /\ UNCHANGED <<driver, hardware, told>>

\* It resets the bus.
HostReset ==
    /\ Leave
    /\ rst' = TRUE /\ dat' = "nak" /\ sta' = "nak"
    /\ told' = [told EXCEPT !.proto = Default]
    /\ UNCHANGED <<driver, irq, buf>>

Driver == HandleSetup \/ HandleData \/ HandleStatus \/ HandleReset
Host == HostIn \/ HostOut \/ HostStatus \/ HostDone

Next ==
    \/ Driver \/ Host \/ HostGivesUp \/ HostReset
    \/ \E r \in Request : HostSetup(r)

Spec == Init /\ [][Next]_vars

\* The main loop polls, and the PC goes on with its transfer.
FairSpec == Spec /\ WF_vars(Driver) /\ WF_vars(Host)

----------------------------------------------------------------------------
\* The types of the variables.
TypeOK ==
    /\ request \in Request
    /\ resp \in [of : DeviceDesc \cup IntfDesc \cup {Unknown}, from : Nat]
    /\ {respLen, got} \subseteq Nat /\ resp.from + respLen <= resp.of
    /\ buf \in [of : DeviceDesc \cup IntfDesc \cup {Unknown, Junk} \cup Value \cup Fixed,
               from : Nat, n : Nat]
    /\ setting \in [Setting -> Value \cup {Junk}] /\ told \in [Setting -> Value \cup {Junk}]
    /\ irq \subseteq {"setup", "data", "status"}
    /\ {dat, sta} \subseteq {"nak", "ack", "stall"}
    /\ phase \in {"idle", "in", "out", "status", "answer"}
    /\ {stall, rst, fault, cut} \subseteq BOOLEAN

\* Every transfer is answered from its own request, whatever was given up or
\* cut off by a reset before it.  A descriptor comes from its first byte, in
\* order, as much as there is and as the PC wanted; a setting is the one the PC
\* last told the device, unless it gave that transfer up, and is set when the
\* device has acknowledged it.  The device answers STALL to a request it refuses
\* and to no other, and no bytes to one it ignores.  The exception, which
\* usb_handle_std_intf_req makes: a HID descriptor the device does not have may
\* be answered with the rest of a descriptor that the PC gave up half read.
AnswerAsAsked == ~fault

\* A transfer the PC does not give up ends.
TransferEnds == phase # "idle" ~> phase = "idle"
=============================================================================
