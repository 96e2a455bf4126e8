------------------------------ MODULE KeyReport ------------------------------
(***************************************************************************)
(* Key notifications of a slave become reports to the PC                   *)
(* (vendor/826x_master_kma_dongle/app.c:194-320, proj/app/usbkb.c).        *)
(*                                                                         *)
(* A notification says which key is down, or that none is; the dongle      *)
(* handles it as a whole.  Over USB, the keys of the keyboard have an      *)
(* endpoint, and those of the system and consumer pages share that of the  *)
(* mouse.  An endpoint holds a report until the PC polls it, and a report  *)
(* that finds it busy is dropped.  The PC may reset the bus and choose     *)
(* another protocol at any time (proj/drivers/usb.c), which clears         *)
(* endpoints.  With the PC tool (pcTool), a register takes the place of    *)
(* the endpoints; the tool is attached before the first key or never.      *)
(***************************************************************************)
EXTENDS Naturals

CONSTANTS
    Normal,        \* keys of the keyboard
    Sys, Media,    \* keys of the system page (power, sleep, wake up) and of the
                   \* consumer page
    Zero,          \* keycode 0, which cr_map_key has for some bits
    Up,            \* cnt = 0, no key is down; also the report that says so
    Idle           \* nothing in an endpoint, or in the register

ASSUME KeyAssumption ==
    /\ Normal \cap (Sys \cup Media) = {} /\ Sys \cap Media = {}
    /\ {Zero, Up, Idle} \cap (Normal \cup Sys \cup Media) = {}
    /\ Zero # Up /\ Up # Idle /\ Idle # Zero

VARIABLES
    down,        \* kb_dat_debug after the last notification
    lastData,    \* last_data of usbkb_check_repeat_and_save
    notReleased, \* usbkb_not_released
    ep,          \* the report of a page that waits in its endpoint, or Idle
    pc,          \* what the PC took of a page last
    rst,         \* FLD_IRQ_USB_RST_EN: the bus was reset
    withdrawn,   \* pages whose release was taken back before the PC polled it
    pcTool,      \* the firmware runs under the PC tool
    reg,         \* register 0x8004, 0x8005: <<kind, key>>, or Idle
    lastKey,     \* last_len and last_key of report_to_pc_tool
    pending,     \* release_key_pending
    tool         \* the key the tool shows

usb == <<lastData, notReleased, ep, pc, withdrawn>>
debug == <<reg, lastKey, pending, tool>>
vars == <<down, usb, rst, pcTool, debug>>

Page == {"normal", "sys", "media"}
Pressable == Normal \cup Sys \cup Media
Key == Pressable \cup {Zero}
PageOf(k) == IF k \in Sys THEN "sys" ELSE IF k \in Media THEN "media" ELSE "normal"

\* The endpoint of a page: USB_EDP_KEYBOARD_IN or USB_EDP_MOUSE.
Endpoint(g) == IF g = "normal" THEN "keyboard" ELSE "mouse"

\* Mutant of Report: the report names keycode 0.
ReportZero(k) == k

\* Keycode 0 in a report of the keyboard says that no key is down.
Report(k) == IF k = Zero THEN Up ELSE k

Init ==
    /\ down = Up /\ lastData = Up /\ notReleased = {}
    /\ ep = [g \in Page |-> Idle] /\ pc = [g \in Page |-> Up]
    /\ rst = FALSE /\ withdrawn = {}
    /\ pcTool \in BOOLEAN
    /\ reg = Idle /\ lastKey = Up /\ pending = FALSE /\ tool = Up

----------------------------------------------------------------------------
(***************************************************************************)
(* usbkb.c.                                                                *)
(***************************************************************************)
\* Mutant of Wanted: a release is for the page of the last key.
WantedOfLast(d) == IF d \in Key THEN {PageOf(d)} \cup notReleased
                   ELSE {PageOf(lastData)} \cap notReleased

\* The pages a notification has something for: the page of its key gets the
\* key, a page with a key that is not released gets the release.
Wanted(d) == {g \in Page : d \in Key /\ g = PageOf(d)} \cup notReleased

\* usbhw_is_ep_busy.
Busy(g) == \E h \in Page : Endpoint(h) = Endpoint(g) /\ ep[h] # Idle

\* usbkb_hid_report_normal and usbmouse_hid_report: a page whose endpoint is
\* free sends.  The system page comes before the consumer page and then has
\* the endpoint of both.
Sent(d) ==
    {g \in Wanted(d) : ~Busy(g) /\ (g = "media" => "sys" \notin Wanted(d))}

\* Mutant of Mark: the release is noted before it is known to be sent.
MarkEarly(d, sent) ==
    {g \in Page : d \in Key /\ g = PageOf(d) /\ (g \in sent \/ g \in notReleased)}

\* usbkb_not_released: a page is marked when a key was sent, unmarked when the
\* release was sent, and stays what it was when the endpoint was busy.
Mark(d, sent) ==
    (notReleased \ sent) \cup {g \in sent : d \in Key /\ g = PageOf(d)}

\* usbkb_report_normal_key, usbkb_report_sys_key, usbkb_report_media_key and
\* the three releases.
Send(d) ==
    /\ ep' = [g \in Page |-> IF g \notin Sent(d) THEN ep[g]
                              ELSE IF d \in Key /\ g = PageOf(d) THEN Report(d) ELSE Up]
    /\ notReleased' = Mark(d, Sent(d))
    /\ withdrawn' = withdrawn \ Sent(d)

\* usbkb_hid_report: the data of the last key is kept, sent or not; the same
\* again is not reported while something is not released.
UsbkbHidReport(d) ==
    IF d \in Key /\ d = lastData /\ notReleased # {}
      THEN UNCHANGED usb
      ELSE /\ Send(d)
           /\ lastData' = IF d \in Key THEN d ELSE lastData
           /\ UNCHANGED pc

(***************************************************************************)
(* report_to_pc_tool: a release that finds the register in use is pending, *)
(* and nothing looks at that.                                              *)
(***************************************************************************)
ReportToPcTool(d) ==
    /\ reg' = IF reg # Idle THEN reg
              ELSE IF d = Up THEN <<"release", Up>>
              ELSE IF d = lastKey THEN <<"repeat", d>>
              ELSE <<"press", d>>
    /\ pending' = (pending \/ (reg # Idle /\ d = Up))
    /\ lastKey' = d
    /\ UNCHANGED tool

\* att_keyboard and att_keyboard_media.
Notification(d) ==
    /\ down' = d
    /\ IF pcTool
         THEN ReportToPcTool(d) /\ UNCHANGED usb
         ELSE UsbkbHidReport(d) /\ UNCHANGED debug
    /\ UNCHANGED <<rst, pcTool>>

(***************************************************************************)
(* usb.c.                                                                  *)
(***************************************************************************)
\* HID_REQ_SetProtocol clears the endpoint of the mouse with the report of a
\* system or consumer key that waits in it.
SetProtocol ==
    /\ ep' = [g \in Page |-> IF Endpoint(g) = "mouse" THEN Idle ELSE ep[g]]
    /\ withdrawn' = withdrawn \cup
                     {g \in Page : Endpoint(g) = "mouse" /\ ep[g] = Up /\ pc[g] # Up}
    /\ UNCHANGED <<down, lastData, notReleased, pc, rst, pcTool, debug>>

\* The main loop sees the reset: all endpoints are cleared.
HandleReset ==
    /\ rst
    /\ rst' = FALSE
    /\ ep' = [g \in Page |-> Idle]
    /\ UNCHANGED <<down, lastData, notReleased, pc, withdrawn, pcTool, debug>>

\* The PC resets the bus: no key is down for it, and it polls again when the
\* main loop has seen the reset.
BusReset ==
    /\ rst' = TRUE
    /\ pc' = [g \in Page |-> Up]
    /\ withdrawn' = {}
    /\ UNCHANGED <<down, lastData, notReleased, ep, pcTool, debug>>

\* The PC polls the endpoint that a report of page g waits in.
Poll(g) ==
    /\ ep[g] # Idle /\ ~rst
    /\ pc' = [pc EXCEPT ![g] = ep[g]]
    /\ ep' = [ep EXCEPT ![g] = Idle]
    /\ UNCHANGED <<down, lastData, notReleased, rst, withdrawn, pcTool, debug>>

\* The PC tool takes the key and clears the register.
Fetch ==
    /\ reg # Idle
    /\ tool' = IF reg[1] = "release" THEN Up ELSE reg[2]
    /\ reg' = Idle
    /\ UNCHANGED <<down, usb, rst, pcTool, lastKey, pending>>

Next ==
    \/ \E d \in Key \cup {Up} : Notification(d)
    \/ \E g \in Page : Poll(g)
    \/ Fetch \/ SetProtocol \/ BusReset \/ HandleReset

Spec == Init /\ [][Next]_vars

----------------------------------------------------------------------------
\* The types of the variables; an endpoint holds one report.
TypeOK ==
    /\ {down, lastData, lastKey, tool} \subseteq Key \cup {Up}
    /\ notReleased \subseteq Page /\ withdrawn \subseteq Page
    /\ ep \in [Page -> Pressable \cup {Up, Idle}]
    /\ ep["sys"] = Idle \/ ep["media"] = Idle
    /\ pc \in [Page -> Pressable \cup {Up}]
    /\ {rst, pcTool, pending} \subseteq BOOLEAN
    /\ \/ reg = Idle
       \/ reg \in {"press", "repeat", "release"} \X (Key \cup {Up})

\* What the PC will show of a page when it has polled.
Shown(g) == IF ep[g] = Idle THEN pc[g] ELSE ep[g]

\* A key the PC shows, or is about to show, is one the dongle knows it has to
\* release (usbkb_not_released), whatever reports were dropped at busy endpoints
\* or cleared by a reset of the bus.  The exception is a release that waits for
\* the PC when SET_PROTOCOL clears its endpoint (usb.c:379).
DownIsRemembered ==
    \A g \in Page : Shown(g) # Up => g \in notReleased \/ g \in withdrawn

\* usbkb.c:280-283: "if the user keeps pressing ..., the device should only
\* generate one input report with this state information": a key notified
\* again while the PC shows it writes nothing to an endpoint, unless its release
\* was taken back.
OneReportPerPress ==
    [][\A k \in Pressable :
          ~pcTool /\ Notification(k) /\ down = k /\ Shown(PageOf(k)) = k
            => ep' = ep \/ PageOf(k) \in withdrawn]_vars

\* A release that finds both endpoints free releases every key the PC shows,
\* of whichever page and whichever notifications were dropped before it.  The
\* exception is the key of the consumer page when one of the system page has to
\* be released, too: the endpoint they share takes one report.
ReleaseOnFreeEndpoints ==
    [][Notification(Up) /\ ~pcTool /\ (\A g \in Page : ep[g] = Idle)
          => \A g \in Page : Shown(g)' # Up =>
                \/ g \in withdrawn
                \/ g = "media" /\ "sys" \in notReleased]_vars
=============================================================================
