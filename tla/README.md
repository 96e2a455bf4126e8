# Verification of the ble_lt_sdk firmware

TLA+ models, TLC runs and TLAPS proofs for the Telink BLE SDK (826x, v3.1.0).
The SDK is a set of firmware images, one for each directory of `src/vendor`,
linked against a binary BLE library (`src/proj_lib/ble`). There are no tests in
the repository. What is modelled is the code the SDK has in source: the
application layer of the images. The library is part of the environment, and
each model takes from it only what that code relies on.

Every module starts with a comment naming the files and lines it models;
`PROJECT.json` maps each definition to its lines.

- Section 1: the system, its parts, and what makes each of them correct
- Section 2: the modules, one by one
- Section 3: the runs, their bounds and what they show
- Section 4: fairness
- Section 5: what is proved, and how
- Section 6: disagreements between comments and code
- Section 7: what is not modelled, and why

To repeat a run or a proof, in this directory:

    tlc -workers 2 -config BondTable.cfg BondTable.tla
    tlapm BondTableProofs.tla

---

## 1. The system

### 1.1 Components

| component | source | state it keeps | operations | model |
|---|---|---|---|---|
| bond table of the KMA dongle | `826x_master_kma_dongle/app.c:339-567` | a RAM table of bonded slaves, a flash sector of 8-byte records, the write index | load at power-up, clean the sector, add, delete the oldest, delete all | `BondTable`, `BondStore` |
| host of the KMA dongle | `app.c:82-128, 584-881, 1044-1169`, `app_att.c` | connection handle and address, discovery flags, attribute handles, pairing flags, requested parameters | library events, L2CAP packets, pairing keys, service discovery, parameter updates | `DongleHost` |
| OTA master of the KMA dongle | `app_ota.c`, `app.c:1111-1146` | command, step of the update, address in the firmware, handle of the slave | key, poll, callbacks of the parameter update and of the handle look-up | `OtaMaster` |
| key reports of the dongle | `app.c:194-320`, `proj/app/usbkb.c` | last key, what is not released, the register of the PC tool | notifications of the slave | `KeyReport` |
| OTA boot code | `826x_ota_boot/main.c`, `cstartup_8266.S` | flash, the OTA flag | reset, copy, read back, clean up | `OtaBoot` |
| serial module | `826x_module`, `my_fifo` in `proj/common/utility.c` | two fifos, transmitter, wake-up pins, suspend mask | receive interrupt, command handler, transmit handler, power management | `ModuleUart` |
| software timers | `vendor/common/blt_soft_timer.c` | the ordered table of timers, the requested wake-up | add, delete, process | `SoftTimer` |
| audio buffers of the dongle | `audio_buffer.c`, `app.c:158-190, 1058-1072` | the three pointers into two rings, `abuf_reset` | notification, decoder, USB interrupt | `AudioBuffer` |
| USB device | `proj/drivers/usb.c`, `proj/app/usbaud.c`, `usbkb.c` | the control request, the response and its length, the stall flag, settings; the endpoints | SETUP, data and status stages, bus reset, reports | `UsbControl`, `KeyReport` |
| keyboard matrix | `proj/drivers/keyboard.c`, `keyboard.h` | the release counter, the lines seen last, the debounce buffers | scan | `KeyScan` |
| buttons of the dongle | `button.c` | debounce counters, press times | poll | its flags are free inputs of `DongleHost` and `OtaMaster` |
| BLE remote, memory managers, HCI image, drivers, LED, AES, simulation, scripts | see `PROJECT.json` | | | not modelled, section 7 |

### 1.2 Interactions

The dongle is one thread plus the USB and radio interrupts:

    main_loop:       main_idle_loop; if (main_service) { main_service(); main_service = 0 }
    main_idle_loop:  blt_sdk_main_loop   -> app_event_callback, app_l2cap_handler
                     usb_handle_irq      -> control transfers; the ISO interrupt -> audio
                     proc_button         -> pairing and OTA keys
                     unpairing, proc_ota -> OtaMaster
                     parameter updates

- The host calls the bond table: it adds a device when a connection is
  complete and pairing was asked for, and deletes all rows when unpairing.
  `DongleHost` uses the bonds as the first-in first-out sequence `BondTable`
  shows them to be.
- The only service, `app_service_discovery`, waits for each answer by running
  `main_idle_loop` itself. So every handler can run inside the discovery, on
  the discovery's own stack frame, and devices can come and go meanwhile.
- The OTA master and the host share the flag `host_update_conn_param_req`, the
  callback of the parameter update and `att_serviceDiscovery_busy`.
- Notifications of the slave become key reports or audio data.
- A slave updated over the air stores the image with the library, which sets
  the flag that makes the startup code run the boot code.
- The serial module and its MCU talk over a UART and two pins. The interrupt
  `irq_handler` and the main thread share the receive fifo without a lock.

### 1.3 Which behaviours are hard, and what correctness means

- **Bond table.** Power may be lost between any two flash operations and inside
  a record write; records are only ever appended and invalidated in place.
  Correct: the sector never holds more bonds than the table has rows (the scan
  would stop in `while(1)` at every power-up from then on); a row names the
  record of its own device, across compactions; a power cycle costs no bond
  but those the routine it cut short puts at risk: the oldest for a pairing, the
  oldest ones for an unpairing, the newest ones (all at worst) for a compaction.
- **Host.** Events arrive inside the nested loop. Correct: answers, handles and
  parameters of one slave are never used for another; no pointer into the stack
  survives its frame; an unpaired slave does not get back in; a device is bonded
  once; the flag that blocks all data of the slave comes down.
- **OTA master.** The connection ends, the queue is full, an answer does not
  come, the user starts again. Correct: success means that the slave got the
  whole firmware in order; an update always ends.
- **Boot code.** Power losses and failed writes at any step. Correct: the flag
  stands only for a whole image; a mixture of images never runs; an update that
  began is completed.
- **Serial module.** The suspend mask is decided in one place and used in
  another; the receive interrupt does not check for a full fifo. Correct:
  commands are handled once, in order; the module does not sleep with work left,
  and does sleep without; the MCU is awake when it is sent something.
- **Software timers.** The clock wraps around; the loop deletes the entry it
  stands on. Correct: the table stays ordered and no timer is missed.
- **Key reports.** The PC polls slowly, reports to a busy endpoint are dropped,
  and the PC may reset the bus or choose another protocol, which clears the
  endpoints; two of the three pages share one endpoint. Correct: what the PC
  believes to be down is known to the dongle.
- **Audio.** The USB interrupt comes between any two steps of the decoder, and
  the counts the decoder works with are older than its last step. Correct: the PC
  gets the frame that is due, whole; a ring that ran full is brought back.
- **USB control.** The response, its length and the stall flag are shared by all
  transfers, and any of these may be given up half-way. Correct: the answer
  belongs to the question.
- **Keyboard matrix.** Contacts bounce while they are scanned, and scanning stops
  when nothing was seen for a while. Correct: no chatter, and no key that stays
  unreported.

`PROJECT.json` lists the hazards with the line where each one bites and the
properties that watch it.

---

## 2. The modules

Names of actions and variables are those of the code, in TLA+ spelling:
`user_tbl_slave_mac_add` is `Add`, `proc_ota` is `Poll`. Where the code's name
of a variable is longer, the declaration says it.

### 2.1 BondTable, BondStore

State: `flash` (a cell is one 8-byte record: blank, dead, or the address it
holds), `cfg` (the index, in cells instead of bytes), `table`, and `pc`, the
place in the routine under way. The history variables `kept` and `cut` remember
the last complete table and the routines a power loss interrupted since.

One step is one flash operation: `DeleteOldest` and `WriteRecord` for an
addition to a full table, `UnpairRecord` for each row of an unpairing,
`EraseSector` and `RewriteRecord` for the compaction, `ScanBond` and `ScanSkip`
for each record of the power-up scan. `PowerLoss` may come before each of them.
`TornAdd` and `TornRewrite` stop inside a record write. The cells behind the
sector are represented because nothing stops the index from reaching them.

Assumed of the flash: an interrupted erase happened or did not; a write clears
bits only; a torn record write leaves the cell blank, or with a mark that is no
bond, or with a bond mark over an incomplete address (`Garbled`), which the scan
takes for a bond.

`BondStore` is what the sector promises: a bounded store where a record goes
behind all the stored ones and only the oldest is given up, or all of them at
once. `StoreSpec` says that `BondTable` implements it under the mapping of the
valid records of the sector.

### 2.2 DongleHost

`pc` is the place in one pass of `main_idle_loop`; `disc` says whether a
discovery is waiting, in which case the pass is a nested one. `link` is the
state of the controller. Library events (`Air`, possible while `pc` is `sdk`) are
reports of advertisers, connection complete, established and terminated, answers
and requests of the slave. The rest of the pass (`Loop`) is the buttons, the unpairing, the
parameter update, and at the end either the next pass, the discovery's check of
its wait, or the start of a registered service.

The answer to a request is its outcome only: the discovery goes on, ends, or
times out. Acceptance of a report is by kind (bonded, or pairing and near
enough), not by signal strength numbers.

Assumed of the library: one thread; after a disconnection scanning reports come
in a later pass (`link = "rescan"`); none come after `blc_ll_createConnection`
(`app.c:793-795`); a request pushed without a connection is lost. Timers may
expire at any check: the discovery looks at the clock before it looks for the
answer (`app_att.c:100-102`), so a wait may end without an answer although one
has come. Answers that nobody waits for are left out: they change nothing of this
module's state (the handle of the OTA service, which `app.c:611-616` reads from
one, is in `OtaMaster`).

### 2.3 OtaMaster

`Poll` is `proc_ota` with one disjunct for each step of `host_ota_start`;
`UpdateForOta` and `UpdateForSlave` are the two parameter updates that follow it
in the pass. The controller completes or refuses an update, the slave answers
or does not, the Tx queue delivers, the connection ends (`LinkDown`) and another
begins (`LinkUp`). `got` records what the slave of the connection received since
its last start command, and `SuccessMeansReceived` compares it with the image.
The 20 s timeout and the 50 ms pause may be over at any poll.

`host_ota_update_conn_complete` knows its update by the parameters only, so the
end of an update that the slave asked for may be taken for it (`UpdateComplete`).

Assumed: the controller drops its queue and its procedures with the
connection, and a poll runs between two connections (`polled`).

### 2.4 OtaBoot

Flash in pages of 256 bytes, the running firmware at 0 and the new image at
`Area`. `Startup` is the test in `cstartup_8266.S`; `Boot` has the steps of the
copy: sectors 1 and up first, sector 0 last, each erased, written page by page,
read back, and done again when a page is wrong; then the flag and the new image
are cleared. The application (external) clears the new area, downloads an image
whole or in part, and sets the flag for a whole one. `PowerLoss` and
`WriteFails` may happen at any step of the copy, `MaxFaults` times.

### 2.5 ModuleUart

The build for 8261 and 8266 with `BLE_MODULE_INDICATE_DATA_TO_MCU`. `rx` and
`tx` are `my_fifo` with their free-running pointers, masked to a slot. The main
thread is `pc`: in the library (`sdk`), which calls `RxFromUart`/`UartHandler`
and `TxToUart`/`UartSend`, posts events and tries to suspend, and in
`app_power_management`, two steps because it looks at the UART twice:
`LowerWakeupMcu` and `AppPowerManagement`. The receive interrupt, the transmit interrupt and the
passing of time happen at any point.

Assumed: the MCU has at most `Window` commands without an answer, holds
`GPIO_WAKEUP_MODULE` high until its frame has arrived, and waits while a restart
runs; each receive interrupt carries a frame; the callback before the suspend
and the suspend are one step; the wake-up pin reads high by the MCU or by the
module's own pull-up.

### 2.6 SoftTimer

`Add`, `Delete` and `Process` are the three functions; the loop of the last one
is a sequence of steps (`NotDue`, `FireLast`, `FireAgain`, `ProcessEnd`) with the
clock going on between them and `now` staying what it was. The sort is the
code's bubble sort, with its comparison on the wrapping clock.

Assumed: intervals that leave the tolerated lateness (`Post`, 4 s) to a quarter
of the clock, where the comparison of times ends; each callback used once;
callbacks that return a result and do nothing else; and a call of
`blt_soft_timer_process` every `Gap` ticks at least, so often that
`(MaxTimerNum + 1) * Gap + Pre < Post`: with four timers and 4 s, every 0.79 s. The
timers are compiled out by default (`BLT_SOFTWARE_TIMER_ENABLE`).

### 2.7 KeyReport

`Notification` is `att_keyboard` and `att_keyboard_media` with all they call:
either `UsbkbHidReport` and the endpoints, or `ReportToPcTool` and its register.
The key map and the slave may name keys of three pages: keyboard, system (keycodes
0xa0 to 0xa2) and consumer. The keyboard has an endpoint; system and consumer keys
share that of the mouse (`Endpoint`). `Wanted` are the pages that a notification has
a key or a release for, and `Sent` those that get through: a page whose endpoint is
free, the system page before the consumer page, which then finds the endpoint
busy. What is not sent is dropped, and `Mark` is what becomes of
`usbkb_not_released`. `Poll` and `Fetch` are the PC. `SetProtocol`, `BusReset` and
`HandleReset` are what `usb.c` does to the endpoints; `rst` is the interrupt flag
between the last two. `withdrawn` remembers a release that `SetProtocol` took out of
an endpoint before the PC had polled it (`usb.c:379`), the one way in which the PC
keeps a key that the dongle has forgotten.

What the model says of the code: with a system key and a consumer key both to be
released, one notification releases the first only; the consumer key stays
down until the next one. `ReleaseOnFreeEndpoints` excepts that case and no other.
A key whose report was dropped, and that is notified again while a key of another
page is down, is taken for a repeat (`usbkb.c:264`) and not shown; no property says
that every press is.

A notification is handled as a whole, and the PC tool is there from the start or
never. Keycode 0, which the key map has for some bits, is a report that says
"nothing is down" and nevertheless marks the page as not released. A report is its key: what the boot
protocol leaves of one (`usbmouse.c:98-102`) is not looked at.

### 2.8 AudioBuffer

`AttMic` is the notification, `Timeout` and `AbufInit` the 200 ms without a frame
in the main loop, and `Test` to `DecodeEnd` the steps of `abuf_mic_dec`, with
`AbufDecUsb`, the interrupt, between any two of them. The interrupt is `OnTime` or
`Late`, which arms a reset, and `late` remembers which it was last. A frame is known by the
pointer it was received under; `whole` has the frames due to the PC that are
decoded in their slot, and `gone` those that were overwritten or passed over.
Samples are counted in halves of an ISO packet, because a frame is 15 1/2 packets.

What the model says of the code: the decoder tests the free room before it passes
over a frame (`audio_buffer.c:73`), so it may write the slot the interrupt reads.
`Sound` excuses that, for the frame three before one that was passed over; without
the excuse TLC shows the torn frame. At an underrun the second half of a packet
may be of a frame that is not decoded, and so is left out of `SendsWhatIsDue`
when there are fewer than two frames. `CatchUp` passes over frames after a test of
`abuf_reset` that the interrupt may have made stale (`audio_buffer.c:49`); they count
as `gone`.

`Recovers` is about the cycle of resets, catching up and overflows. When from some
time on polls are in time, there is no pause of 200 ms, and no more than four frames
wait for the decoder (`Steady`), then resets and overflows stop for good, and if
frames go on to come, samples go on to be sent. Each part of `Steady` is needed: TLC
finds a cycle without it. With more than four frames waiting again and again, which
takes a main loop that is slower than the microphone, the code does reset for ever.

Assumed: the pointers do not lap without a poll (256 frames are 4 s). The ADPCM
arithmetic of `tl_audio.c` and the eight samples that may repeat when the read
pointer wraps around are left out.

### 2.9 UsbControl

`HandleSetup`, `HandleData`, `HandleStatus` and `HandleReset` are the branches of
`usb_handle_irq`. `HandleRequest` is `usb_handle_request`: the descriptors of the
device and of the interfaces, settings read and written, and the requests that
the device does not know. The PC and the hardware are `Host...`: the PC sends
requests, takes packets, gives transfers up (`HostGivesUp`) and resets the bus
(`HostReset`). A descriptor is its length; a packet is a range of it.

Settings are those of the device: `g_rate` and `usb_mouse_report_proto` are one for all
interfaces, since the handlers do not look at `wIndex`. What comes with the SETUP
packet (`g_rate`, the protocol, the alternate setting) is a `Short` setting; what comes
in the data stage (the microphone control, the status of a feature report, the
command of the custom report) a `Long` one, and the last two of these are read by no
request (`WriteOnly`). `Fixed` are the answers that never change.

The code treats what it does not know in two ways. It is `refused` with STALL:
a bmRequestType without a case, another request to set a report
(`usb.c:361-362`), another class request to an interface, a device or report
descriptor that does not exist. Or it is `ignored`, acknowledged with nothing done
and no bytes sent: another report to get (`usb.c:416-452`), class requests to an
endpoint (`usb.c:487-516`), other standard requests (`usb.c:568-590`, `632-636`), an In
or Out report to set (`usb.c:287-292`), another control of the microphone. `stray` is
GET_INTERFACE of an interface that does not exist, answered with what is in memory
behind `usb_alt_intf`. A HID descriptor of an interface that has none is in
neither group: `StdIntfReq` leaves the response alone.

`fault` turns true when the PC is answered something it did not ask for. One
exception is part of it: after a descriptor given up half read (`cut`) a HID descriptor
that does not exist may be answered with the rest of that one (`usb.c:173`).

Left out: the register access behind the custom report, the microphone endpoint that
SET_INTERFACE starts, and SET_INTERFACE of an interface that does not exist
(`usb.c:523` asserts against it; the assertion is compiled out of an image).

Assumed: a new SETUP packet comes when the main loop has seen the flags before it.
The build is the KMA dongle's (keyboard, mouse, microphone, custom report).

### 2.10 KeyScan

One step is one call of `kb_scan_key`, every 8 ms. It looks whether any key is
down and reads the lines, and while a contact bounces each of the two readings
may give anything for it (`Readings`). `Pressed` is the counter that goes on with
the lines seen last for `Rest` calls; `Debounced` is the filter on two readings.
A key that closes sets the interrupt flag, which a call clears.

Assumed: a key is held, or up, for longer than its contact bounces, and no contact
bounces in the first call after a deep sleep, which is not debounced. Both
callers take the change at once, so the ring of changes is empty between calls.
No image enables ghost keys and repeated keys; they are left out. The driver is
called by the remote control only, whose `main` does not get there (section 7):
what is shown is a property of the driver.

---

## 3. The runs

| run | bounds | what it shows |
|---|---|---|
| `bond` | 2 addresses, 2 rows, a sector of 6 cells cleaned from the 4th on | `NeverOverfull`, `TableMatchesFlash`, `PowerCycleKeepsBonds`, `StoreSpec` |
| `bond_overrun` | 1 row, 4 cells in the sector and 2 behind | violated: `IndexStaysInSector` |
| `ota_boot` | 3 images (one ends inside a sector, one is too big), 3 sectors of 2 pages, 3 faults | `WholeImageRuns`, `UnstartableOnlyAtTheEnd`, `UpdateCompletes` |
| `dongle_host` | 2 slaves, one bonded slave that is absent, 2 rows | `ResponseBufferLive`, `HandlersOfSavedDevice`, `UpdateForItsSlave`, `UnpairedStaysAway`, `BusyEnds` |
| `discovery_lost` | 2 slaves, 1 row | violated: `NewDeviceDiscovered` |
| `ota_master` | a firmware of 2 packets and one too big, 2 packets ahead, a queue of 3, two connections | `SuccessMeansReceived`, `HandleOfThisSlave`, `OtaEnds` |
| `module_uart` | 2 receive and 2 transmit slots, pointers modulo 4, 2 commands ahead | `HandledInOrder`, `SuspendLosesNothing`, `McuAwakeForData`, `CommandsHandled`, `SleepsWhenIdle` |
| `soft_timer` | 4 callbacks, 3 timers, a clock of 52 ticks, intervals of 1 and 3, a gap of 2 | `SortedByTime`, `NeverMissed` |
| `key_report` | 2 keys of the keyboard, 2 of the consumer page, 1 of the system page and the empty keycode | `DownIsRemembered`, `ReleaseOnFreeEndpoints` |
| `audio` | 4 slots, pointers modulo 12, frames of 3 halves of a packet, a reset of 2 polls, 5 frames waiting | `SendsWhatIsDue`, `Recovers` |
| `usb_control` | packets of 2 bytes, descriptors of 4 and 5, requests for 4 and 6, 3 settings of 2 values (one set at once, two with data) | `AnswerAsAsked`, `TransferEnds` |
| `key_scan` | 3 keys on 2 lines, contacts that bounce for 3 calls, keys held for 5, 6 calls of rest | `NoChatter`, `KeysAreReported` |

Every passing run also checks the module's `TypeOK` (`ScanTypeOK` of `KeyScan`,
`AudioTypeOK` of `AudioBuffer`), which for `DongleHost`
includes that no device is bonded twice, for `OtaMaster` that a parameter update
waits only at the start, and for `UsbControl` that no more bytes are left than the
descriptor has. Deadlock is allowed in `ota_boot` alone: a chip that hangs in the
boot code, or has no startup code, is one that stops.

**Why the bounds are enough.**

- `bond`: the code has 1 row; 2 rows are the smallest table where the oldest is
  not the only one, and where the order of rows matters. Six cells hold two
  tables, room behind them and a compaction in the middle of it. The theorems
  of section 5 remove the bounds for all of the properties.
- `ota_boot`: two pages in a sector give sizes that end inside and at the end of
  one; three sectors give a first one, a last one and one between. Three faults
  are enough to lose power, fail a write after the restart and lose power again.
- `dongle_host`: two slaves are enough to mix up one with the other; a device
  that is bonded and absent makes a table of two rows full with one more.
- `ota_master`: a new connection gets the number, 1 or 2, that the handle does
  not have, so that a handle read in an earlier connection is never taken for
  one of this connection. A firmware of two packets has a first and a last one,
  and with the start and the end command it is longer than the queue.
- `module_uart`: the receive fifo has the two slots of the code. Two transmit
  slots instead of eight fill up sooner; pointers that wrap at 4 instead of 256
  keep the relation to the slots (the number of slots divides it, with room for
  a full and an empty fifo).
- `soft_timer`: the clock is small enough to wrap around many times in the
  depth of the run. `Post` is 10 because the assumption asks for it: three timers,
  each of which may be passed over once, late by the gap, the clock of one loop and
  the margin. (With 7 TLC finds no violation yet, with 6 `NeverMissed` fails.) On
  the chip the margin is 4 s.
- `key_report`: repeats need the same key, replacements a second one; three pages
  are all there are, and one system key is enough to keep the consumer page from
  its endpoint.
- `audio`: 12 is three turns of the rings, so that both alignments of packets and
  frames occur, and the wrap-around of the read pointer; five waiting frames are
  one more than overflows.
- `usb_control`: the descriptors end inside a packet and at the end of one, and the
  requests are shorter than, equal to and longer than them. The three settings are
  the one that a bus reset changes (the protocol), the one that is read from the
  endpoint in both stages (the microphone), and one that no request reads.
- `key_scan`: two keys share a line, so a line that goes on being scanned for one
  key is seen by the other. With contacts that bounce for four calls, two equal
  readings of a bounce are possible and `NoChatter` fails: 3 is what the filter
  bears. It fails too when a key may be held for a call less than `Bounce + 2`, or
  when the scan goes on for a call less than `Bounce + 3`; `ScanAssumption`, from
  which the theorem follows, cannot be weakened by one in any of the three.

---

## 4. Fairness

- `OtaBoot.FairSpec`: the boot code, and the application's clearing of its area, run
  on. Faults are bounded, because flash that never takes its data never boots.
- `DongleHost.FairSpec`: the loop turns (weak); a call of the library returns,
  the 1 s wait of a discovery ends, and a slave has finitely many attributes to
  report (strong, because the loop passes the place again and again).
- `OtaMaster.FairSpec`: weak fairness of giving up at the 20 s timeout, only. The
  slave, the controller and the queue need not do anything.
- `ModuleUart.FairSpec`: strong fairness of the two handlers and of the suspend,
  because `blt_sdk_main_loop` calls both handlers and tries to suspend in each
  pass; weak fairness of the loop, of time and of the hardware.
- `AudioBuffer.FairAudioSpec`: the main loop runs, and the PC polls the ISO endpoint
  every millisecond, not always late (weak fairness of `OnTime`). `Recovers` states
  itself what has to end (late polls, pauses, a backlog): see 2.8.
- `UsbControl.FairSpec`: the main loop polls the flags, and the PC goes on with its
  transfer or gives it up.
- `KeyScan.FairScanSpec`: the application calls the scan.

`BondTable`, `SoftTimer` and `KeyReport` have safety properties only.

---

## 5. What is proved

Every invariant and every action property that a run checks, the refinement of
`BondStore` included, is a theorem for all values of the constants the
assumptions of its module allow. What stays with TLC is liveness (5.10).

### 5.1 BondTableProofs

For every number of addresses, rows, and cells with
`0 < rows < CleanCells < SectorCells <= FlashCells`, which the sizes in the code
(1 row, and 256 of 512 cells) satisfy, and with power losses anywhere:

- `TypeCorrect`: `Spec => []TypeOK`.
- `BootNeverHangs`: `Spec => []NeverOverfull`. The branch at `app.c:547-551`
  that ends in `while(1)` is never taken.
- `TableIsFlash`: `Spec => []TableMatchesFlash`.
- `SectorIsStore`: `Spec => StoreSpec` (5.2).
- `PowerCycleKeeps`: `Spec /\ []IndexStaysInSector => PowerCycleKeepsBonds` (5.2).

None of the properties is inductive. The invariant `IInv` is
`TypeOK /\ IndexOK /\ FlashInv`:

- `IndexOK` places the index and the loop counter for each place in the code.
- `BlankTail`: no record is behind a blank cell. Without it the scan, which
  stops at the first blank cell, could miss bonds that then overfill the sector.
- `ScanInv`: what the scan has read so far is exactly what it has put in the
  table, in order. With `NeverOverfull` the table has room for the next one.
- `MainInv`: in the main loop and in its routines the table has a row for each
  valid record behind those already deleted (`done`), and the cells up to the
  index are exactly the used ones, so a new record goes to a blank cell.
- `RewriteInv`: the compaction has written the first `done` rows to the first
  `done` cells.

There is one lemma for each action (`ScanBondStep`, `WriteRecordStep`, ...) and
one for the counting they share: valid records that each have a row are no more
than the rows (`FewSlots`).

The bound `FlashCells` is part of `TypeOK`: additions stop when the index has
reached it. That the index leaves the sector is section 6.

### 5.2 BondTableProofs: what the sector promises, and what a power cycle keeps

`SectorIsStore`: the pairing sector, with all that may happen to it between and
inside flash operations, is a bounded first-in first-out store. `Stored` is the
mapping: a bond for each live cell. A step of the flash remembers a bond
(`StoreRemembers`: the record goes to a cell behind all live ones, and there is
room), forgets the oldest (`StoreForgets`), wipes the sector, or leaves the bonds
alone (`StoreKept`). Which it is follows from `IInv` of 5.1: the index is where the
next blank cell is (`NextCell`), also after a torn record (`WholeIsTorn`).

`PowerCycleKeeps` compares two tables, the one before the power went and the one
the next power-up loads, with only the flash in between, and says exactly what may
be missing or new (`Recovered`):

- no routine cut short: the same bonds in the same order;
- a pairing cut short: the old table, with or without its oldest bond if it was
  full, and with or without a record behind it, which is that of the slave being
  paired or a garbled one;
- an unpairing cut short: the newest bonds;
- a compaction cut short, of the table or of what one of the others left of it: its
  first rows, any number of them, and at most one garbled record. That bonds are
  lost here is what the code does: it erases the sector first (`app.c:521-533`).

`KeptInv` carries it:

- while the power is off and while the scan runs, *every* listing of the bonds in
  flash, in the order of their cells, is what the interrupted routines may have left of
  the old table; in the main loop nothing is interrupted and `kept` is the table, or
  the table with the row that `Add` has just dropped;
- there is only one such listing (`OneListing`, by induction over the rows: the cell
  of the next row is the next live cell in both), so it is enough to show one;
- the table is one in the main loop (`MainLists`), when the scan ends (`ScanLists`),
  and, as far as it is written, in a compaction (`RewriteLists`);
- after a compaction cut short the cells from `MaxSlaves` on are blank, so the next
  scan ends before the sector needs another compaction (`NoSecondRewrite`): the losses
  of two compactions do not add up.

`KeptPowerLoss`, `KeptTornAdd` and `KeptTornRewrite` are the steps with something to
show: a loss between the deletion of the oldest and the new record, between two rows
of an unpairing or of a compaction, and inside a record, whole or garbled.

The condition is that no record lies behind the sector, which is where the code is
wrong (section 6, number 1): such a bond is in the table and not found by the next
scan, so the theorem is false without it. `IndexStaysInSector` leaves out the scan
itself, which goes one cell past a full sector and steps back. `bond` has no
cells behind the sector, so there the condition is true of every behaviour.

### 5.3 OtaBootProofs

For any images, any sizes of area, sector and start-up code, and any number of
faults:

- `TypeCorrect`, `UnstartableOnly`: `Spec => []UnstartableOnlyAtTheEnd`;
- `WholeImage`: `Spec => []WholeImageRuns`: what runs is a whole image.

`IInv` adds to the properties: `FlagInv`, where the flag stands and which size is
copied; `CopyInv`, which pages have been copied (`Done`: those behind the first
sector up to the index, and after them the first sector's); and `StartInv`, that
the first sector is not touched before all the others are done. When the copy ends
`Done` covers every page, so the image in front is the one behind; this is the
argument for copying sector 0 last. The lemmas about sectors (`Division`,
`SectorBelow`, `SectorAbove`) are the arithmetic that an erase does not reach
pages of another sector.

### 5.4 DongleHostProofs

For any devices and any size of the bond table:

- `TypeCorrect`, `BufferIsLive`, `HandlersAreOfTheirDevice`, `UpdateIsForItsSlave`:
  `[]` of `TypeOK`, `ResponseBufferLive`, `HandlersOfSavedDevice` and
  `UpdateForItsSlave`;
- `StaysAway`: `Spec => UnpairedStaysAway`.

`IInv` adds `LinkInv` (the controller and the host agree on the device), `PairingInv`
(a device about to be bonded is not in the table), `AnswerInv` (an answer in the
buffer is the connected slave's, and is used before another slave is heard), and
`AwayInv` (after an unpairing: no bond, no connection under way, no key).
`AnswerInv` is why the nested main loop does not mix up two slaves: between an
answer and the check of the wait there is no place for a new connection.

### 5.5 OtaMasterProofs

For any firmware sizes, packets sent ahead and length of the queue:

- `TypeCorrect`, `HandleIsOfThisSlave`: `[]` of `TypeOK` and `HandleOfThisSlave`;
- `SuccessIsReceived`: `Spec => SuccessMeansReceived`.

`StreamInv` carries it: while data is sent, either the last packets of the queue
are the first `Sent` packets of the image, behind those of an update given up
before, or what the slave has received and what is queued are, together. The
second follows from the first when the start command is delivered (a start command
is no other packet, `StartIsUnique`). `LinkInv` says what a new connection finds.

### 5.6 ModuleUartProofs

For any number of slots, pointers of any width the slots divide, any window:

- `TypeCorrect`; `NothingLostAsleep`: `[]SuspendLosesNothing`;
  `McuIsAwake`: `[]McuAwakeForData`;
- `InOrder`: `Spec => HandledInOrder`.

`IInv` adds `PinInv` (the flag of `spp.c`, its tick and the pin go together),
`SendInv` (between the copy of a message and its transmission the queue is not
empty, so the pin is not lowered) and `ArrivalInv` (a frame arrives only while the
MCU holds its pin, which is what `app_suspend_enter` looks at).

`OrderInv` adds two parts for `InOrder`. `ReceiveInv`: the commands sent are, one
after the other and in the numbers modulo `SeqMod`, those handled, those in the
fifo and the one that arrives; and all that have no answer yet fit into the
window. `AnswerInv`: what is in the transmit fifo and in the transmitter are answers
the MCU waits for, in order. The two depend on each other: `irq_handler` never
looks whether the fifo is full, and the slot it writes is free only because the MCU
counts its answers. `SlotWritten`, `Put` and `Pop` are the lemmas about
`my_fifo`; they use that the number of slots divides the width of the pointers.

### 5.7 UsbControlProofs

For any descriptors, packet size, lengths and settings:

- `TypeCorrect`; `Answered`: `[]AnswerAsAsked`, each request is answered from
  itself: the bytes of its descriptor, the setting as last set, STALL if and only if
  it is refused, no bytes if it is ignored. The exception is the one of 2.9, a HID
  descriptor that does not exist, asked for after a descriptor given up half read.

`PhaseInv` has the flags and answers that are possible at each place of a transfer,
`StallInv` that the stall flag is the request's own, `ResponseInv` that what is sent
and what is left are the two parts of what the PC asked for, `LeftInv` that
nothing is left over but from a descriptor given up, and `SettingInv` that a
setting the PC was told is set is set. `PacketSent` is the lemma about
`usb_send_response`.

### 5.8 InputProofs

The proofs about `KeyReport`, `KeyScan` and `AudioBuffer` are in one module, which
extends all three; the definitions of the last two that every module has carry
their own prefix for that reason (`ScanSpec`, `AudioSpec`, ...).

**Key reports**, for any keys of the three pages:

- `TypeCorrect`: `Spec => []TypeOK`.
- `Remembered`: `Spec => []DownIsRemembered`.
- `OneReport`: `Spec => OneReportPerPress`, which no run checks, since it is proved.
- `Released`: `Spec => ReleaseOnFreeEndpoints`: a release that finds both endpoints
  free releases every key the PC shows, except a key whose release SET_PROTOCOL took
  back, and a consumer key when a system key has to be released, too.

The first exception is also one of `Remembered` and of `OneReport`.

The invariant adds `LastKept`: after a key over USB, `last_data` is that key,
whether its report was sent or dropped. `OneReport` needs it, together with
`DownIsRemembered`, to see that a repeated key meets both conditions of the early
return. `ResetIsEmpty` and `WithdrawnIsFree` are about resets of the bus and
releases taken back. `SendPage` is the lemma about a page: with a report
of its own waiting it is left alone; else it gets the key and a mark, or the release,
or nothing. `SendType` adds that the shared endpoint never holds two.

**Keyboard matrix**, for any number of keys on any lines:

- `MatrixTypes`: `ScanSpec => []ScanTypeOK`.
- `KeysDoNotChatter`: `ScanSpec => NoChatter`.

`MatrixInv` follows a key by its `age`, the calls since it was pressed or released:
`SeenDown`, that a key held longer than it bounces is seen; `GoesDown`, what the two
debounce buffers hold in each of the three calls of a bounce; `GoesUp`, the same for a
release, for which the scan must not have come to rest (`releaseCnt` has enough
calls left for the bounce and the two equal readings); and `Awake`, that a key that
is held has raised the interrupt flag or keeps the scan going.

**Audio**, for rings, frames and pointers of any size:

- `AudioTypes`: `AudioSpec => []AudioTypeOK`.
- `DueIsSent`: `AudioSpec => SendsWhatIsDue`.

`AudioInv` has `PointerInv` (interrupt, decoder and microphone follow each other
around without lapping), `CountInv` (what `num_mic` and `num_dec` still say when the
decoder uses them: the interrupt only makes the number of decoded frames smaller, and
when it is one larger a frame was just passed over) and `FrameInv`: every frame
between the interrupt and the decoder is `Safe`: in its slot, or overwritten or
passed over, or three before a frame that was passed over. `DecodeBeginStep` is the heart:
two frames of one slot are `Slots` apart (`SameSlot`), so the slot written is being read
only if four frames wait, which `num_dec <= 3` excludes unless the overflow branch ran
in between. `NextFrame` is the arithmetic of packets that straddle frames.

### 5.9 SoftTimerProofs

For any number of timers, any intervals and any clock:

- `TypeCorrect`, `Ordered`, `Seen`: `[]` of `TypeOK`, `SortedByTime` and `NeverMissed`.

`TimeInv` is stronger than `NeverMissed`: the timer at place `k` of the table is late by
no more than `MaxTimerNum - k` calls, and one more when the loop has not come to
it. A timer that is passed over has moved one place to the front, so this is what
bounds how often it can be passed over. It also keeps all times of a table so near to
each other that the comparison of `blt_soft_timer.h` orders them although the clock
wraps around (`Compare`), which the sort needs (`SwapStep`, `SweepSettles`,
`Sorted`). The sort is a recursive function; that it exists, and what it computes
up to a number, are proved from the least element of a set of numbers (`UpTo`,
`Recursion`).

### 5.10 Only model-checked

Liveness (`UpdateCompletes`, `BusyEnds`, `OtaEnds`, `CommandsHandled`,
`SleepsWhenIdle`, `Recovers`, `TransferEnds`, `KeysAreReported`) stays with TLC: it
needs ENABLED, which the prover does not handle.

---

## 6. Disagreements between comments and code

1. **The index leaves the pairing sector** (`bond_overrun`). `app.c:513` says the
   rest of the sector "is big enough" at power-up. The sector is cleaned at
   power-up only; more than 256 pairings of one run write behind it, and the next
   scan does not find those bonds.
2. **A new slave is not discovered** (`discovery_lost`). `app.c:807` says a new
   slave "should do service discovery again". If it connects while the discovery
   of the connection before waits for its timeout, the end of that discovery
   clears the registration (`app.c:1165-1166`) and the busy flag (`app.c:121`).
   Its data is then looked up among the handles of the other device.
3. **Timers out of order** (by reading). `blt_soft_timer.c:22` says the
   sort makes the loop trigger in order. Deleting the entry under the loop
   (line 148) makes it pass over the next, which fires after a later one.
   `NeverMissed` shows that it is late by a call and not lost.
4. **A release is dropped** (by reading). `app.c:226` says "release can not
   drop". `release_key_pending` is set and never read.
5. **A refused parameter request is not answered** (by reading). `app.c:667-668`
   says a rejection should be sent.

---

## 7. Not modelled, and why

The modules were written in this order: `BondTable` and `BondStore`, `OtaBoot`,
`DongleHost`, `OtaMaster`, `ModuleUart`, `SoftTimer`, `KeyReport`, `AudioBuffer`,
`UsbControl`, `KeyScan`. They are the parts of the images that keep state over more
than one call and are reached.

- **The BLE remote.** In this commit `main` loops for ever in a test of SPI and I2C
  (`826x_ble_remote/main.c:139-198`) before it gets to `user_init` and `main_loop`,
  and `main_loop` has a loop of LEDs without an end (`app.c:861`) and no call of
  `proc_keyboard` (`app.c:854` is commented out). There is no behaviour to model.
  Read as if it were reached, its key handling never releases the consumer handle
  when one key takes over from another (`app.c:475-485`).
- **Buttons of the dongle.** The flags they set are free inputs of `DongleHost` and
  `OtaMaster`, which is more than any debouncing lets through.
- **Drivers and registers, LED patterns, feature tests**: no state that another part
  depends on. The register headers are the largest files of the repository.
- **The DMA UART driver and the memory managers**: no image calls them.
- **The HCI image**: the same fifos and interrupt as `ModuleUart`, with packets
  handed to the binary library.
- **WeChat encoding, the PC simulation and AES**: not part of the images.
- **The BLE library**: binary; **scripts**: not part of the running firmware.

Left out inside modelled parts: the numbers of the acceptance tests, the parsing
of discovery answers, LEDs, the CRC of OTA packets, battery checks, callbacks
of timers that change the table, the contents of descriptors, the ADPCM decoder,
the tables that give a key of the matrix its code.

Observed and covered by no property, because no text promises otherwise: an answer
or data of the radio is dropped when all eight transmit slots of the serial module
wait (`spp.c:259`); intervals of a timer above 2^30 ticks are not ordered by
`TIME_COMPARE_BIG` (`blt_soft_timer.h:32`); a discovery that times out is not tried
again in the connection (`app.c:91`); a change of the matrix would stay in the ring
if a caller did not read at once (`keyboard.c`); the test for the FN key uses the
drive line of the next row (`keyboard.c:315`; no key map has that key).

What a later extension could add: the composition of `DongleHost` and `OtaMaster`
over the flags they share, which now stand for each other as free inputs.
