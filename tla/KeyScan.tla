------------------------------- MODULE KeyScan -------------------------------
(***************************************************************************)
(* The keyboard matrix (proj/drivers/keyboard.c, keyboard.h), with the     *)
(* options of the remote control: scans are triggered by an interrupt      *)
(* flag, and ghost keys are not removed.                                   *)
(*                                                                         *)
(* The application calls kb_scan_key every 8 ms.  A call first looks       *)
(* whether any key is down, and then reads the lines one after the other;  *)
(* a contact that bounces may be read differently each time.  Both callers  *)
(* read at once (read_key is 1), so the ring of changes is empty between   *)
(* two calls and is left out.                                              *)
(***************************************************************************)
EXTENDS Naturals

CONSTANTS
    Keys,      \* the keys
    Line,      \* the scan line of a key
    Bounce,    \* calls during which a contact that was changed may bounce (3)
    Hold,      \* calls for which a key is down, or up, at least
    Rest       \* release_cnt: calls that go on after the last key was seen (6)

\* A contact bounces for three calls (24 ms) at the most, and a change lasts
\* for two calls more: the filter compares two readings in a row, so none of
\* the three bounds can be weakened by a call.
ASSUME ScanAssumption ==
    /\ DOMAIN Line = Keys
    /\ {Bounce, Hold, Rest} \subseteq Nat
    /\ Bounce <= 3 /\ Bounce + 2 <= Hold /\ Bounce + 3 <= Rest

VARIABLES
    held,      \* the keys that are held
    age,       \* calls since a key was pressed or released
    irq,       \* FLD_IRQ_GPIO_EN: a contact closed
    scanning,  \* key_not_released of kb_scan_key
    fresh,     \* no call yet
    releaseCnt, retLast,     \* of kb_key_pressed
    pre, last, \* mtrx_pre, mtrx_last
    event      \* the keys last returned in kb_event

user == <<held, age>>
driver == <<scanning, fresh, releaseCnt, retLast, pre, last, event>>
scanVars == <<user, irq, driver>>

Lines(m) == {Line[k] : k \in m}
Bouncing == {k \in Keys : age[k] < Bounce}

\* What reading the keys may give.
Readings == {m \in SUBSET (held \cup Bouncing) : held \ Bouncing \subseteq m}

ScanInit ==
    /\ held \in SUBSET Keys /\ irq = (held # {})
    /\ age = [k \in Keys |-> IF k \in held THEN Bounce ELSE Hold]
    /\ scanning = FALSE /\ fresh = TRUE /\ releaseCnt = 0 /\ retLast = {}
    /\ pre = {} /\ last = {}
    /\ event = {}

----------------------------------------------------------------------------
(***************************************************************************)
(* The driver.                                                             *)
(***************************************************************************)
\* Mutant of Need: the lines of the keys that are seen, only.
NeedNow(seen) == Lines(seen)

\* kb_key_pressed: the lines to scan when the keys seen are down.
Need(seen) ==
    IF seen # {} THEN Lines(seen) ELSE IF releaseCnt > 0 THEN retLast ELSE {}

\* Mutant of Pressed: the eight bits of the counter are decremented at zero too.
PressedWraps(seen) ==
    /\ retLast' = IF seen # {} THEN Lines(seen) ELSE retLast
    /\ releaseCnt' = IF seen # {} THEN Rest - 1 ELSE (releaseCnt + 255) % 256

Pressed(seen) ==
    /\ retLast' = IF seen # {} THEN Lines(seen) ELSE retLast
    /\ releaseCnt' = IF seen # {} THEN Rest - 1
                     ELSE IF releaseCnt > 0 THEN releaseCnt - 1 ELSE 0

\* Mutant of Debounced: a change is taken at once.
DebouncedNot(m) == m

\* key_debounce_filter: a key goes down when it was read down twice, and up
\* when it was read up twice.
Debounced(m) == ((pre \cap m) \ last) \cup (last \cap (pre \cup m))

\* kb_scan_key_value: matrix m was read.  A change is returned in kb_event.
ScanKeyValue(m, filter) ==
    LET cur == IF filter THEN Debounced(m) ELSE m
    IN /\ pre' = m /\ last' = cur
       /\ event' = IF cur # last THEN cur ELSE event

NextCall ==
    /\ fresh' = FALSE
    /\ age' = [k \in Keys |-> IF age[k] < Hold THEN age[k] + 1 ELSE Hold]

\* kb_scan_key.  A contact that was read open closes, or may close, later, and
\* that sets the flag again.
Scan(filter) ==
    /\ irq \/ scanning \/ ~filter
    /\ \E seen \in Readings :
          /\ irq' \in {held \ seen # {}, Bouncing # {}}
          /\ Pressed(seen)
          /\ IF Need(seen) # {}
               THEN /\ scanning' = TRUE
                    /\ \E m \in Readings :
                          ScanKeyValue({k \in m : Line[k] \in Need(seen)}, filter)
               ELSE /\ scanning' = FALSE
                    /\ UNCHANGED <<pre, last, event>>
    /\ NextCall
    /\ UNCHANGED held

\* Nothing to scan.
NoScan ==
    /\ ~irq /\ ~scanning
    /\ NextCall
    /\ UNCHANGED <<held, irq, scanning, releaseCnt, retLast, pre, last, event>>

\* The first call after a deep sleep, before any other, is not debounced.  No
\* contact bounces then: the chip has taken some time to start.
PowerOn == fresh /\ Bouncing = {} /\ Scan(FALSE)

----------------------------------------------------------------------------
\* A key is pressed or released.
Press(k) ==
    /\ k \notin held /\ age[k] = Hold
    /\ held' = held \cup {k} /\ age' = [age EXCEPT ![k] = 0] /\ irq' = TRUE
    /\ UNCHANGED driver

Release(k) ==
    /\ k \in held /\ age[k] = Hold
    /\ held' = held \ {k} /\ age' = [age EXCEPT ![k] = 0]
    /\ UNCHANGED <<irq, driver>>

ScanAndRead == Scan(TRUE) \/ NoScan

ScanNext ==
    \/ ScanAndRead \/ PowerOn
    \/ \E k \in Keys : Press(k) \/ Release(k)

ScanSpec == ScanInit /\ [][ScanNext]_scanVars

\* The application goes on calling.
FairScanSpec == ScanSpec /\ WF_scanVars(ScanAndRead)

----------------------------------------------------------------------------
\* The types of the variables.
ScanTypeOK ==
    /\ {held, pre, last, event} \subseteq SUBSET Keys
    /\ age \in [Keys -> 0..Hold]
    /\ {irq, scanning, fresh} \subseteq BOOLEAN
    /\ releaseCnt \in 0..Rest - 1 /\ retLast \subseteq Lines(Keys)

\* However its contact bounces, a key that is pressed once goes down once, and
\* goes up once when it is released.
NoChatter ==
    [][\A k \in Keys : fresh \/ (k \in last <=> k \in last') \/ (k \in last' <=> k \in held)]_scanVars

\* When the keys stay as they are, the application gets to know it: no key stays
\* down or up because the scan stopped too early, or because the contact
\* bounced while the flag was cleared.
KeysAreReported ==
    \A keys \in SUBSET Keys : <>[](held = keys) => <>[](event = keys)
=============================================================================
