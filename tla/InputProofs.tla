---------------------------- MODULE InputProofs ----------------------------
(***************************************************************************)
(* Proofs about the ways of what the user enters: the key reports of the   *)
(* dongle to the PC (KeyReport), the keyboard matrix of the remote         *)
(* (KeyScan) and the audio buffers of the dongle (AudioBuffer).            *)
(*                                                                         *)
(* Key reports, for any keys of the three pages: usbkb_not_released covers *)
(* the keys the PC shows, and a key that is held down is reported once.    *)
(* The matrix, for any keys on any lines: no key chatters.  The audio, for *)
(* rings and frames of any size: the PC gets the frame that is due.        *)
(***************************************************************************)
EXTENDS KeyReport, KeyScan, AudioBuffer, TLAPS

\* A key notified over USB is the one last_data holds, sent or not.
LastKept == ~pcTool /\ down \in Key => lastData = down

\* After a reset nothing is shown until the PC polls again.
ResetIsEmpty == rst => \A g \in Page : pc[g] = Up

\* A page whose release was taken back has had nothing sent since.
WithdrawnIsFree == \A g \in withdrawn : ep[g] = Idle

IInv == TypeOK /\ DownIsRemembered /\ LastKept /\ ResetIsEmpty /\ WithdrawnIsFree

\* The next step forgets nothing of page g.
Remembers(g) ==
    g \in notReleased \/ g \in withdrawn => g \in notReleased' \/ g \in withdrawn'

\* What an endpoint may hold, so that a report is never mistaken for Idle.
LEMMA ReportIsReal ==
    ASSUME NEW d \in Key
    PROVE Report(d) \in Pressable \cup {Up} /\ Report(d) # Idle
  BY KeyAssumption DEF Report, Key, Pressable

\* Send leaves a page alone that does not send, and writes the page of the key
\* or a release.
LEMMA SendPage ==
    ASSUME NEW d \in Key \cup {Up}, Send(d), TypeOK, NEW g \in Page
    PROVE /\ ep[g] # Idle => ep'[g] = ep[g] /\ Remembers(g)
          /\ ep[g] = Idle => \/ ep'[g] = Idle
                             \/ ep'[g] = Up
                             \/ ep'[g] # Up /\ g \in notReleased'
          /\ ep'[g] = Idle => ep[g] = Idle /\ Remembers(g)
          /\ ep'[g] \in Pressable \cup {Up, Idle}
          /\ g \in withdrawn' => g \in withdrawn /\ ep'[g] = ep[g]
  <1> DEFINE sent == Sent(d)
  <1>1. ep'[g] = IF g \notin sent THEN ep[g]
                 ELSE IF d \in Key /\ g = PageOf(d) THEN Report(d) ELSE Up
    BY DEF Send
  <1>2. notReleased' = (notReleased \ sent) \cup {h \in sent : d \in Key /\ h = PageOf(d)}
    BY DEF Send, Mark
  <1>3. withdrawn' = withdrawn \ sent
    BY DEF Send
  <1>4. d \in Key => Report(d) \in Pressable \cup {Up} /\ Report(d) # Idle
    BY ReportIsReal
  <1>5. ep[g] \in Pressable \cup {Up, Idle} /\ Up # Idle
    BY KeyAssumption DEF TypeOK
  <1> HIDE DEF sent
  <1>6. CASE g \notin sent
    <2>1. ep'[g] = ep[g] /\ Remembers(g)
      BY <1>1, <1>2, <1>6, <1>3 DEF Remembers
    <2> QED BY <2>1, <1>5, <1>3
  <1>7. CASE g \in sent
    <2>1. ep[g] = Idle
      BY <1>7 DEF Sent, Busy, sent
    <2>2. CASE d \in Key /\ g = PageOf(d)
      <3>1. ep'[g] = Report(d) /\ g \in notReleased'
        BY <1>1, <1>2, <1>7, <2>2
      <3> QED BY <3>1, <2>1, <1>4, <1>7, <1>3, <2>2
    <2>3. CASE ~(d \in Key /\ g = PageOf(d))
      <3>1. ep'[g] = Up
        BY <1>1, <1>7, <2>3
      <3> QED BY <3>1, <2>1, <1>5, <1>7, <1>3
    <2> QED BY <2>2, <2>3
  <1> QED BY <1>6, <1>7

\* The state before the first notification.
LEMMA InitInv == Init => IInv
  BY KeyAssumption DEF Init, IInv, TypeOK, DownIsRemembered, LastKept, ResetIsEmpty,
       WithdrawnIsFree, Shown, Key, Page, Pressable

\* Send keeps the types of the USB side, and one report in an endpoint: the
\* consumer page does not send when the system page does, or has a report there.
LEMMA SendType ==
    ASSUME NEW d \in Key \cup {Up}, Send(d), TypeOK
    PROVE /\ notReleased' \subseteq Page /\ withdrawn' \subseteq Page
          /\ ep' \in [Page -> Pressable \cup {Up, Idle}]
          /\ ep'["sys"] = Idle \/ ep'["media"] = Idle
  <1>1. notReleased' \subseteq Page /\ withdrawn' \subseteq Page
    BY DEF Send, Mark, Sent, Wanted, TypeOK
  <1>4. "sys" \in Page /\ "media" \in Page /\ Endpoint("sys") = Endpoint("media")
    BY DEF Page, Endpoint
  <1>5. \A g \in Page : g \notin Sent(d) => ep'[g] = ep[g]
    BY DEF Send
  <1>6. \A g \in {"sys", "media"} : g \in Sent(d) => ep["sys"] = Idle /\ ep["media"] = Idle
    BY <1>4 DEF Sent, Busy
  <1>7. "media" \in Sent(d) => "sys" \notin Sent(d)
    BY DEF Sent
  <1>8. ep'["sys"] = Idle \/ ep'["media"] = Idle
    BY <1>4, <1>5, <1>6, <1>7 DEF TypeOK
  <1>2. \A g \in Page : ep'[g] \in Pressable \cup {Up, Idle}
    BY SendPage
  <1>3. ep' = [g \in Page |-> ep'[g]]
    BY DEF Send
  <1> QED BY <1>1, <1>2, <1>3, <1>8

\* A notification keeps the invariant: the dropped reports leave their page
\* as it was, the others mark or release it.
LEMMA NotificationInv ==
    ASSUME IInv, NEW d \in Key \cup {Up}, Notification(d)
    PROVE IInv'
  <1> USE DEF IInv
  <1>1. CASE pcTool
    <2>1. UNCHANGED usb /\ ReportToPcTool(d) /\ down' = d /\ pcTool' = pcTool /\ rst' = rst
      BY <1>1 DEF Notification
    <2>2. DownIsRemembered'
      BY <2>1 DEF DownIsRemembered, Shown, usb
    <2>3. \/ reg' = Idle
          \/ reg' \in {"press", "repeat", "release"} \X (Key \cup {Up})
      BY <2>1, KeyAssumption DEF ReportToPcTool, TypeOK, Key
    <2>4. {down, lastData, lastKey, tool}' \subseteq Key \cup {Up} /\ {rst, pcTool, pending}' \subseteq BOOLEAN
      BY <2>1 DEF ReportToPcTool, TypeOK, usb
    <2>5. ResetIsEmpty' /\ WithdrawnIsFree'
      BY <2>1 DEF ResetIsEmpty, WithdrawnIsFree, usb
    <2> QED BY <1>1, <2>1, <2>2, <2>3, <2>4, <2>5 DEF TypeOK, LastKept, usb
  <1>2. CASE ~pcTool
    <2>1. UsbkbHidReport(d) /\ UNCHANGED debug /\ down' = d /\ pcTool' = pcTool /\ rst' = rst
      BY <1>2 DEF Notification
    <2>2. CASE d \in Key /\ d = lastData /\ UNCHANGED usb
      <3>1. TypeOK'
        BY <2>1, <2>2 DEF usb, debug, TypeOK
      <3>2. DownIsRemembered'
        BY <2>2 DEF DownIsRemembered, Shown, usb
      <3>3. LastKept' /\ ResetIsEmpty' /\ WithdrawnIsFree'
        BY <2>1, <2>2 DEF LastKept, ResetIsEmpty, WithdrawnIsFree, usb
      <3> QED BY <3>1, <3>2, <3>3
    <2>3. CASE Send(d) /\ lastData' = (IF d \in Key THEN d ELSE lastData) /\ UNCHANGED pc
      <3>1. TypeOK'
        BY <2>1, <2>3, SendType DEF TypeOK, debug
      <3>2. ASSUME NEW g \in Page, Shown(g)' # Up
            PROVE g \in notReleased' \/ g \in withdrawn'
        <4>1. ep'[g] # Idle => g \in notReleased' \/ ep'[g] = Up \/ (ep'[g] = ep[g] /\ ep[g] # Idle)
          BY <2>3, SendPage
        <4>2. CASE ep'[g] = Idle
          <5>1. Shown(g) = pc[g] /\ Shown(g)' = pc[g] /\ Remembers(g)
            BY <4>2, <2>3, SendPage DEF Shown
          <5> QED BY <5>1, <3>2 DEF DownIsRemembered, Remembers
        <4>3. CASE ep'[g] # Idle
          <5>1. Shown(g)' = ep'[g]
            BY <4>3 DEF Shown
          <5>2. CASE ep'[g] = ep[g] /\ ep[g] # Idle
            <6>1. Shown(g) = ep[g] /\ Remembers(g)
              BY <5>2, <2>3, SendPage DEF Shown
            <6> QED BY <6>1, <5>1, <5>2, <3>2 DEF DownIsRemembered, Remembers
          <5> QED BY <5>1, <5>2, <4>1, <4>3, <3>2
        <4> QED BY <4>2, <4>3
      <3>3. LastKept' /\ ResetIsEmpty'
        BY <2>1, <2>3 DEF LastKept, ResetIsEmpty
      <3>4. WithdrawnIsFree'
        BY <3>1, <2>3, SendPage DEF WithdrawnIsFree, TypeOK
      <3> QED BY <3>1, <3>2, <3>3, <3>4 DEF DownIsRemembered
    <2> QED BY <2>1, <2>2, <2>3 DEF UsbkbHidReport
  <1> QED BY <1>1, <1>2

\* The PC taking a report shows what was about to be shown.
LEMMA PollInv ==
    ASSUME IInv, NEW g \in Page, Poll(g)
    PROVE IInv'
  <1> USE DEF IInv
  <1>1. \A h \in Page : Shown(h)' = Shown(h)
    BY DEF Poll, Shown, TypeOK
  <1>2. DownIsRemembered'
    BY <1>1 DEF DownIsRemembered, Poll
  <1>3. ep[g] \in Pressable \cup {Up}
    BY DEF Poll, TypeOK
  <1>4. TypeOK'
    BY <1>3 DEF Poll, TypeOK, debug
  <1>5. LastKept' /\ ResetIsEmpty' /\ WithdrawnIsFree'
    BY DEF Poll, LastKept, ResetIsEmpty, WithdrawnIsFree, TypeOK
  <1> QED BY <1>2, <1>4, <1>5

\* The tool clearing the register.
LEMMA FetchInv ==
    ASSUME IInv, Fetch
    PROVE IInv'
  <1> USE DEF IInv
  <1>1. UNCHANGED usb /\ UNCHANGED <<down, rst, pcTool, lastKey, pending>> /\ reg' = Idle
    BY DEF Fetch
  <1>2. tool' \in Key \cup {Up}
    BY DEF Fetch, TypeOK
  <1>3. TypeOK'
    BY <1>1, <1>2 DEF TypeOK, usb
  <1>4. DownIsRemembered'
    BY <1>1 DEF DownIsRemembered, Shown, usb
  <1>5. LastKept' /\ ResetIsEmpty' /\ WithdrawnIsFree'
    BY <1>1 DEF LastKept, ResetIsEmpty, WithdrawnIsFree, usb
  <1> QED BY <1>3, <1>4, <1>5

\* SET_PROTOCOL takes back a report: a key that is not shown then, or a release,
\* which is noted.
LEMMA SetProtocolInv ==
    ASSUME IInv, SetProtocol
    PROVE IInv'
  <1> USE DEF IInv
  <1>1. TypeOK'
    BY DEF SetProtocol, TypeOK, debug, Page
  <1>2. ASSUME NEW g \in Page, Shown(g)' # Up
        PROVE g \in notReleased' \/ g \in withdrawn'
    <2>1. notReleased' = notReleased /\ withdrawn \subseteq withdrawn' /\ pc' = pc
      BY DEF SetProtocol
    <2>2. CASE Endpoint(g) # "mouse"
      <3>1. Shown(g)' = Shown(g)
        BY <2>1, <2>2 DEF SetProtocol, Shown, TypeOK
      <3> QED BY <3>1, <2>1, <1>2 DEF DownIsRemembered
    <2>3. CASE Endpoint(g) = "mouse"
      <3>1. ep'[g] = Idle /\ pc[g] # Up
        BY <2>1, <2>3, <1>2, KeyAssumption DEF SetProtocol, Shown, TypeOK
      <3>2. CASE ep[g] = Up
        BY <3>1, <3>2, <2>3 DEF SetProtocol
      <3>3. CASE ep[g] # Up
        <4>1. Shown(g) # Up
          BY <3>1, <3>3 DEF Shown
        <4> QED BY <4>1, <2>1 DEF DownIsRemembered
      <3> QED BY <3>2, <3>3
    <2> QED BY <2>2, <2>3
  <1>3. LastKept' /\ ResetIsEmpty'
    BY DEF SetProtocol, LastKept, ResetIsEmpty
  <1>4. WithdrawnIsFree'
    <2>1. \A g \in Page : ep'[g] = IF Endpoint(g) = "mouse" THEN Idle ELSE ep[g]
      BY DEF SetProtocol, TypeOK
    <2>2. \A g \in withdrawn' : g \in Page /\ (g \in withdrawn \/ Endpoint(g) = "mouse")
      BY <1>1 DEF SetProtocol, TypeOK
    <2> QED BY <2>1, <2>2 DEF WithdrawnIsFree
  <1> QED BY <1>1, <1>2, <1>3, <1>4 DEF DownIsRemembered

\* While a reset waits for the main loop the PC shows nothing.
LEMMA BusResetInv ==
    ASSUME IInv, BusReset
    PROVE IInv'
  <1> USE DEF IInv
  <1>1. TypeOK'
    BY KeyAssumption DEF BusReset, TypeOK, debug
  <1>2. ASSUME NEW g \in Page, Shown(g)' # Up
        PROVE g \in notReleased'
    <2>1. ep[g] # Idle /\ Shown(g)' = ep[g]
      BY <1>2 DEF BusReset, Shown
    <2>2. Shown(g) # Up /\ g \notin withdrawn
      BY <2>1, <1>2 DEF Shown, WithdrawnIsFree
    <2> QED BY <2>2 DEF BusReset, DownIsRemembered
  <1>3. LastKept' /\ ResetIsEmpty' /\ WithdrawnIsFree'
    BY DEF BusReset, LastKept, ResetIsEmpty, WithdrawnIsFree
  <1> QED BY <1>1, <1>2, <1>3 DEF DownIsRemembered

\* The endpoints are cleared, and the PC shows nothing.
LEMMA HandleResetInv ==
    ASSUME IInv, HandleReset
    PROVE IInv'
  <1> USE DEF IInv
  <1>1. TypeOK'
    <2>1. {"sys", "media"} \subseteq Page /\ ep' = [g \in Page |-> Idle]
      BY DEF HandleReset, Page
    <2>2. ep'["sys"] = Idle /\ ep' \in [Page -> Pressable \cup {Up, Idle}]
      BY ONLY <2>1
    <2> QED BY <2>2 DEF HandleReset, TypeOK, debug
  <1>2. \A g \in Page : Shown(g)' = Up
    BY DEF HandleReset, Shown, ResetIsEmpty
  <1>3. LastKept' /\ ResetIsEmpty' /\ WithdrawnIsFree'
    BY DEF HandleReset, LastKept, ResetIsEmpty, WithdrawnIsFree, TypeOK
  <1> QED BY <1>1, <1>2, <1>3 DEF DownIsRemembered

\* The inductive invariant, for any keys of the three pages.
LEMMA Invariant == Spec => []IInv
  <1>1. IInv /\ [Next]_vars => IInv'
    <2> SUFFICES ASSUME IInv, [Next]_vars PROVE IInv'
      OBVIOUS
    <2>1. CASE UNCHANGED vars
      BY <2>1 DEF vars, usb, debug, IInv, TypeOK, DownIsRemembered, LastKept, ResetIsEmpty,
           WithdrawnIsFree, Shown
    <2>2. CASE Next
      BY <2>2, NotificationInv, PollInv, FetchInv, SetProtocolInv, BusResetInv, HandleResetInv
         DEF Next
    <2> QED BY <2>1, <2>2
  <1> QED BY InitInv, <1>1, PTL DEF Spec

\* The variables keep their types, whatever the keys.
THEOREM TypeCorrect == Spec => []TypeOK
  BY Invariant, PTL DEF IInv

\* What the dongle remembers as not released covers what the PC shows, in every
\* state and whatever the keys.
THEOREM Remembered == Spec => []DownIsRemembered
  BY Invariant, PTL DEF IInv

\* A key notified again while the PC shows it writes nothing: the page of the
\* key is not released, and last_data holds the key.
THEOREM OneReport == Spec => OneReportPerPress
  <1> DEFINE Quiet == \A k \in Pressable :
                  ~pcTool /\ Notification(k) /\ down = k /\ Shown(PageOf(k)) = k
                      => ep' = ep \/ PageOf(k) \in withdrawn
  <1>1. IInv /\ [Next]_vars => [Quiet]_vars
    <2> SUFFICES ASSUME IInv, NEW k \in Pressable, ~pcTool, Notification(k),
                        down = k, Shown(PageOf(k)) = k, PageOf(k) \notin withdrawn
                 PROVE  ep' = ep
      OBVIOUS
    <2>1. k \in Key /\ k # Up /\ PageOf(k) \in Page
      BY KeyAssumption DEF Key, PageOf, Page, Pressable
    <2>2. notReleased # {}
      BY <2>1 DEF IInv, DownIsRemembered
    <2>3. lastData = k
      BY <2>1 DEF IInv, LastKept
    <2> QED BY <2>1, <2>2, <2>3 DEF Notification, UsbkbHidReport, usb
  <1> QED BY Invariant, <1>1, PTL DEF Spec, OneReportPerPress

\* A release that finds both endpoints free releases what the PC shows, but for
\* the consumer page when the system page has the endpoint of both.
THEOREM Released == Spec => ReleaseOnFreeEndpoints
  <1> DEFINE Clean == Notification(Up) /\ ~pcTool /\ (\A g \in Page : ep[g] = Idle)
                        => \A g \in Page : Shown(g)' # Up =>
                              \/ g \in withdrawn
                              \/ g = "media" /\ "sys" \in notReleased
  <1>1. IInv /\ [Next]_vars => [Clean]_vars
    <2> SUFFICES ASSUME IInv, Notification(Up), ~pcTool, \A h \in Page : ep[h] = Idle,
                        NEW g \in Page, g \notin withdrawn,
                        g = "media" => "sys" \notin notReleased
                 PROVE  Shown(g)' = Up
      OBVIOUS
    <2>1. Up \notin Key
      BY KeyAssumption DEF Key, Pressable
    <2>2. Send(Up) /\ UNCHANGED pc
      BY <2>1 DEF Notification, UsbkbHidReport
    <2>3. Wanted(Up) = notReleased
      BY <2>1 DEF Wanted
    <2>4. CASE g \in notReleased
      <3>1. g \in Sent(Up)
        BY <2>3, <2>4 DEF Sent, Busy
      <3>2. ep'[g] = Up
        BY <2>1, <2>2, <3>1 DEF Send
      <3> QED BY <3>2, KeyAssumption DEF Shown
    <2>5. CASE g \notin notReleased
      <3>1. ep'[g] = ep[g] /\ pc'[g] = pc[g]
        BY <2>2, <2>3, <2>5 DEF Send, Sent
      <3> QED BY <3>1, <2>5 DEF Shown, IInv, DownIsRemembered
    <2> QED BY <2>4, <2>5
  <1> QED BY Invariant, <1>1, PTL DEF Spec, ReleaseOnFreeEndpoints

----------------------------------------------------------------------------
(***************************************************************************)
(* The keyboard matrix of the remote, KeyScan.                             *)
(***************************************************************************)

\* A key that is down keeps the scan going.
Awake == held # {} => irq \/ scanning

\* A key whose contact has closed for good was read down in every call since,
\* and went down with the second of them.
SeenDown(k) ==
    k \in held /\ Bounce < age[k] =>
        /\ k \in pre /\ scanning /\ retLast # {} /\ releaseCnt = Rest - 1
        /\ Bounce + 1 < age[k] => k \in last

\* While it bounces, it goes down at most once.
GoesDown(k) ==
    k \in held /\ age[k] <= Bounce =>
        /\ age[k] = 0 => k \notin pre /\ k \notin last
        /\ age[k] <= 1 => k \notin last
        /\ age[k] <= 2 => k \notin last \/ k \in pre

\* A key that is up is seen as up, or it has been released so shortly that the
\* scan goes on until two readings say so.
GoesUp(k) ==
    k \notin held =>
        \/ Bounce <= age[k] /\ k \notin pre /\ k \notin last
        \/ /\ age[k] <= Bounce + 1
           /\ scanning /\ retLast # {} /\ Rest - 1 <= releaseCnt + age[k]
           /\ age[k] = 0 => k \in pre /\ k \in last
           /\ age[k] <= 1 => k \in last
           /\ age[k] <= 2 => k \in last \/ k \notin pre
           /\ age[k] = Bounce + 1 => k \notin pre

MatrixInv ==
    /\ ScanTypeOK
    /\ fresh => ~scanning
    /\ Awake
    /\ \A k \in Keys : SeenDown(k) /\ GoesDown(k) /\ GoesUp(k)

\* The lines that are read include that of a key that was seen, and there are
\* some as long as keys are seen or the scan does not rest.
LEMMA NeedLines ==
    ASSUME ScanAssumption, MatrixInv, NEW seen \in SUBSET Keys
    PROVE  /\ Need(seen) \subseteq Lines(Keys)
           /\ \A k \in seen : Line[k] \in Need(seen)
           /\ seen # {} \/ (releaseCnt > 0 /\ retLast # {}) => Need(seen) # {}
  <1>1. retLast \subseteq Lines(Keys)
    BY DEF MatrixInv, ScanTypeOK
  <1>2. CASE seen # {}
    <2>1. Need(seen) = Lines(seen)
      BY <1>2 DEF Need
    <2> QED BY <1>2, <2>1 DEF Lines
  <1>3. CASE seen = {}
    BY <1>1, <1>3 DEF Need
  <1> QED BY <1>2, <1>3

\* What a call reads: a set of keys that has every key that is down and does
\* not bounce, and no key that is up and does not.
LEMMA ReadingIs ==
    ASSUME ScanAssumption, MatrixInv, NEW m \in Readings
    PROVE  /\ m \in SUBSET Keys
           /\ \A k \in Keys : age[k] >= Bounce => (k \in m <=> k \in held)
  BY DEF Readings, Bouncing, MatrixInv, ScanTypeOK

\* kb_scan_key reads the lines and filters, or there is nothing to read.
Reads(m, filter) ==
    /\ pre' = m
    /\ last' = IF filter THEN Debounced(m) ELSE m

Quiet == releaseCnt = 0 \/ retLast = {}

LEMMA ScanIs ==
    ASSUME ScanAssumption, MatrixInv, NEW filter \in BOOLEAN, Scan(filter)
    PROVE  /\ age' = [k \in Keys |-> IF age[k] < Hold THEN age[k] + 1 ELSE Hold]
           /\ ~fresh' /\ held' = held /\ ScanTypeOK'
           /\ (\E k \in held : age[k] >= Bounce) =>
                 scanning' /\ retLast' # {} /\ releaseCnt' = Rest - 1
           /\ ~Quiet => /\ scanning' /\ retLast' # {}
                        /\ releaseCnt' \in {releaseCnt - 1, Rest - 1}
           /\ held # {} => irq' \/ scanning'
           /\ \/ \E m \in SUBSET Keys :
                    /\ Reads(m, filter)
                    /\ \A k \in Keys : age[k] >= Bounce => (k \in m <=> k \in held)
              \/ /\ UNCHANGED <<pre, last>> /\ Quiet
                 /\ \A k \in held : age[k] < Bounce
  <1>0. /\ ScanTypeOK /\ releaseCnt \in Nat /\ releaseCnt <= Rest - 1 /\ Rest \in Nat /\ Rest > 0
        /\ \A k \in Keys : age[k] \in Nat
        /\ Hold \in Nat /\ Bounce \in Nat
    BY ScanAssumption DEF MatrixInv, ScanTypeOK
  <1>1. PICK seen \in Readings :
          /\ irq' \in {held \ seen # {}, Bouncing # {}}
          /\ Pressed(seen)
          /\ IF Need(seen) # {}
               THEN /\ scanning' = TRUE
                    /\ \E m \in Readings :
                          ScanKeyValue({k \in m : Line[k] \in Need(seen)}, filter)
               ELSE /\ scanning' = FALSE
                    /\ UNCHANGED <<pre, last, event>>
    BY DEF Scan
  <1>2. /\ age' = [k \in Keys |-> IF age[k] < Hold THEN age[k] + 1 ELSE Hold]
        /\ fresh' = FALSE /\ held' = held
    BY DEF Scan, NextCall
  <1>3. /\ seen \in SUBSET Keys
        /\ \A k \in Keys : age[k] >= Bounce => (k \in seen <=> k \in held)
    BY ReadingIs
  <1>4. /\ Need(seen) \subseteq Lines(Keys)
        /\ \A k \in seen : Line[k] \in Need(seen)
        /\ seen # {} \/ (releaseCnt > 0 /\ retLast # {}) => Need(seen) # {}
    BY <1>3, NeedLines
  <1>5. /\ seen # {} => retLast' = Lines(seen) /\ releaseCnt' = Rest - 1
        /\ seen = {} => retLast' = retLast
                        /\ releaseCnt' = IF releaseCnt > 0 THEN releaseCnt - 1 ELSE 0
    BY <1>1 DEF Pressed
  <1>6. seen # {} => Lines(seen) # {} /\ Lines(seen) \subseteq Lines(Keys)
    BY <1>3 DEF Lines
  <1>7. retLast' \subseteq Lines(Keys) /\ releaseCnt' \in 0..Rest - 1
    BY <1>0, <1>5, <1>6 DEF ScanTypeOK
  <1>8. /\ irq' \in BOOLEAN
        /\ held # {} => irq' = TRUE \/ seen # {}
    <2>1. irq' \in BOOLEAN
      BY <1>1
    <2>2. ASSUME NEW k \in held, seen = {}
          PROVE  irq' = TRUE
      <3>1. k \in Keys /\ ~(age[k] >= Bounce)
        BY <1>0, <1>3, <2>2 DEF ScanTypeOK
      <3>2. Bouncing # {} /\ held \ seen # {}
        BY <1>0, <2>2, <3>1 DEF Bouncing
      <3> QED BY <1>1, <3>2
    <2> QED BY <2>1, <2>2
  <1>9. age' \in [Keys -> 0..Hold]
    BY <1>0, <1>2 DEF ScanTypeOK
  <1>10. (\E k \in held : age[k] >= Bounce) => seen # {}
    BY <1>0, <1>3 DEF ScanTypeOK
  <1>11. ~Quiet => retLast # {} /\ releaseCnt > 0
    BY <1>0 DEF Quiet
  <1>12. CASE Need(seen) # {}
    <2>1. PICK r \in Readings : ScanKeyValue({k \in r : Line[k] \in Need(seen)}, filter)
      BY <1>1, <1>12
    <2> DEFINE m == {k \in r : Line[k] \in Need(seen)}
    <2>2. m \in SUBSET Keys /\ \A k \in Keys : age[k] >= Bounce => (k \in m <=> k \in held)
      BY <1>3, <1>4, ReadingIs
    <2>3. Reads(m, filter) /\ event' \in {last', event}
      BY <2>1 DEF ScanKeyValue, Reads
    <2> HIDE DEF m
    <2>4. last' \in SUBSET Keys /\ pre' \in SUBSET Keys /\ event' \in SUBSET Keys
      BY <1>0, <2>2, <2>3 DEF Reads, Debounced, ScanTypeOK
    <2>5. scanning' = TRUE
      BY <1>1, <1>12
    <2>6. ScanTypeOK'
      BY <1>0, <1>2, <1>7, <1>8, <1>9, <2>4, <2>5 DEF ScanTypeOK
    <2>7. ~Quiet => retLast' # {} /\ releaseCnt' \in {releaseCnt - 1, Rest - 1}
      BY <1>5, <1>6, <1>11
    <2>8. (\E k \in held : age[k] >= Bounce) => retLast' # {} /\ releaseCnt' = Rest - 1
      BY <1>5, <1>6, <1>10
    <2> QED BY <1>2, <2>2, <2>3, <2>5, <2>6, <2>7, <2>8
  <1>13. CASE Need(seen) = {}
    <2>1. seen = {} /\ (releaseCnt = 0 \/ retLast = {})
      BY <1>0, <1>4, <1>13
    <2>2. Quiet /\ ~(\E k \in held : age[k] >= Bounce)
      BY <1>10, <2>1 DEF Quiet
    <2>3. ASSUME NEW k \in held
          PROVE  age[k] < Bounce
      <3>1. age[k] \in Nat /\ ~(age[k] >= Bounce)
        BY <1>0, <2>2 DEF ScanTypeOK
      <3> QED BY <1>0, <3>1
    <2>4. scanning' = FALSE /\ UNCHANGED <<pre, last, event>>
      BY <1>1, <1>13
    <2>5. ScanTypeOK'
      BY <1>0, <1>2, <1>7, <1>8, <1>9, <2>4 DEF ScanTypeOK
    <2> QED BY <1>2, <1>8, <2>1, <2>2, <2>3, <2>4, <2>5
  <1> QED BY <1>12, <1>13

\* The keys in a call that reads the lines.
LEMMA ReadKey ==
    ASSUME ScanAssumption, MatrixInv, NEW filter \in BOOLEAN, Scan(filter),
           filter = FALSE => fresh /\ Bouncing = {},
           NEW m \in SUBSET Keys, Reads(m, filter), NEW k \in Keys,
           age[k] >= Bounce => (k \in m <=> k \in held)
    PROVE  /\ (SeenDown(k) /\ GoesDown(k) /\ GoesUp(k))'
           /\ fresh \/ (k \in last <=> k \in last') \/ (k \in last' <=> k \in held)
  <1>0. /\ ScanTypeOK /\ releaseCnt \in Nat /\ releaseCnt <= Rest - 1 /\ Rest \in Nat
        /\ age[k] \in 0..Hold /\ Hold \in Nat /\ Bounce \in Nat
        /\ Bounce <= 3 /\ Bounce + 2 <= Hold /\ Bounce + 3 <= Rest
        /\ SeenDown(k) /\ GoesDown(k) /\ GoesUp(k)
        /\ fresh => ~scanning
    BY ScanAssumption DEF MatrixInv, ScanTypeOK
  <1>1. /\ age'[k] = IF age[k] < Hold THEN age[k] + 1 ELSE Hold
        /\ held' = held
        /\ k \in held /\ age[k] >= Bounce =>
              scanning' /\ retLast' # {} /\ releaseCnt' = Rest - 1
        /\ ~Quiet => /\ scanning' /\ retLast' # {}
                     /\ releaseCnt' \in {releaseCnt - 1, Rest - 1}
    BY ScanIs
  <1>2. pre' = m /\ (filter => last' = Debounced(m)) /\ (~filter => last' = m)
    BY DEF Reads
  <1>3. filter => (k \in last' <=> \/ k \in pre /\ k \in m
                                   \/ k \in last /\ (k \in pre \/ k \in m))
    BY <1>2 DEF Debounced
  <1>4. ~filter => fresh /\ ~scanning /\ age[k] >= Bounce
    BY <1>0 DEF Bouncing
  <1>5. ASSUME k \in held
        PROVE  (SeenDown(k) /\ GoesDown(k))'
    BY <1>0, <1>1, <1>2, <1>3, <1>4, <1>5 DEF SeenDown, GoesDown
  <1>6. ASSUME k \notin held
        PROVE  GoesUp(k)'
    BY <1>0, <1>1, <1>2, <1>3, <1>4, <1>6 DEF GoesUp, Quiet
  <1>7. (SeenDown(k) /\ GoesDown(k) /\ GoesUp(k))'
    BY <1>1, <1>5, <1>6 DEF SeenDown, GoesDown, GoesUp
  <1>8. fresh \/ (k \in last <=> k \in last') \/ (k \in last' <=> k \in held)
    BY <1>0, <1>1, <1>2, <1>3, <1>4 DEF SeenDown, GoesDown, GoesUp
  <1> QED BY <1>7, <1>8

\* The keys in a call that reads nothing: they are up, and seen so, or bounce.
LEMMA QuietKey ==
    ASSUME ScanAssumption, MatrixInv, NEW k \in Keys, Quiet \/ ~scanning,
           held' = held, UNCHANGED <<pre, last>>,
           age' = [j \in Keys |-> IF age[j] < Hold THEN age[j] + 1 ELSE Hold],
           k \in held => age[k] < Bounce
    PROVE  (SeenDown(k) /\ GoesDown(k) /\ GoesUp(k))'
  <1>0. /\ ScanTypeOK /\ releaseCnt \in Nat /\ releaseCnt <= Rest - 1 /\ Rest \in Nat
        /\ age[k] \in 0..Hold /\ Hold \in Nat /\ Bounce \in Nat
        /\ Bounce <= 3 /\ Bounce + 2 <= Hold /\ Bounce + 3 <= Rest
        /\ SeenDown(k) /\ GoesDown(k) /\ GoesUp(k)
        /\ age'[k] = IF age[k] < Hold THEN age[k] + 1 ELSE Hold
    BY ScanAssumption DEF MatrixInv, ScanTypeOK
  <1>1. ASSUME k \in held
        PROVE  (SeenDown(k) /\ GoesDown(k))'
    BY <1>0, <1>1 DEF SeenDown, GoesDown
  <1>2. ASSUME k \notin held
        PROVE  GoesUp(k)'
    BY <1>0, <1>2 DEF GoesUp, Quiet
  <1> QED BY <1>1, <1>2 DEF SeenDown, GoesDown, GoesUp

LEMMA ScanStep ==
    ASSUME ScanAssumption, MatrixInv, NEW filter \in BOOLEAN, Scan(filter),
           filter = FALSE => fresh /\ Bouncing = {}
    PROVE  /\ MatrixInv'
           /\ \A k \in Keys : fresh \/ (k \in last <=> k \in last') \/ (k \in last' <=> k \in held)
  <1>1. /\ age' = [k \in Keys |-> IF age[k] < Hold THEN age[k] + 1 ELSE Hold]
        /\ ~fresh' /\ held' = held /\ ScanTypeOK' /\ Awake'
    BY ScanIs DEF Awake
  <1>2. ASSUME NEW k \in Keys
        PROVE  /\ (SeenDown(k) /\ GoesDown(k) /\ GoesUp(k))'
               /\ fresh \/ (k \in last <=> k \in last') \/ (k \in last' <=> k \in held)
    <2>1. \/ \E m \in SUBSET Keys :
                /\ Reads(m, filter)
                /\ \A j \in Keys : age[j] >= Bounce => (j \in m <=> j \in held)
          \/ /\ UNCHANGED <<pre, last>> /\ Quiet
             /\ \A j \in held : age[j] < Bounce
      BY ScanIs
    <2>2. CASE \E m \in SUBSET Keys :
                 /\ Reads(m, filter)
                 /\ \A j \in Keys : age[j] >= Bounce => (j \in m <=> j \in held)
      BY <2>2, ReadKey
    <2>3. CASE /\ UNCHANGED <<pre, last>> /\ Quiet
               /\ \A j \in held : age[j] < Bounce
      BY <1>1, <2>3, QuietKey
    <2> QED BY <2>1, <2>2, <2>3
  <1> QED BY <1>1, <1>2 DEF MatrixInv

LEMMA NoScanStep ==
    ASSUME ScanAssumption, MatrixInv, NoScan
    PROVE  MatrixInv'
  <1>1. /\ age' = [k \in Keys |-> IF age[k] < Hold THEN age[k] + 1 ELSE Hold]
        /\ fresh' = FALSE /\ ~irq /\ ~scanning
        /\ UNCHANGED <<held, irq, scanning, releaseCnt, retLast, pre, last, event>>
    BY DEF NoScan, NextCall
  <1>2. age' \in [Keys -> 0..Hold]
    BY <1>1, ScanAssumption DEF MatrixInv, ScanTypeOK
  <1>3. ScanTypeOK'
    BY <1>1, <1>2 DEF MatrixInv, ScanTypeOK
  <1>4. held = {}
    BY <1>1 DEF MatrixInv, Awake
  <1>5. \A k \in Keys : (SeenDown(k) /\ GoesDown(k) /\ GoesUp(k))'
    BY <1>1, <1>4, QuietKey
  <1> QED BY <1>1, <1>3, <1>4, <1>5 DEF MatrixInv, Awake

LEMMA PressStep ==
    ASSUME ScanAssumption, MatrixInv, NEW k \in Keys, Press(k)
    PROVE  MatrixInv'
  <1>1. /\ k \notin held /\ age[k] = Hold /\ age \in [Keys -> 0..Hold]
        /\ held' = held \cup {k} /\ age' = [age EXCEPT ![k] = 0] /\ irq' = TRUE
        /\ UNCHANGED <<scanning, fresh, releaseCnt, retLast, pre, last, event>>
        /\ Hold \in Nat /\ Bounce \in Nat /\ Bounce + 2 <= Hold
    BY ScanAssumption DEF Press, driver, MatrixInv, ScanTypeOK
  <1>2. ScanTypeOK'
    BY <1>1 DEF MatrixInv, ScanTypeOK
  <1>3. k \notin pre /\ k \notin last
    BY <1>1 DEF MatrixInv, GoesUp
  <1>4. ASSUME NEW j \in Keys
        PROVE  (SeenDown(j) /\ GoesDown(j) /\ GoesUp(j))'
    <2>1. SeenDown(j) /\ GoesDown(j) /\ GoesUp(j)
      BY DEF MatrixInv
    <2>2. CASE j = k
      BY <1>1, <1>3, <2>2 DEF SeenDown, GoesDown, GoesUp
    <2>3. CASE j # k
      BY <1>1, <2>1, <2>3 DEF SeenDown, GoesDown, GoesUp
    <2> QED BY <2>2, <2>3
  <1> QED BY <1>1, <1>2, <1>4 DEF MatrixInv, Awake

LEMMA ReleaseStep ==
    ASSUME ScanAssumption, MatrixInv, NEW k \in Keys, Release(k)
    PROVE  MatrixInv'
  <1>1. /\ k \in held /\ age[k] = Hold /\ age \in [Keys -> 0..Hold]
        /\ held' = held \ {k} /\ age' = [age EXCEPT ![k] = 0]
        /\ UNCHANGED <<irq, scanning, fresh, releaseCnt, retLast, pre, last, event>>
        /\ Hold \in Nat /\ Bounce \in Nat /\ Bounce + 2 <= Hold
    BY ScanAssumption DEF Release, driver, MatrixInv, ScanTypeOK
  <1>2. ScanTypeOK'
    BY <1>1 DEF MatrixInv, ScanTypeOK
  <1>3. k \in pre /\ k \in last /\ scanning /\ retLast # {} /\ releaseCnt = Rest - 1
    BY <1>1 DEF MatrixInv, SeenDown
  <1>4. Rest - 1 <= releaseCnt + 0
    BY <1>3, ScanAssumption
  <1>5. ASSUME NEW j \in Keys
        PROVE  (SeenDown(j) /\ GoesDown(j) /\ GoesUp(j))'
    <2>1. SeenDown(j) /\ GoesDown(j) /\ GoesUp(j)
      BY DEF MatrixInv
    <2>2. CASE j = k
      BY <1>1, <1>3, <1>4, <2>2 DEF SeenDown, GoesDown, GoesUp
    <2>3. CASE j # k
      BY <1>1, <2>1, <2>3 DEF SeenDown, GoesDown, GoesUp
    <2> QED BY <2>2, <2>3
  <1> QED BY <1>1, <1>2, <1>3, <1>5 DEF MatrixInv, Awake

LEMMA MatrixInit == ASSUME ScanAssumption, ScanInit PROVE MatrixInv
  <1>0. Hold \in Nat /\ Bounce \in Nat /\ Rest \in Nat /\ Bounce + 2 <= Hold /\ Bounce + 3 <= Rest
    BY ScanAssumption
  <1>1. /\ held \in SUBSET Keys /\ irq \in BOOLEAN
        /\ age = [k \in Keys |-> IF k \in held THEN Bounce ELSE Hold]
        /\ scanning = FALSE /\ fresh = TRUE /\ releaseCnt = 0 /\ retLast = {}
        /\ pre = {} /\ last = {} /\ event = {}
    BY DEF ScanInit
  <1>2. ScanTypeOK
    <2>1. age \in [Keys -> 0..Hold]
      BY <1>0, <1>1
    <2>2. releaseCnt \in 0..Rest - 1
      BY <1>0, <1>1
    <2>3. {irq, scanning, fresh} \subseteq BOOLEAN
      BY <1>1
    <2>4. {held, pre, last, event} \subseteq SUBSET Keys /\ retLast \subseteq Lines(Keys)
      BY <1>1
    <2> QED BY <2>1, <2>2, <2>3, <2>4 DEF ScanTypeOK
  <1>3. ASSUME NEW k \in Keys
        PROVE  SeenDown(k) /\ GoesDown(k) /\ GoesUp(k)
    <2>1. CASE k \in held
      BY <1>0, <1>1, <2>1 DEF SeenDown, GoesDown, GoesUp
    <2>2. CASE k \notin held
      BY <1>0, <1>1, <2>2 DEF SeenDown, GoesDown, GoesUp
    <2> QED BY <2>1, <2>2
  <1> QED BY <1>2, <1>3 DEF MatrixInv, Awake, ScanInit

LEMMA MatrixNext ==
    ASSUME ScanAssumption, MatrixInv, [ScanNext]_scanVars
    PROVE  MatrixInv'
  <1>1. CASE Scan(TRUE)
    BY <1>1, ScanStep
  <1>2. CASE PowerOn
    BY <1>2, ScanStep DEF PowerOn
  <1>3. CASE UNCHANGED scanVars
    <2>1. UNCHANGED <<held, age, irq, scanning, fresh, releaseCnt, retLast, pre, last, event>>
      BY <1>3 DEF scanVars, user, driver
    <2> QED BY <2>1 DEF MatrixInv, ScanTypeOK, Awake, SeenDown, GoesDown, GoesUp
  <1> QED BY <1>1, <1>2, <1>3, NoScanStep, PressStep, ReleaseStep DEF ScanNext, ScanAndRead

LEMMA ChangesOnce ==
    ASSUME ScanAssumption, MatrixInv, [ScanNext]_scanVars, NEW k \in Keys
    PROVE  fresh \/ (k \in last <=> k \in last') \/ (k \in last' <=> k \in held)
  <1>1. CASE Scan(TRUE)
    BY <1>1, ScanStep
  <1>2. CASE PowerOn
    BY <1>2 DEF PowerOn
  <1>3. CASE UNCHANGED last
    BY <1>3
  <1> QED BY <1>1, <1>2, <1>3 DEF ScanNext, ScanAndRead, NoScan, Press, Release, scanVars, driver

LEMMA MatrixInvariant == ScanSpec => []MatrixInv
  <1>1. ScanInit => MatrixInv
    BY MatrixInit, ScanAssumption
  <1>2. MatrixInv /\ [ScanNext]_scanVars => MatrixInv'
    BY MatrixNext, ScanAssumption
  <1> QED BY <1>1, <1>2, PTL DEF ScanSpec

\* The types of the matrix driver (keyboard.c:178-468) hold in every behaviour.
THEOREM MatrixTypes == ScanSpec => []ScanTypeOK
  BY MatrixInvariant, PTL DEF MatrixInv

\* However the contacts bounce (key_debounce_filter, keyboard.c:206-244), and
\* although the scan rests between presses, a key that is pressed goes down once
\* and goes up once when it is released.
THEOREM KeysDoNotChatter == ScanSpec => NoChatter
<1>1. MatrixInv /\ [ScanNext]_scanVars =>
        [\A k \in Keys : fresh \/ (k \in last <=> k \in last') \/ (k \in last' <=> k \in held)]_scanVars
  BY ChangesOnce, ScanAssumption
<1> QED BY <1>1, MatrixInvariant, PTL DEF ScanSpec, NoChatter

----------------------------------------------------------------------------
(***************************************************************************)
(* The audio buffers of the dongle, AudioBuffer.  A pointer is known by    *)
(* how far it is from another one, going up and around.                    *)
(***************************************************************************)
Dist(a, b) == (b - a) % Ptr
Successor(a) == (a + 1) % Ptr

LEMMA AudioSizes ==
    /\ Slots \in Nat /\ Ptr \in Nat /\ Frame \in Nat /\ Reset \in Nat /\ Backlog \in Nat
    /\ Slots >= 4 /\ Slots <= Ptr /\ Ptr % Slots = 0 /\ Frame >= 3 /\ Reset >= 2
  <1>1. /\ Slots \in Nat /\ Ptr \in Nat /\ Frame \in Nat /\ Reset \in Nat /\ Backlog \in Nat
        /\ Slots > 3 /\ Ptr % Slots = 0 /\ Backlog < Ptr /\ Frame > 2 /\ Reset > 1
    BY AudioAssumption
  <1>2. Ptr < Slots => Ptr % Slots = Ptr
    BY <1>1
  <1> QED BY <1>1, <1>2

\* What % does to a number less than one turn away.
LEMMA Turn ==
    ASSUME NEW x \in Int, -Ptr <= x, x < 2 * Ptr
    PROVE  x % Ptr = IF x < 0 THEN x + Ptr ELSE IF x < Ptr THEN x ELSE x - Ptr
  <1>1. Ptr \in Nat /\ Ptr > 0
    BY AudioSizes
  <1>2. /\ 0 <= x /\ x < Ptr => x % Ptr = x
        /\ Ptr <= x /\ x < 2 * Ptr => x % Ptr = x - Ptr
        /\ -Ptr <= x /\ x < 0 => x % Ptr = x + Ptr
    BY <1>1
  <1> QED BY <1>1, <1>2

LEMMA DistIs ==
    ASSUME NEW a \in Pointer, NEW b \in Pointer
    PROVE  Dist(a, b) = IF a <= b THEN b - a ELSE b - a + Ptr
  <1>1. a \in 0..Ptr - 1 /\ b \in 0..Ptr - 1 /\ Ptr \in Nat
    BY AudioSizes DEF Pointer
  <1>2. b - a \in Int /\ -Ptr <= b - a /\ b - a < 2 * Ptr
    BY <1>1
  <1>3. (b - a) % Ptr = IF b - a < 0 THEN b - a + Ptr ELSE IF b - a < Ptr THEN b - a ELSE b - a - Ptr
    BY <1>2, Turn
  <1> QED BY <1>1, <1>3 DEF Dist

LEMMA DistType ==
    ASSUME NEW a \in Pointer, NEW b \in Pointer
    PROVE  Dist(a, b) \in Nat /\ Dist(a, b) < Ptr /\ Dist(a, a) = 0
  <1>1. a \in 0..Ptr - 1 /\ b \in 0..Ptr - 1 /\ Ptr \in Nat
    BY AudioSizes DEF Pointer
  <1>2. /\ Dist(a, b) = IF a <= b THEN b - a ELSE b - a + Ptr
        /\ Dist(a, a) = IF a <= a THEN a - a ELSE a - a + Ptr
    BY DistIs
  <1> QED BY <1>1, <1>2

\* A pointer is known by its distance.
LEMMA SameDist ==
    ASSUME NEW a \in Pointer, NEW b \in Pointer, NEW c \in Pointer, Dist(a, b) = Dist(a, c)
    PROVE  b = c
  BY DistIs, AudioSizes DEF Pointer

\* Distances add up as long as they stay within a turn.
LEMMA DistChain ==
    ASSUME NEW a \in Pointer, NEW b \in Pointer, NEW c \in Pointer
    PROVE  /\ Dist(a, b) + Dist(b, c) < Ptr => Dist(a, c) = Dist(a, b) + Dist(b, c)
           /\ Dist(a, b) <= Dist(a, c) => Dist(a, c) = Dist(a, b) + Dist(b, c)
  <1>1. a \in 0..Ptr - 1 /\ b \in 0..Ptr - 1 /\ c \in 0..Ptr - 1 /\ Ptr \in Nat
    BY AudioSizes DEF Pointer
  <1>2. /\ Dist(a, b) = IF a <= b THEN b - a ELSE b - a + Ptr
        /\ Dist(b, c) = IF b <= c THEN c - b ELSE c - b + Ptr
        /\ Dist(a, c) = IF a <= c THEN c - a ELSE c - a + Ptr
    BY DistIs
  <1> QED BY <1>1, <1>2

\* A pointer some steps further or back.
LEMMA Further ==
    ASSUME NEW a \in Pointer, NEW b \in Pointer, NEW n \in 0..Ptr
    PROVE  /\ (b + n) % Ptr \in Pointer
           /\ Dist(a, b) + n < Ptr => Dist(a, (b + n) % Ptr) = Dist(a, b) + n
  <1>1. a \in 0..Ptr - 1 /\ b \in 0..Ptr - 1 /\ Ptr \in Nat /\ n \in Nat /\ n <= Ptr
    BY AudioSizes DEF Pointer
  <1>2. (b + n) % Ptr = IF b + n < Ptr THEN b + n ELSE b + n - Ptr
    BY <1>1, Turn
  <1> DEFINE c == (b + n) % Ptr
  <1>3. c \in Pointer
    BY <1>1, <1>2 DEF Pointer
  <1>4. Dist(a, c) = IF a <= c THEN c - a ELSE c - a + Ptr
    BY <1>3, DistIs
  <1> QED BY <1>1, <1>2, <1>3, <1>4, DistIs

LEMMA Back ==
    ASSUME NEW a \in Pointer, NEW b \in Pointer, NEW n \in 0..Ptr
    PROVE  /\ (b - n) % Ptr \in Pointer
           /\ Dist(a, b) >= n => Dist(a, (b - n) % Ptr) = Dist(a, b) - n
  <1>1. a \in 0..Ptr - 1 /\ b \in 0..Ptr - 1 /\ Ptr \in Nat /\ n \in Nat /\ n <= Ptr
    BY AudioSizes DEF Pointer
  <1>2. (b - n) % Ptr = IF b - n < 0 THEN b - n + Ptr ELSE b - n
    BY <1>1, Turn
  <1> DEFINE c == (b - n) % Ptr
  <1>3. c \in Pointer
    BY <1>1, <1>2 DEF Pointer
  <1>4. Dist(a, c) = IF a <= c THEN c - a ELSE c - a + Ptr
    BY <1>3, DistIs
  <1> QED BY <1>1, <1>2, <1>3, <1>4, DistIs

\* The distance from a pointer one further.
LEMMA FromSuccessor ==
    ASSUME NEW a \in Pointer, NEW b \in Pointer
    PROVE  /\ Successor(a) \in Pointer
           /\ Dist(a, b) > 0 => Dist(Successor(a), b) = Dist(a, b) - 1
           /\ Dist(a, b) = 0 => Dist(Successor(a), b) = Ptr - 1
  <1>1. a \in 0..Ptr - 1 /\ b \in 0..Ptr - 1 /\ Ptr \in Nat /\ Ptr > 1
    BY AudioSizes DEF Pointer
  <1>2. Successor(a) = IF a + 1 < Ptr THEN a + 1 ELSE 0
    BY <1>1, Turn DEF Successor
  <1>3. Successor(a) \in Pointer
    BY <1>1, <1>2 DEF Pointer
  <1>4. Dist(Successor(a), b) = IF Successor(a) <= b THEN b - Successor(a) ELSE b - Successor(a) + Ptr
    BY <1>3, DistIs
  <1> QED BY <1>1, <1>2, <1>3, <1>4, DistIs

\* Pointers of one slot are a multiple of the slots apart.
LEMMA SameSlot ==
    ASSUME NEW a \in Pointer, NEW b \in Pointer, a % Slots = b % Slots,
           Dist(a, b) > 0, Dist(a, b) <= 4
    PROVE  Dist(a, b) = 4
  <1> DEFINE q(x) == x \div Slots
  <1>1. a \in Nat /\ b \in Nat /\ Ptr \in Nat /\ Slots \in Nat /\ Slots >= 4 /\ Ptr % Slots = 0
    BY AudioSizes DEF Pointer
  <1>2. /\ a = (Slots * q(a)) + (a % Slots) /\ q(a) \in Int
        /\ b = (Slots * q(b)) + (b % Slots) /\ q(b) \in Int
        /\ Ptr = (Slots * q(Ptr)) + (Ptr % Slots) /\ q(Ptr) \in Int
    BY <1>1
  <1> HIDE DEF q
  <1>3. PICK i \in Int, j \in Int, n \in Int, r \in Int :
          a = Slots * i + r /\ b = Slots * j + r /\ Ptr = Slots * n
    <2>1. a % Slots \in Int /\ Ptr = Slots * q(Ptr)
      BY <1>1, <1>2
    <2> QED BY <1>2, <2>1
  <1>4. PICK k \in Int : Dist(a, b) = Slots * k
    <2>1. Dist(a, b) = IF a <= b THEN b - a ELSE b - a + Ptr
      BY DistIs
    <2>2. b - a = Slots * (j - i)
      BY ONLY <1>3, <1>1, i \in Int, j \in Int, r \in Int
    <2>3. b - a + Ptr = Slots * (j - i + n)
      BY ONLY <1>3, <1>1, i \in Int, j \in Int, r \in Int, n \in Int
    <2>4. j - i \in Int /\ j - i + n \in Int
      OBVIOUS
    <2> QED BY <2>1, <2>2, <2>3, <2>4
  <1>5. k > 0
    <2> SUFFICES ASSUME k <= 0 PROVE FALSE
      OBVIOUS
    <2>1. Slots * k <= 0
      BY ONLY <1>1, k \in Int, k <= 0
    <2>2. Slots * k > 0
      BY <1>4
    <2>3. Slots * k \in Int
      BY <1>1
    <2> QED BY ONLY <2>1, <2>2, <2>3
  <1>6. Slots * k >= Slots
    BY ONLY <1>1, <1>5, k \in Int
  <1> QED BY <1>1, <1>4, <1>6

\* Multiples of the length of a frame.
LEMMA FrameOf ==
    ASSUME NEW r \in 0..Frame * Ptr - 1
    PROVE  /\ r \div Frame \in Pointer
           /\ Frame * (r \div Frame) <= r /\ r < Frame * (r \div Frame) + Frame
  <1> DEFINE q == r \div Frame
  <1>1. Frame \in Nat /\ Frame > 0 /\ Ptr \in Nat /\ r \in Nat /\ r < Frame * Ptr
    BY AudioSizes
  <1>2. q \in Int /\ Frame * q <= r /\ r < Frame * q + Frame
    BY <1>1
  <1> HIDE DEF q
  <1>3. q >= 0
    BY ONLY <1>1, <1>2
  <1>4. q < Ptr
    BY ONLY <1>1, <1>2
  <1>5. q \in Pointer
    BY <1>1, <1>2, <1>3, <1>4 DEF Pointer
  <1> QED BY <1>2, <1>5 DEF q

\* A number by its quotient.
LEMMA QuotientIs ==
    ASSUME NEW q \in Nat, NEW m \in 0..Frame - 1
    PROVE  ((Frame * q) + m) \div Frame = q
  <1> DEFINE r == (Frame * q) + m
             p == r \div Frame
  <1>1. /\ Frame \in Nat /\ Frame > 0 /\ q \in Nat /\ m \in Nat /\ m < Frame
    BY AudioSizes
  <1>2. r \in Nat
    BY <1>1
  <1>3. p \in Int /\ Frame * p <= r /\ r < (Frame * p) + Frame
    BY <1>1, <1>2
  <1>4. Frame * p <= (Frame * q) + m /\ (Frame * q) + m < (Frame * p) + Frame
    BY <1>3
  <1> HIDE DEF p
  <1>5. ~(p < q)
    BY ONLY <1>1, <1>3, <1>4
  <1>6. ~(q < p)
    BY ONLY <1>1, <1>3, <1>4
  <1> QED BY <1>1, <1>3, <1>5, <1>6 DEF p

LEMMA FrameIs ==
    ASSUME NEW q \in Pointer, NEW m \in 0..Frame - 1, NEW r, r = (Frame * q) + m
    PROVE  r \in 0..Frame * Ptr - 1 /\ r \div Frame = q
  <1>1. /\ Frame \in Nat /\ Frame > 0 /\ Ptr \in Nat /\ q \in Nat /\ q + 1 <= Ptr
        /\ m \in Nat /\ m < Frame
    BY AudioSizes DEF Pointer
  <1>2. (Frame * q) + Frame <= Frame * Ptr
    BY ONLY <1>1
  <1>3. r \in 0..Frame * Ptr - 1
    BY <1>1, <1>2
  <1> QED BY <1>1, <1>3, QuotientIs

\* The frames a packet and its second half come from.
LEMMA NextFrame ==
    ASSUME NEW r \in 0..Frame * Ptr - 1, NEW k \in 1..2
    PROVE  LET q == r \div Frame
           IN \/ r + k < Frame * Ptr /\ (r + k) \div Frame = q
              \/ q + 1 < Ptr /\ r + k < Frame * Ptr /\ (r + k) \div Frame = q + 1
              \/ q + 1 = Ptr /\ r + k >= Frame * Ptr /\ (r + k) \div Frame = Ptr
  <1> DEFINE q == r \div Frame
  <1>1. /\ Frame \in Nat /\ Frame >= 3 /\ Ptr \in Nat /\ r \in Nat /\ k \in 1..2 /\ k \in Nat
        /\ q \in Pointer /\ q \in Nat /\ q + 1 <= Ptr
        /\ Frame * q <= r /\ r < (Frame * q) + Frame
    BY AudioSizes, FrameOf DEF Pointer
  <1> HIDE DEF q
  <1> DEFINE m == r + k - (Frame * q)
  <1>2. m \in Nat /\ r + k = (Frame * q) + m /\ m < Frame + 2
    BY <1>1
  <1> HIDE DEF m
  <1>3. CASE m < Frame
    <2>1. m \in 0..Frame - 1
      BY <1>1, <1>2, <1>3
    <2>2. r + k \in 0..Frame * Ptr - 1 /\ (r + k) \div Frame = q
      BY <1>1, <1>2, <2>1, FrameIs
    <2>3. r + k < Frame * Ptr
      BY <1>1, <2>2
    <2> QED BY <2>2, <2>3 DEF q
  <1>4. CASE m >= Frame
    <2>1. m - Frame \in 0..Frame - 1 /\ q + 1 \in Nat
      BY <1>1, <1>2, <1>4
    <2>2. Frame * (q + 1) = (Frame * q) + Frame
      BY <1>1
    <2>3. r + k = (Frame * (q + 1)) + (m - Frame)
      BY <1>1, <1>2, <2>1, <2>2
    <2>4. (r + k) \div Frame = q + 1
      BY <2>1, <2>3, QuotientIs
    <2>5. CASE q + 1 < Ptr
      <3>1. q + 1 \in Pointer
        BY <1>1, <2>5 DEF Pointer
      <3>2. r + k \in 0..Frame * Ptr - 1
        BY <2>1, <2>3, <3>1, FrameIs
      <3>3. r + k < Frame * Ptr
        BY <1>1, <3>2
      <3> QED BY <2>4, <2>5, <3>3 DEF q
    <2>6. CASE q + 1 = Ptr
      <3>1. Frame * (q + 1) = Frame * Ptr
        BY <2>6
      <3>2. r + k >= Frame * Ptr
        BY <1>1, <2>1, <2>3, <3>1
      <3> QED BY <2>4, <2>6, <3>2 DEF q
    <2> QED BY <1>1, <2>5, <2>6
  <1> QED BY <1>1, <1>2, <1>3, <1>4

\* A packet takes the interrupt to the next frame at most.
LEMMA AdvanceIs ==
    ASSUME NEW r \in 0..Frame * Ptr - 1
    PROVE  /\ Advance(r) \in 0..Frame * Ptr - 1
           /\ Advance(r) \div Frame \in {r \div Frame, Successor(r \div Frame)}
  <1> DEFINE q == r \div Frame
  <1>1. /\ Frame \in Nat /\ Frame >= 3 /\ Ptr \in Nat /\ Ptr > 1 /\ r \in Nat /\ 2 \in 1..2
        /\ q \in Nat /\ q + 1 <= Ptr /\ q \in Pointer
    BY AudioSizes, FrameOf DEF Pointer
  <1>2. \/ r + 2 < Frame * Ptr /\ (r + 2) \div Frame = q
        \/ q + 1 < Ptr /\ r + 2 < Frame * Ptr /\ (r + 2) \div Frame = q + 1
        \/ q + 1 = Ptr /\ r + 2 >= Frame * Ptr /\ (r + 2) \div Frame = Ptr
    BY <1>1, NextFrame
  <1>3. Successor(q) = IF q + 1 < Ptr THEN q + 1 ELSE 0
    BY <1>1, Turn DEF Successor
  <1>4. 0 \in 0..Frame * Ptr - 1 /\ 0 \div Frame = 0
    <2>1. Frame * Ptr > 0 /\ Frame * Ptr \in Int
      BY <1>1
    <2> QED BY <1>1, <2>1
  <1>5. Frame * Ptr \in Nat
    BY <1>1
  <1> HIDE DEF q
  <1>6. CASE r + 2 < Frame * Ptr
    <2>1. Advance(r) = r + 2
      BY <1>1, <1>5, <1>6 DEF Advance
    <2>2. (r + 2) \div Frame \in {q, Successor(q)}
      BY <1>1, <1>2, <1>3, <1>5, <1>6
    <2>3. r + 2 \in 0..Frame * Ptr - 1
      BY <1>1, <1>5, <1>6
    <2> QED BY <2>1, <2>2, <2>3 DEF q
  <1>7. CASE ~(r + 2 < Frame * Ptr)
    <2>1. Advance(r) = 0 /\ q + 1 = Ptr
      BY <1>1, <1>2, <1>5, <1>7 DEF Advance
    <2>2. Successor(q) = 0
      BY <1>1, <1>3, <2>1
    <2> QED BY <1>4, <2>1, <2>2 DEF q
  <1> QED BY <1>6, <1>7

LEMMA SecondHalf ==
    ASSUME NEW r \in 0..Frame * Ptr - 1
    PROVE  ((r + 1) \div Frame) % Ptr \in {r \div Frame, Successor(r \div Frame)}
  <1> DEFINE q == r \div Frame
             p == (r + 1) \div Frame
  <1>1. Ptr \in Nat /\ Ptr > 1 /\ 1 \in 1..2 /\ q \in Nat /\ q + 1 <= Ptr
    BY AudioSizes, FrameOf DEF Pointer
  <1>2. p = q \/ p = q + 1
    BY <1>1, NextFrame
  <1>3. q % Ptr = q /\ (q + 1) % Ptr = Successor(q)
    BY <1>1, Turn DEF Successor
  <1> QED BY <1>2, <1>3

\* The interrupt goes to the frame of the decoder.
LEMMA RealignIs ==
    ASSUME dec \in Pointer
    PROVE  Realign \in 0..Frame * Ptr - 1 /\ Realign \div Frame = dec
  <1>1. Frame \in Nat /\ Frame >= 3 /\ dec \in Nat /\ 0 \in 0..Frame - 1
    BY AudioSizes DEF Pointer
  <1>2. Realign = (Frame * dec) + 0
    BY <1>1 DEF Realign
  <1> QED BY <1>1, <1>2, FrameIs

\* What the types say of the distances.
LEMMA AudioPlace ==
    ASSUME AudioTypeOK
    PROVE  /\ mic \in Pointer /\ dec \in Pointer /\ Reading \in Pointer /\ 0 \in Pointer
           /\ NumDec = Dist(Reading, dec) /\ NumDec \in Nat /\ NumDec < Ptr
           /\ NumMic = Dist(dec, mic) /\ NumMic \in Nat /\ NumMic < Ptr
           /\ num.mic \in Nat /\ num.dec \in Nat /\ Ptr \in Nat /\ Ptr > 3
  <1>1. mic \in Pointer /\ dec \in Pointer /\ Reading \in Pointer
    BY FrameOf DEF AudioTypeOK, Reading
  <1>2. num.mic \in Pointer /\ num.dec \in Pointer
    BY DEF AudioTypeOK
  <1>3. Ptr \in Nat /\ Ptr > 3
    BY AudioSizes
  <1>4. num.mic \in Nat /\ num.dec \in Nat /\ 0 \in Pointer
    BY <1>2, <1>3 DEF Pointer
  <1>5. NumDec = Dist(Reading, dec) /\ NumMic = Dist(dec, mic)
    BY DEF NumDec, NumMic, Dist
  <1>6. Dist(Reading, dec) \in Nat /\ Dist(Reading, dec) < Ptr
    BY <1>1, DistType
  <1>7. Dist(dec, mic) \in Nat /\ Dist(dec, mic) < Ptr
    BY <1>1, DistType
  <1> QED BY <1>1, <1>3, <1>4, <1>5, <1>6, <1>7

LEMMA InBetween ==
    ASSUME NEW a, NEW b
    PROVE  /\ Between(a, b) \subseteq Pointer
           /\ \A f \in Pointer : f \in Between(a, b) <=> Dist(a, f) < Dist(a, b)
  BY DEF Between, Dist

\* The interrupt stays, goes one frame on, or to the frame of the decoder.
LEMMA PollMoves ==
    ASSUME AudioTypeOK, NEW tardy \in BOOLEAN, AbufDecUsb(tardy)
    PROVE  /\ rptr' \in 0..Frame * Ptr - 1 /\ reset' \in 0..Reset
           /\ \/ Reading' = Reading
              \/ Reading' = Successor(Reading) /\ NumDec >= 1
              \/ Reading' = dec
           /\ UNCHANGED mainVars
           /\ whole' = whole \cap Between(Reading', dec)
           /\ gone' = gone \cap Between(Reading', mic)
           /\ empty' \in BOOLEAN /\ late' \in BOOLEAN
  <1> DEFINE left == IF tardy THEN Reset ELSE reset
             from == IF left # 0 THEN Realign ELSE rptr
             n == (dec - from \div Frame) % Ptr
             to == IF Ready(n) THEN Advance(from) ELSE from
  <1>1. /\ rptr \in 0..Frame * Ptr - 1 /\ reset \in 0..Reset /\ dec \in Pointer
        /\ Reset \in Nat /\ empty \in BOOLEAN
    BY AudioSizes DEF AudioTypeOK
  <1>2. /\ reset' = CountDown(left) /\ rptr' = to /\ UNCHANGED mainVars
        /\ whole' = whole \cap Between(to \div Frame, dec)
        /\ gone' = gone \cap Between(to \div Frame, mic)
    BY DEF AbufDecUsb
  <1>7. empty' \in BOOLEAN /\ late' \in BOOLEAN
    BY DEF AbufDecUsb
  <1>3. left \in 0..Reset
    BY <1>1
  <1>4. CountDown(left) \in 0..Reset
    BY <1>1, <1>3 DEF CountDown
  <1>5. CASE left # 0
    <2>1. from = Realign /\ Realign \in 0..Frame * Ptr - 1 /\ Realign \div Frame = dec
      BY <1>1, <1>5, RealignIs
    <2>2. n = Dist(dec, dec) /\ Dist(dec, dec) = 0
      BY <1>1, <2>1, DistType DEF Dist
    <2>3. to = Realign
      BY <2>1, <2>2 DEF Ready
    <2> QED BY <1>1, <1>2, <1>4, <1>7, <2>1, <2>3 DEF Reading
  <1>6. CASE left = 0
    <2>1. from = rptr /\ n = NumDec
      BY <1>6 DEF NumDec, Reading
    <2>2. CASE Ready(n)
      <3>1. to = Advance(rptr) /\ NumDec >= 1
        BY <2>1, <2>2 DEF Ready
      <3>2. /\ Advance(rptr) \in 0..Frame * Ptr - 1
            /\ Advance(rptr) \div Frame \in {Reading, Successor(Reading)}
        BY <1>1, AdvanceIs DEF Reading
      <3> QED BY <1>1, <1>2, <1>4, <1>7, <3>1, <3>2 DEF Reading
    <2>3. CASE ~Ready(n)
      <3>1. to = rptr
        BY <2>1, <2>3
      <3> QED BY <1>1, <1>2, <1>4, <1>7, <3>1 DEF Reading
    <2> QED BY <2>2, <2>3
  <1> QED BY <1>5, <1>6

LEMMA AudioTypesStart == AudioInit => AudioTypeOK
  <1>1. Ptr \in Nat /\ Ptr > 3 /\ Frame \in Nat /\ Frame > 0 /\ Reset \in Nat
    BY AudioSizes
  <1>2. Frame * Ptr \in Int /\ Frame * Ptr > 0
    BY <1>1
  <1>3. 0 \in Pointer /\ 0 \in 0..Frame * Ptr - 1 /\ 0 \in 0..Reset
    BY <1>1, <1>2 DEF Pointer
  <1>4. NoCount \in [mic : Pointer, dec : Pointer]
    BY <1>3 DEF NoCount
  <1> QED BY <1>3, <1>4 DEF AudioInit, AudioTypeOK

\* AudioTypeOK: the pointers stay in their ranges, rptr inside the ring of
\* Ptr frames whatever packets straddle frames, and abuf_reset never exceeds
\* what abuf_init and the interrupt set it to.
THEOREM AudioTypes == AudioSpec => []AudioTypeOK
  <1>1. AudioTypeOK /\ [AudioNext]_audioVars => AudioTypeOK'
    <2> SUFFICES ASSUME AudioTypeOK, [AudioNext]_audioVars PROVE AudioTypeOK'
      OBVIOUS
    <2> USE DEF AudioTypeOK
    <2>1. /\ mic \in Pointer /\ dec \in Pointer /\ Reading \in Pointer /\ 0 \in Pointer
          /\ NumDec \in Pointer /\ NumMic \in Pointer
          /\ Reset \in 0..Reset /\ Ptr \in Nat /\ Ptr > 3
      BY AudioPlace, AudioSizes DEF Pointer
    <2>2. (mic + 1) % Ptr \in Pointer /\ (dec + 1) % Ptr \in Pointer /\ (mic - Slots) % Ptr \in Pointer
      <3>1. (mic + 1) \in Int /\ (dec + 1) \in Int /\ (mic - Slots) \in Int
        BY <2>1, AudioSizes DEF Pointer
      <3> QED BY <2>1, <3>1 DEF Pointer
    <2>3. NoCount \in [mic : Pointer, dec : Pointer]
      BY <2>1 DEF NoCount
    <2>4. ASSUME NEW a, NEW b PROVE Between(a, b) \subseteq Pointer
      BY DEF Between
    <2>5. CASE AttMic
      BY <2>2, <2>5 DEF AttMic, irqVars
    <2>6. CASE InTime
      BY <2>6 DEF InTime, irqVars
    <2>7. CASE Timeout
      BY <2>1, <2>4, <2>7 DEF Timeout, irqVars
    <2>8. CASE AbufInit
      BY <2>1, <2>8 DEF AbufInit, irqVars
    <2>9. CASE Test
      BY <2>9 DEF Test, irqVars
    <2>10. CASE CatchUp
      BY <2>4, <2>10 DEF CatchUp, irqVars
    <2>11. CASE Count
      BY <2>1, <2>11 DEF Count, irqVars
    <2>12. CASE PassOver
      BY <2>2, <2>12 DEF PassOver, irqVars
    <2>13. CASE Overflow
      BY <2>1, <2>3, <2>13 DEF Overflow, irqVars
    <2>14. CASE DecodeBegin
      BY <2>14 DEF DecodeBegin, irqVars
    <2>15. CASE DecodeEnd
      BY <2>2, <2>3, <2>15 DEF DecodeEnd, irqVars
    <2>16. CASE NothingToDo
      BY <2>3, <2>16 DEF NothingToDo, irqVars
    <2>17. ASSUME NEW tardy \in BOOLEAN, AbufDecUsb(tardy) PROVE AudioTypeOK'
      <3>1. /\ rptr' \in 0..Frame * Ptr - 1 /\ reset' \in 0..Reset /\ UNCHANGED mainVars
            /\ whole' \subseteq whole /\ gone' \subseteq gone
            /\ empty' \in BOOLEAN /\ late' \in BOOLEAN
        BY <2>17, PollMoves
      <3> QED BY <3>1 DEF mainVars
    <2>18. CASE UNCHANGED audioVars
      BY <2>18 DEF audioVars
    <2> QED BY <2>5, <2>6, <2>7, <2>8, <2>9, <2>10, <2>11, <2>12, <2>13, <2>14, <2>15, <2>16,
               <2>17, <2>18 DEF AudioNext, Main, Late, OnTime
  <1> QED BY <1>1, AudioTypesStart, PTL DEF AudioSpec

\* A frame not yet sent is in its slot; or it was overwritten or passed over;
\* or a frame passed over is about to be read in its place.
Safe(f) ==
    \/ f \in whole \/ f \in gone
    \/ Dist(Reading, f) + 3 < NumDec /\ (f + 3) % Ptr \in gone

\* The pointers follow each other around, and gone are frames on the way.
PointerInv ==
    /\ NumDec + NumMic < Ptr
    /\ gone \subseteq Between(Reading, mic)

FrameInv == \A f \in Between(Reading, dec) : Safe(f)

\* What num_mic and num_dec still say of the pointers; the interrupt only
\* makes num_dec less.  A frame more than num_dec was passed over.
CountInv ==
    /\ at = "over" => num.mic > 4 /\ NumMic = num.mic /\ NumDec <= num.dec
    /\ at = "decide" => /\ NumMic >= num.mic - 1 /\ (num.mic <= 4 => NumMic = num.mic)
                        /\ \/ NumDec <= num.dec
                           \/ NumDec = num.dec + 1 /\ \E g \in gone : Successor(g) = dec
    /\ at = "decode" => NumMic >= 1

AudioInv == AudioTypeOK /\ PointerInv /\ FrameInv /\ CountInv

\* From the interrupt over the decoder to the microphone.
LEMMA MicIs ==
    ASSUME AudioTypeOK, PointerInv
    PROVE  Dist(Reading, mic) = NumDec + NumMic
  <1>1. /\ mic \in Pointer /\ dec \in Pointer /\ Reading \in Pointer
        /\ NumDec = Dist(Reading, dec) /\ NumMic = Dist(dec, mic)
    BY AudioPlace
  <1>2. NumDec + NumMic < Ptr
    BY DEF PointerInv
  <1> QED BY <1>1, <1>2, DistChain

\* The decoder goes one frame on: the one it was at is decoded or passed over.
LEMMA DecoderGoesOn ==
    ASSUME AudioTypeOK, AudioTypeOK', PointerInv, FrameInv,
           NumMic >= 1, dec' = Successor(dec), UNCHANGED <<mic, rptr>>,
           whole \subseteq whole', gone \subseteq gone', gone' \subseteq gone \cup {dec},
           dec \in whole' \/ dec \in gone'
    PROVE  /\ PointerInv' /\ FrameInv'
           /\ NumDec' = NumDec + 1 /\ NumMic' = NumMic - 1
  <1>1. /\ mic \in Pointer /\ dec \in Pointer /\ Reading \in Pointer
        /\ NumDec = Dist(Reading, dec) /\ NumMic = Dist(dec, mic)
        /\ NumDec \in Nat /\ NumMic \in Nat /\ Ptr \in Nat /\ Ptr > 3
        /\ NumDec + NumMic < Ptr
    BY AudioPlace DEF PointerInv
  <1>2. Reading' = Reading /\ mic' = mic
    BY DEF Reading
  <1>3. NumDec' = Dist(Reading, dec') /\ NumMic' = Dist(dec', mic)
    BY <1>2 DEF NumDec, NumMic, Dist
  <1>4. NumDec' = NumDec + 1
    <2>1. 1 \in 0..Ptr /\ Dist(Reading, dec) + 1 < Ptr
      BY <1>1
    <2> QED BY <1>1, <1>3, <2>1, Further DEF Successor
  <1>5. NumMic' = NumMic - 1
    BY <1>1, <1>3, FromSuccessor
  <1>6. Dist(Reading, mic) = NumDec + NumMic
    BY MicIs
  <1>7. gone' \subseteq Between(Reading', mic')
    <2>1. dec \in Between(Reading, mic)
      BY <1>1, <1>6, InBetween
    <2> QED BY <1>2, <2>1 DEF PointerInv
  <1>8. ASSUME NEW f \in Between(Reading', dec')
        PROVE  Safe(f)'
    <2>1. f \in Pointer /\ Dist(Reading, f) < NumDec + 1
      BY <1>2, <1>3, <1>4, <1>8, InBetween
    <2>2. Dist(Reading, f) \in Nat
      BY <1>1, <2>1, DistType
    <2>3. CASE Dist(Reading, f) < NumDec
      <3>1. f \in Between(Reading, dec)
        BY <1>1, <2>1, <2>3, InBetween
      <3>2. Safe(f)
        BY <3>1 DEF FrameInv
      <3>3. Dist(Reading, f)' = Dist(Reading, f)
        BY <1>2 DEF Dist
      <3>4. Dist(Reading, f) + 3 < NumDec => Dist(Reading, f)' + 3 < NumDec'
        BY <1>1, <1>4, <2>2, <3>3
      <3> QED BY <3>2, <3>4 DEF Safe
    <2>4. CASE Dist(Reading, f) = NumDec
      <3>1. f = dec
        BY <1>1, <2>1, <2>4, SameDist
      <3> QED BY <3>1 DEF Safe
    <2> QED BY <1>1, <2>1, <2>2, <2>3, <2>4
  <1>9. NumDec' + NumMic' < Ptr
    BY <1>1, <1>4, <1>5
  <1> QED BY <1>4, <1>5, <1>7, <1>8, <1>9 DEF PointerInv, FrameInv

\* Nothing is different for the pointers and the frames.
LEMMA NothingMoves ==
    ASSUME PointerInv, FrameInv, UNCHANGED <<mic, dec, rptr, whole, gone>>
    PROVE  PointerInv' /\ FrameInv' /\ NumDec' = NumDec /\ NumMic' = NumMic
  <1>1. Reading' = Reading /\ NumDec' = NumDec /\ NumMic' = NumMic
    BY DEF Reading, NumDec, NumMic
  <1>2. \A f : Safe(f)' <=> Safe(f)
    BY <1>1 DEF Safe, Dist
  <1>3. Between(Reading', dec') = Between(Reading, dec) /\ Between(Reading', mic') = Between(Reading, mic)
    BY <1>1 DEF Between
  <1> QED BY <1>1, <1>2, <1>3 DEF PointerInv, FrameInv

LEMMA AttMicStep == ASSUME AudioInv, AudioTypeOK', AttMic PROVE AudioInv'
  <1>1. /\ mic' = Successor(mic) /\ UNCHANGED <<dec, rptr, whole, num, at>> /\ at = "stack"
        /\ gone' = (gone \ {mic}) \cup (IF NumMic >= Slots THEN {(mic - Slots) % Ptr} ELSE {})
        /\ Dist(Reading, mic) < Ptr - 1
    BY DEF AttMic, irqVars, Successor, Dist
  <1>2. /\ mic \in Pointer /\ dec \in Pointer /\ Reading \in Pointer
        /\ NumDec = Dist(Reading, dec) /\ NumMic = Dist(dec, mic)
        /\ NumDec \in Nat /\ NumMic \in Nat /\ Ptr \in Nat /\ Ptr > 3
        /\ Slots \in Nat /\ Slots <= Ptr /\ Slots >= 4
    BY AudioPlace, AudioSizes DEF AudioInv
  <1>3. Dist(Reading, mic) = NumDec + NumMic
    BY MicIs DEF AudioInv
  <1>4. Reading' = Reading /\ dec' = dec
    BY <1>1 DEF Reading
  <1>5. NumDec' = NumDec /\ NumMic' = Dist(dec, mic')
    BY <1>1, <1>4 DEF NumDec, NumMic, Dist
  <1>6. Dist(Reading, mic') = NumDec + NumMic + 1 /\ NumMic' = NumMic + 1
    <2>1. 1 \in 0..Ptr /\ Dist(Reading, mic) + 1 < Ptr /\ Dist(dec, mic) + 1 < Ptr
      BY <1>1, <1>2, <1>3
    <2> QED BY <1>1, <1>2, <1>3, <1>5, <2>1, Further DEF Successor
  <1>7. gone' \subseteq Between(Reading', mic')
    <2>1. ASSUME NEW f \in gone
          PROVE  f \in Between(Reading, mic')
      <3>1. f \in Pointer /\ Dist(Reading, f) < Dist(Reading, mic)
        BY InBetween DEF AudioInv, PointerInv
      <3>2. Dist(Reading, f) \in Nat
        BY <1>2, <3>1, DistType
      <3>3. Dist(Reading, f) < Dist(Reading, mic')
        BY <1>2, <1>3, <1>6, <3>1, <3>2
      <3> QED BY <3>1, <3>3, InBetween
    <2>2. ASSUME NumMic >= Slots
          PROVE  (mic - Slots) % Ptr \in Between(Reading, mic')
      <3>1. Slots \in 0..Ptr /\ Dist(Reading, mic) >= Slots
        BY <1>2, <1>3, <2>2
      <3>2. /\ (mic - Slots) % Ptr \in Pointer
            /\ Dist(Reading, (mic - Slots) % Ptr) = Dist(Reading, mic) - Slots
        BY <1>2, <3>1, Back
      <3>3. Dist(Reading, (mic - Slots) % Ptr) < Dist(Reading, mic')
        BY <1>2, <1>3, <1>6, <3>2
      <3> QED BY <3>2, <3>3, InBetween
    <2> QED BY <1>1, <1>4, <2>1, <2>2
  <1>8. gone \subseteq gone'
    <2>1. mic \notin gone
      <3>1. mic \in Between(Reading, mic) => Dist(Reading, mic) < Dist(Reading, mic)
        BY <1>2, InBetween
      <3> QED BY <1>2, <1>3, <3>1 DEF AudioInv, PointerInv
    <2> QED BY <1>1, <2>1
  <1>9. FrameInv'
    <2>1. \A f : Safe(f) => Safe(f)'
      BY <1>1, <1>4, <1>5, <1>8 DEF Safe, Dist
    <2>2. Between(Reading', dec') = Between(Reading, dec)
      BY <1>4
    <2> QED BY <2>1, <2>2 DEF AudioInv, FrameInv
  <1>10. NumDec' + NumMic' < Ptr
    BY <1>1, <1>2, <1>3, <1>5, <1>6
  <1>11. CountInv'
    BY <1>1 DEF CountInv
  <1> QED BY <1>7, <1>9, <1>10, <1>11 DEF AudioInv, PointerInv

LEMMA TimeoutStep == ASSUME AudioInv, AudioTypeOK', Timeout PROVE AudioInv'
  <1>1. /\ mic' = 0 /\ dec' = 0 /\ at' = "init" /\ rptr' = rptr
        /\ gone' = Between(Reading, 0)
    BY DEF Timeout, irqVars
  <1>2. Reading' = Reading
    BY <1>1 DEF Reading
  <1>3. /\ 0 \in Pointer /\ Reading \in Pointer
        /\ NumDec' = Dist(Reading, 0) /\ NumMic' = Dist(0, 0)
    BY <1>1, <1>2, AudioPlace DEF NumDec, NumMic, Dist, AudioInv
  <1>4. NumDec' \in Nat /\ NumDec' < Ptr /\ NumMic' = 0
    BY <1>3, DistType
  <1>5. PointerInv'
    BY <1>1, <1>2, <1>4 DEF PointerInv
  <1>6. FrameInv'
    BY <1>1, <1>2 DEF FrameInv, Safe
  <1>7. CountInv'
    BY <1>1 DEF CountInv
  <1> QED BY <1>5, <1>6, <1>7 DEF AudioInv

LEMMA CatchUpStep == ASSUME AudioInv, AudioTypeOK', CatchUp PROVE AudioInv'
  <1>1. /\ dec' = mic /\ at' = "stack" /\ gone' = gone \cup Between(dec, mic)
        /\ UNCHANGED <<mic, rptr, whole>>
    BY DEF CatchUp, irqVars
  <1>2. /\ mic \in Pointer /\ dec \in Pointer /\ Reading \in Pointer
        /\ NumDec = Dist(Reading, dec) /\ NumMic = Dist(dec, mic)
        /\ NumDec \in Nat /\ NumMic \in Nat /\ Ptr \in Nat
        /\ NumDec + NumMic < Ptr
    BY AudioPlace DEF AudioInv, PointerInv
  <1>3. Reading' = Reading /\ mic' = mic /\ dec' = mic
    BY <1>1 DEF Reading
  <1>4. Dist(Reading, mic) = NumDec + NumMic
    BY MicIs DEF AudioInv
  <1>5. NumDec' = NumDec + NumMic /\ NumMic' = 0
    BY <1>2, <1>3, <1>4, DistType DEF NumDec, NumMic, Dist
  <1>6. gone' \subseteq Between(Reading', mic')
    <2>1. ASSUME NEW f \in Between(dec, mic)
          PROVE  f \in Between(Reading, mic)
      <3>1. f \in Pointer /\ Dist(dec, f) < NumMic
        BY <1>2, InBetween
      <3>2. Dist(dec, f) \in Nat
        BY <1>2, <3>1, DistType
      <3>3. Dist(Reading, dec) + Dist(dec, f) < Ptr
        BY <1>2, <3>1, <3>2
      <3>4. Dist(Reading, f) = Dist(Reading, dec) + Dist(dec, f)
        BY <1>2, <3>1, <3>3, DistChain
      <3>5. Dist(Reading, f) < Dist(Reading, mic)
        BY <1>2, <1>4, <3>1, <3>2, <3>4
      <3> QED BY <3>1, <3>5, InBetween
    <2> QED BY <1>1, <1>3, <2>1 DEF AudioInv, PointerInv
  <1>7. ASSUME NEW f \in Between(Reading', dec')
        PROVE  Safe(f)'
    <2>1. f \in Pointer /\ Dist(Reading, f) < NumDec + NumMic
      BY <1>3, <1>4, <1>7, InBetween
    <2>2. Dist(Reading, f) \in Nat /\ Dist(dec, f) \in Nat
      BY <1>2, <2>1, DistType
    <2>3. CASE Dist(Reading, f) < NumDec
      <3>1. f \in Between(Reading, dec)
        BY <1>2, <2>1, <2>3, InBetween
      <3>2. Safe(f)
        BY <3>1 DEF AudioInv, FrameInv
      <3>3. Dist(Reading, f)' = Dist(Reading, f)
        BY <1>3 DEF Dist
      <3>4. Dist(Reading, f) + 3 < NumDec => Dist(Reading, f)' + 3 < NumDec'
        BY <1>2, <1>5, <2>2, <3>3
      <3> QED BY <1>1, <3>2, <3>4 DEF Safe
    <2>4. CASE Dist(Reading, f) >= NumDec
      <3>1. Dist(Reading, f) = Dist(Reading, dec) + Dist(dec, f)
        BY <1>2, <2>1, <2>4, DistChain
      <3>2. Dist(dec, f) < NumMic
        BY <1>2, <2>1, <2>2, <3>1
      <3>3. f \in Between(dec, mic)
        BY <1>2, <2>1, <3>2, InBetween
      <3> QED BY <1>1, <3>3 DEF Safe
    <2> QED BY <1>2, <2>2, <2>3, <2>4
  <1>8. NumDec' + NumMic' < Ptr
    BY <1>2, <1>5
  <1>9. CountInv'
    BY <1>1 DEF CountInv
  <1> QED BY <1>6, <1>7, <1>8, <1>9 DEF AudioInv, PointerInv, FrameInv

LEMMA CountStep == ASSUME AudioInv, AudioTypeOK', Count PROVE AudioInv'
  <1>1. /\ num' = [mic |-> NumMic, dec |-> NumDec]
        /\ at' = IF NumMic > 4 THEN "over" ELSE "decide"
        /\ UNCHANGED <<mic, dec, rptr, whole, gone>>
    BY DEF Count, irqVars
  <1>2. PointerInv' /\ FrameInv' /\ NumDec' = NumDec /\ NumMic' = NumMic
    BY <1>1, NothingMoves DEF AudioInv
  <1>3. NumDec \in Nat /\ NumMic \in Nat /\ num'.mic = NumMic /\ num'.dec = NumDec
    BY <1>1, AudioPlace DEF AudioInv
  <1>4. CountInv'
    BY <1>1, <1>2, <1>3 DEF CountInv
  <1> QED BY <1>2, <1>4 DEF AudioInv

LEMMA PassOverStep == ASSUME AudioInv, AudioTypeOK', PassOver PROVE AudioInv'
  <1>1. /\ at = "over" /\ dec' = Successor(dec) /\ at' = "decide" /\ gone' = gone \cup {dec}
        /\ UNCHANGED <<mic, rptr, num, whole>>
    BY DEF PassOver, irqVars, Successor
  <1>2. /\ num.mic > 4 /\ NumMic = num.mic /\ NumDec <= num.dec
        /\ NumDec \in Nat /\ NumMic \in Nat /\ num.mic \in Nat /\ num.dec \in Nat
    BY <1>1, AudioPlace DEF AudioInv, CountInv
  <1>3. /\ PointerInv' /\ FrameInv' /\ NumDec' = NumDec + 1 /\ NumMic' = NumMic - 1
    BY <1>1, <1>2, DecoderGoesOn DEF AudioInv
  <1>4. num' = num /\ dec \in gone' /\ Successor(dec) = dec'
    BY <1>1
  <1>5. NumDec' <= num.dec \/ NumDec' = num.dec + 1
    BY <1>2, <1>3
  <1>6. NumMic' >= num.mic - 1 /\ ~(num.mic <= 4)
    BY <1>2, <1>3
  <1>7. CountInv'
    BY <1>1, <1>4, <1>5, <1>6 DEF CountInv, Successor
  <1> QED BY <1>3, <1>7 DEF AudioInv

LEMMA DecodeEndStep == ASSUME AudioInv, AudioTypeOK', DecodeEnd PROVE AudioInv'
  <1>1. /\ at = "decode" /\ dec' = Successor(dec) /\ at' = "stack" /\ whole' = whole \cup {dec}
        /\ UNCHANGED <<mic, rptr, gone>>
    BY DEF DecodeEnd, irqVars, Successor
  <1>2. NumMic >= 1
    BY <1>1 DEF AudioInv, CountInv
  <1>3. PointerInv' /\ FrameInv'
    BY <1>1, <1>2, DecoderGoesOn DEF AudioInv
  <1>4. CountInv'
    BY <1>1 DEF CountInv
  <1> QED BY <1>3, <1>4 DEF AudioInv

\* The slot that is written is the one of a frame four before: the interrupt
\* has left it, or the frame passed over makes it Safe.
LEMMA DecodeBeginStep == ASSUME AudioInv, AudioTypeOK', DecodeBegin PROVE AudioInv'
  <1>1. /\ at = "decide" /\ ~TooFull /\ HasWork /\ at' = "decode"
        /\ whole' = {f \in whole : f % Slots # dec % Slots}
        /\ UNCHANGED <<mic, dec, rptr, gone, num>>
    BY DEF DecodeBegin, irqVars
  <1>2. /\ mic \in Pointer /\ dec \in Pointer /\ Reading \in Pointer
        /\ NumDec = Dist(Reading, dec) /\ NumMic = Dist(dec, mic)
        /\ NumDec \in Nat /\ NumMic \in Nat /\ num.mic \in Nat /\ num.dec \in Nat
        /\ Ptr \in Nat /\ Ptr > 3 /\ NumDec < Ptr
    BY AudioPlace DEF AudioInv
  <1>3. num.dec <= 3 /\ num.mic >= 1
    BY <1>1, <1>2 DEF HasWork
  <1>4. NumMic >= 1
    BY <1>1, <1>2, <1>3 DEF AudioInv, CountInv
  <1>5. NumDec <= num.dec \/ (NumDec = num.dec + 1 /\ \E g \in gone : Successor(g) = dec)
    BY <1>1 DEF AudioInv, CountInv
  <1>6. Reading' = Reading /\ NumDec' = NumDec /\ NumMic' = NumMic
    BY <1>1 DEF Reading, NumDec, NumMic
  <1>7. ASSUME NEW f \in Between(Reading, dec), f % Slots = dec % Slots
        PROVE  Dist(Reading, f) + 3 < NumDec /\ (f + 3) % Ptr \in gone
    <2>1. f \in Pointer /\ Dist(Reading, f) < NumDec
      BY <1>2, <1>7, InBetween
    <2>2. Dist(Reading, f) \in Nat /\ Dist(f, dec) \in Nat
      BY <1>2, <2>1, DistType
    <2>3. Dist(Reading, dec) = Dist(Reading, f) + Dist(f, dec)
      <3>1. Dist(Reading, f) <= Dist(Reading, dec)
        BY <1>2, <2>1, <2>2
      <3> QED BY <1>2, <2>1, <3>1, DistChain
    <2>4. Dist(f, dec) > 0 /\ Dist(f, dec) <= 4
      BY <1>2, <1>3, <1>5, <2>1, <2>2, <2>3
    <2>5. Dist(f, dec) = 4
      BY <1>2, <1>7, <2>1, <2>4, SameSlot
    <2>6. NumDec = 4 /\ Dist(Reading, f) = 0 /\ NumDec = num.dec + 1
      BY <1>2, <1>3, <1>5, <2>2, <2>3, <2>5
    <2>7. PICK g \in gone : Successor(g) = dec
      BY <1>2, <1>5, <2>6
    <2>8. g \in Pointer /\ Dist(Reading, g) \in Nat /\ Dist(Reading, g) + 1 < Ptr
      <3>1. g \in Pointer /\ Dist(Reading, g) < Dist(Reading, mic)
        BY <2>7, InBetween DEF AudioInv, PointerInv
      <3>2. Dist(Reading, g) \in Nat
        BY <1>2, <3>1, DistType
      <3>3. Dist(Reading, mic) \in Nat /\ Dist(Reading, mic) < Ptr
        BY <1>2, DistType
      <3> QED BY <1>2, <3>1, <3>2, <3>3
    <2>9. Dist(Reading, g) = 3
      <3>1. 1 \in 0..Ptr
        BY <1>2
      <3>2. Dist(Reading, (g + 1) % Ptr) = Dist(Reading, g) + 1
        BY <1>2, <2>8, <3>1, Further
      <3>3. (g + 1) % Ptr = dec
        BY <2>7 DEF Successor
      <3>4. Dist(Reading, dec) = 4
        BY <1>2, <2>6
      <3>5. Dist(Reading, g) + 1 = 4
        BY <3>2, <3>3, <3>4
      <3> QED BY <2>8, <3>5
    <2>10. (f + 3) % Ptr \in Pointer /\ Dist(Reading, (f + 3) % Ptr) = 3
      <3>1. 3 \in 0..Ptr /\ Dist(Reading, f) + 3 < Ptr
        BY <1>2, <2>6
      <3> QED BY <1>2, <2>1, <2>6, <3>1, Further
    <2>11. (f + 3) % Ptr = g
      BY <1>2, <2>8, <2>9, <2>10, SameDist
    <2> QED BY <2>6, <2>7, <2>11
  <1>8. ASSUME NEW f \in Between(Reading', dec')
        PROVE  Safe(f)'
    <2>1. f \in Between(Reading, dec) /\ Dist(Reading, f)' = Dist(Reading, f)
      BY <1>1, <1>6, <1>8 DEF Dist
    <2>2. Safe(f)
      BY <2>1 DEF AudioInv, FrameInv
    <2>3. CASE f % Slots = dec % Slots
      BY <1>1, <1>6, <1>7, <2>1, <2>3 DEF Safe
    <2>4. CASE f % Slots # dec % Slots
      BY <1>1, <1>6, <2>1, <2>2, <2>4 DEF Safe
    <2> QED BY <2>3, <2>4
  <1>9. PointerInv'
    BY <1>1, <1>6 DEF AudioInv, PointerInv
  <1>10. CountInv'
    BY <1>1, <1>4, <1>6 DEF CountInv
  <1> QED BY <1>8, <1>9, <1>10 DEF AudioInv, FrameInv

\* The steps of the main loop that leave pointers and frames alone.
LEMMA QuietStep ==
    ASSUME AudioInv, AudioTypeOK',
           InTime \/ AbufInit \/ Test \/ Overflow \/ NothingToDo \/ UNCHANGED audioVars
    PROVE  AudioInv'
  <1>1. UNCHANGED <<mic, dec, rptr, whole, gone>>
    BY DEF InTime, AbufInit, Test, Overflow, NothingToDo, audioVars, irqVars
  <1>2. PointerInv' /\ FrameInv' /\ NumDec' = NumDec /\ NumMic' = NumMic
    BY <1>1, NothingMoves DEF AudioInv
  <1>3. at' \in {"test", "catch", "count", "stack"} \/ UNCHANGED <<at, num>>
    BY DEF InTime, AbufInit, Test, Overflow, NothingToDo, audioVars
  <1>4. CountInv'
    BY <1>1, <1>2, <1>3 DEF AudioInv, CountInv, Successor
  <1> QED BY <1>2, <1>4 DEF AudioInv

LEMMA PollStep ==
    ASSUME AudioInv, AudioTypeOK', NEW tardy \in BOOLEAN, AbufDecUsb(tardy)
    PROVE  AudioInv'
  <1>1. /\ \/ Reading' = Reading
           \/ Reading' = Successor(Reading) /\ NumDec >= 1
           \/ Reading' = dec
        /\ mic' = mic /\ dec' = dec /\ at' = at /\ num' = num
        /\ whole' = whole \cap Between(Reading', dec)
        /\ gone' = gone \cap Between(Reading', mic)
    BY PollMoves DEF AudioInv, mainVars
  <1>2. /\ mic \in Pointer /\ dec \in Pointer /\ Reading \in Pointer
        /\ NumDec = Dist(Reading, dec) /\ NumMic = Dist(dec, mic)
        /\ NumDec \in Nat /\ NumMic \in Nat /\ num.mic \in Nat /\ num.dec \in Nat
        /\ Ptr \in Nat /\ Ptr > 3 /\ NumDec < Ptr /\ NumDec + NumMic < Ptr
    BY AudioPlace DEF AudioInv, PointerInv
  <1>3. Dist(Reading, mic) = NumDec + NumMic
    BY MicIs DEF AudioInv
  <1>4. NumMic' = NumMic /\ NumDec' = Dist(Reading', dec)
    BY <1>1 DEF NumMic, NumDec, Dist
  <1>5. CASE Reading' = Reading
    <2>1. gone' = gone /\ NumDec' = NumDec /\ whole' = whole \cap Between(Reading, dec)
      BY <1>1, <1>2, <1>4, <1>5 DEF AudioInv, PointerInv
    <2>2. ASSUME NEW f \in Between(Reading', dec')
          PROVE  Safe(f)'
      <3>1. f \in Between(Reading, dec) /\ Dist(Reading, f)' = Dist(Reading, f)
        BY <1>1, <1>5, <2>2 DEF Dist
      <3> QED BY <2>1, <3>1 DEF Safe, AudioInv, FrameInv
    <2>3. PointerInv' /\ CountInv'
      BY <1>1, <1>4, <1>5, <2>1 DEF AudioInv, PointerInv, CountInv, Successor
    <2> QED BY <2>2, <2>3 DEF AudioInv, FrameInv
  <1>6. CASE Reading' = Successor(Reading) /\ NumDec >= 1
    <2>1. /\ Reading' \in Pointer /\ NumDec' = NumDec - 1
          /\ Dist(Reading', mic) = Dist(Reading, mic) - 1
      <3>1. Dist(Reading, mic) > 0 /\ Dist(Reading, dec) > 0
        BY <1>2, <1>3, <1>6
      <3> QED BY <1>2, <1>4, <1>6, <3>1, FromSuccessor
    <2>2. ASSUME NEW f \in Pointer, f # Reading
          PROVE  Dist(Reading', f) = Dist(Reading, f) - 1 /\ Dist(Reading, f) \in Nat
      <3>1. Dist(Reading, f) \in Nat /\ Dist(Reading, Reading) = 0
        BY <1>2, DistType
      <3>2. Dist(Reading, f) # 0
        BY <1>2, <2>2, <3>1, SameDist
      <3>3. Dist(Reading, f) > 0
        BY <3>1, <3>2
      <3> QED BY <1>2, <1>6, <3>1, <3>3, FromSuccessor
    <2>3. ASSUME NEW f \in gone, f # Reading
          PROVE  f \in gone'
      <3>1. f \in Pointer /\ Dist(Reading, f) < Dist(Reading, mic)
        BY <2>3, InBetween DEF AudioInv, PointerInv
      <3>2. Dist(Reading', f) < Dist(Reading', mic)
        BY <1>2, <1>3, <2>1, <2>2, <2>3, <3>1
      <3>3. f \in Between(Reading', mic)
        BY <3>1, <3>2, InBetween
      <3> QED BY <1>1, <3>3
    <2>4. ASSUME NEW f \in Between(Reading', dec')
          PROVE  Safe(f)'
      <3>1. f \in Pointer /\ Dist(Reading', f) < NumDec - 1
        BY <1>1, <1>4, <2>1, <2>4, InBetween
      <3>2. f # Reading
        <4>1. Dist(Successor(Reading), Reading) = Ptr - 1
          <5>1. Dist(Reading, Reading) = 0
            BY <1>2, DistType
          <5> QED BY <1>2, <5>1, FromSuccessor
        <4> QED BY <1>2, <1>6, <3>1, <4>1
      <3>3. Dist(Reading', f) = Dist(Reading, f) - 1 /\ Dist(Reading, f) \in Nat
        BY <2>2, <3>1, <3>2
      <3>4. Dist(Reading, f) < NumDec
        BY <1>2, <3>1, <3>3
      <3>5. f \in Between(Reading, dec)
        BY <1>2, <3>1, <3>4, InBetween
      <3>6. Safe(f)
        BY <3>5 DEF AudioInv, FrameInv
      <3>7. CASE f \in whole
        BY <1>1, <2>4, <3>7 DEF Safe
      <3>8. CASE f \in gone
        BY <2>3, <3>2, <3>8 DEF Safe
      <3>9. CASE Dist(Reading, f) + 3 < NumDec /\ (f + 3) % Ptr \in gone
        <4>1. 3 \in 0..Ptr /\ Dist(Reading, f) + 3 < Ptr
          BY <1>2, <3>3, <3>9
        <4>2. Dist(Reading, (f + 3) % Ptr) = Dist(Reading, f) + 3
          BY <1>2, <3>1, <4>1, Further
        <4>3. Dist(Reading, Reading) = 0
          BY <1>2, DistType
        <4>4. (f + 3) % Ptr # Reading
          BY <3>3, <4>2, <4>3
        <4>5. (f + 3) % Ptr \in gone'
          BY <2>3, <3>9, <4>4
        <4>6. Dist(Reading', f) + 3 < NumDec'
          BY <1>2, <2>1, <3>3, <3>9
        <4>7. Dist(Reading, f)' = Dist(Reading', f)
          BY DEF Dist
        <4> QED BY <4>5, <4>6, <4>7 DEF Safe
      <3> QED BY <3>6, <3>7, <3>8, <3>9 DEF Safe
    <2>5. NumDec' + NumMic' < Ptr
      BY <1>2, <1>4, <2>1
    <2>6. PointerInv'
      BY <1>1, <2>5 DEF PointerInv
    <2>7. CountInv'
      <3>1. at = "over" => NumDec' <= num.dec
        BY <1>2, <2>1 DEF AudioInv, CountInv
      <3>2. at = "decide" => NumDec' <= num.dec
        BY <1>2, <2>1 DEF AudioInv, CountInv
      <3> QED BY <1>1, <1>4, <3>1, <3>2 DEF AudioInv, CountInv
    <2> QED BY <2>4, <2>6, <2>7 DEF AudioInv, FrameInv
  <1>7. CASE Reading' = dec
    <2>1. NumDec' = 0
      BY <1>2, <1>4, <1>7, DistType
    <2>2. Between(Reading', dec') = {}
      <3>1. ASSUME NEW f \in Between(dec, dec) PROVE FALSE
        <4>1. f \in Pointer /\ Dist(dec, f) < Dist(dec, dec)
          BY <3>1, InBetween
        <4>2. Dist(dec, f) \in Nat /\ Dist(dec, dec) = 0
          BY <1>2, <4>1, DistType
        <4> QED BY <4>1, <4>2
      <3> QED BY <1>1, <1>7, <3>1
    <2>3. NumDec' + NumMic' < Ptr
      BY <1>2, <1>4, <2>1
    <2>4. PointerInv'
      BY <1>1, <2>3 DEF PointerInv
    <2>5. CountInv'
      BY <1>1, <1>2, <1>4, <2>1 DEF AudioInv, CountInv
    <2> QED BY <2>2, <2>4, <2>5 DEF AudioInv, FrameInv
  <1> QED BY <1>1, <1>5, <1>6, <1>7

LEMMA AudioStart == AudioInit => AudioInv
  <1> SUFFICES ASSUME AudioInit PROVE AudioInv
    OBVIOUS
  <1>1. /\ mic = 0 /\ dec = 0 /\ rptr = 0 /\ at = "stack" /\ gone = {}
        /\ Ptr \in Nat /\ Ptr > 3 /\ Frame \in Nat /\ Frame > 0 /\ Reset \in Nat
    BY AudioSizes DEF AudioInit
  <1>2. AudioTypeOK
    BY AudioTypesStart
  <1>3. Reading = 0 /\ 0 \in Pointer
    BY <1>1 DEF Reading, Pointer
  <1>4. NumDec = 0 /\ NumMic = 0
    BY <1>1, <1>3, AudioPlace, <1>2, DistType
  <1>5. PointerInv
    BY <1>1, <1>4 DEF PointerInv
  <1>6. FrameInv
    <2>1. ASSUME NEW f \in Between(0, 0) PROVE FALSE
      <3>1. f \in Pointer /\ Dist(0, f) < Dist(0, 0)
        BY <2>1, InBetween
      <3>2. Dist(0, f) \in Nat /\ Dist(0, 0) = 0
        BY <1>3, <3>1, DistType
      <3> QED BY <3>1, <3>2
    <2> QED BY <1>1, <1>3, <2>1 DEF FrameInv
  <1>7. CountInv
    BY <1>1 DEF CountInv
  <1> QED BY <1>2, <1>5, <1>6, <1>7 DEF AudioInv

LEMMA AudioNextStep == ASSUME AudioInv, AudioTypeOK', [AudioNext]_audioVars PROVE AudioInv'
  <1>1. CASE Main
    BY <1>1, AttMicStep, TimeoutStep, CatchUpStep, CountStep, PassOverStep, DecodeBeginStep,
       DecodeEndStep, QuietStep DEF Main
  <1>2. CASE Late
    BY <1>2, PollStep DEF Late
  <1>3. CASE OnTime
    BY <1>3, PollStep DEF OnTime
  <1>4. CASE UNCHANGED audioVars
    BY <1>4, QuietStep
  <1> QED BY <1>1, <1>2, <1>3, <1>4 DEF AudioNext

\* AudioInv: between the interrupt and the decoder every frame is in its slot,
\* or passed over, or about to be read a frame early, wherever the interrupt
\* falls into abuf_mic_dec.
THEOREM AudioInvariant == AudioSpec => []AudioInv
  <1>1. AudioInv /\ AudioTypeOK' /\ [AudioNext]_audioVars => AudioInv'
    BY AudioNextStep
  <1> QED BY <1>1, AudioStart, AudioTypes, PTL DEF AudioSpec

\* A packet that is sent has what is due.
LEMMA PollSendsDue ==
    ASSUME AudioInv, [AudioNext]_audioVars, rptr' # rptr, reset = 0, reset' = 0
    PROVE  /\ Sound(Reading)
           /\ NumDec >= 2 => Sound(((rptr + 1) \div Frame) % Ptr)
  <1>1. /\ dec \in Pointer /\ Reading \in Pointer
        /\ NumDec = Dist(Reading, dec) /\ NumDec \in Nat /\ Ptr \in Nat /\ Ptr > 3 /\ NumDec < Ptr
        /\ rptr \in 0..Frame * Ptr - 1
    BY AudioPlace DEF AudioInv, AudioTypeOK
  <1>2. OnTime
    <2>1. ~Main
      BY DEF Main, AttMic, InTime, Timeout, AbufInit, Test, CatchUp, Count, PassOver, Overflow,
             DecodeBegin, DecodeEnd, NothingToDo, irqVars
    <2>2. ~Late
      <3>1. Late => reset' = CountDown(Reset)
        BY DEF Late, AbufDecUsb
      <3>2. CountDown(Reset) # 0
        BY AudioSizes DEF CountDown
      <3> QED BY <3>1, <3>2
    <2>3. ~UNCHANGED audioVars
      BY DEF audioVars
    <2> QED BY <2>1, <2>2, <2>3 DEF AudioNext
  <1>3. NumDec >= 1
    <2>1. rptr' = IF Ready(NumDec) THEN Advance(rptr) ELSE rptr
      BY <1>2 DEF OnTime, AbufDecUsb, NumDec, Reading
    <2> QED BY <2>1 DEF Ready
  <1>4. ASSUME NEW f \in Pointer, Dist(Reading, f) < NumDec
        PROVE  Sound(f)
    <2>1. f \in Between(Reading, dec)
      BY <1>1, <1>4, InBetween
    <2> QED BY <2>1 DEF AudioInv, FrameInv, Safe, Sound
  <1>5. Sound(Reading)
    <2>1. Dist(Reading, Reading) = 0
      BY <1>1, DistType
    <2>2. Dist(Reading, Reading) < NumDec
      BY <1>1, <1>3, <2>1
    <2> QED BY <1>1, <1>4, <2>2
  <1>6. NumDec >= 2 => Sound(Successor(Reading))
    <2>1. Dist(Reading, Reading) = 0 /\ 1 \in 0..Ptr /\ Dist(Reading, Reading) + 1 < Ptr
      BY <1>1, DistType
    <2>2. Successor(Reading) \in Pointer /\ Dist(Reading, Successor(Reading)) = 1
      <3>1. /\ (Reading + 1) % Ptr \in Pointer
            /\ Dist(Reading, (Reading + 1) % Ptr) = Dist(Reading, Reading) + 1
        BY <1>1, <2>1, Further
      <3> QED BY <2>1, <3>1 DEF Successor
    <2> QED BY <1>1, <1>4, <2>2
  <1>7. ((rptr + 1) \div Frame) % Ptr \in {Reading, Successor(Reading)}
    BY <1>1, SecondHalf DEF Reading
  <1> QED BY <1>5, <1>6, <1>7

\* SendsWhatIsDue: abuf_dec_usb takes the samples of a packet from the frame
\* that is due, decoded and not being written, although it may interrupt
\* abuf_mic_dec between reading num_dec and writing a slot; only frames passed
\* over, or overwritten before they were decoded, are missing.
THEOREM DueIsSent == AudioSpec => SendsWhatIsDue
  <1>1. AudioInv /\ [AudioNext]_audioVars
          => [rptr' # rptr /\ reset = 0 /\ reset' = 0
                => /\ Sound(Reading)
                   /\ NumDec >= 2 => Sound(((rptr + 1) \div Frame) % Ptr)]_audioVars
    BY PollSendsDue
  <1> QED BY <1>1, AudioInvariant, PTL DEF AudioSpec, SendsWhatIsDue
=============================================================================
