------------------------------- MODULE OtaBoot -------------------------------
(***************************************************************************)
(* The update of the firmware in flash by the OTA boot code                *)
(* (vendor/826x_ota_boot/main.c) with the part of the startup code that    *)
(* decides to run it (proj/mcu_spec/cstartup_8266.S:128-154).  The new     *)
(* image was left at NEW_FW_ADR by the BLE library, which then set the     *)
(* flag at OTA_FLG_ADR.  The boot code runs from RAM, interrupts off; what *)
(* can get in its way is power and the flash itself.                       *)
(*                                                                         *)
(* Flash is counted in 256-byte pages: the running firmware is at 0, the   *)
(* new image at page Area.  A page holds <<f, p>>, page p of firmware f,   *)
(* or Blank, or Mixed: anything else.                                      *)
(***************************************************************************)
EXTENDS Integers

CONSTANTS
    Firmware,     \* firmware images
    First,        \* the one in flash at the start
    Size,         \* its n_firmware, in pages rounded up
    Area,         \* NEW_FW_SIZE, also the page of NEW_FW_ADR
    SectorPages,  \* 4096/256
    StartPages,   \* pages the startup code takes
    Blank, Mixed,
    MaxFaults     \* bound: power losses and failed writes of a behaviour

ASSUME SizesAssumption ==
    /\ Area \in Nat /\ SectorPages \in Nat \ {0} /\ StartPages \in 1..SectorPages
    /\ Area % SectorPages = 0 /\ SectorPages < Area
    /\ First \in Firmware
    /\ Size \in [Firmware -> Nat \ {0}]
    /\ Size[First] <= Area
    /\ \A f \in Firmware : StartPages <= Size[f]
    /\ MaxFaults \in Nat

VARIABLES
    pc,     \* where startup, application or boot code is
    flash,  \* content of the pages
    flag,   \* the word at OTA_FLG_ADR is 0xa5
    n,      \* n_firmware as the boot code read it
    i,      \* the loop index, a page, or a sector in the last loop
    want,   \* history: the last image delivered with its flag
    faults  \* power losses and failed writes so far

vars == <<pc, flash, flag, n, i, want, faults>>

Page(f, p) == <<f, p>>
Pages == 0..2 * Area - 1
Content == (Firmware \X Pages) \cup {Blank, Mixed}

SectorStart(p) == p - (p % SectorPages)
InSector(p, s) == SectorStart(p) = s

\* flash_write_page clears bits only: it writes right on a blank page alone.
Program(old, new) == IF old = Blank \/ old = new THEN new ELSE IF new = Blank THEN old ELSE Mixed

\* All of f is in its place at page `base`.
ImageAt(f, base) ==
    \A p \in 0..Area - 1 : p < Size[f] => flash[base + p] = Page(f, p)

\* The startup code can run: its pages are those of one firmware.
Startable == \E f \in Firmware : \A p \in 0..StartPages - 1 : flash[p] = Page(f, p)

\* n_firmware is at offset 0x18 of the new image; a blank header reads -1.
HeaderSize ==
    IF \E f \in Firmware : flash[Area] = Page(f, 0)
      THEN Size[CHOOSE f \in Firmware : flash[Area] = Page(f, 0)]
      ELSE -1

----------------------------------------------------------------------------
Init ==
    /\ pc = "off"
    /\ flash = [p \in Pages |-> IF p < Size[First] THEN Page(First, p) ELSE Blank]
    /\ flag = FALSE
    /\ n = 0
    /\ i = 0
    /\ want = First
    /\ faults = 0

\* Reset: the startup code at page 0 looks at the flag and runs the boot code,
\* or the application.  Without startup code nothing runs.
Startup ==
    /\ pc = "off"
    /\ pc' = IF ~Startable THEN "bricked" ELSE IF flag THEN "header" ELSE "init"
    /\ UNCHANGED <<flash, flag, n, i, want, faults>>

\* External, bls_ota_clearNewFwDataArea: the application starts by making the
\* area of the new image blank.
ClearNewFwDataArea ==
    /\ pc = "init"
    /\ flash' = [p \in Pages |-> IF p >= Area THEN Blank ELSE flash[p]]
    /\ pc' = "app"
    /\ UNCHANGED <<flag, n, i, want, faults>>

\* External, the library's OTA service: an image is received, its flag set, and
\* the chip reset.
Download(f) ==
    /\ pc = "app"
    /\ flash' = [p \in Pages |->
                    IF p >= Area /\ p - Area < Size[f] THEN Page(f, p - Area) ELSE flash[p]]
    /\ flag' = TRUE
    /\ want' = f
    /\ pc' = "off"
    /\ UNCHANGED <<n, i, faults>>

\* External: the transfer stops half way; the library resets without the flag.
DownloadPart(f, k) ==
    /\ pc = "app"
    /\ flash' = [p \in Pages |->
                    IF p >= Area /\ p - Area < k THEN Page(f, p - Area) ELSE flash[p]]
    /\ pc' = "off"
    /\ UNCHANGED <<flag, n, i, want, faults>>

\* Mutant of ReadHeader: the copy starts with the first sector.
ReadHeaderFirstSectorFirst ==
    /\ pc = "header"
    /\ n' = HeaderSize
    /\ IF n' > Area
         THEN pc' = "hang" /\ i' = i
         ELSE pc' = "erase" /\ i' = 0
    /\ UNCHANGED <<flash, flag, want, faults>>

\* The size is read and checked; the copy starts behind the first sector.
ReadHeader ==
    /\ pc = "header"
    /\ n' = HeaderSize
    /\ IF n' > Area
         THEN pc' = "hang" /\ i' = i
         ELSE pc' = "erase" /\ i' = SectorPages
    /\ UNCHANGED <<flash, flag, want, faults>>

\* The two copy loops share their body: the loop that runs is told by the
\* index, behind the first sector or in it.
Limit == IF i >= SectorPages THEN n ELSE SectorPages

\* The first loop ended: the second one starts.
FirstLoopEnd ==
    /\ pc = "erase"
    /\ i >= n /\ i >= SectorPages
    /\ i' = 0
    /\ UNCHANGED <<pc, flash, flag, n, want, faults>>

\* The sector is erased when the index is at its start.
EraseSector ==
    /\ pc = "erase"
    /\ i < Limit
    /\ flash' = IF i % SectorPages = 0
                  THEN [p \in Pages |-> IF InSector(p, i) THEN Blank ELSE flash[p]]
                  ELSE flash
    /\ pc' = "write"
    /\ UNCHANGED <<flag, n, i, want, faults>>

\* Mutant of Written: a wrong page is tried again without going back to the erase
\* of its sector.
WrittenRetryPage(c) ==
    LET ok == c = flash[Area + i]
    IN  /\ flash' = [flash EXCEPT ![i] = c]
        /\ IF ok /\ i + 1 = SectorPages
             THEN pc' = "flag" /\ i' = 0
             ELSE pc' = "erase" /\ i' = IF ok THEN i + 1 ELSE i

\* The page is written and read back.  A wrong page takes the index back to the
\* start of its sector; the second loop ends with the first sector.
Written(c) ==
    LET copied == flash[Area + i]
        ok == c = copied
        next == IF ok THEN i + 1 ELSE SectorStart(i)
    IN  /\ flash' = [flash EXCEPT ![i] = c]
        /\ IF ok /\ i + 1 = SectorPages
             THEN pc' = "flag" /\ i' = 0
             ELSE pc' = "erase" /\ i' = next

WritePage ==
    /\ pc = "write"
    /\ Written(Program(flash[i], flash[Area + i]))
    /\ UNCHANGED <<flag, n, want, faults>>

\* The flash fails to take the page.
WriteFails ==
    /\ pc = "write"
    /\ flash[Area + i] # Mixed
    /\ faults < MaxFaults
    /\ Written(Mixed)
    /\ faults' = faults + 1
    /\ UNCHANGED <<flag, n, want>>

\* The flag is cleared, and the area of the new image erased from its last
\* sector, (n_firmware-1)&0x1f000, down to its first.
LastSector == IF n >= 1 THEN (n - 1) \div SectorPages ELSE Area \div SectorPages - 1

\* Mutant of ClearFlag: the erase starts while the flag still stands.
ClearFlagLate ==
    /\ pc = "flag"
    /\ i' = LastSector
    /\ pc' = "clean"
    /\ UNCHANGED <<flash, flag, n, want, faults>>

ClearFlag ==
    /\ pc = "flag"
    /\ flag' = FALSE
    /\ i' = LastSector
    /\ pc' = "clean"
    /\ UNCHANGED <<flash, n, want, faults>>

\* Mutant of EraseNew: one round too many.
EraseNewTwice ==
    /\ pc = "clean"
    /\ i >= -1
    /\ flash' = [p \in Pages |-> IF InSector(p, Area + i * SectorPages) THEN Blank ELSE flash[p]]
    /\ i' = i - 1
    /\ UNCHANGED <<pc, flag, n, want, faults>>

EraseNew ==
    /\ pc = "clean"
    /\ i >= 0
    /\ flash' = [p \in Pages |-> IF InSector(p, Area + i * SectorPages) THEN Blank ELSE flash[p]]
    /\ i' = i - 1
    /\ UNCHANGED <<pc, flag, n, want, faults>>

Reboot ==
    /\ pc = "clean"
    /\ i < 0
    /\ pc' = "off"
    /\ UNCHANGED <<flash, flag, n, i, want, faults>>

\* Power is lost between two operations of the flash, or spoils the one under
\* way: what a sector erase or a page write was to change is then mixed.
PowerLoss ==
    /\ pc \notin {"off", "bricked"}
    /\ faults < MaxFaults
    /\ faults' = faults + 1
    /\ pc' = "off"
    /\ \/ UNCHANGED flash
       \/ /\ pc = "erase" /\ i < Limit /\ i % SectorPages = 0
          /\ flash' = [p \in Pages |-> IF InSector(p, i) THEN Mixed ELSE flash[p]]
       \/ /\ pc = "write"
          /\ flash' = [flash EXCEPT ![i] = Mixed]
       \/ /\ pc = "clean" /\ i >= 0
          /\ flash' = [p \in Pages |->
                          IF InSector(p, Area + i * SectorPages) THEN Mixed ELSE flash[p]]
    /\ UNCHANGED <<flag, n, i, want>>

\* What runs by itself once powered.
Boot ==
    \/ Startup
    \/ ReadHeader \/ FirstLoopEnd \/ EraseSector \/ WritePage
    \/ ClearFlag \/ EraseNew \/ Reboot

Next ==
    \/ Boot
    \/ ClearNewFwDataArea
    \/ \E f \in Firmware : Download(f)
    \/ \E f \in Firmware, k \in 1..Area - 1 : DownloadPart(f, k)
    \/ WriteFails
    \/ PowerLoss

Spec == Init /\ [][Next]_vars

\* The processor runs on; the application reaches its initialisation.
FairSpec == Spec /\ WF_vars(Boot) /\ WF_vars(ClearNewFwDataArea)

----------------------------------------------------------------------------
\* The types of the variables.
TypeOK ==
    /\ pc \in {"off", "init", "app", "header", "erase", "write", "flag", "clean",
               "hang", "bricked"}
    /\ flash \in [Pages -> Content]
    /\ flag \in BOOLEAN
    /\ n \in Nat \cup {-1}
    /\ i \in -1..Area
    /\ want \in Firmware
    /\ faults \in 0..MaxFaults

\* As long as the flag calls for the boot code, the image it copies is whole:
\* however often power is lost, the copy can start again from the beginning.
\* (The flag is cleared before the first sector of the image is erased,
\* main.c:162-170, and no copy reaches the area, main.c:100.)
FlagMeansImage ==
    flag => ImageAt(want, Area)

\* The application never runs from a mixture of two images, neither now nor
\* after a copy that starts again.
WholeImageRuns ==
    /\ pc \in {"init", "app"} => \E f \in Firmware : ImageAt(f, 0)
    /\ FlagMeansImage

\* The only moment the chip could not start again is the rewrite of the first
\* sector, with every other page of the new image in its place already
\* (main.c:110-160 copies the first 4K last).
UnstartableOnlyAtTheEnd ==
    ~Startable => /\ flag
                  /\ \A p \in SectorPages..Area - 1 :
                        p < Size[want] => flash[p] = Page(want, p)

\* A delivered image of a legal size ends up running, unless power was lost in
\* that moment.
UpdateCompletes ==
    \A f \in Firmware :
        flag /\ want = f /\ Size[f] <= Area
            ~> pc \in {"init", "bricked"} /\ (pc = "init" => ImageAt(f, 0))
=============================================================================
