------------------------------ MODULE BondTable ------------------------------
(***************************************************************************)
(* The table of bonded slaves of the KMA dongle                            *)
(* (vendor/826x_master_kma_dongle/app.c:339-567): a RAM table loaded at    *)
(* power-up from a flash sector that is only ever appended to, records     *)
(* being invalidated in place by clearing their mark.  Power may be lost   *)
(* between any two flash operations, and in the middle of a record write.  *)
(*                                                                         *)
(* A cell is one 8-byte area of flash (mark, address type, address).  The  *)
(* index user_bond_slave_flash_cfg_idx, in bytes in the code, counts cells *)
(* here.  The sector is cells 0..SectorCells-1; the cells behind it belong *)
(* to whatever the next sector holds, and are represented because nothing  *)
(* in user_tbl_slave_mac_add stops the index from running into them.       *)
(***************************************************************************)
EXTENDS Integers, Sequences, FiniteSets

CONSTANTS
    Addr,          \* slave addresses (adr_type and address together)
    Garbled,       \* a record with a complete mark and an incomplete address
    Blank,         \* an erased cell: mark 0xff
    Dead,          \* a cell whose mark is neither 0x5A nor 0xff
    MaxSlaves,     \* USER_PAIR_SLAVE_MAX_NUM
    SectorCells,   \* 4096/8
    CleanCells,    \* 2048/8
    FlashCells     \* bound: cells represented, the sector and what follows it

Device == Addr \cup {Garbled}
Cell == Device \cup {Blank, Dead}

ASSUME CellAssumption ==
    /\ Blank # Dead
    /\ Blank \notin Device
    /\ Dead \notin Device

ASSUME SizeAssumption ==
    /\ MaxSlaves \in Nat \ {0}
    /\ SectorCells \in Nat \ {0}
    /\ CleanCells \in Nat
    /\ FlashCells \in Nat
    /\ MaxSlaves < CleanCells
    /\ CleanCells < SectorCells
    /\ SectorCells <= FlashCells

VARIABLES
    pc,      \* where the firmware is in the routines below
    flash,   \* content of the cells
    cfg,     \* user_bond_slave_flash_cfg_idx
    table,   \* user_tbl_slaveMac: slot is bond_flash_idx, adr is bond_device
    done,    \* loop index of delete_all and of the rewrite in flash_clean
    arg,     \* the address user_tbl_slave_mac_add was called with
    kept,    \* history: addresses of the table when it was last complete
    cut      \* history: routines cut short by a power loss since then

vars == <<pc, flash, cfg, table, done, arg, kept, cut>>

----------------------------------------------------------------------------
\* What the code reads and writes of a cell.

Live(c) == c \in Device          \* pf[idx] == ADR_BOND_MARK

Sector == 0..SectorCells - 1
LiveSlots == {s \in Sector : Live(flash[s])}
Row(s, a) == [slot |-> s, adr |-> a]
Addresses(t) == [i \in 1..Len(t) |-> t[i].adr]

\* flash_write_page can only clear bits: a record written over a cell that is
\* not blank leaves the mark dead, or live with a mixed address.
Program(old, new) ==
    IF old = Blank THEN new ELSE IF old = Dead \/ old = new THEN old ELSE Garbled

\* What a record write cut short by a power loss can leave in a cell: nothing,
\* a mark that is no bond, or a bond mark over an incomplete address.
TornCells(old, new) ==
    {old, new, Program(old, Garbled), IF old = Blank THEN Dead ELSE old}

\* The one byte user_tbl_slave_mac_delete_by_index writes.
EraseMark(s) == flash' = [flash EXCEPT ![s] = Dead]

----------------------------------------------------------------------------
Init ==
    /\ pc = "off"
    /\ flash = [s \in 0..FlashCells - 1 |-> Blank]
    /\ cfg = 0
    /\ table = <<>>
    /\ done = 0
    /\ arg = Garbled
    /\ kept = <<>>
    /\ cut = {}

\* The table is complete: control is back in the main loop.
Complete(t) ==
    /\ pc' = "idle"
    /\ kept' = Addresses(t)
    /\ cut' = {}

\* Power-up: RAM is zeroed and the scan of the sector starts.
Boot ==
    /\ pc = "off"
    /\ pc' = "scan"
    /\ cfg' = 0
    /\ table' = <<>>
    /\ done' = 0
    /\ UNCHANGED <<flash, arg, kept, cut>>

\* One round of the loop of user_master_host_pairing_flash_init that finds a
\* bond: it is loaded, or the firmware stops for good in while(1) with
\* interrupts off when the table has no row left.
ScanBond ==
    /\ pc = "scan"
    /\ cfg < SectorCells
    /\ Live(flash[cfg])
    /\ IF Len(table) < MaxSlaves
         THEN /\ table' = Append(table, Row(cfg, flash[cfg]))
              /\ cfg' = cfg + 1
              /\ pc' = pc
         ELSE /\ pc' = "hang"
              /\ UNCHANGED <<table, cfg>>
    /\ UNCHANGED <<flash, done, arg, kept, cut>>

\* A round that finds an invalidated record.
ScanSkip ==
    /\ pc = "scan"
    /\ cfg < SectorCells
    /\ flash[cfg] = Dead
    /\ cfg' = cfg + 1
    /\ UNCHANGED <<pc, flash, table, done, arg, kept, cut>>

\* The loop ends at a blank cell or behind the sector, the index steps back to
\* the newest record, and user_bond_slave_flash_clean returns at once unless
\* the index is in the second half of the sector.
ScanEnd ==
    /\ pc = "scan"
    /\ \/ cfg = SectorCells
       \/ cfg < SectorCells /\ flash[cfg] = Blank
    /\ cfg' = cfg - 1
    /\ IF cfg - 1 < CleanCells
         THEN Complete(table)
         ELSE pc' = "erase" /\ UNCHANGED <<kept, cut>>
    /\ UNCHANGED <<flash, table, done, arg>>

\* Mutant of EraseSector: the index is not reset.
EraseSectorKeepsIndex ==
    /\ pc = "erase"
    /\ flash' = [s \in DOMAIN flash |-> IF s \in Sector THEN Blank ELSE flash[s]]
    /\ pc' = "rewrite"
    /\ UNCHANGED <<cfg, table, done, arg, kept, cut>>

\* flash_erase_sector, then the index restarts in front of the sector.
EraseSector ==
    /\ pc = "erase"
    /\ flash' = [s \in DOMAIN flash |-> IF s \in Sector THEN Blank ELSE flash[s]]
    /\ cfg' = -1
    /\ pc' = "rewrite"
    /\ UNCHANGED <<table, done, arg, kept, cut>>

\* Mutant of RewriteRecord: the rows keep their old bond_flash_idx.
RewriteRecordKeepsSlot ==
    /\ pc = "rewrite"
    /\ done < Len(table)
    /\ cfg' = cfg + 1
    /\ flash' = [flash EXCEPT ![cfg + 1] = Program(@, table[done + 1].adr)]
    /\ done' = done + 1
    /\ UNCHANGED <<pc, table, arg, kept, cut>>

\* One round of the rewrite loop of user_bond_slave_flash_clean.
RewriteRecord ==
    /\ pc = "rewrite"
    /\ done < Len(table)
    /\ cfg' = cfg + 1
    /\ flash' = [flash EXCEPT ![cfg + 1] = Program(@, table[done + 1].adr)]
    /\ table' = [table EXCEPT ![done + 1] = Row(cfg + 1, @.adr)]
    /\ done' = done + 1
    /\ UNCHANGED <<pc, arg, kept, cut>>

RewriteEnd ==
    /\ pc = "rewrite"
    /\ done = Len(table)
    /\ done' = 0
    /\ Complete(table)
    /\ UNCHANGED <<flash, cfg, table, arg>>

\* user_tbl_slave_mac_add is called.  The caller's flags are latched from an
\* earlier advertising report, so the address may be in the table already.
\* The guard on cfg is the bound FlashCells of the model, not the code's.
Add(a) ==
    /\ pc = "idle"
    /\ cfg + 1 < FlashCells
    /\ pc' = "add"
    /\ arg' = a
    /\ UNCHANGED <<flash, cfg, table, done, kept, cut>>

\* Mutants of DeleteOldest: only the RAM table is changed; the newest record is
\* given up in place of the oldest.
DeleteOldestInRam ==
    /\ pc = "add"
    /\ Len(table) >= MaxSlaves
    /\ table' = Tail(table)
    /\ UNCHANGED <<pc, flash, cfg, done, arg, kept, cut>>

DeleteNewest ==
    /\ pc = "add"
    /\ Len(table) >= MaxSlaves
    /\ EraseMark(table[Len(table)].slot)
    /\ table' = SubSeq(table, 1, Len(table) - 1)
    /\ UNCHANGED <<pc, cfg, done, arg, kept, cut>>

\* The table is full: user_tbl_slave_mac_delete_by_index(0) clears the mark of
\* the oldest record and shifts the rows down.
DeleteOldest ==
    /\ pc = "add"
    /\ Len(table) >= MaxSlaves
    /\ EraseMark(table[1].slot)
    /\ table' = Tail(table)
    /\ UNCHANGED <<pc, cfg, done, arg, kept, cut>>

\* The record goes to the next cell and the row is counted.
WriteRecord ==
    /\ pc = "add"
    /\ Len(table) < MaxSlaves
    /\ cfg' = cfg + 1
    /\ flash' = [flash EXCEPT ![cfg + 1] = Program(@, arg)]
    /\ table' = Append(table, Row(cfg + 1, arg))
    /\ Complete(table')
    /\ UNCHANGED <<done, arg>>

\* user_tbl_slave_mac_delete_all, called on an unpair command.
UnpairAll ==
    /\ pc = "idle"
    /\ pc' = "unpair"
    /\ UNCHANGED <<flash, cfg, table, done, arg, kept, cut>>

\* One round of its loop, and its end: the rows are dropped all at once.
UnpairRecord ==
    /\ pc = "unpair"
    /\ done < Len(table)
    /\ EraseMark(table[done + 1].slot)
    /\ done' = done + 1
    /\ UNCHANGED <<pc, cfg, table, arg, kept, cut>>

UnpairEnd ==
    /\ pc = "unpair"
    /\ done = Len(table)
    /\ table' = <<>>
    /\ done' = 0
    /\ Complete(table')
    /\ UNCHANGED <<flash, cfg, arg>>

\* Power is lost between two flash operations: RAM is gone.  An interrupted
\* mark or sector erase is taken to have happened or not.
PowerLoss ==
    /\ pc \notin {"off", "hang"}
    /\ pc' = "off"
    /\ cut' = cut \cup ({pc} \ {"scan", "idle", "erase"})
    /\ table' = <<>>
    /\ cfg' = 0
    /\ done' = 0
    /\ UNCHANGED <<flash, arg, kept>>

\* Power is lost while a record is being programmed.
TearRecord(s, new) ==
    /\ \E c \in TornCells(flash[s], new) : flash' = [flash EXCEPT ![s] = c]
    /\ pc' = "off"
    /\ cut' = cut \cup {pc}
    /\ table' = <<>>
    /\ cfg' = 0
    /\ done' = 0
    /\ UNCHANGED <<arg, kept>>

TornAdd ==
    /\ pc = "add"
    /\ Len(table) < MaxSlaves
    /\ TearRecord(cfg + 1, arg)

TornRewrite ==
    /\ pc = "rewrite"
    /\ done < Len(table)
    /\ TearRecord(cfg + 1, table[done + 1].adr)

\* The steps the processor takes on its own once it is powered.
Firmware ==
    \/ ScanBond \/ ScanSkip \/ ScanEnd
    \/ EraseSector \/ RewriteRecord \/ RewriteEnd
    \/ DeleteOldest \/ WriteRecord
    \/ UnpairRecord \/ UnpairEnd

Next ==
    \/ Boot
    \/ Firmware
    \/ \E a \in Addr : Add(a)
    \/ UnpairAll
    \/ PowerLoss
    \/ TornAdd
    \/ TornRewrite

Spec == Init /\ [][Next]_vars

----------------------------------------------------------------------------
\* The types of the variables.
TypeOK ==
    /\ pc \in {"off", "scan", "erase", "rewrite", "idle", "add", "unpair", "hang"}
    /\ flash \in [0..FlashCells - 1 -> Cell]
    /\ cfg \in -1..FlashCells
    /\ table \in Seq([slot : 0..FlashCells - 1, adr : Device])
    /\ Len(table) <= MaxSlaves
    /\ done \in 0..Len(table)
    /\ arg \in Device
    /\ kept \in Seq(Device)
    /\ cut \subseteq {"add", "unpair", "rewrite"}

\* The sector never holds more valid records than the table has rows, not even
\* after a pairing, an unpairing or a compaction cut short by a power loss, so
\* the "more than max, we think it's code bug" branch of the scan
\* (app.c:547-551) is never taken.
NeverOverfull ==
    /\ Cardinality(LiveSlots) <= MaxSlaves
    /\ pc # "hang"

\* Whenever control is in the main loop, the rows of the table are in the order
\* their records have in flash, every valid record of the sector has a row, and
\* every row whose record is in the sector carries the address stored there:
\* deleting a row by its bond_flash_idx clears the mark of that device's record.
TableMatchesFlash ==
    pc = "idle" =>
        /\ \A i, j \in 1..Len(table) : i < j => table[i].slot < table[j].slot
        /\ LiveSlots = {table[i].slot : i \in 1..Len(table)} \cap Sector
        /\ \A i \in 1..Len(table) :
              table[i].slot \in Sector => flash[table[i].slot] = table[i].adr

\* What a pairing of `a`, or an unpairing, in `c` leaves of the table `old` when
\* it is cut short.
Left(old, c, a) ==
    LET spared == IF Len(old) < MaxSlaves THEN old ELSE Tail(old)
    IN  IF "add" \in c
          THEN {old, spared, Append(spared, a), Append(spared, Garbled)}
        ELSE IF "unpair" \in c
          THEN {SubSeq(old, n + 1, Len(old)) : n \in 0..Len(old)}
        ELSE {old}

\* The first n rows of `t`, without or with a garbled one.
Rewritten(t, n) == {SubSeq(t, 1, n), Append(SubSeq(t, 1, n), Garbled)}

\* What a power-up may find of the table `old` when the routines in `c` were cut
\* short since the table was last complete.
Recovered(old, new, c, a) ==
    IF "rewrite" \in c
      THEN \E t \in Left(old, c, a) : \E n \in 0..Len(t) : new \in Rewritten(t, n)
      ELSE new \in Left(old, c, a)

\* A power cycle keeps every bond, in order, when no routine was cut short.  A
\* pairing cut short costs at most the oldest bond, and nothing appears but the
\* slave being paired or one garbled record; an unpairing cut short leaves the
\* newest bonds.  A compaction cut short, also after one of these, costs any
\* number of the newest bonds, all of them at worst, and leaves at most one
\* garbled record: the sector is erased before the bonds are written again, the
\* oldest first (app.c:521-533).
PowerCycleKeepsBonds ==
    [][(pc \in {"scan", "rewrite"} /\ pc' = "idle")
         => Recovered(kept, Addresses(table'), cut, arg)]_vars

\* The sector is a bounded first-in first-out store of bonds.
Store == INSTANCE BondStore
    WITH stored <- [s \in LiveSlots |-> flash[s]], Places <- SectorCells
StoreSpec == Store!Spec

\* What the comment at app.c:513 relies on: the half of the sector that is left
\* when a power-up finds no need to clean it takes every record of that run.
\* (The scan of a full sector ends one cell behind it and steps back.)
IndexStaysInSector == pc # "scan" => cfg < SectorCells
=============================================================================
