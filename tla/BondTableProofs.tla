--------------------------- MODULE BondTableProofs ---------------------------
(***************************************************************************)
(* Proofs about BondTable, for every value of its constants: its types,    *)
(* that the sector never holds more bonds than the table has rows (so the  *)
(* scan at power-up never stops in while(1)), that the table and the       *)
(* sector agree whenever control is in the main loop, that the sector      *)
(* implements the store of BondStore, and what a power cycle keeps.        *)
(***************************************************************************)
EXTENDS BondTable, FiniteSetTheorems, SequenceTheorems, WellFoundedInduction, NaturalsInduction, TLAPS

Rows == [slot : 0..FlashCells - 1, adr : Device]

----------------------------------------------------------------------------
\* Facts about rows, cells and sets of slots.

\* A set of slots of a table has at most as many members as the table has rows.
LEMMA FewSlots ==
    ASSUME NEW t \in Seq(Rows), NEW S,
           \A s \in S : \E i \in 1..Len(t) : t[i].slot = s
    PROVE  IsFiniteSet(S) /\ Cardinality(S) <= Len(t)
<1> DEFINE D == {t[i].slot : i \in 1..Len(t)}
           f == [i \in 1..Len(t) |-> t[i].slot]
<1>1. Len(t) \in Nat
  OBVIOUS
<1>2. IsFiniteSet(1..Len(t)) /\ Cardinality(1..Len(t)) = Len(t)
  BY <1>1, FS_Interval
<1>3. f \in Surjection(1..Len(t), D)
  BY DEF Surjection
<1>4. IsFiniteSet(D) /\ Cardinality(D) <= Len(t)
  BY <1>2, <1>3, FS_Surjection
<1>5. S \in SUBSET D
  OBVIOUS
<1>6. IsFiniteSet(S) /\ Cardinality(S) <= Cardinality(D)
  BY <1>4, <1>5, FS_Subset
<1>7. Cardinality(S) \in Nat /\ Cardinality(D) \in Nat
  BY <1>4, <1>6, FS_CardinalityType
<1> QED
  BY <1>1, <1>4, <1>6, <1>7

\* The live cells of the sector are finitely many.
LEMMA LiveFinite ==
    IsFiniteSet(LiveSlots) /\ Cardinality(LiveSlots) \in Nat
<1>1. IsFiniteSet(Sector)
  BY SizeAssumption, FS_Interval DEF Sector
<1>2. LiveSlots \in SUBSET Sector
  BY DEF LiveSlots
<1> QED
  BY <1>1, <1>2, FS_Subset, FS_CardinalityType

\* Programming a cell gives a cell.
LEMMA ProgramType ==
    ASSUME NEW c \in Cell, NEW d \in Device
    PROVE  Program(c, d) \in Cell
  BY DEF Program, Cell, Device

\* A cell left by an interrupted write is a cell.
LEMMA TornType ==
    ASSUME NEW c \in Cell, NEW d \in Device
    PROVE  TornCells(c, d) \subseteq Cell
  BY ProgramType DEF TornCells, Cell, Device

\* Dropping the first row, and moving a row to another slot, give a table.
LEMMA TailRows ==
    ASSUME NEW t \in Seq(Rows), Len(t) > 0
    PROVE  /\ Tail(t) \in Seq(Rows)
           /\ Len(Tail(t)) = Len(t) - 1
           /\ \A i \in 1..Len(t) - 1 : Tail(t)[i] = t[i + 1]
  OBVIOUS

LEMMA MoveRow ==
    ASSUME NEW t \in Seq(Rows), NEW k \in 1..Len(t), NEW s \in 0..FlashCells - 1
    PROVE  LET u == [t EXCEPT ![k] = Row(s, @.adr)]
           IN  /\ u \in Seq(Rows)
               /\ Len(u) = Len(t)
               /\ \A i \in 1..Len(t) : u[i] = IF i = k THEN Row(s, t[k].adr) ELSE t[i]
<1>1. t[k] \in Rows
  BY ElementOfSeq
<1>2. Row(s, t[k].adr) \in Rows
  BY <1>1 DEF Rows, Row
<1>3. [t EXCEPT ![k] = Row(s, @.adr)] = [t EXCEPT ![k] = Row(s, t[k].adr)]
  OBVIOUS
<1> QED
  BY <1>2, <1>3, ExceptSeq

LEMMA AppendRow ==
    ASSUME NEW t \in Seq(Rows), NEW r \in Rows
    PROVE  /\ Append(t, r) \in Seq(Rows)
           /\ Len(Append(t, r)) = Len(t) + 1
           /\ \A i \in 1..Len(t) : Append(t, r)[i] = t[i]
           /\ Append(t, r)[Len(t) + 1] = r
  OBVIOUS

\* What the rows of a table are.
LEMMA RowFacts ==
    ASSUME NEW t \in Seq(Rows)
    PROVE  /\ Len(t) \in Nat
           /\ \A i \in 1..Len(t) : /\ t[i].slot \in 0..FlashCells - 1
                                   /\ t[i].adr \in Device
<1>1. Len(t) \in Nat /\ t \in [1..Len(t) -> Rows]
  BY LenProperties
<1>2. \A i \in 1..Len(t) : t[i] \in Rows
  BY <1>1
<1> QED
  BY <1>1, <1>2 DEF Rows

LEMMA AddressesType ==
    ASSUME NEW t \in Seq(Rows)
    PROVE  Addresses(t) \in Seq(Device)
<1>1. Addresses(t) \in [1..Len(t) -> Device]
  BY RowFacts DEF Addresses
<1> QED
  BY <1>1, RowFacts, SeqDef

----------------------------------------------------------------------------
\* Where the index stands, routine by routine.  FlashCells bounds the model.
IndexOK ==
    /\ pc = "scan" => cfg \in 0..SectorCells
    /\ pc \in {"idle", "unpair"} => cfg < FlashCells
    /\ pc = "add" => cfg + 1 < FlashCells
    /\ pc = "rewrite" => cfg = done - 1
    /\ pc \notin {"rewrite", "unpair"} => done = 0

LEMMA TypeInit == Init => TypeOK /\ IndexOK
<1> SUFFICES ASSUME Init PROVE TypeOK /\ IndexOK
  OBVIOUS
<1>1. <<>> \in Seq(Rows) /\ Len(<<>>) = 0 /\ <<>> \in Seq(Device)
  BY EmptySeq
<1>2. flash \in [0..FlashCells - 1 -> Cell]
  BY DEF Init, Cell
<1> QED
  BY <1>1, <1>2, SizeAssumption DEF Init, TypeOK, IndexOK, Rows, Device

LEMMA TypeNext == TypeOK /\ IndexOK /\ [Next]_vars => TypeOK' /\ IndexOK'
<1> SUFFICES ASSUME TypeOK, IndexOK, [Next]_vars PROVE TypeOK' /\ IndexOK'
  OBVIOUS
<1> USE SizeAssumption
<1>t. /\ table \in Seq(Rows) /\ Len(table) \in Nat /\ Len(table) <= MaxSlaves
      /\ flash \in [0..FlashCells - 1 -> Cell]
      /\ cfg \in -1..FlashCells
      /\ done \in 0..Len(table)
      /\ arg \in Device
      /\ \A i \in 1..Len(table) : table[i].slot \in 0..FlashCells - 1 /\ table[i].adr \in Device
  BY RowFacts DEF TypeOK, Rows
<1>e. <<>> \in Seq(Rows) /\ Len(<<>>) = 0 /\ <<>> \in Seq(Device)
  BY EmptySeq
<1>a. Addresses(table) \in Seq(Device)
  BY <1>t, AddressesType
<1>w. ASSUME NEW s \in Int, NEW d \in Device
      PROVE  [flash EXCEPT ![s] = Program(@, d)] \in [0..FlashCells - 1 -> Cell]
  BY <1>t, ProgramType
<1>d. \A s : [flash EXCEPT ![s] = Dead] \in [0..FlashCells - 1 -> Cell]
  BY <1>t DEF Cell
<1>1. CASE Boot
  BY <1>1, <1>e DEF TypeOK, IndexOK, Boot, Rows
<1>2. CASE ScanBond
  <2>1. cfg \in 0..FlashCells - 1 /\ flash[cfg] \in Device
    BY <1>2, <1>t DEF ScanBond, Live, IndexOK
  <2>2. Row(cfg, flash[cfg]) \in Rows
    BY <2>1 DEF Row, Rows
  <2>3. CASE Len(table) < MaxSlaves
    <3>1. table' = Append(table, Row(cfg, flash[cfg]))
      BY <1>2, <2>3 DEF ScanBond
    <3>2. table' \in Seq(Rows) /\ Len(table') = Len(table) + 1
      BY <1>t, <2>2, <3>1, AppendRow
    <3> QED
      BY <1>2, <1>t, <2>1, <2>3, <3>2 DEF TypeOK, IndexOK, ScanBond, Rows
  <2>4. CASE ~(Len(table) < MaxSlaves)
    BY <1>2, <2>4 DEF TypeOK, IndexOK, ScanBond
  <2> QED
    BY <2>3, <2>4
<1>3. CASE ScanSkip
  <2>1. cfg' \in 0..SectorCells /\ cfg' \in -1..FlashCells
    BY <1>3, <1>t DEF ScanSkip, IndexOK
  <2>2. UNCHANGED <<pc, flash, table, done, arg, kept, cut>> /\ pc = "scan"
    BY <1>3 DEF ScanSkip
  <2> QED
    BY <2>1, <2>2 DEF TypeOK, IndexOK
<1>4. CASE ScanEnd
  <2>1. cfg' \in -1..FlashCells - 1 /\ UNCHANGED <<flash, table, done, arg>> /\ done = 0
    BY <1>4, <1>t DEF ScanEnd, IndexOK
  <2>2. CASE Complete(table)
    BY <1>a, <2>1, <2>2 DEF TypeOK, IndexOK, Complete
  <2>3. CASE pc' = "erase" /\ UNCHANGED <<kept, cut>>
    BY <2>1, <2>3 DEF TypeOK, IndexOK
  <2> QED
    BY <1>4, <2>2, <2>3 DEF ScanEnd
<1>5. CASE EraseSector
  <2>1. flash' \in [0..FlashCells - 1 -> Cell]
    BY <1>5, <1>t DEF EraseSector, Cell
  <2> QED
    BY <1>5, <2>1 DEF TypeOK, IndexOK, EraseSector
<1>6. CASE RewriteRecord
  <2>1. cfg + 1 \in 0..FlashCells - 1 /\ done + 1 \in 1..Len(table)
    BY <1>6, <1>t DEF RewriteRecord, IndexOK
  <2>2. table' \in Seq(Rows) /\ Len(table') = Len(table)
    BY <1>6, <1>t, <2>1, MoveRow DEF RewriteRecord
  <2>3. flash' \in [0..FlashCells - 1 -> Cell]
    BY <1>6, <1>t, <1>w, <2>1 DEF RewriteRecord
  <2> QED
    BY <1>6, <1>t, <2>1, <2>2, <2>3 DEF TypeOK, IndexOK, RewriteRecord, Rows
<1>7. CASE RewriteEnd
  BY <1>7, <1>t, <1>a DEF TypeOK, IndexOK, RewriteEnd, Complete
<1>8. CASE DeleteOldest
  <2>1. table' \in Seq(Rows) /\ Len(table') = Len(table) - 1
    BY <1>8, <1>t, TailRows DEF DeleteOldest
  <2>2. flash' \in [0..FlashCells - 1 -> Cell]
    BY <1>8, <1>d DEF DeleteOldest, EraseMark
  <2> QED
    BY <1>8, <1>t, <2>1, <2>2 DEF TypeOK, IndexOK, DeleteOldest, Rows
<1>9. CASE WriteRecord
  <2>1. cfg + 1 \in 0..FlashCells - 1 /\ Row(cfg + 1, arg) \in Rows
    BY <1>9, <1>t DEF WriteRecord, IndexOK, Row, Rows
  <2>2. table' \in Seq(Rows) /\ Len(table') = Len(table) + 1
    BY <1>9, <1>t, <2>1, AppendRow DEF WriteRecord
  <2>3. flash' \in [0..FlashCells - 1 -> Cell]
    BY <1>9, <1>t, <1>w, <2>1 DEF WriteRecord
  <2>4. Addresses(table') \in Seq(Device)
    BY <2>2, AddressesType
  <2> QED
    BY <1>9, <1>t, <2>1, <2>2, <2>3, <2>4 DEF TypeOK, IndexOK, WriteRecord, Complete, Rows
<1>10. CASE UnpairRecord
  BY <1>10, <1>t, <1>d, SMTT(20) DEF TypeOK, IndexOK, UnpairRecord, EraseMark
<1>11. CASE UnpairEnd
  <2>1. Addresses(table') \in Seq(Device)
    BY <1>11, <1>e, AddressesType DEF UnpairEnd
  <2> QED
    BY <1>11, <1>t, <1>e, <2>1 DEF TypeOK, IndexOK, UnpairEnd, Complete, Rows
<1>12. ASSUME NEW a \in Addr, Add(a) PROVE TypeOK' /\ IndexOK'
  BY <1>12 DEF TypeOK, IndexOK, Add, Device
<1>13. CASE UnpairAll
  BY <1>13 DEF TypeOK, IndexOK, UnpairAll
<1>14. CASE PowerLoss
  BY <1>14, <1>e DEF TypeOK, IndexOK, PowerLoss, Rows
<1>15. ASSUME NEW s, NEW d \in Device, TearRecord(s, d), s \in 0..FlashCells - 1,
              pc \in {"add", "rewrite"}
       PROVE  TypeOK' /\ IndexOK'
  <2>1. flash' \in [0..FlashCells - 1 -> Cell]
    <3>1. PICK c \in TornCells(flash[s], d) : flash' = [flash EXCEPT ![s] = c]
      BY <1>15 DEF TearRecord
    <3>2. c \in Cell
      BY <1>15, <1>t, TornType
    <3> QED
      BY <1>t, <3>1, <3>2
  <2> QED
    BY <1>15, <1>e, <2>1 DEF TypeOK, IndexOK, TearRecord, Rows
<1>16. CASE TornAdd
  BY <1>15, <1>16, <1>t DEF TornAdd, IndexOK
<1>17. CASE TornRewrite
  BY <1>15, <1>17, <1>t DEF TornRewrite, IndexOK
<1>18. CASE UNCHANGED vars
  BY <1>18 DEF TypeOK, IndexOK, vars
<1> QED
  BY <1>1, <1>2, <1>3, <1>4, <1>5, <1>6, <1>7, <1>8, <1>9, <1>10, <1>11, <1>12,
     <1>13, <1>14, <1>16, <1>17, <1>18 DEF Next, Firmware

\* The types of the variables hold in every behaviour.
THEOREM TypeCorrect == Spec => []TypeOK
<1>1. Spec => [](TypeOK /\ IndexOK)
  BY TypeInit, TypeNext, PTL DEF Spec
<1> QED
  BY <1>1, PTL

----------------------------------------------------------------------------
\* The inductive invariant.  While the sector is scanned, the table holds
\* exactly the bonds met so far; in the main loop and in the routines called
\* from it, the bonds of the sector are those of the rows not yet invalidated;
\* during the rewrite the bonds are the rows already written.  The cells in use
\* are always the first ones, which is what lets the scan stop at a blank cell.
BlankTail == \A i, j \in Sector : i < j /\ flash[i] = Blank => flash[j] = Blank

UsedUpToIndex == \A s \in Sector : s <= cfg <=> flash[s] # Blank

Ordered == \A i, j \in 1..Len(table) : i < j => table[i].slot < table[j].slot

ScanInv ==
    pc = "scan" =>
        /\ Ordered
        /\ \A s \in Sector : s < cfg => flash[s] # Blank
        /\ \A i \in 1..Len(table) :
              /\ table[i].slot < cfg
              /\ table[i].slot \in Sector
              /\ flash[table[i].slot] = table[i].adr
        /\ \A s \in Sector : s < cfg /\ Live(flash[s])
              => \E i \in 1..Len(table) : table[i].slot = s

MainInv ==
    pc \in {"idle", "add", "unpair"} =>
        /\ Ordered
        /\ UsedUpToIndex
        /\ \A i \in 1..Len(table) : table[i].slot <= cfg
        /\ \A i \in done + 1..Len(table) :
              table[i].slot \in Sector => flash[table[i].slot] = table[i].adr
        /\ \A s \in Sector : Live(flash[s])
              => \E i \in done + 1..Len(table) : table[i].slot = s

RewriteInv ==
    pc = "rewrite" =>
        /\ UsedUpToIndex
        /\ \A i \in 1..done : table[i].slot = i - 1 /\ flash[i - 1] = table[i].adr

FlashInv ==
    /\ NeverOverfull
    /\ BlankTail
    /\ ScanInv
    /\ MainInv
    /\ RewriteInv

IInv == TypeOK /\ IndexOK /\ FlashInv

----------------------------------------------------------------------------
\* What the invariant says of the variables, in the form the steps use.
LEMMA Facts ==
    ASSUME TypeOK
    PROVE  /\ table \in Seq(Rows) /\ Len(table) \in Nat /\ Len(table) <= MaxSlaves
           /\ flash \in [0..FlashCells - 1 -> Cell]
           /\ cfg \in -1..FlashCells /\ done \in 0..Len(table) /\ arg \in Device
           /\ \A i \in 1..Len(table) : /\ table[i].slot \in 0..FlashCells - 1
                                       /\ table[i].adr \in Device
           /\ Sector \subseteq DOMAIN flash
           /\ \A s \in Sector : s \in 0..SectorCells - 1
           /\ Blank \notin Device /\ Dead \notin Device /\ Blank # Dead
<1>1. table \in Seq(Rows) /\ Len(table) <= MaxSlaves
      /\ flash \in [0..FlashCells - 1 -> Cell]
      /\ cfg \in -1..FlashCells /\ done \in 0..Len(table) /\ arg \in Device
  BY DEF TypeOK, Rows
<1>2. Sector \subseteq DOMAIN flash /\ \A s \in Sector : s \in 0..SectorCells - 1
  BY <1>1, SizeAssumption DEF Sector
<1> QED
  BY <1>1, <1>2, RowFacts, CellAssumption

\* Fewer live cells are still few enough.
LEMMA FewerLive ==
    ASSUME NeverOverfull, pc' # "hang", LiveSlots' \subseteq LiveSlots
    PROVE  NeverOverfull'
<1>1. LiveSlots' \in SUBSET LiveSlots
  OBVIOUS
<1>2. IsFiniteSet(LiveSlots') /\ Cardinality(LiveSlots') <= Cardinality(LiveSlots)
  BY <1>1, LiveFinite, FS_Subset
<1>3. Cardinality(LiveSlots') \in Nat
  BY <1>2, FS_CardinalityType
<1> QED
  BY <1>2, <1>3, LiveFinite, SizeAssumption DEF NeverOverfull

\* Live cells that all have a row in some table of at most MaxSlaves rows are
\* few enough.
LEMMA RowedLive ==
    ASSUME NEW t \in Seq(Rows), Len(t) <= MaxSlaves, pc' # "hang",
           \A s \in LiveSlots' : \E i \in 1..Len(t) : t[i].slot = s
    PROVE  NeverOverfull'
<1>1. Cardinality(LiveSlots') <= Len(t) /\ IsFiniteSet(LiveSlots')
  BY FewSlots
<1>2. Cardinality(LiveSlots') \in Nat
  BY <1>1, FS_CardinalityType
<1> QED
  BY <1>1, <1>2, RowFacts, SizeAssumption DEF NeverOverfull

\* Live cells among the first n of the sector are at most n.
LEMMA FirstLive ==
    ASSUME NEW n \in Nat, n <= MaxSlaves, pc' # "hang",
           \A s \in LiveSlots' : s \in 0..n - 1
    PROVE  NeverOverfull'
<1>1. IsFiniteSet(0..n - 1) /\ Cardinality(0..n - 1) = n
  <2>1. 0 \in Int /\ n - 1 \in Int
    OBVIOUS
  <2>2. IsFiniteSet(0..n - 1) /\ Cardinality(0..n - 1) = IF 0 > n - 1 THEN 0 ELSE (n - 1) - 0 + 1
    BY <2>1, FS_Interval
  <2> QED
    BY <2>2
<1>2. LiveSlots' \in SUBSET (0..n - 1)
  OBVIOUS
<1>3. Cardinality(LiveSlots') <= n /\ IsFiniteSet(LiveSlots')
  BY <1>1, <1>2, FS_Subset
<1>4. Cardinality(LiveSlots') \in Nat
  BY <1>3, FS_CardinalityType
<1> QED
  BY <1>3, <1>4, SizeAssumption DEF NeverOverfull

LEMMA IInvInit == Init => IInv
<1> SUFFICES ASSUME Init PROVE IInv
  OBVIOUS
<1>1. TypeOK /\ IndexOK
  BY TypeInit
<1>2. Sector \subseteq 0..FlashCells - 1
  BY SizeAssumption DEF Sector
<1>3. \A s \in Sector : flash[s] = Blank
  BY <1>2 DEF Init
<1>4. LiveSlots = {}
  BY <1>3, CellAssumption DEF LiveSlots, Live
<1>5. NeverOverfull
  BY <1>4, FS_EmptySet, SizeAssumption DEF NeverOverfull, Init
<1>6. BlankTail
  BY <1>3 DEF BlankTail
<1> QED
  BY <1>1, <1>5, <1>6 DEF Init, IInv, FlashInv, ScanInv, MainInv, RewriteInv

----------------------------------------------------------------------------
\* The steps of the scan.

LEMMA BootStep == ASSUME IInv, Boot PROVE FlashInv'
<1>1. pc' = "scan" /\ cfg' = 0 /\ table' = <<>> /\ flash' = flash
  BY DEF Boot
<1>2. LiveSlots' = LiveSlots
  BY <1>1 DEF LiveSlots
<1>3. NeverOverfull'
  BY <1>1, <1>2, FewerLive DEF IInv, FlashInv
<1>4. BlankTail'
  BY <1>1 DEF IInv, FlashInv, BlankTail
<1>5. Len(table') = 0
  BY <1>1, EmptySeq
<1>6. ScanInv'
  BY <1>1, <1>5, SizeAssumption DEF ScanInv, Ordered, Sector
<1> QED
  BY <1>1, <1>3, <1>4, <1>6 DEF FlashInv, MainInv, RewriteInv

\* A bond met by the scan finds a row free: otherwise the sector would hold one
\* bond more than the table has rows.
LEMMA ScanFindsRow ==
    ASSUME IInv, ScanBond
    PROVE  Len(table) < MaxSlaves
<1> SUFFICES ASSUME ~(Len(table) < MaxSlaves) PROVE FALSE
  OBVIOUS
<1> USE SizeAssumption
<1>f. TypeOK /\ IndexOK /\ ScanInv /\ NeverOverfull /\ pc = "scan" /\ cfg < SectorCells
  BY DEF IInv, FlashInv, ScanBond
<1>1. Len(table) = MaxSlaves /\ Len(table) \in Nat /\ table \in Seq(Rows)
  BY <1>f, Facts
<1>2. cfg \in Sector /\ Live(flash[cfg])
  BY <1>f DEF IndexOK, Sector, ScanBond
<1> DEFINE T == {table[i].slot : i \in 1..Len(table)}
           f == [i \in 1..Len(table) |-> table[i].slot]
<1>3. T \subseteq LiveSlots \ {cfg}
  <2>1. ASSUME NEW i \in 1..Len(table) PROVE table[i].slot \in LiveSlots \ {cfg}
    <3>1. /\ table[i].slot < cfg
          /\ table[i].slot \in Sector
          /\ flash[table[i].slot] = table[i].adr
      BY <1>f DEF ScanInv
    <3>2. table[i].adr \in Device /\ table[i].slot \in Int /\ cfg \in Int
      BY <1>f, Facts
    <3>3. table[i].slot # cfg
      BY <3>1, <3>2
    <3> QED
      BY <3>1, <3>2, <3>3 DEF LiveSlots, Live
  <2> QED
    BY <2>1
<1>4. f \in Bijection(1..Len(table), T)
  <2>1. f \in Surjection(1..Len(table), T)
    BY DEF Surjection
  <2>2. ASSUME NEW i \in 1..Len(table), NEW j \in 1..Len(table), f[i] = f[j] PROVE i = j
    <3>1. table[i].slot = table[j].slot /\ table[i].slot \in Int
      BY <2>2, <1>f, Facts
    <3>2. ~(i < j) /\ ~(j < i)
      BY <3>1, <1>f DEF ScanInv, Ordered
    <3> QED
      BY <3>2, <1>1
  <2>3. f \in Injection(1..Len(table), T)
    BY <2>2 DEF Injection, IsInjective
  <2> QED
    BY <2>1, <2>3 DEF Bijection
<1>5. IsFiniteSet(1..Len(table)) /\ Cardinality(1..Len(table)) = MaxSlaves
  BY <1>1, FS_Interval
<1>6. IsFiniteSet(T) /\ Cardinality(T) = MaxSlaves
  BY <1>4, <1>5, FS_Bijection DEF ExistsBijection
<1>7. IsFiniteSet(T \cup {cfg}) /\ Cardinality(T \cup {cfg}) = MaxSlaves + 1
  BY <1>3, <1>6, FS_AddElement
<1>8. T \cup {cfg} \in SUBSET LiveSlots
  BY <1>2, <1>3 DEF LiveSlots
<1>9. MaxSlaves + 1 <= Cardinality(LiveSlots)
  BY <1>7, <1>8, LiveFinite, FS_Subset
<1> QED
  BY <1>9, <1>f, LiveFinite DEF NeverOverfull

LEMMA ScanBondStep == ASSUME IInv, ScanBond PROVE FlashInv'
<1> USE SizeAssumption
<1>f. TypeOK /\ IndexOK /\ ScanInv /\ NeverOverfull /\ BlankTail /\ pc = "scan"
  BY DEF IInv, FlashInv, ScanBond
<1>1. /\ table' = Append(table, Row(cfg, flash[cfg]))
      /\ cfg' = cfg + 1 /\ pc' = "scan" /\ flash' = flash
  BY ScanFindsRow DEF ScanBond
<1>2. cfg \in Sector /\ flash[cfg] \in Device
  BY <1>f DEF IndexOK, Sector, ScanBond, Live
<1>3. Row(cfg, flash[cfg]) \in Rows
  BY <1>2 DEF Row, Rows, Sector
<1>4. /\ Len(table') = Len(table) + 1
      /\ \A i \in 1..Len(table) : table'[i] = table[i]
      /\ table'[Len(table) + 1] = Row(cfg, flash[cfg])
      /\ Len(table) \in Nat
  BY <1>f, <1>1, <1>3, AppendRow, Facts
<1>5. \A i \in 1..Len(table') :
        \/ i \in 1..Len(table) /\ table'[i] = table[i]
        \/ i = Len(table) + 1 /\ table'[i].slot = cfg /\ table'[i].adr = flash[cfg]
  BY <1>4 DEF Row
<1>6. NeverOverfull' /\ BlankTail'
  BY <1>1, <1>f, FewerLive DEF LiveSlots, BlankTail
<1>7. Ordered'
  <2>1. ASSUME NEW i \in 1..Len(table'), NEW j \in 1..Len(table'), i < j
        PROVE  table'[i].slot < table'[j].slot
    <3>1. i \in 1..Len(table) /\ table'[i] = table[i]
      BY <2>1, <1>4
    <3>2. CASE j \in 1..Len(table) /\ table'[j] = table[j]
      BY <2>1, <3>1, <3>2, <1>f DEF Ordered, ScanInv
    <3>3. CASE table'[j].slot = cfg
      BY <3>1, <3>3, <1>f DEF ScanInv
    <3> QED
      BY <3>2, <3>3, <1>5
  <2> QED
    BY <2>1 DEF Ordered
<1>8. \A s \in Sector : s < cfg' => flash'[s] # Blank
  BY <1>1, <1>2, <1>f, CellAssumption DEF ScanInv, Sector
<1>9. \A i \in 1..Len(table') : /\ table'[i].slot < cfg'
                                /\ table'[i].slot \in Sector
                                /\ flash'[table'[i].slot] = table'[i].adr
  BY <1>1, <1>2, <1>5, <1>f, Facts DEF ScanInv
<1>10. ASSUME NEW s \in Sector, s < cfg', Live(flash'[s])
       PROVE  \E i \in 1..Len(table') : table'[i].slot = s
  <2>1. CASE s = cfg
    <3>1. Len(table) + 1 \in 1..Len(table')
      BY <1>4
    <3>2. table'[Len(table) + 1].slot = cfg
      BY <1>4 DEF Row
    <3> QED
      BY <2>1, <3>1, <3>2
  <2>2. CASE s < cfg
    <3>1. PICK i \in 1..Len(table) : table[i].slot = s
      BY <2>2, <1>10, <1>1, <1>f DEF ScanInv
    <3>2. i \in 1..Len(table') /\ table'[i].slot = s
      BY <3>1, <1>4
    <3> QED
      BY <3>2
  <2>3. s = cfg \/ s < cfg
    <3>1. s < cfg + 1 /\ s \in Int /\ cfg \in Int
      BY <1>10, <1>1, <1>2 DEF Sector
    <3> QED
      BY <3>1
  <2> QED
    BY <2>1, <2>2, <2>3
<1>11. ScanInv'
  BY <1>7, <1>8, <1>9, <1>10 DEF ScanInv
<1> QED
  BY <1>1, <1>6, <1>11 DEF FlashInv, MainInv, RewriteInv

LEMMA ScanSkipStep == ASSUME IInv, ScanSkip PROVE FlashInv'
<1>f. /\ TypeOK /\ IndexOK /\ ScanInv /\ NeverOverfull /\ BlankTail
      /\ pc = "scan" /\ pc' = "scan" /\ cfg' = cfg + 1
      /\ flash' = flash /\ table' = table /\ flash[cfg] = Dead /\ cfg \in Int
  BY Facts DEF IInv, FlashInv, ScanSkip
<1>1. NeverOverfull' /\ BlankTail'
  BY <1>f, FewerLive DEF LiveSlots, BlankTail
<1>2. \A s \in Sector : s < cfg' => s < cfg \/ s = cfg
  BY <1>f DEF Sector
<1>3. ~Live(flash[cfg]) /\ flash[cfg] # Blank
  BY <1>f, CellAssumption DEF Live
<1>4. \A i \in 1..Len(table) : table[i].slot < cfg => table[i].slot < cfg'
  BY <1>f, Facts
<1>5. ScanInv'
  BY <1>f, <1>2, <1>3, <1>4 DEF ScanInv, Ordered
<1> QED
  BY <1>1, <1>5, <1>f DEF FlashInv, MainInv, RewriteInv

LEMMA ScanEndStep == ASSUME IInv, ScanEnd PROVE FlashInv'
<1> USE SizeAssumption
<1>f. /\ TypeOK /\ IndexOK /\ ScanInv /\ NeverOverfull /\ BlankTail
      /\ pc = "scan" /\ pc' \in {"idle", "erase"} /\ cfg' = cfg - 1 /\ done = 0
      /\ flash' = flash /\ table' = table /\ done' = done
      /\ cfg \in 0..SectorCells
      /\ cfg = SectorCells \/ (cfg < SectorCells /\ flash[cfg] = Blank)
  BY DEF IInv, FlashInv, ScanEnd, Complete, IndexOK
<1>1. NeverOverfull' /\ BlankTail'
  BY <1>f, FewerLive DEF LiveSlots, BlankTail
<1>2. \A s \in Sector : s < cfg <=> flash[s] # Blank
  <2>1. \A s \in Sector : s < cfg => flash[s] # Blank
    BY <1>f DEF ScanInv
  <2>2. ASSUME NEW s \in Sector, ~(s < cfg) PROVE flash[s] = Blank
    <3>1. cfg \in Sector /\ flash[cfg] = Blank /\ (s = cfg \/ cfg < s)
      BY <2>2, <1>f DEF Sector
    <3> QED
      BY <3>1, <1>f DEF BlankTail
  <2> QED
    BY <2>1, <2>2
<1>3. UsedUpToIndex'
  BY <1>2, <1>f DEF UsedUpToIndex, Sector
<1>4. \A i \in 1..Len(table') : table'[i].slot <= cfg'
  BY <1>f, Facts DEF ScanInv
<1>5. \A s \in Sector : Live(flash[s]) => s < cfg
  BY <1>2, CellAssumption DEF Live
<1>6. Len(table) \in Nat
  BY <1>f, Facts
<1>7. MainInv'
  BY <1>f, <1>3, <1>4, <1>5, <1>6 DEF MainInv, ScanInv, Ordered
<1> QED
  BY <1>1, <1>7, <1>f DEF FlashInv, ScanInv, RewriteInv

----------------------------------------------------------------------------
\* The steps of the compaction.

LEMMA EraseSectorStep == ASSUME IInv, EraseSector PROVE FlashInv'
<1> USE SizeAssumption
<1>f. /\ TypeOK /\ IndexOK /\ NeverOverfull /\ pc = "erase" /\ pc' = "rewrite"
      /\ cfg' = -1 /\ done' = 0
  BY DEF IInv, FlashInv, EraseSector, IndexOK
<1>1. \A s \in Sector : flash'[s] = Blank
  BY <1>f, Facts DEF EraseSector
<1>2. LiveSlots' = {}
  BY <1>1, CellAssumption DEF LiveSlots, Live
<1>3. NeverOverfull'
  BY <1>2, <1>f, FewerLive
<1>4. BlankTail'
  BY <1>1 DEF BlankTail
<1>5. RewriteInv'
  BY <1>1, <1>f DEF RewriteInv, UsedUpToIndex, Sector
<1> QED
  BY <1>3, <1>4, <1>5, <1>f DEF FlashInv, ScanInv, MainInv

LEMMA RewriteRecordStep == ASSUME IInv, RewriteRecord PROVE FlashInv'
<1> USE SizeAssumption
<1> DEFINE d == table[done + 1].adr
<1>f. /\ TypeOK /\ IndexOK /\ RewriteInv /\ NeverOverfull /\ BlankTail
      /\ pc = "rewrite" /\ pc' = "rewrite" /\ cfg' = cfg + 1 /\ done' = done + 1
      /\ done < Len(table) /\ cfg = done - 1
  BY DEF IInv, FlashInv, RewriteRecord, IndexOK
<1>1. /\ done \in Nat /\ done + 1 \in 1..Len(table) /\ done + 1 <= MaxSlaves
      /\ cfg + 1 = done /\ d \in Device
  BY <1>f, Facts
<1>2. done \in Sector /\ done \in 0..FlashCells - 1
  BY <1>1 DEF Sector
<1>3. flash[done] = Blank
  BY <1>f, <1>2 DEF RewriteInv, UsedUpToIndex
<1>4. flash' = [flash EXCEPT ![done] = d]
  BY <1>1, <1>3 DEF RewriteRecord, Program
<1>5. /\ flash'[done] = d
      /\ \A s \in Sector : s # done => flash'[s] = flash[s]
  BY <1>2, <1>4, <1>f, Facts
<1>6. /\ table'[done + 1].slot = done /\ table'[done + 1].adr = d
      /\ \A i \in 1..done : table'[i] = table[i]
  <2>1. table' = [table EXCEPT ![done + 1] = Row(done, @.adr)]
    BY <1>1 DEF RewriteRecord
  <2>2. \A i \in 1..Len(table) : table'[i] = IF i = done + 1 THEN Row(done, d) ELSE table[i]
    BY <2>1, <1>1, <1>2, <1>f, Facts, MoveRow
  <2>3. \A i \in 1..done : i \in 1..Len(table) /\ i # done + 1
    BY <1>1, <1>f, Facts
  <2>4. table'[done + 1] = Row(done, d)
    BY <2>2, <1>1
  <2>5. \A i \in 1..done : table'[i] = table[i]
    BY <2>2, <2>3
  <2> QED
    BY <2>4, <2>5 DEF Row
<1>7. UsedUpToIndex'
  <2>1. d # Blank
    BY <1>1, CellAssumption
  <2>2. ASSUME NEW s \in Sector PROVE s <= cfg' <=> flash'[s] # Blank
    <3>1. s \in Int /\ cfg \in Int /\ cfg' = done
      BY <1>1, <1>f DEF Sector
    <3>2. s <= cfg <=> flash[s] # Blank
      BY <1>f DEF RewriteInv, UsedUpToIndex
    <3>3. CASE s = done
      BY <3>1, <3>3, <2>1, <1>1, <1>5
    <3>4. CASE s # done
      BY <3>1, <3>2, <3>4, <1>1, <1>5
    <3> QED
      BY <3>3, <3>4
  <2>3. Sector' = Sector
    BY DEF Sector
  <2> QED
    BY <2>2, <2>3 DEF UsedUpToIndex
<1>8. \A i \in 1..done' : table'[i].slot = i - 1 /\ flash'[i - 1] = table'[i].adr
  <2>1. ASSUME NEW i \in 1..done PROVE table'[i].slot = i - 1 /\ flash'[i - 1] = table'[i].adr
    <3>1. i - 1 \in Sector /\ i - 1 # done
      BY <1>1, <1>2 DEF Sector
    <3> QED
      BY <3>1, <1>5, <1>6, <1>f DEF RewriteInv
  <2>2. \A i \in 1..done' : i \in 1..done \/ i = done + 1
    BY <1>1, <1>f
  <2>3. (done + 1) - 1 = done
    BY <1>1
  <2> QED
    BY <2>1, <2>2, <2>3, <1>5, <1>6
<1>9. NeverOverfull'
  <2>1. \A s \in LiveSlots' : s \in 0..(done + 1) - 1
    BY <1>7, <1>1, <1>f, CellAssumption DEF LiveSlots, Live, UsedUpToIndex, Sector
  <2> QED
    BY <2>1, <1>1, <1>f, FirstLive
<1>10. BlankTail'
  BY <1>7, <1>f, <1>1 DEF BlankTail, UsedUpToIndex, Sector
<1> QED
  BY <1>7, <1>8, <1>9, <1>10, <1>f DEF FlashInv, RewriteInv, ScanInv, MainInv

LEMMA RewriteEndStep == ASSUME IInv, RewriteEnd PROVE FlashInv'
<1> USE SizeAssumption
<1>f. /\ TypeOK /\ IndexOK /\ RewriteInv /\ NeverOverfull /\ BlankTail
      /\ pc = "rewrite" /\ pc' = "idle" /\ done' = 0 /\ done = Len(table)
      /\ cfg = done - 1 /\ cfg' = cfg /\ flash' = flash /\ table' = table
  BY DEF IInv, FlashInv, RewriteEnd, Complete, IndexOK
<1>1. NeverOverfull' /\ BlankTail'
  BY <1>f, FewerLive DEF LiveSlots, BlankTail
<1>2. done \in Nat
  BY <1>f, Facts
<1>3. \A i \in 1..Len(table) : table[i].slot = i - 1 /\ flash[i - 1] = table[i].adr
  BY <1>f DEF RewriteInv
<1>4. ASSUME NEW s \in Sector, Live(flash[s])
      PROVE  \E i \in 1..Len(table) : table[i].slot = s
  <2>1. s <= cfg /\ s \in Nat
    BY <1>4, <1>f, CellAssumption DEF RewriteInv, UsedUpToIndex, Live, Sector
  <2>2. s + 1 \in 1..Len(table) /\ (s + 1) - 1 = s
    BY <2>1, <1>f, <1>2
  <2> QED
    BY <2>2, <1>3
<1>5. Ordered' /\ UsedUpToIndex' /\ \A i \in 1..Len(table) : table[i].slot <= cfg
  BY <1>2, <1>3, <1>f DEF Ordered, UsedUpToIndex, RewriteInv
<1>6. MainInv'
  BY <1>3, <1>4, <1>5, <1>f DEF MainInv
<1> QED
  BY <1>1, <1>6, <1>f DEF FlashInv, ScanInv, RewriteInv

----------------------------------------------------------------------------
\* The steps of pairing and unpairing.

\* In use up to the index means blank behind it.
LEMMA UsedIsTail == ASSUME UsedUpToIndex', cfg' \in Int PROVE BlankTail'
  BY SizeAssumption DEF UsedUpToIndex, BlankTail, Sector

LEMMA CallStep ==
    ASSUME IInv, pc = "idle", pc' \in {"add", "unpair"}, UNCHANGED <<flash, cfg, table, done>>
    PROVE  FlashInv'
<1>f. NeverOverfull /\ BlankTail /\ MainInv
  BY DEF IInv, FlashInv
<1>1. NeverOverfull' /\ BlankTail'
  BY <1>f, FewerLive DEF LiveSlots, BlankTail
<1>2. MainInv'
  BY <1>f DEF MainInv, Ordered, UsedUpToIndex
<1> QED
  BY <1>1, <1>2 DEF FlashInv, ScanInv, RewriteInv

\* Clearing the mark of the first row not yet invalidated: the other rows'
\* records stay, and that row's is the only bond that goes.
LEMMA ClearMark ==
    ASSUME IInv, pc \in {"add", "unpair"}, done < Len(table),
           EraseMark(table[done + 1].slot), cfg' = cfg
    PROVE  /\ LiveSlots' \subseteq LiveSlots
           /\ UsedUpToIndex'
           /\ \A i \in done + 2..Len(table) :
                 table[i].slot \in Sector => flash'[table[i].slot] = table[i].adr
           /\ \A s \in Sector : Live(flash'[s])
                 => \E i \in done + 2..Len(table) : table[i].slot = s
<1> USE SizeAssumption
<1> DEFINE c == table[done + 1].slot
<1>f. TypeOK /\ MainInv /\ done \in Nat /\ Len(table) \in Nat /\ done + 1 \in 1..Len(table)
  BY Facts DEF IInv, FlashInv
<1>1. /\ \A s \in Sector : s # c => flash'[s] = flash[s]
      /\ c \in Sector => flash'[c] = Dead
  BY <1>f, Facts DEF EraseMark
<1>2. c \in Sector => c <= cfg /\ flash[c] = table[done + 1].adr /\ Live(flash[c])
  BY <1>f, Facts DEF MainInv, Live
<1>3. \A s \in Sector : Live(flash'[s]) => s # c /\ Live(flash[s])
  BY <1>1, CellAssumption DEF Live
<1>4. LiveSlots' \subseteq LiveSlots
  BY <1>3 DEF LiveSlots
<1>5. UsedUpToIndex'
  BY <1>1, <1>2, <1>f, CellAssumption DEF MainInv, UsedUpToIndex, Live
<1>6. ASSUME NEW i \in done + 2..Len(table), table[i].slot \in Sector
      PROVE  flash'[table[i].slot] = table[i].adr
  <2>1. i \in 1..Len(table) /\ i \in done + 1..Len(table) /\ done + 1 < i
    BY <1>f
  <2>2. c < table[i].slot
    BY <2>1, <1>f DEF MainInv, Ordered
  <2>3. table[i].slot # c
    BY <2>1, <2>2, <1>f, Facts, SMTT(20)
  <2> QED
    BY <2>1, <2>3, <1>1, <1>6, <1>f DEF MainInv
<1>7. ASSUME NEW s \in Sector, Live(flash'[s])
      PROVE  \E i \in done + 2..Len(table) : table[i].slot = s
  <2>1. PICK i \in done + 1..Len(table) : table[i].slot = s
    BY <1>3, <1>7, <1>f DEF MainInv
  <2>2. i # done + 1
    BY <2>1, <1>3, <1>7
  <2>3. i \in done + 2..Len(table)
    BY <2>2, <1>f
  <2> QED
    BY <2>1, <2>3
<1> QED
  BY <1>4, <1>5, <1>6, <1>7

LEMMA DeleteOldestStep == ASSUME IInv, DeleteOldest PROVE FlashInv'
<1> USE SizeAssumption
<1>f. /\ TypeOK /\ NeverOverfull /\ MainInv /\ pc = "add" /\ pc' = "add" /\ done = 0
      /\ done' = 0 /\ cfg' = cfg /\ table' = Tail(table) /\ Len(table) >= MaxSlaves
      /\ EraseMark(table[1].slot)
  BY DEF IInv, FlashInv, DeleteOldest, IndexOK
<1>1. table \in Seq(Rows) /\ Len(table) \in Nat /\ Len(table) > 0 /\ cfg \in Int
  BY <1>f, Facts
<1>2. /\ LiveSlots' \subseteq LiveSlots
      /\ UsedUpToIndex'
      /\ \A i \in 2..Len(table) :
            table[i].slot \in Sector => flash'[table[i].slot] = table[i].adr
      /\ \A s \in Sector : Live(flash'[s]) => \E i \in 2..Len(table) : table[i].slot = s
  BY <1>f, <1>1, ClearMark
<1>3. /\ Len(table') = Len(table) - 1
      /\ \A i \in 1..Len(table') : table'[i] = table[i + 1] /\ i + 1 \in 2..Len(table)
  BY <1>f, <1>1, TailRows
<1>4. NeverOverfull' /\ BlankTail'
  BY <1>1, <1>2, <1>f, FewerLive, UsedIsTail
<1>5. Ordered' /\ \A i \in 1..Len(table') : table'[i].slot <= cfg'
  <2>1. \A i, j \in 1..Len(table') : i < j => i + 1 < j + 1 /\ i + 1 \in 1..Len(table)
                                               /\ j + 1 \in 1..Len(table)
    BY <1>1, <1>3
  <2>2. Ordered'
    BY <2>1, <1>3, <1>f DEF Ordered, MainInv
  <2>3. \A i \in 1..Len(table') : table'[i].slot <= cfg'
    BY <1>1, <1>3, <1>f DEF MainInv
  <2> QED
    BY <2>2, <2>3
<1>6. \A i \in 1..Len(table') :
        table'[i].slot \in Sector => flash'[table'[i].slot] = table'[i].adr
  BY <1>2, <1>3
<1>7. ASSUME NEW s \in Sector, Live(flash'[s])
      PROVE  \E i \in 1..Len(table') : table'[i].slot = s
  <2>1. PICK i \in 2..Len(table) : table[i].slot = s
    BY <1>2, <1>7
  <2>2. i - 1 \in 1..Len(table') /\ (i - 1) + 1 = i
    BY <1>1, <1>3
  <2>3. table'[i - 1].slot = s
    BY <2>1, <2>2, <1>3
  <2> QED
    BY <2>2, <2>3
<1>8. MainInv'
  BY <1>2, <1>5, <1>6, <1>7, <1>f DEF MainInv
<1> QED
  BY <1>4, <1>8, <1>f DEF FlashInv, ScanInv, RewriteInv

LEMMA UnpairRecordStep == ASSUME IInv, UnpairRecord PROVE FlashInv'
<1>f. /\ TypeOK /\ NeverOverfull /\ MainInv /\ pc = "unpair" /\ pc' = "unpair"
      /\ done' = done + 1 /\ cfg' = cfg /\ table' = table /\ done < Len(table)
      /\ EraseMark(table[done + 1].slot) /\ done \in Nat /\ cfg \in Int
  BY Facts DEF IInv, FlashInv, UnpairRecord
<1>1. done' + 1 = done + 2
  BY <1>f
<1>2. /\ LiveSlots' \subseteq LiveSlots
      /\ UsedUpToIndex'
      /\ \A i \in done' + 1..Len(table) :
            table[i].slot \in Sector => flash'[table[i].slot] = table[i].adr
      /\ \A s \in Sector : Live(flash'[s])
            => \E i \in done' + 1..Len(table) : table[i].slot = s
  BY <1>f, <1>1, ClearMark
<1>3. NeverOverfull' /\ BlankTail'
  BY <1>2, <1>f, FewerLive, UsedIsTail
<1>4. MainInv'
  BY <1>2, <1>f DEF MainInv, Ordered
<1> QED
  BY <1>3, <1>4, <1>f DEF FlashInv, ScanInv, RewriteInv

LEMMA UnpairEndStep == ASSUME IInv, UnpairEnd PROVE FlashInv'
<1>f. /\ TypeOK /\ NeverOverfull /\ BlankTail /\ MainInv /\ pc = "unpair" /\ pc' = "idle"
      /\ done = Len(table) /\ done' = 0 /\ cfg' = cfg /\ flash' = flash /\ table' = <<>>
      /\ Len(table) \in Nat
  BY Facts DEF IInv, FlashInv, UnpairEnd, Complete
<1>1. NeverOverfull' /\ BlankTail'
  BY <1>f, FewerLive DEF LiveSlots, BlankTail
<1>2. \A s \in Sector : ~Live(flash[s])
  BY <1>f DEF MainInv
<1>3. Len(table') = 0
  BY <1>f, EmptySeq
<1>4. MainInv'
  BY <1>2, <1>3, <1>f DEF MainInv, Ordered, UsedUpToIndex
<1> QED
  BY <1>1, <1>4, <1>f DEF FlashInv, ScanInv, RewriteInv

LEMMA WriteRecordStep == ASSUME IInv, WriteRecord PROVE FlashInv'
<1> USE SizeAssumption
<1> DEFINE c == cfg + 1
           n == Len(table) + 1
<1>f. /\ TypeOK /\ NeverOverfull /\ MainInv /\ pc = "add" /\ pc' = "idle" /\ done = 0
      /\ done' = 0 /\ cfg' = c /\ table' = Append(table, Row(c, arg))
      /\ Len(table) < MaxSlaves /\ c < FlashCells
      /\ flash' = [flash EXCEPT ![c] = Program(@, arg)]
  BY DEF IInv, FlashInv, WriteRecord, Complete, IndexOK
<1>1. /\ table \in Seq(Rows) /\ Len(table) \in Nat /\ cfg \in Int /\ arg \in Device
      /\ c \in 0..FlashCells - 1 /\ n <= MaxSlaves
  BY <1>f, Facts
<1>2. Row(c, arg) \in Rows
  BY <1>1 DEF Row, Rows
<1>3. /\ table' \in Seq(Rows) /\ Len(table') = n
      /\ \A i \in 1..Len(table) : table'[i] = table[i]
      /\ table'[n].slot = c /\ table'[n].adr = arg
  BY <1>f, <1>1, <1>2, AppendRow DEF Row
<1>4. /\ \A s \in Sector : s # c => flash'[s] = flash[s]
      /\ c \in Sector => flash'[c] = arg
  BY <1>f, <1>1, Facts DEF MainInv, UsedUpToIndex, Program, Sector
<1>5. UsedUpToIndex'
  BY <1>1, <1>4, <1>f, CellAssumption DEF MainInv, UsedUpToIndex, Sector
<1>6. BlankTail'
  BY <1>5, <1>1, <1>f, UsedIsTail
<1>7. \A i \in 1..n : i = n \/ i \in 1..Len(table)
  BY <1>1
<1>8. \A i \in 1..Len(table) : table[i].slot <= cfg /\ table[i].slot < c
  BY <1>1, <1>f, Facts DEF MainInv
<1>9. Ordered'
  <2>1. ASSUME NEW i \in 1..n, NEW j \in 1..n, i < j PROVE table'[i].slot < table'[j].slot
    <3>1. i \in 1..Len(table)
      BY <2>1, <1>1
    <3>2. CASE j = n
      BY <3>1, <3>2, <1>3, <1>8
    <3>3. CASE j \in 1..Len(table)
      BY <3>1, <3>3, <2>1, <1>3, <1>f DEF MainInv, Ordered
    <3> QED
      BY <3>2, <3>3, <1>7
  <2> QED
    BY <2>1, <1>3 DEF Ordered
<1>10. \A i \in 1..n : table'[i].slot <= cfg'
  BY <1>1, <1>3, <1>7, <1>8, <1>f, Facts
<1>11. ASSUME NEW i \in 1..n, table'[i].slot \in Sector
       PROVE  flash'[table'[i].slot] = table'[i].adr
  <2>1. CASE i = n
    BY <2>1, <1>3, <1>4, <1>11
  <2>2. CASE i \in 1..Len(table)
    <3>1. table[i].slot \in Sector /\ table[i].slot # c /\ i \in done + 1..Len(table)
      BY <2>2, <1>1, <1>3, <1>8, <1>11, <1>f, Facts
    <3> QED
      BY <2>2, <3>1, <1>3, <1>4, <1>f DEF MainInv
  <2> QED
    BY <2>1, <2>2, <1>7
<1>12. ASSUME NEW s \in Sector, Live(flash'[s]) PROVE \E i \in 1..n : table'[i].slot = s
  <2>1. CASE s = c
    BY <2>1, <1>1, <1>3
  <2>2. CASE s # c
    <3>1. PICK i \in 1..Len(table) : table[i].slot = s
      BY <2>2, <1>4, <1>12, <1>f DEF MainInv
    <3>2. i \in 1..n /\ table'[i].slot = s
      BY <3>1, <1>1, <1>3
    <3> QED
      BY <3>2
  <2> QED
    BY <2>1, <2>2
<1>13. NeverOverfull'
  <2>1. \A s \in LiveSlots' : \E i \in 1..Len(table') : table'[i].slot = s
    BY <1>12, <1>3 DEF LiveSlots
  <2> QED
    BY <2>1, <1>1, <1>3, <1>f, RowedLive
<1>14. MainInv'
  BY <1>3, <1>5, <1>9, <1>10, <1>11, <1>12, <1>f DEF MainInv
<1> QED
  BY <1>6, <1>13, <1>14, <1>f DEF FlashInv, ScanInv, RewriteInv

----------------------------------------------------------------------------
\* Power losses.

LEMMA PowerLossStep == ASSUME IInv, PowerLoss PROVE FlashInv'
<1>f. NeverOverfull /\ BlankTail /\ pc' = "off" /\ flash' = flash
  BY DEF IInv, FlashInv, PowerLoss
<1>1. NeverOverfull' /\ BlankTail'
  BY <1>f, FewerLive DEF LiveSlots, BlankTail
<1> QED
  BY <1>1, <1>f DEF FlashInv, ScanInv, MainInv, RewriteInv

\* A torn write touches the first unused cell only.
LEMMA TornTail ==
    ASSUME UsedUpToIndex, cfg \in Int,
           \A s \in Sector : s # cfg + 1 => flash'[s] = flash[s]
    PROVE  BlankTail'
<1> SUFFICES ASSUME NEW i \in Sector, NEW j \in Sector, i < j, flash'[i] = Blank
             PROVE  flash'[j] = Blank
  BY DEF BlankTail, Sector
<1>1. i \in Int /\ j \in Int
  BY SizeAssumption DEF Sector
<1>2. cfg < i
  <2>1. CASE i = cfg + 1
    BY <2>1
  <2>2. CASE i # cfg + 1
    BY <2>2, <1>1 DEF UsedUpToIndex
  <2> QED
    BY <2>1, <2>2
<1>3. j # cfg + 1 /\ ~(j <= cfg)
  BY <1>1, <1>2
<1> QED
  BY <1>3 DEF UsedUpToIndex

LEMMA TornAddStep == ASSUME IInv, TornAdd PROVE FlashInv'
<1> USE SizeAssumption
<1> DEFINE c == cfg + 1
           t == Append(table, Row(c, arg))
           n == Len(table) + 1
<1>f. /\ TypeOK /\ NeverOverfull /\ MainInv /\ pc = "add" /\ pc' = "off" /\ done = 0
      /\ Len(table) < MaxSlaves /\ c < FlashCells
      /\ \E x : flash' = [flash EXCEPT ![c] = x]
  BY DEF IInv, FlashInv, TornAdd, TearRecord, IndexOK
<1>1. /\ table \in Seq(Rows) /\ Len(table) \in Nat /\ cfg \in Int /\ arg \in Device
      /\ c \in 0..FlashCells - 1 /\ n <= MaxSlaves
  BY <1>f, Facts
<1>2. Row(c, arg) \in Rows
  BY <1>1 DEF Row, Rows
<1>3. /\ t \in Seq(Rows) /\ Len(t) = n /\ t[n].slot = c
      /\ \A i \in 1..Len(table) : t[i] = table[i]
  BY <1>1, <1>2, AppendRow DEF Row
<1>4. \A s \in Sector : s # c => flash'[s] = flash[s]
  BY <1>f, Facts
<1>5. ASSUME NEW s \in LiveSlots' PROVE \E i \in 1..Len(t) : t[i].slot = s
  <2>1. CASE s = c
    BY <2>1, <1>1, <1>3
  <2>2. CASE s # c
    <3>1. PICK i \in 1..Len(table) : table[i].slot = s
      BY <2>2, <1>4, <1>5, <1>f DEF MainInv, LiveSlots
    <3>2. i \in 1..Len(t) /\ t[i].slot = s
      BY <3>1, <1>1, <1>3
    <3> QED
      BY <3>2
  <2> QED
    BY <2>1, <2>2
<1>6. NeverOverfull'
  <2> HIDE DEF t
  <2> QED
    BY <1>1, <1>3, <1>5, <1>f, RowedLive
<1>7. BlankTail'
  BY <1>1, <1>4, <1>f, TornTail DEF MainInv
<1> QED
  BY <1>6, <1>7, <1>f DEF FlashInv, ScanInv, MainInv, RewriteInv

LEMMA TornRewriteStep == ASSUME IInv, TornRewrite PROVE FlashInv'
<1> USE SizeAssumption
<1>f. /\ TypeOK /\ RewriteInv /\ pc = "rewrite" /\ pc' = "off"
      /\ done < Len(table) /\ cfg = done - 1
      /\ \E x : flash' = [flash EXCEPT ![cfg + 1] = x]
  BY DEF IInv, FlashInv, TornRewrite, TearRecord, IndexOK
<1>1. done \in Nat /\ done + 1 <= MaxSlaves /\ cfg \in Int /\ cfg + 1 = done
  BY <1>f, Facts
<1>2. \A s \in Sector : s # cfg + 1 => flash'[s] = flash[s]
  BY <1>f, Facts
<1>3. ASSUME NEW s \in LiveSlots' PROVE s \in 0..(done + 1) - 1
  <2>1. s \in Sector /\ s \in Nat
    BY <1>3 DEF LiveSlots, Sector
  <2>2. CASE s = cfg + 1
    BY <2>2, <1>1
  <2>3. CASE s # cfg + 1
    <3>1. flash[s] # Blank
      BY <2>1, <2>3, <1>2, <1>3, CellAssumption DEF LiveSlots, Live
    <3> QED
      BY <3>1, <2>1, <1>1, <1>f DEF RewriteInv, UsedUpToIndex
  <2> QED
    BY <2>2, <2>3
<1>4. NeverOverfull'
  BY <1>1, <1>3, <1>f, FirstLive
<1>5. BlankTail'
  BY <1>1, <1>2, <1>f, TornTail DEF RewriteInv
<1> QED
  BY <1>4, <1>5, <1>f DEF FlashInv, ScanInv, MainInv, RewriteInv

LEMMA StutterStep == ASSUME IInv, UNCHANGED vars PROVE FlashInv'
<1>1. FlashInv /\ UNCHANGED <<pc, flash, cfg, table, done>>
  BY DEF IInv, vars
<1> QED
  BY <1>1 DEF FlashInv, NeverOverfull, BlankTail, ScanInv, MainInv, RewriteInv, Ordered,
             UsedUpToIndex, LiveSlots

----------------------------------------------------------------------------
LEMMA IInvNext == IInv /\ [Next]_vars => IInv'
<1> SUFFICES ASSUME IInv, [Next]_vars PROVE IInv'
  OBVIOUS
<1>1. TypeOK' /\ IndexOK'
  BY TypeNext DEF IInv
<1>2. ASSUME NEW a \in Addr, Add(a) PROVE FlashInv'
  BY <1>2, CallStep DEF Add
<1>3. ASSUME UnpairAll PROVE FlashInv'
  BY <1>3, CallStep DEF UnpairAll
<1>4. FlashInv'
  BY <1>2, <1>3, BootStep, ScanBondStep, ScanSkipStep, ScanEndStep, EraseSectorStep,
     RewriteRecordStep, RewriteEndStep, DeleteOldestStep, WriteRecordStep,
     UnpairRecordStep, UnpairEndStep, PowerLossStep, TornAddStep, TornRewriteStep,
     StutterStep DEF Next, Firmware
<1> QED
  BY <1>1, <1>4 DEF IInv

LEMMA Invariant == Spec => []IInv
  BY IInvInit, IInvNext, PTL DEF Spec

\* However pairing, unpairing, compaction and power losses interleave, the
\* sector never holds more bonds than the table has rows, and the scan at
\* power-up never ends in while(1) (app.c:547-551).
THEOREM BootNeverHangs == Spec => []NeverOverfull
<1>1. IInv => NeverOverfull
  BY DEF IInv, FlashInv
<1> QED
  BY <1>1, Invariant, PTL

\* Whenever control is in the main loop, table and sector agree.
THEOREM TableIsFlash == Spec => []TableMatchesFlash
<1>1. ASSUME IInv PROVE TableMatchesFlash
  <2> SUFFICES ASSUME pc = "idle" PROVE TableMatchesFlash
    BY DEF TableMatchesFlash
  <2>1. MainInv /\ done = 0
    BY <1>1 DEF IInv, FlashInv, IndexOK
  <2>2. \A i \in 1..Len(table) :
          table[i].slot \in Sector => flash[table[i].slot] = table[i].adr
    BY <2>1 DEF MainInv
  <2>3. \A i \in 1..Len(table) : table[i].slot \in Sector => Live(flash[table[i].slot])
    BY <1>1, <2>2, Facts DEF IInv, Live
  <2>4. LiveSlots = {table[i].slot : i \in 1..Len(table)} \cap Sector
    BY <2>1, <2>3 DEF MainInv, LiveSlots
  <2> QED
    BY <2>1, <2>2, <2>4 DEF TableMatchesFlash, MainInv, Ordered
<1> QED
  BY <1>1, Invariant, PTL

----------------------------------------------------------------------------
(***************************************************************************)
(* The sector implements the bounded first-in first-out store of           *)
(* BondStore: each flash operation, whole or cut short, remembers one bond *)
(* behind all the others, forgets the oldest, wipes the sector, or changes *)
(* no bond.                                                                *)
(***************************************************************************)
\* The store BondTable's flash stands for.
Stored == [s \in LiveSlots |-> flash[s]]

\* The instance counts as this module does.
LEMMA SameCardinality == \A S : Store!Cardinality(S) = Cardinality(S)
  BY DEF Store!Cardinality, Cardinality

----------------------------------------------------------------------------
\* What a change of the flash is for the store.

\* The bonds and their records stay.
LEMMA StoreKept ==
    ASSUME LiveSlots' = LiveSlots, \A s \in LiveSlots : flash'[s] = flash[s]
    PROVE  Stored' = Stored
  BY DEF Stored

\* No cell changes.
LEMMA FlashSame ==
    ASSUME flash' = flash
    PROVE  Stored' = Stored
  BY StoreKept DEF LiveSlots

\* A cell that held no bond gets one, behind all the others.
LEMMA StoreRemembers ==
    ASSUME NEW p \in Sector, p \notin LiveSlots, NEW d \in Device, flash'[p] = d,
           \A s \in Sector : s # p => flash'[s] = flash[s],
           \A s \in LiveSlots : s < p,
           Cardinality(LiveSlots) < MaxSlaves
    PROVE  Store!Remember(p, d)
  <1>1. LiveSlots' = LiveSlots \cup {p}
    BY DEF LiveSlots, Live
  <1>2. \A s \in LiveSlots : s # p /\ flash'[s] = flash[s]
    BY DEF LiveSlots
  <1>3. Stored' = [q \in LiveSlots \cup {p} |-> IF q = p THEN d ELSE Stored[q]]
    BY <1>1, <1>2 DEF Stored
  <1> QED BY <1>3, SameCardinality DEF Stored, Store!Remember

\* The first bond loses its mark.
LEMMA StoreForgets ==
    ASSUME NEW p \in LiveSlots, ~Live(flash'[p]),
           \A s \in Sector : s # p => flash'[s] = flash[s],
           \A s \in LiveSlots : p <= s
    PROVE  Store!ForgetOldest
  <1>1. LiveSlots' = LiveSlots \ {p}
    BY DEF LiveSlots
  <1>2. \A s \in LiveSlots \ {p} : flash'[s] = flash[s]
    BY DEF LiveSlots
  <1>3. Stored' = [q \in LiveSlots \ {p} |-> Stored[q]]
    BY <1>1, <1>2 DEF Stored
  <1> QED BY <1>3 DEF Stored, Store!ForgetOldest

----------------------------------------------------------------------------
\* The steps that write a record, whole or torn.

\* Behind the index there is room, and no bond.
LEMMA NextCell ==
    ASSUME IInv, pc \in {"add", "rewrite"},
           pc = "add" => Len(table) < MaxSlaves,
           pc = "rewrite" => done < Len(table),
           cfg + 1 \in Sector
    PROVE  /\ flash[cfg + 1] = Blank /\ cfg + 1 \notin LiveSlots
           /\ \A s \in LiveSlots : s < cfg + 1
           /\ Cardinality(LiveSlots) < MaxSlaves
  <1>1. TypeOK /\ IndexOK /\ UsedUpToIndex /\ cfg \in Int
    BY Facts DEF IInv, FlashInv, MainInv, RewriteInv
  <1>2. flash[cfg + 1] = Blank
    BY <1>1, SizeAssumption DEF UsedUpToIndex
  <1>3. \A s \in LiveSlots : s \in Sector /\ s <= cfg /\ s \in Int
    BY <1>1, CellAssumption, SizeAssumption DEF LiveSlots, Live, UsedUpToIndex, Sector
  <1>4. /\ cfg + 1 \notin LiveSlots
        /\ \A s \in LiveSlots : s < cfg + 1
    BY <1>1, <1>3
  <1>5. Cardinality(LiveSlots) < MaxSlaves
    <2>1. CASE pc = "add"
      <3>1. \A s \in LiveSlots : \E i \in 1..Len(table) : table[i].slot = s
        BY <1>1, <2>1, Facts DEF IInv, FlashInv, MainInv, LiveSlots
      <3>2. Cardinality(LiveSlots) <= Len(table)
        BY <1>1, <3>1, Facts, FewSlots
      <3>3. Cardinality(LiveSlots) \in Nat /\ Len(table) \in Nat /\ Len(table) < MaxSlaves
        BY <1>1, <2>1, LiveFinite, Facts
      <3> QED BY <3>2, <3>3, SizeAssumption
    <2>2. CASE pc = "rewrite"
      <3>1. cfg = done - 1 /\ done \in Nat /\ done < MaxSlaves
        BY <1>1, <2>2, Facts, SizeAssumption DEF IndexOK
      <3>2. LiveSlots \in SUBSET (0..done - 1)
        BY <1>3, <3>1, SizeAssumption DEF Sector
      <3>3. IsFiniteSet(0..done - 1) /\ Cardinality(0..done - 1) = done
        <4>1. 0 \in Int /\ done - 1 \in Int
          BY <3>1
        <4>2. /\ IsFiniteSet(0..done - 1)
              /\ Cardinality(0..done - 1) = IF 0 > done - 1 THEN 0 ELSE (done - 1) - 0 + 1
          BY <4>1, FS_Interval
        <4> QED BY <3>1, <4>2
      <3>4. Cardinality(LiveSlots) <= done
        BY <3>2, <3>3, FS_Subset
      <3> QED BY <3>1, <3>4, LiveFinite, SizeAssumption
    <2> QED BY <2>1, <2>2
  <1> QED BY <1>2, <1>4, <1>5

\* What may be in the next cell after a write, whole or torn.
LEMMA NextCellWritten ==
    ASSUME IInv, pc \in {"add", "rewrite"},
           pc = "add" => Len(table) < MaxSlaves,
           pc = "rewrite" => done < Len(table),
           cfg + 1 \in 0..FlashCells - 1, NEW d \in Device,
           NEW c \in TornCells(flash[cfg + 1], d),
           flash' = [flash EXCEPT ![cfg + 1] = c]
    PROVE  Store!Next \/ Stored' = Stored
  <1>1. TypeOK /\ flash \in [0..FlashCells - 1 -> Cell]
    BY Facts DEF IInv
  <1>2. \A s \in Sector : s \in 0..FlashCells - 1
    BY SizeAssumption DEF Sector
  <1>3. flash'[cfg + 1] = c /\ \A s \in Sector : s # cfg + 1 => flash'[s] = flash[s]
    BY <1>1, <1>2
  <1>4. CASE cfg + 1 \notin Sector
    <2>1. \A s \in Sector : flash'[s] = flash[s]
      BY <1>3, <1>4
    <2>2. LiveSlots' = LiveSlots /\ \A s \in LiveSlots : flash'[s] = flash[s]
      BY <2>1 DEF LiveSlots
    <2> QED BY <2>2, StoreKept
  <1>5. CASE cfg + 1 \in Sector
    <2>1. /\ flash[cfg + 1] = Blank /\ cfg + 1 \notin LiveSlots
          /\ \A s \in LiveSlots : s < cfg + 1
          /\ Cardinality(LiveSlots) < MaxSlaves
      BY <1>5, NextCell
    <2>2. CASE c \in Device
      <3>1. PICK p \in Sector : p = cfg + 1
        BY <1>5
      <3>2. Store!Remember(p, c)
        BY <1>3, <2>1, <2>2, <3>1, StoreRemembers
      <3>3. p \in 0..SectorCells - 1
        BY DEF Sector
      <3> QED BY <2>2, <3>2, <3>3 DEF Store!Next
    <2>3. CASE c \notin Device
      <3>1. LiveSlots' = LiveSlots
        BY <1>3, <2>1, <2>3 DEF LiveSlots, Live
      <3>2. \A s \in LiveSlots : flash'[s] = flash[s]
        BY <1>3, <2>1 DEF LiveSlots
      <3> QED BY <3>1, <3>2, StoreKept
    <2> QED BY <2>2, <2>3
  <1> QED BY <1>4, <1>5

\* A record written whole to the next cell is one of the outcomes.
LEMMA WholeIsTorn ==
    ASSUME NEW old, NEW new
    PROVE  new \in TornCells(old, new)
  BY DEF TornCells

----------------------------------------------------------------------------
\* The steps that clear a mark.

LEMMA MarkCleared ==
    ASSUME IInv, pc \in {"add", "unpair"}, done < Len(table),
           EraseMark(table[done + 1].slot)
    PROVE  Store!Next \/ Stored' = Stored
  <1> DEFINE c == table[done + 1].slot
  <1>1. /\ TypeOK /\ MainInv /\ done \in Nat /\ Len(table) \in Nat
        /\ done + 1 \in 1..Len(table) /\ c \in Int
    BY Facts DEF IInv, FlashInv
  <1>2. /\ \A s \in Sector : s # c => flash'[s] = flash[s]
        /\ c \in Sector => flash'[c] = Dead
    BY <1>1, Facts DEF EraseMark
  <1>3. CASE c \notin LiveSlots
    <2>1. LiveSlots' = LiveSlots /\ \A s \in LiveSlots : flash'[s] = flash[s]
      BY <1>2, <1>3, CellAssumption DEF LiveSlots, Live
    <2> QED BY <2>1, StoreKept
  <1>4. CASE c \in LiveSlots
    <2>1. ~Live(flash'[c])
      BY <1>2, <1>4, CellAssumption DEF LiveSlots, Live
    <2>2. ASSUME NEW s \in LiveSlots
          PROVE  c <= s
      <3>1. PICK i \in done + 1..Len(table) : table[i].slot = s
        BY <1>1 DEF MainInv, LiveSlots
      <3>2. s \in Int /\ i \in 1..Len(table)
        BY <1>1, SizeAssumption DEF LiveSlots, Sector
      <3>3. CASE i = done + 1
        BY <1>1, <3>1, <3>2, <3>3
      <3>4. CASE done + 1 < i
        BY <1>1, <3>1, <3>2, <3>4 DEF MainInv, Ordered
      <3> QED BY <1>1, <3>3, <3>4
    <2>3. Store!ForgetOldest
      <3>1. PICK p \in LiveSlots : p = c
        BY <1>4
      <3> QED BY <1>2, <2>1, <2>2, <3>1, StoreForgets
    <2> QED BY <2>3 DEF Store!Next
  <1> QED BY <1>3, <1>4

----------------------------------------------------------------------------
\* The erase of the sector empties the store.
LEMMA Wiped ==
    ASSUME IInv, EraseSector
    PROVE  Store!Next
  <1>1. \A s \in Sector : flash'[s] = Blank
    BY Facts DEF IInv, EraseSector
  <1>2. LiveSlots' = {}
    BY <1>1, CellAssumption DEF LiveSlots, Live
  <1>3. Stored' = [p \in {} |-> p]
    BY <1>2 DEF Stored
  <1> QED BY <1>3 DEF Stored, Store!Next, Store!Wipe

\* Each step of the firmware is a step of the store or leaves it as it is.
LEMMA StoreStep ==
    ASSUME IInv, [Next]_vars
    PROVE  Store!Next \/ Stored' = Stored
  <1> USE SizeAssumption
  <1>1. ASSUME flash' = flash
        PROVE  Stored' = Stored
    BY <1>1, FlashSame
  <1>2. CASE EraseSector
    BY <1>2, Wiped
  <1>3. CASE DeleteOldest
    <2>1. done = 0 /\ Len(table) \in Nat /\ Len(table) > 0 /\ EraseMark(table[done + 1].slot)
      BY <1>3, Facts DEF IInv, IndexOK, DeleteOldest
    <2> QED BY <1>3, <2>1, MarkCleared DEF DeleteOldest
  <1>4. CASE UnpairRecord
    BY <1>4, MarkCleared DEF UnpairRecord
  <1>5. CASE WriteRecord
    <2>1. cfg + 1 \in 0..FlashCells - 1 /\ arg \in Device
      BY <1>5, Facts DEF IInv, IndexOK, WriteRecord
    <2>2. flash' = [flash EXCEPT ![cfg + 1] = Program(flash[cfg + 1], arg)]
      BY <1>5, <2>1, Facts DEF IInv, WriteRecord
    <2>3. cfg + 1 \in Sector => flash[cfg + 1] = Blank
      BY <1>5, NextCell DEF WriteRecord
    <2>4. CASE cfg + 1 \in Sector
      <3>1. flash' = [flash EXCEPT ![cfg + 1] = arg]
        BY <2>2, <2>3, <2>4 DEF Program
      <3> QED BY <1>5, <2>1, <3>1, NextCellWritten, WholeIsTorn DEF WriteRecord
    <2>5. CASE cfg + 1 \notin Sector
      <3>1. \A s \in Sector : flash'[s] = flash[s]
        BY <2>2, <2>5, Facts DEF IInv
      <3>2. LiveSlots' = LiveSlots /\ \A s \in LiveSlots : flash'[s] = flash[s]
        BY <3>1 DEF LiveSlots
      <3> QED BY <3>2, StoreKept
    <2> QED BY <2>4, <2>5
  <1>6. ASSUME pc = "rewrite", done < Len(table)
        PROVE  /\ cfg + 1 \in Sector /\ cfg + 1 \in 0..FlashCells - 1
               /\ table[done + 1].adr \in Device
    <2>1. TypeOK /\ done \in Nat /\ cfg + 1 = done /\ done < MaxSlaves
      BY <1>6, Facts DEF IInv, IndexOK
    <2>2. done + 1 \in 1..Len(table)
      BY <1>6, <2>1, Facts
    <2> QED BY <2>1, <2>2, Facts DEF Sector
  <1>7. CASE RewriteRecord
    <2>1. flash' = [flash EXCEPT ![cfg + 1] = table[done + 1].adr]
      BY <1>6, <1>7, NextCell DEF RewriteRecord, Program
    <2> QED BY <1>6, <1>7, <2>1, NextCellWritten, WholeIsTorn DEF RewriteRecord
  <1>8. CASE TornAdd
    <2>1. cfg + 1 \in 0..FlashCells - 1 /\ arg \in Device
      BY <1>8, Facts DEF IInv, IndexOK, TornAdd
    <2>2. PICK c \in TornCells(flash[cfg + 1], arg) : flash' = [flash EXCEPT ![cfg + 1] = c]
      BY <1>8 DEF TornAdd, TearRecord
    <2> QED BY <1>8, <2>1, <2>2, NextCellWritten DEF TornAdd
  <1>9. CASE TornRewrite
    <2>1. PICK c \in TornCells(flash[cfg + 1], table[done + 1].adr) :
              flash' = [flash EXCEPT ![cfg + 1] = c]
      BY <1>9 DEF TornRewrite, TearRecord
    <2> QED BY <1>6, <1>9, <2>1, NextCellWritten DEF TornRewrite
  <1>10. CASE \/ Boot \/ ScanBond \/ ScanSkip \/ ScanEnd \/ RewriteEnd \/ UnpairEnd
              \/ (\E a \in Addr : Add(a)) \/ UnpairAll \/ PowerLoss \/ UNCHANGED vars
    BY <1>1, <1>10 DEF Boot, ScanBond, ScanSkip, ScanEnd, RewriteEnd, UnpairEnd, Add,
       UnpairAll, PowerLoss, vars
  <1> QED BY <1>2, <1>3, <1>4, <1>5, <1>7, <1>8, <1>9, <1>10 DEF Next, Firmware

\* The flash of the pairing sector (app.c:382-567) is a bounded first-in
\* first-out store of bonds: whatever is paired, unpaired, compacted or cut short
\* by a loss of power, no bond but the oldest is ever given up, except all at once
\* by the erase of the compaction.
THEOREM SectorIsStore == Spec => StoreSpec
  <1>1. Init => Store!Init
    <2> SUFFICES ASSUME Init PROVE Store!Init
      OBVIOUS
    <2>1. \A s \in Sector : flash[s] = Blank
      BY SizeAssumption DEF Init, Sector
    <2>2. LiveSlots = {}
      BY <2>1, CellAssumption DEF LiveSlots, Live
    <2> QED BY <2>2 DEF Store!Init
  <1>2. IInv /\ [Next]_vars => [Store!Next]_Stored
    BY StoreStep
  <1> QED BY <1>1, <1>2, Invariant, PTL DEF Spec, StoreSpec, Store!Spec, Stored
----------------------------------------------------------------------------
(***************************************************************************)
(* What a power cycle keeps.  The bonds of a sector have one listing in    *)
(* the order of their cells.  The table is that listing whenever control   *)
(* is in the main loop and no record lies behind the sector, and again     *)
(* when the scan ends, so what a power loss leaves in flash and what the   *)
(* next power-up loads can be compared with what the table was.            *)
(***************************************************************************)

\* The rows `t` list the bonds of the sector as it is in flash `f`.
Lists(t, f) ==
    /\ \A i, j \in 1..Len(t) : i < j => t[i].slot < t[j].slot
    /\ \A i \in 1..Len(t) : t[i].slot \in Sector /\ f[t[i].slot] = t[i].adr
    /\ \A s \in Sector : Live(f[s]) => \E i \in 1..Len(t) : t[i].slot = s

\* Before the scan the flash, afterwards the table, is what the routines cut
\* short have left of the table as it was; in the main loop the table is whole,
\* and a pairing may have dropped its first row to make room.  A compaction is
\* not cut short twice: what it leaves fits in the first cells of the sector, so
\* that the next power-up does not compact again.
KeptInv ==
    /\ pc \in {"off", "scan", "erase"} =>
          \A t \in Seq(Rows) : Lists(t, flash) => Recovered(kept, Addresses(t), cut, arg)
    /\ pc \in {"erase", "rewrite"} =>
          Recovered(kept, Addresses(table), cut, arg) /\ "rewrite" \notin cut
    /\ pc \in {"off", "scan"} /\ "rewrite" \in cut =>
          \A s \in Sector : MaxSlaves <= s => flash[s] = Blank
    /\ pc \in {"idle", "add", "unpair"} => cut = {}
    /\ pc \in {"idle", "unpair"} => kept = Addresses(table)
    /\ pc = "add" => \/ kept = Addresses(table)
                     \/ /\ Len(kept) = MaxSlaves
                        /\ Addresses(table) = Tail(kept)

\* A set that has a number whenever it has all smaller ones has them all.
LEMMA AllNumbers ==
    ASSUME NEW S, \A i \in Nat : (\A j \in 0..i - 1 : j \in S) => i \in S
    PROVE  Nat \subseteq S
<1> DEFINE T == {i \in Nat : i \notin S}
<1> SUFFICES ASSUME T # {} PROVE FALSE
  OBVIOUS
<1>1. IsWellFoundedOn({p \in Nat \X Nat : p[1] < p[2]}, Nat)
  BY NatLessThanWellFounded DEF OpToRel
<1>2. PICK x \in T : \A y \in T : <<y, x>> \notin {p \in Nat \X Nat : p[1] < p[2]}
  <2>1. T \subseteq Nat
    OBVIOUS
  <2> HIDE DEF T
  <2> QED
    BY <1>1, WFMin, <2>1
<1>3. ASSUME NEW j \in 0..x - 1 PROVE j \in S
  <2>1. <<j, x>> \in {p \in Nat \X Nat : p[1] < p[2]}
    OBVIOUS
  <2> QED
    BY <1>2, <2>1
<1> QED
  BY <1>3

LEMMA RowEqual ==
    ASSUME NEW a \in Rows, NEW b \in Rows, a.slot = b.slot, a.adr = b.adr
    PROVE  a = b
  BY DEF Rows

\* Rows that list the same bonds are the same, one by one.
LEMMA SameRow ==
    ASSUME NEW t \in Seq(Rows), NEW u \in Seq(Rows), NEW f, Lists(t, f), Lists(u, f),
           NEW i \in 1..Len(t), \A j \in 1..Len(t) : j < i => j \in 1..Len(u) /\ t[j] = u[j]
    PROVE  i \in 1..Len(u) /\ t[i] = u[i]
<1>1. /\ Len(t) \in Nat /\ Len(u) \in Nat
      /\ \A k \in 1..Len(t) : t[k] \in Rows /\ t[k].slot \in Int /\ t[k].adr \in Device
      /\ \A k \in 1..Len(u) : u[k] \in Rows /\ u[k].slot \in Int /\ u[k].adr \in Device
  BY RowFacts, ElementOfSeq
<1>2. t[i].slot \in Sector /\ Live(f[t[i].slot])
  BY <1>1 DEF Lists, Live
<1>3. PICK k \in 1..Len(u) : u[k].slot = t[i].slot
  BY <1>2 DEF Lists
<1>4. ~(k < i)
  <2> SUFFICES ASSUME k < i PROVE FALSE
    OBVIOUS
  <2>1. k \in 1..Len(t) /\ t[k] = u[k]
    BY <1>1
  <2>2. t[k].slot < t[i].slot
    BY <2>1 DEF Lists
  <2> QED
    BY <1>1, <1>3, <2>1, <2>2
<1>5. ~(i < k)
  <2> SUFFICES ASSUME i < k PROVE FALSE
    OBVIOUS
  <2>1. i \in 1..Len(u) /\ u[i].slot < u[k].slot
    BY <1>1 DEF Lists
  <2>2. u[i].slot \in Sector /\ Live(f[u[i].slot])
    BY <1>1, <2>1 DEF Lists, Live
  <2>3. PICK l \in 1..Len(t) : t[l].slot = u[i].slot
    BY <2>2 DEF Lists
  <2>4. ~(i < l) /\ l # i
    BY <1>1, <1>3, <2>1, <2>3 DEF Lists
  <2>5. l < i
    BY <1>1, <2>4
  <2>6. l \in 1..Len(u) /\ u[l].slot = u[i].slot
    BY <2>3, <2>5
  <2>7. u[l].slot < u[i].slot
    BY <2>1, <2>5, <2>6 DEF Lists
  <2> QED
    BY <1>1, <2>1, <2>6, <2>7
<1>6. k = i
  BY <1>1, <1>4, <1>5
<1>7. f[t[i].slot] = t[i].adr /\ f[u[i].slot] = u[i].adr
  BY <1>6 DEF Lists
<1>8. t[i].slot = u[i].slot /\ t[i].adr = u[i].adr
  BY <1>3, <1>6, <1>7
<1>9. t[i] = u[i]
  BY <1>1, <1>6, <1>8, RowEqual
<1> QED
  BY <1>6, <1>9

LEMMA SameRows ==
    ASSUME NEW t \in Seq(Rows), NEW u \in Seq(Rows), NEW f, Lists(t, f), Lists(u, f)
    PROVE  \A i \in 1..Len(t) : i \in 1..Len(u) /\ t[i] = u[i]
<1> DEFINE S == {i \in Nat : i \in 1..Len(t) => i \in 1..Len(u) /\ t[i] = u[i]}
<1>1. ASSUME NEW i \in Nat, \A j \in 0..i - 1 : j \in S
      PROVE  i \in S
  <2> SUFFICES ASSUME i \in 1..Len(t) PROVE i \in 1..Len(u) /\ t[i] = u[i]
    OBVIOUS
  <2>1. \A j \in 1..Len(t) : j < i => j \in 0..i - 1
    BY RowFacts
  <2>2. \A j \in 1..Len(t) : j < i => j \in 1..Len(u) /\ t[j] = u[j]
    BY <1>1, <2>1
  <2> HIDE DEF S
  <2> QED
    BY <2>2, SameRow
<1>2. Nat \subseteq S
  <2> HIDE DEF S
  <2> QED
    BY <1>1, AllNumbers
<1>3. \A i \in 1..Len(t) : i \in Nat
  BY RowFacts
<1> QED
  BY <1>2, <1>3

\* The bonds of a flash have one listing.
LEMMA OneListing ==
    ASSUME NEW t \in Seq(Rows), NEW u \in Seq(Rows), NEW f, Lists(t, f), Lists(u, f)
    PROVE  t = u
<1>1. /\ \A i \in 1..Len(t) : i \in 1..Len(u) /\ t[i] = u[i]
      /\ \A i \in 1..Len(u) : i \in 1..Len(t) /\ u[i] = t[i]
  BY SameRows
<1>2. Len(t) \in Nat /\ Len(u) \in Nat
  OBVIOUS
<1>3. Len(t) = Len(u)
  <2>1. ~(Len(t) < Len(u))
    BY <1>1, <1>2
  <2>2. ~(Len(u) < Len(t))
    BY <1>1, <1>2
  <2> QED
    BY <1>2, <2>1, <2>2
<1> QED
  BY <1>1, <1>3, SeqEqual

\* Flashes that agree on the sector have the same listings.
LEMMA SameListings ==
    ASSUME NEW t, NEW f, NEW g, \A s \in Sector : f[s] = g[s], Lists(t, f)
    PROVE  Lists(t, g)
  BY DEF Lists

----------------------------------------------------------------------------
\* What is in the listing in the states where power may be lost.

\* The addresses of a table, one by one.
LEMMA AddressesFacts ==
    ASSUME NEW t \in Seq(Rows)
    PROVE  /\ Addresses(t) \in Seq(Device)
           /\ Len(Addresses(t)) = Len(t)
           /\ \A i \in 1..Len(t) : Addresses(t)[i] = t[i].adr
<1>1. Addresses(t) \in Seq(Device) /\ Len(t) \in Nat
  BY AddressesType
<1>2. DOMAIN Addresses(t) = 1..Len(t)
  BY DEF Addresses
<1>3. Len(Addresses(t)) = Len(t)
  BY <1>1, <1>2, LenProperties
<1> QED
  BY <1>1, <1>3 DEF Addresses

\* The last elements of a sequence, and one more of the first ones.
LEMMA SubSeqFacts ==
    ASSUME NEW s \in Seq(Device), NEW n \in 0..Len(s)
    PROVE  /\ SubSeq(s, n + 1, Len(s)) \in Seq(Device)
           /\ Len(SubSeq(s, n + 1, Len(s))) = Len(s) - n
           /\ \A i \in 1..Len(s) - n : SubSeq(s, n + 1, Len(s))[i] = s[n + i]
<1>1. Len(s) \in Nat /\ n \in Nat /\ n <= Len(s)
  OBVIOUS
<1>2. /\ SubSeq(s, n + 1, Len(s)) \in Seq(Device)
      /\ Len(SubSeq(s, n + 1, Len(s))) = IF n + 1 <= Len(s) THEN Len(s) - (n + 1) + 1 ELSE 0
      /\ \A i \in 1..Len(s) - (n + 1) + 1 : SubSeq(s, n + 1, Len(s))[i] = s[(n + 1) + i - 1]
  BY <1>1, SubSeqProperties
<1>3. \A i \in 1..Len(s) - n : (n + 1) + i - 1 = n + i
  BY <1>1
<1> QED
  BY <1>1, <1>2, <1>3

LEMMA PrefixAppend ==
    ASSUME NEW s \in Seq(Device), NEW n \in Nat, n < Len(s)
    PROVE  Append(SubSeq(s, 1, n), s[n + 1]) = SubSeq(s, 1, n + 1)
<1>1. /\ SubSeq(s, 1, n) \in Seq(Device) /\ Len(SubSeq(s, 1, n)) = n
      /\ \A i \in 1..n : SubSeq(s, 1, n)[i] = s[i]
  OBVIOUS
<1>2. /\ SubSeq(s, 1, n + 1) \in Seq(Device) /\ Len(SubSeq(s, 1, n + 1)) = n + 1
      /\ \A i \in 1..n + 1 : SubSeq(s, 1, n + 1)[i] = s[i]
  OBVIOUS
<1>3. s[n + 1] \in Device
  OBVIOUS
<1> DEFINE a == Append(SubSeq(s, 1, n), s[n + 1])
<1>4. /\ a \in Seq(Device) /\ Len(a) = n + 1 /\ a[n + 1] = s[n + 1]
      /\ \A i \in 1..n : a[i] = SubSeq(s, 1, n)[i]
  BY <1>1, <1>3
<1>5. \A i \in 1..n + 1 : i \in 1..n \/ i = n + 1
  OBVIOUS
<1> HIDE DEF a
<1>6. \A i \in 1..n + 1 : a[i] = SubSeq(s, 1, n + 1)[i]
  BY <1>1, <1>2, <1>4, <1>5
<1>7. a = SubSeq(s, 1, n + 1)
  BY <1>2, <1>4, <1>6, SeqEqual
<1> QED
  BY <1>7 DEF a

\* The rows whose marks are not yet cleared.
Remaining == [i \in 1..Len(table) - done |-> table[done + i]]

\* In the main loop and in the routines called from it, the rows remaining are
\* the listing of the sector, while no record lies behind it.
LEMMA MainLists ==
    ASSUME IInv, pc \in {"idle", "add", "unpair"}, IndexStaysInSector
    PROVE  /\ Remaining \in Seq(Rows) /\ Len(Remaining) = Len(table) - done
           /\ Lists(Remaining, flash)
           /\ done = 0 => Remaining = table
<1>f. /\ TypeOK /\ MainInv /\ cfg < SectorCells /\ cfg \in Int
      /\ table \in Seq(Rows) /\ Len(table) \in Nat /\ done \in 0..Len(table)
      /\ \A i \in 1..Len(table) : table[i] \in Rows /\ table[i].slot \in 0..FlashCells - 1
  BY Facts, ElementOfSeq DEF IInv, FlashInv, IndexStaysInSector
<1>1. \A i \in 1..Len(table) - done : done + i \in done + 1..Len(table) /\ done + i \in 1..Len(table)
  BY <1>f
<1>2. Remaining \in [1..Len(table) - done -> Rows] /\ Len(table) - done \in Nat
  BY <1>1, <1>f DEF Remaining
<1>3. Remaining \in Seq(Rows) /\ Len(Remaining) = Len(table) - done
  BY <1>2, SeqDef, LenProperties
<1>4. \A i \in 1..Len(table) - done : Remaining[i] = table[done + i]
  BY DEF Remaining
<1>5. ASSUME NEW i \in 1..Len(Remaining), NEW j \in 1..Len(Remaining), i < j
      PROVE  Remaining[i].slot < Remaining[j].slot
  <2>1. done + i < done + j
    BY <1>5, <1>f
  <2>2. /\ done + i \in 1..Len(table) /\ done + j \in 1..Len(table)
        /\ Remaining[i] = table[done + i] /\ Remaining[j] = table[done + j]
    BY <1>1, <1>3, <1>4
  <2>3. Ordered
    BY <1>f DEF MainInv
  <2>4. table[done + i].slot < table[done + j].slot
    BY ONLY <2>1, <2>2, <2>3 DEF Ordered
  <2> QED
    BY <2>2, <2>4
<1>6. ASSUME NEW i \in 1..Len(Remaining)
      PROVE  Remaining[i].slot \in Sector /\ flash[Remaining[i].slot] = Remaining[i].adr
  <2>1. Remaining[i] = table[done + i] /\ done + i \in done + 1..Len(table)
        /\ done + i \in 1..Len(table)
    BY <1>1, <1>3, <1>4
  <2>2. table[done + i].slot <= cfg /\ table[done + i].slot \in Nat
    BY <2>1, <1>f DEF MainInv
  <2>3. table[done + i].slot \in Sector
    BY <2>2, <1>f, SizeAssumption DEF Sector
  <2> QED
    BY <2>1, <2>3, <1>f DEF MainInv
<1>7. ASSUME NEW s \in Sector, Live(flash[s])
      PROVE  \E i \in 1..Len(Remaining) : Remaining[i].slot = s
  <2>1. PICK k \in done + 1..Len(table) : table[k].slot = s
    BY <1>7, <1>f DEF MainInv
  <2>2. k - done \in 1..Len(Remaining) /\ done + (k - done) = k
    BY <1>3, <1>f
  <2> QED
    BY <2>1, <2>2, <1>3, <1>4
<1>8. ASSUME done = 0 PROVE Remaining = table
  <2>1. \A i \in 1..Len(table) : done + i = i
    BY <1>8
  <2>2. Len(Remaining) = Len(table) /\ \A i \in 1..Len(table) : Remaining[i] = table[i]
    BY <1>3, <1>4, <1>8, <1>f, <2>1
  <2> QED
    BY <1>3, <1>f, <2>2, SeqEqual
<1> QED
  BY <1>3, <1>5, <1>6, <1>7, <1>8 DEF Lists

\* When the scan ends, the table is the listing.
LEMMA ScanLists ==
    ASSUME IInv, ScanEnd
    PROVE  table \in Seq(Rows) /\ Lists(table, flash)
<1>f. /\ TypeOK /\ ScanInv /\ BlankTail /\ pc = "scan" /\ table \in Seq(Rows)
      /\ cfg \in 0..SectorCells
      /\ cfg = SectorCells \/ (cfg < SectorCells /\ flash[cfg] = Blank)
  BY Facts DEF IInv, FlashInv, ScanEnd, IndexOK
<1>1. ASSUME NEW s \in Sector, Live(flash[s]) PROVE s < cfg
  <2>1. s \in Nat /\ s < SectorCells /\ flash[s] # Blank
    BY <1>1, CellAssumption, SizeAssumption DEF Live, Sector
  <2>2. CASE cfg = SectorCells
    BY <2>1, <2>2
  <2>3. CASE cfg < SectorCells /\ flash[cfg] = Blank
    <3>1. cfg \in Sector
      BY <2>3, <1>f, SizeAssumption DEF Sector
    <3>2. ~(cfg < s) /\ cfg # s
      BY <2>1, <2>3, <3>1, <1>f DEF BlankTail
    <3> QED
      BY <2>1, <3>2, <1>f
  <2> QED
    BY <2>2, <2>3, <1>f
<1> QED
  BY <1>1, <1>f DEF ScanInv, Ordered, Lists

\* The rows that are written again are the listing during the compaction, and
\* the cells behind the table's last row are blank.
LEMMA RewriteLists ==
    ASSUME IInv, pc = "rewrite"
    PROVE  /\ SubSeq(table, 1, done) \in Seq(Rows) /\ Len(SubSeq(table, 1, done)) = done
           /\ \A i \in 1..done : SubSeq(table, 1, done)[i].slot < done
           /\ Lists(SubSeq(table, 1, done), flash)
           /\ Addresses(SubSeq(table, 1, done)) = SubSeq(Addresses(table), 1, done)
           /\ \A s \in Sector : done <= s => flash[s] = Blank
<1> USE SizeAssumption
<1>f. /\ RewriteInv /\ cfg = done - 1 /\ table \in Seq(Rows) /\ Len(table) \in Nat
      /\ done \in 0..Len(table) /\ done \in Nat /\ done <= MaxSlaves
      /\ \A s \in Sector : s \in Nat
  BY Facts DEF IInv, FlashInv, IndexOK, Sector
<1> DEFINE u == SubSeq(table, 1, done)
<1>1. /\ u \in Seq(Rows) /\ Len(u) = done
      /\ \A i \in 1..done : u[i] = table[i]
  BY <1>f
<1> HIDE DEF u
<1>2. \A i \in 1..done : u[i].slot = i - 1 /\ flash[i - 1] = u[i].adr
  BY <1>1, <1>f DEF RewriteInv
<1>3. \A i \in 1..done : i - 1 \in Sector /\ i - 1 < done
  BY <1>f DEF Sector
<1>4. \A s \in Sector : flash[s] # Blank => s < done
  BY <1>f DEF RewriteInv, UsedUpToIndex
<1>5. \A s \in Sector : done <= s => flash[s] = Blank
  BY <1>4, <1>f
<1>6. Lists(u, flash)
  <2>1. \A i, j \in 1..Len(u) : i < j => u[i].slot < u[j].slot
    BY <1>1, <1>2, <1>f
  <2>2. \A i \in 1..Len(u) : u[i].slot \in Sector /\ flash[u[i].slot] = u[i].adr
    BY <1>1, <1>2, <1>3
  <2>3. ASSUME NEW s \in Sector, Live(flash[s])
        PROVE  \E i \in 1..Len(u) : u[i].slot = s
    <3>1. s < done /\ s \in Nat
      BY <1>4, <1>f, <2>3, CellAssumption DEF Live
    <3>2. s + 1 \in 1..Len(u) /\ (s + 1) - 1 = s
      BY <1>1, <1>f, <3>1
    <3> QED
      BY <1>1, <1>2, <3>2
  <2> QED
    BY <2>1, <2>2, <2>3 DEF Lists
<1>7. Addresses(u) = SubSeq(Addresses(table), 1, done)
  <2>1. /\ Addresses(u) \in Seq(Device) /\ Len(Addresses(u)) = done
        /\ \A i \in 1..done : Addresses(u)[i] = u[i].adr
    BY <1>1, AddressesFacts
  <2>2. /\ Addresses(table) \in Seq(Device) /\ Len(Addresses(table)) = Len(table)
        /\ \A i \in 1..Len(table) : Addresses(table)[i] = table[i].adr
    BY <1>f, AddressesFacts
  <2>3. /\ SubSeq(Addresses(table), 1, done) \in Seq(Device)
        /\ Len(SubSeq(Addresses(table), 1, done)) = done
        /\ \A i \in 1..done : SubSeq(Addresses(table), 1, done)[i] = Addresses(table)[i]
    BY <1>f, <2>2
  <2>4. \A i \in 1..done : Addresses(u)[i] = SubSeq(Addresses(table), 1, done)[i]
    BY <1>1, <1>f, <2>1, <2>2, <2>3
  <2> QED
    BY <2>1, <2>3, <2>4, SeqEqual
<1> QED
  BY <1>1, <1>2, <1>3, <1>5, <1>6, <1>7 DEF u

\* A write makes `g` of the flash `f`: to a cell that is blank and lies behind
\* those the rows `t` list.
Written(t, f, g, s) ==
    /\ Lists(t, f) /\ s \in Sector /\ f[s] = Blank
    /\ \A i \in 1..Len(t) : t[i].slot < s
    /\ \A x \in Sector : x # s => g[x] = f[x]

\* What it makes of the listing.
LEMMA ListsWritten ==
    ASSUME NEW t \in Seq(Rows), NEW f, NEW g, NEW s, Written(t, f, g, s)
    PROVE  /\ g[s] \notin Device => Lists(t, g)
           /\ g[s] \in Device =>
                \E u \in Seq(Rows) : Lists(u, g) /\ Addresses(u) = Append(Addresses(t), g[s])
<1> USE SizeAssumption
<1>0. /\ Lists(t, f) /\ s \in Sector /\ f[s] = Blank
      /\ \A i \in 1..Len(t) : t[i].slot < s
      /\ \A x \in Sector : x # s => g[x] = f[x]
  BY DEF Written
<1>f. /\ Len(t) \in Nat /\ s \in 0..FlashCells - 1 /\ s \in Int
      /\ \A i \in 1..Len(t) : t[i].slot \in Int
  BY <1>0, RowFacts DEF Sector
<1>1. \A i \in 1..Len(t) : t[i].slot \in Sector /\ t[i].slot # s /\ g[t[i].slot] = t[i].adr
  BY <1>0, <1>f DEF Lists
<1>2. \A x \in Sector : x # s /\ Live(g[x]) => \E i \in 1..Len(t) : t[i].slot = x
  BY <1>0 DEF Lists
<1>3. ASSUME g[s] \notin Device PROVE Lists(t, g)
  BY <1>0, <1>1, <1>2, <1>3 DEF Lists, Live
<1>4. ASSUME g[s] \in Device
      PROVE  \E u \in Seq(Rows) : Lists(u, g) /\ Addresses(u) = Append(Addresses(t), g[s])
  <2> DEFINE r == Row(s, g[s])
             u == Append(t, r)
  <2>1. r \in Rows /\ r.slot = s /\ r.adr = g[s]
    BY <1>4, <1>f DEF Row, Rows
  <2>2. /\ u \in Seq(Rows) /\ Len(u) = Len(t) + 1
        /\ \A i \in 1..Len(t) : u[i] = t[i]
        /\ u[Len(t) + 1] = r
    BY <2>1, AppendRow
  <2> HIDE DEF u, r
  <2>3. \A i \in 1..Len(u) : i \in 1..Len(t) \/ i = Len(t) + 1
    BY <2>2, <1>f
  <2>4. ASSUME NEW i \in 1..Len(u), NEW j \in 1..Len(u), i < j
        PROVE  u[i].slot < u[j].slot
    <3>1. i \in 1..Len(t) /\ u[i] = t[i]
      BY <2>2, <2>4, <1>f
    <3>2. CASE j \in 1..Len(t)
      BY <1>0, <2>2, <2>4, <3>1, <3>2 DEF Lists
    <3>3. CASE j = Len(t) + 1
      BY <1>0, <2>1, <2>2, <3>1, <3>3
    <3> QED
      BY <2>3, <3>2, <3>3
  <2>5. \A i \in 1..Len(u) : u[i].slot \in Sector /\ g[u[i].slot] = u[i].adr
    BY <1>0, <1>1, <2>1, <2>2, <2>3
  <2>6. ASSUME NEW x \in Sector, Live(g[x])
        PROVE  \E i \in 1..Len(u) : u[i].slot = x
    <3>1. CASE x = s
      <4>1. Len(t) + 1 \in 1..Len(u)
        BY <2>2, <1>f
      <4> QED
        BY <3>1, <4>1, <2>1, <2>2
    <3>2. CASE x # s
      <4>1. PICK i \in 1..Len(t) : t[i].slot = x
        BY <1>2, <2>6, <3>2
      <4>2. i \in 1..Len(u) /\ u[i].slot = x
        BY <4>1, <2>2, <1>f
      <4> QED
        BY <4>2
    <3> QED
      BY <3>1, <3>2
  <2>7. Lists(u, g)
    BY <2>4, <2>5, <2>6 DEF Lists
  <2>8. Addresses(u) = Append(Addresses(t), g[s])
    <3>1. /\ Addresses(u) \in Seq(Device) /\ Len(Addresses(u)) = Len(t) + 1
          /\ \A i \in 1..Len(t) + 1 : Addresses(u)[i] = u[i].adr
      BY <2>2, AddressesFacts
    <3>2. /\ Addresses(t) \in Seq(Device) /\ Len(Addresses(t)) = Len(t)
          /\ \A i \in 1..Len(t) : Addresses(t)[i] = t[i].adr
      BY AddressesFacts
    <3>3. /\ Append(Addresses(t), g[s]) \in Seq(Device)
          /\ Len(Append(Addresses(t), g[s])) = Len(t) + 1
          /\ \A i \in 1..Len(t) : Append(Addresses(t), g[s])[i] = Addresses(t)[i]
          /\ Append(Addresses(t), g[s])[Len(t) + 1] = g[s]
      BY <1>4, <3>2
    <3>4. \A i \in 1..Len(t) + 1 : i \in 1..Len(t) \/ i = Len(t) + 1
      BY <1>f
    <3>5. \A i \in 1..Len(t) + 1 : Addresses(u)[i] = Append(Addresses(t), g[s])[i]
      BY <2>1, <2>2, <3>1, <3>2, <3>3, <3>4
    <3> QED
      BY <3>1, <3>3, <3>5, SeqEqual
  <2> QED
    BY <2>2, <2>7, <2>8
<1> QED
  BY <1>3, <1>4

----------------------------------------------------------------------------
\* What a routine cut short leaves.

LEMMA NothingLost ==
    ASSUME NEW old, NEW a
    PROVE  Recovered(old, old, {}, a)
  BY DEF Recovered, Left

LEMMA PairingCut ==
    ASSUME NEW old, NEW t, NEW new, NEW a,
           t = old \/ (Len(old) = MaxSlaves /\ t = Tail(old)),
           new = t \/ ((Len(old) < MaxSlaves \/ t # old) /\ new \in {Append(t, a), Append(t, Garbled)})
    PROVE  Recovered(old, new, {"add"}, a)
<1> DEFINE spared == IF Len(old) < MaxSlaves THEN old ELSE Tail(old)
<1>1. ~(MaxSlaves < MaxSlaves)
  BY SizeAssumption
<1>2. new \in {old, spared, Append(spared, a), Append(spared, Garbled)}
  BY <1>1
<1>3. "rewrite" \notin {"add"} /\ "add" \in {"add"}
  OBVIOUS
<1> QED
  BY <1>2, <1>3 DEF Recovered, Left

LEMMA UnpairingCut ==
    ASSUME NEW old, NEW a, NEW n \in 0..Len(old)
    PROVE  Recovered(old, SubSeq(old, n + 1, Len(old)), {"unpair"}, a)
<1>1. "rewrite" \notin {"unpair"} /\ "add" \notin {"unpair"} /\ "unpair" \in {"unpair"}
  OBVIOUS
<1> QED
  BY <1>1 DEF Recovered, Left

LEMMA RewriteCut ==
    ASSUME NEW old, NEW t, NEW new, NEW c, NEW a, Recovered(old, t, c, a), "rewrite" \notin c,
           NEW n \in 0..Len(t), new \in Rewritten(t, n)
    PROVE  Recovered(old, new, c \cup {"rewrite"}, a)
<1>1. t \in Left(old, c, a)
  BY DEF Recovered
<1>2. Left(old, c \cup {"rewrite"}, a) = Left(old, c, a)
  <2>1. /\ "add" \in c \cup {"rewrite"} <=> "add" \in c
        /\ "unpair" \in c \cup {"rewrite"} <=> "unpair" \in c
    OBVIOUS
  <2> QED
    BY <2>1 DEF Left
<1>3. "rewrite" \in c \cup {"rewrite"}
  OBVIOUS
<1> QED
  BY <1>1, <1>2, <1>3 DEF Recovered

----------------------------------------------------------------------------
\* The steps that lose power.

\* Power lost in the main loop, or between two steps of a routine, with the
\* flash as it is.
LEMMA KeptPowerLoss ==
    ASSUME IInv, KeptInv, IndexStaysInSector, PowerLoss
    PROVE  KeptInv'
<1> DEFINE c == cut \cup ({pc} \ {"scan", "idle", "erase"})
<1>f. /\ pc' = "off" /\ flash' = flash /\ kept' = kept /\ cut' = c /\ arg' = arg
      /\ pc \notin {"off", "hang"} /\ TypeOK /\ IndexOK
      /\ table \in Seq(Rows) /\ Len(table) \in Nat /\ Len(table) <= MaxSlaves
      /\ done \in 0..Len(table)
  BY Facts DEF PowerLoss, IInv
<1>1. ASSUME NEW t \in Seq(Rows), Lists(t, flash)
      PROVE  Recovered(kept, Addresses(t), c, arg)
  <2>1. CASE pc \in {"scan", "erase"}
    <3>1. c = cut
      BY <2>1
    <3> QED
      BY <1>1, <2>1, <3>1 DEF KeptInv
  <2>2. CASE pc = "rewrite"
    <3>1. /\ "rewrite" \notin cut /\ Recovered(kept, Addresses(table), cut, arg)
          /\ c = cut \cup {"rewrite"}
      BY <2>2 DEF KeptInv
    <3>2. Addresses(t) = SubSeq(Addresses(table), 1, done)
      BY <1>1, <2>2, RewriteLists, OneListing
    <3>3. done \in 0..Len(Addresses(table))
      BY <1>f, AddressesFacts
    <3> QED
      BY <3>1, <3>2, <3>3, RewriteCut DEF Rewritten
  <2>3. ASSUME pc \in {"idle", "add", "unpair"} PROVE t = Remaining /\ cut = {}
    BY <1>1, <2>3, MainLists, OneListing DEF KeptInv
  <2>4. ASSUME pc \in {"idle", "add"} PROVE t = table
    <3>1. done = 0
      BY <1>f, <2>4 DEF IndexOK
    <3> QED
      BY <2>3, <2>4, <3>1, MainLists
  <2>5. CASE pc = "idle"
    <3>1. c = {}
      BY <2>3, <2>5
    <3>2. Addresses(t) = kept
      BY <2>4, <2>5 DEF KeptInv
    <3> QED
      BY <3>1, <3>2, NothingLost
  <2>6. CASE pc = "add"
    <3>1. c = {"add"}
      BY <2>3, <2>6
    <3>2. Addresses(t) = kept \/ (Len(kept) = MaxSlaves /\ Addresses(t) = Tail(kept))
      BY <2>4, <2>6 DEF KeptInv
    <3> QED
      BY <3>1, <3>2, PairingCut
  <2>7. CASE pc = "unpair"
    <3>1. c = {"unpair"} /\ t = Remaining /\ kept = Addresses(table)
      BY <2>3, <2>7 DEF KeptInv
    <3>2. Len(t) = Len(table) - done
      BY <2>7, <3>1, MainLists
    <3>3. /\ Addresses(t) \in Seq(Device) /\ Addresses(table) \in Seq(Device)
          /\ Len(Addresses(t)) = Len(t) /\ Len(Addresses(table)) = Len(table)
          /\ \A i \in 1..Len(t) : Addresses(t)[i] = t[i].adr
          /\ \A i \in 1..Len(table) : Addresses(table)[i] = table[i].adr
      BY <1>f, AddressesFacts
    <3> DEFINE newest == SubSeq(kept, done + 1, Len(kept))
    <3>4. /\ newest \in Seq(Device) /\ Len(newest) = Len(table) - done
          /\ \A i \in 1..Len(table) - done : newest[i] = kept[done + i]
      <4>1. kept \in Seq(Device) /\ Len(kept) = Len(table)
        BY <3>1, <3>3
      <4> QED
        BY <4>1, <1>f, SubSeqFacts
    <3>5. \A i \in 1..Len(t) : Addresses(t)[i] = newest[i]
      <4>1. \A i \in 1..Len(t) : t[i] = table[done + i] /\ done + i \in 1..Len(table)
        BY <3>1, <3>2, <1>f DEF Remaining
      <4> HIDE DEF newest
      <4> QED
        BY <3>1, <3>2, <3>3, <3>4, <4>1
    <3>6. Addresses(t) = newest
      <4> HIDE DEF newest
      <4> QED
        BY <3>2, <3>3, <3>4, <3>5, SeqEqual
    <3>7. done \in 0..Len(kept)
      BY <3>1, <3>3, <1>f
    <3> QED
      BY <3>1, <3>6, <3>7, UnpairingCut
  <2> QED
    BY <1>f, <2>1, <2>2, <2>5, <2>6, <2>7 DEF TypeOK
<1>2. ASSUME "rewrite" \in c, NEW s \in Sector, MaxSlaves <= s
      PROVE  flash[s] = Blank
  <2>1. CASE pc = "rewrite"
    <3>1. done <= s
      BY <1>2, <1>f, SizeAssumption DEF Sector
    <3> QED
      BY <2>1, <3>1, RewriteLists
  <2>2. CASE pc # "rewrite"
    <3>1. "rewrite" \in cut
      BY <1>2, <2>2
    <3>2. pc = "scan"
      BY <3>1, <1>f DEF KeptInv, TypeOK
    <3> QED
      BY <1>2, <3>1, <3>2 DEF KeptInv
  <2> QED
    BY <2>1, <2>2
<1>3. Sector' = Sector
  BY DEF Sector
<1> HIDE DEF c
<1> QED
  BY <1>1, <1>2, <1>3, <1>f DEF KeptInv

\* Power lost while the record of a pairing is written.
LEMMA KeptTornAdd ==
    ASSUME IInv, KeptInv, IndexStaysInSector, TornAdd
    PROVE  KeptInv'
<1> USE SizeAssumption
<1>1. PICK c \in TornCells(flash[cfg + 1], arg) : flash' = [flash EXCEPT ![cfg + 1] = c]
  BY DEF TornAdd, TearRecord
<1>f. /\ pc = "add" /\ pc' = "off" /\ kept' = kept /\ cut' = {"add"} /\ arg' = arg
      /\ TypeOK /\ MainInv /\ done = 0 /\ cfg + 1 \in 0..FlashCells - 1
      /\ table \in Seq(Rows) /\ Len(table) \in Nat /\ Len(table) < MaxSlaves
      /\ flash \in [0..FlashCells - 1 -> Cell] /\ arg \in Device
      /\ \A s \in Sector : s \in DOMAIN flash
  <2>1. TypeOK /\ MainInv /\ IndexOK /\ pc = "add" /\ Len(table) < MaxSlaves
    BY DEF IInv, FlashInv, TornAdd
  <2>2. cut' = {"add"} /\ pc' = "off" /\ kept' = kept /\ arg' = arg
    BY <2>1 DEF TornAdd, TearRecord, KeptInv
  <2>3. done = 0 /\ cfg + 1 \in 0..FlashCells - 1
    BY <2>1, Facts DEF IndexOK
  <2> QED
    BY <2>1, <2>2, <2>3, Facts
<1>2. Lists(table, flash)
  BY <1>f, MainLists
<1>3. \A s \in Sector : s # cfg + 1 => flash'[s] = flash[s]
  BY <1>1, <1>f
<1>4. flash'[cfg + 1] = c
  BY <1>1, <1>f
<1>5. cfg + 1 \in Sector => flash[cfg + 1] = Blank /\ c \in {Blank, Dead, Garbled, arg}
  <2> SUFFICES ASSUME cfg + 1 \in Sector
               PROVE  flash[cfg + 1] = Blank /\ c \in {Blank, Dead, Garbled, arg}
    OBVIOUS
  <2>1. cfg \in Int /\ ~(cfg + 1 <= cfg)
    BY Facts, <1>f
  <2>2. flash[cfg + 1] = Blank
    BY <1>f, <2>1 DEF MainInv, UsedUpToIndex
  <2> QED
    BY <2>2, <1>1 DEF TornCells, Program
<1>6. /\ Addresses(table) = kept \/ (Len(kept) = MaxSlaves /\ Addresses(table) = Tail(kept))
      /\ Len(kept) < MaxSlaves \/ Addresses(table) # kept
  BY <1>f, AddressesFacts DEF KeptInv
<1>7. ASSUME NEW u \in Seq(Rows), Lists(u, flash'),
             \/ Addresses(u) = Addresses(table)
             \/ Addresses(u) = Append(Addresses(table), arg)
             \/ Addresses(u) = Append(Addresses(table), Garbled)
      PROVE  KeptInv'
  <2>1. Recovered(kept, Addresses(u), {"add"}, arg)
    BY <1>6, <1>7, PairingCut
  <2>2. \A t \in Seq(Rows) : Lists(t, flash') => t = u
    BY <1>7, OneListing
  <2>3. "rewrite" \notin {"add"}
    OBVIOUS
  <2> QED
    BY <1>f, <2>1, <2>2, <2>3 DEF KeptInv
<1>8. CASE cfg + 1 \in Sector
  <2>1. \A i \in 1..Len(table) : table[i].slot < cfg + 1
    <3>1. \A i \in 1..Len(table) : table[i].slot <= cfg /\ table[i].slot \in Int /\ cfg \in Int
      BY <1>f, Facts DEF MainInv
    <3> QED
      BY <3>1
  <2>2. /\ c \notin Device => Lists(table, flash')
        /\ c \in Device =>
             \E u \in Seq(Rows) : Lists(u, flash') /\ Addresses(u) = Append(Addresses(table), c)
    <3>1. Written(table, flash, flash', cfg + 1)
      BY <1>2, <1>3, <1>5, <1>8, <2>1 DEF Written
    <3>2. /\ flash'[cfg + 1] \notin Device => Lists(table, flash')
          /\ flash'[cfg + 1] \in Device =>
               \E u \in Seq(Rows) : Lists(u, flash')
                                    /\ Addresses(u) = Append(Addresses(table), flash'[cfg + 1])
      BY <1>f, <3>1, ListsWritten
    <3> QED
      BY <1>4, <3>2
  <2>3. c \in Device => c \in {Garbled, arg}
    BY <1>5, <1>8, CellAssumption
  <2> QED
    BY <1>7, <1>f, <2>2, <2>3
<1>9. CASE cfg + 1 \notin Sector
  <2>1. Lists(table, flash')
    BY <1>2, <1>3, <1>9, SameListings
  <2> QED
    BY <1>7, <1>f, <2>1
<1> QED
  BY <1>8, <1>9

\* Power lost while a record of the compaction is written.
LEMMA KeptTornRewrite ==
    ASSUME IInv, KeptInv, TornRewrite
    PROVE  KeptInv'
<1> USE SizeAssumption
<1> DEFINE d == table[done + 1].adr
           written == SubSeq(table, 1, done)
<1>f. /\ pc = "rewrite" /\ pc' = "off" /\ kept' = kept /\ cut' = cut \cup {"rewrite"}
      /\ arg' = arg /\ "rewrite" \notin cut /\ Recovered(kept, Addresses(table), cut, arg)
      /\ table \in Seq(Rows) /\ Len(table) \in Nat /\ Len(table) <= MaxSlaves
      /\ done \in Nat /\ done < Len(table) /\ cfg + 1 = done /\ d \in Device
      /\ flash \in [0..FlashCells - 1 -> Cell]
      /\ \A s \in Sector : s \in DOMAIN flash /\ s \in Nat
  <2>1. TypeOK /\ IndexOK /\ pc = "rewrite" /\ done < Len(table)
    BY DEF IInv, TornRewrite
  <2>2. cfg = done - 1 /\ done \in Nat /\ done + 1 \in 1..Len(table)
    BY <2>1, Facts DEF IndexOK
  <2> QED
    BY <2>1, <2>2, Facts DEF TornRewrite, TearRecord, KeptInv, Sector
<1>1. PICK c \in TornCells(flash[done], d) : flash' = [flash EXCEPT ![done] = c]
  BY <1>f DEF TornRewrite, TearRecord
<1>2. /\ done \in Sector /\ done \in 0..FlashCells - 1 /\ done < MaxSlaves
      /\ \A s \in Sector : s # done => flash'[s] = flash[s]
      /\ flash'[done] = c
  BY <1>1, <1>f DEF Sector
<1>3. /\ written \in Seq(Rows) /\ Len(written) = done
      /\ \A i \in 1..done : written[i].slot < done
      /\ Lists(written, flash) /\ Addresses(written) = SubSeq(Addresses(table), 1, done)
      /\ \A s \in Sector : done <= s => flash[s] = Blank
  BY <1>f, RewriteLists
<1>4. flash[done] = Blank /\ c \in {Blank, Dead, Garbled, d}
  <2>1. flash[done] = Blank
    BY <1>2, <1>3
  <2> QED
    BY <1>1, <2>1 DEF TornCells, Program
<1> HIDE DEF written
<1>5. /\ c \notin Device => Lists(written, flash')
      /\ c \in Device =>
           \E u \in Seq(Rows) : Lists(u, flash') /\ Addresses(u) = Append(Addresses(written), c)
  <2>1. Written(written, flash, flash', done) /\ written \in Seq(Rows)
    BY <1>2, <1>3, <1>4 DEF Written
  <2>2. /\ flash'[done] \notin Device => Lists(written, flash')
        /\ flash'[done] \in Device =>
             \E u \in Seq(Rows) : Lists(u, flash')
                                  /\ Addresses(u) = Append(Addresses(written), flash'[done])
    BY ONLY <2>1, ListsWritten
  <2> QED
    BY <1>2, <2>2
<1>6. Append(Addresses(written), d) = SubSeq(Addresses(table), 1, done + 1)
  <2>1. /\ Addresses(table) \in Seq(Device) /\ Len(Addresses(table)) = Len(table)
        /\ Addresses(table)[done + 1] = d
    BY <1>f, AddressesFacts
  <2> QED
    BY <1>3, <1>f, <2>1, PrefixAppend
<1>7. ASSUME NEW s \in Sector, MaxSlaves <= s
      PROVE  flash'[s] = Blank
  <2>1. s \in Nat /\ done < s
    BY <1>2, <1>7, <1>f
  <2>2. flash[s] = Blank /\ s # done
    BY <1>3, <1>f, <2>1
  <2> QED
    BY <1>2, <2>2
<1>8. ASSUME NEW u \in Seq(Rows), Lists(u, flash'), NEW n \in {done, done + 1},
             Addresses(u) \in Rewritten(Addresses(table), n)
      PROVE  KeptInv'
  <2>1. n \in 0..Len(Addresses(table))
    BY <1>f, AddressesFacts
  <2>2. Recovered(kept, Addresses(u), cut \cup {"rewrite"}, arg)
    BY <1>8, <1>f, <2>1, RewriteCut
  <2>3. \A t \in Seq(Rows) : Lists(t, flash') => t = u
    BY <1>8, OneListing
  <2>4. Sector' = Sector
    BY DEF Sector
  <2> QED
    BY <1>f, <1>7, <2>2, <2>3, <2>4 DEF KeptInv
<1>9. CASE c \notin Device
  BY <1>3, <1>5, <1>8, <1>9 DEF Rewritten
<1>10. CASE c = Garbled /\ c \in Device
  <2>1. PICK u \in Seq(Rows) : Lists(u, flash') /\ Addresses(u) = Append(Addresses(written), c)
    BY <1>5, <1>10
  <2>2. Addresses(u) \in Rewritten(Addresses(table), done)
    BY <1>3, <1>10, <2>1 DEF Rewritten
  <2> QED
    BY <1>8, <2>1, <2>2
<1>11. CASE c = d /\ c \in Device
  <2>1. PICK u \in Seq(Rows) : Lists(u, flash') /\ Addresses(u) = Append(Addresses(written), c)
    BY <1>5, <1>11
  <2>2. Addresses(u) \in Rewritten(Addresses(table), done + 1)
    BY <1>6, <1>11, <2>1 DEF Rewritten
  <2> QED
    BY <1>8, <2>1, <2>2
<1> QED
  BY <1>4, <1>9, <1>10, <1>11, CellAssumption

----------------------------------------------------------------------------
\* The other steps.

LEMMA KeptInit == Init => KeptInv
<1> SUFFICES ASSUME Init PROVE KeptInv
  OBVIOUS
<1>1. \A s \in Sector : flash[s] = Blank
  BY SizeAssumption DEF Init, Sector
<1>2. ASSUME NEW t \in Seq(Rows), Lists(t, flash)
      PROVE  Addresses(t) = <<>>
  <2>1. \A i \in 1..Len(t) : t[i].adr = Blank /\ t[i].adr \in Device
    BY <1>1, <1>2, RowFacts DEF Lists
  <2>2. Len(t) \in Nat /\ ~(1 \in 1..Len(t))
    BY <2>1, CellAssumption
  <2>3. Addresses(t) \in Seq(Device) /\ Len(Addresses(t)) = 0
    BY <2>2, AddressesFacts
  <2> QED
    BY <2>3, EmptySeq
<1> QED
  BY <1>2, NothingLost DEF Init, KeptInv

\* Rows keep their addresses when they are moved.
LEMMA MovedAddresses ==
    ASSUME IInv, RewriteRecord
    PROVE  Addresses(table') = Addresses(table)
<1>1. /\ table \in Seq(Rows) /\ done + 1 \in 1..Len(table) /\ cfg + 1 \in 0..FlashCells - 1
      /\ table' = [table EXCEPT ![done + 1] = Row(cfg + 1, @.adr)]
  <2>1. /\ TypeOK /\ pc = "rewrite" /\ cfg = done - 1 /\ done < Len(table)
        /\ table' = [table EXCEPT ![done + 1] = Row(cfg + 1, @.adr)]
    BY DEF IInv, IndexOK, RewriteRecord
  <2> QED
    BY <2>1, Facts, SizeAssumption
<1>2. /\ table' \in Seq(Rows) /\ Len(table') = Len(table)
      /\ \A i \in 1..Len(table) :
            table'[i] = IF i = done + 1 THEN Row(cfg + 1, table[done + 1].adr) ELSE table[i]
  BY <1>1, MoveRow
<1>3. \A i \in 1..Len(table) : table'[i].adr = table[i].adr
  BY <1>2 DEF Row
<1> QED
  BY <1>2, <1>3 DEF Addresses

LEMMA KeptDelete ==
    ASSUME IInv, KeptInv, DeleteOldest
    PROVE  KeptInv'
<1>f. /\ pc = "add" /\ pc' = "add" /\ kept' = kept /\ cut' = cut /\ table' = Tail(table)
      /\ table \in Seq(Rows) /\ Len(table) \in Nat /\ Len(table) = MaxSlaves
  <2>1. TypeOK /\ Len(table) >= MaxSlaves /\ Len(table) <= MaxSlaves
    BY DEF IInv, TypeOK, DeleteOldest
  <2> QED
    BY <2>1, Facts, SizeAssumption DEF DeleteOldest
<1>1. Len(Addresses(table)) = MaxSlaves /\ MaxSlaves \in Nat /\ MaxSlaves > 0
  BY <1>f, AddressesFacts, SizeAssumption
<1>2. Addresses(table) \in Seq(Device)
  BY <1>f, AddressesFacts
<1>3. kept = Addresses(table)
  <2> SUFFICES ASSUME Len(kept) = MaxSlaves, Addresses(table) = Tail(kept)
               PROVE  FALSE
    BY <1>f DEF KeptInv
  <2>1. kept \in Seq(Device) /\ kept # <<>>
    BY <1>1, EmptySeq DEF IInv, TypeOK
  <2>2. Len(Tail(kept)) = Len(kept) - 1
    BY <2>1, HeadTailProperties
  <2> QED
    BY <2>2, <1>1
<1>4. Addresses(table') = Tail(kept)
  <2>1. /\ Tail(table) \in Seq(Rows) /\ Len(Tail(table)) = Len(table) - 1
        /\ \A i \in 1..Len(table) - 1 : Tail(table)[i] = table[i + 1]
    BY <1>f, <1>1, TailRows
  <2>2. /\ Tail(kept) \in Seq(Device) /\ Len(Tail(kept)) = Len(table) - 1
        /\ \A i \in 1..Len(table) - 1 : Tail(kept)[i] = kept[i + 1]
    BY <1>1, <1>2, <1>3, <1>f
  <2>3. /\ Addresses(table') \in Seq(Device) /\ Len(Addresses(table')) = Len(table) - 1
        /\ \A i \in 1..Len(table) - 1 : Addresses(table')[i] = table[i + 1].adr
    BY <2>1, <1>f, AddressesFacts
  <2>4. \A i \in 1..Len(table) - 1 : i + 1 \in 1..Len(table) /\ kept[i + 1] = table[i + 1].adr
    BY <1>3, <1>f, AddressesFacts
  <2> QED
    BY <2>2, <2>3, <2>4, SeqEqual
<1> QED
  BY <1>1, <1>3, <1>4, <1>f DEF KeptInv

\* The power-up after a compaction that was cut short does not compact again.
LEMMA NoSecondRewrite ==
    ASSUME IInv, KeptInv, ScanEnd, pc' = "erase"
    PROVE  "rewrite" \notin cut
<1> SUFFICES ASSUME "rewrite" \in cut PROVE FALSE
  OBVIOUS
<1>1. /\ pc = "scan" /\ cfg \in 0..SectorCells /\ ~(cfg - 1 < CleanCells)
      /\ \A s \in Sector : s < cfg => flash[s] # Blank
  BY DEF IInv, FlashInv, ScanInv, IndexOK, ScanEnd, Complete
<1>2. cfg - 1 \in Sector /\ cfg - 1 < cfg /\ MaxSlaves <= cfg - 1
  BY <1>1, SizeAssumption DEF Sector
<1> QED
  BY <1>1, <1>2 DEF KeptInv

LEMMA KeptNext ==
    ASSUME IInv, KeptInv, IndexStaysInSector, [Next]_vars
    PROVE  KeptInv'
<1>1. CASE Boot
  BY <1>1 DEF KeptInv, Boot
<1>2. CASE ScanBond
  <2>1. Len(table) < MaxSlaves
    BY <1>2, ScanFindsRow
  <2> QED
    BY <1>2, <2>1 DEF KeptInv, ScanBond
<1>3. CASE ScanSkip
  BY <1>3 DEF KeptInv, ScanSkip
<1>4. CASE ScanEnd
  <2>1. Recovered(kept, Addresses(table), cut, arg)
    BY <1>4, ScanLists DEF KeptInv, ScanEnd
  <2>2. pc' = "erase" => "rewrite" \notin cut
    BY <1>4, NoSecondRewrite
  <2> QED
    BY <1>4, <2>1, <2>2 DEF KeptInv, ScanEnd, Complete
<1>5. CASE EraseSector
  BY <1>5 DEF KeptInv, EraseSector
<1>6. CASE RewriteRecord
  BY <1>6, MovedAddresses DEF KeptInv, RewriteRecord
<1>7. CASE RewriteEnd
  BY <1>7 DEF KeptInv, RewriteEnd, Complete
<1>8. CASE DeleteOldest
  BY <1>8, KeptDelete
<1>9. CASE WriteRecord
  BY <1>9 DEF KeptInv, WriteRecord, Complete
<1>10. CASE UnpairRecord
  BY <1>10 DEF KeptInv, UnpairRecord
<1>11. CASE UnpairEnd
  BY <1>11 DEF KeptInv, UnpairEnd, Complete
<1>12. ASSUME NEW a \in Addr, Add(a) PROVE KeptInv'
  BY <1>12 DEF KeptInv, Add
<1>13. CASE UnpairAll
  BY <1>13 DEF KeptInv, UnpairAll
<1>14. CASE PowerLoss
  BY <1>14, KeptPowerLoss
<1>15. CASE TornAdd
  BY <1>15, KeptTornAdd
<1>16. CASE TornRewrite
  BY <1>16, KeptTornRewrite
<1>17. CASE UNCHANGED vars
  BY <1>17 DEF KeptInv, vars
<1> QED
  BY <1>1, <1>2, <1>3, <1>4, <1>5, <1>6, <1>7, <1>8, <1>9, <1>10, <1>11, <1>12,
     <1>13, <1>14, <1>15, <1>16, <1>17 DEF Next, Firmware

\* A step into the main loop at power-up loads what is left.
LEMMA LoadsWhatIsLeft ==
    ASSUME IInv, KeptInv, [Next]_vars, pc \in {"scan", "rewrite"}, pc' = "idle"
    PROVE  Recovered(kept, Addresses(table'), cut, arg)
<1>1. ScanEnd \/ RewriteEnd
  BY DEF Next, Firmware, Boot, ScanBond, ScanSkip, EraseSector, RewriteRecord, DeleteOldest,
         WriteRecord, UnpairRecord, UnpairEnd, Add, UnpairAll, PowerLoss, TornAdd, TornRewrite,
         TearRecord, vars
<1>2. CASE ScanEnd
  BY <1>2, ScanLists DEF KeptInv, ScanEnd
<1>3. CASE RewriteEnd
  BY <1>3 DEF KeptInv, RewriteEnd
<1> QED
  BY <1>1, <1>2, <1>3

\* However pairing, unpairing, compaction and power losses interleave, and as
\* long as no record is written behind the sector (the overrun of app.c:421 that
\* IndexStaysInSector is about), a power-up (app.c:536-567) loads exactly what
\* Recovered says of the bonds the table had: all of them when no routine was cut
\* short; all but at most the oldest, with the new one or a garbled one after
\* them, when a pairing was; the newest when an unpairing was; and the first few
\* of these, with at most a garbled one after them, when a compaction was, which
\* may leave none.
THEOREM PowerCycleKeeps == Spec /\ []IndexStaysInSector => PowerCycleKeepsBonds
<1>1. KeptInv /\ IInv /\ IndexStaysInSector /\ [Next]_vars => KeptInv'
  BY KeptNext
<1>2. KeptInv /\ IInv /\ [Next]_vars
        => [(pc \in {"scan", "rewrite"} /\ pc' = "idle")
              => Recovered(kept, Addresses(table'), cut, arg)]_vars
  BY LoadsWhatIsLeft
<1> QED
  BY <1>1, <1>2, KeptInit, Invariant, PTL DEF Spec, PowerCycleKeepsBonds
=============================================================================
