----------------------------- MODULE OtaBootProofs -----------------------------
(***************************************************************************)
(* For any images, sizes of the flash, and number of power losses and      *)
(* failed writes: only a whole image runs, and the chip can start again at *)
(* every moment but during the rewrite of its first sector.                *)
(***************************************************************************)
EXTENDS OtaBoot, TLAPS

\* Where the flag stands, and the size that was read from the image.
FlagInv ==
    /\ pc \in {"init", "app", "clean"} => ~flag
    /\ pc \in {"header", "erase", "write", "flag", "hang"} => flag
    /\ ~flag => \E f \in Firmware : ImageAt(f, 0)
    /\ pc \in {"erase", "write", "flag"} => n = Size[want] /\ n <= Area

\* The pages that were copied: those behind the first sector up to the index, and
\* then all of these and the first ones up to the index.
Done(p) ==
    \/ pc = "flag"
    \/ i >= SectorPages /\ SectorPages <= p /\ p < i
    \/ i < SectorPages /\ (SectorPages <= p \/ p < i)

CopyInv ==
    /\ pc \in {"erase", "write"} => i \in 0..Area
    /\ pc = "write" => i < Limit
    /\ pc \in {"erase", "write", "flag"} =>
          \A p \in 0..Area - 1 : p < n /\ Done(p) => flash[p] = flash[Area + p]

\* The first sector is not touched before the second loop.
StartInv ==
    (pc = "header" \/ (pc \in {"erase", "write"} /\ i >= SectorPages))
        => Startable

IInv ==
    /\ TypeOK /\ FlagInv /\ CopyInv /\ StartInv
    /\ FlagMeansImage /\ UnstartableOnlyAtTheEnd

----------------------------------------------------------------------------

\* Dividing by the size of a sector.
LEMMA Division ==
    ASSUME NEW p \in Nat
    PROVE  \E q \in Nat, r \in 0..SectorPages - 1 :
               p = SectorPages * q + r /\ r = p % SectorPages /\ q = p \div SectorPages
  <1>1. PICK s \in Nat \ {0} : s = SectorPages
    BY SizesAssumption
  <1>2. p \div s \in Nat /\ p % s \in 0..s - 1
    BY <1>1
  <1>3. PICK q \in Nat, r \in 0..s - 1 : q = p \div s /\ r = p % s
    BY <1>2
  <1>4. p = s * q + r
    BY <1>3
  <1> QED BY <1>1, <1>3, <1>4

\* A page is not in front of the start of its sector.
LEMMA SectorBelow ==
    ASSUME NEW p \in Nat
    PROVE  SectorStart(p) \in 0..p
  <1>1. p % SectorPages \in 0..p
    BY SizesAssumption
  <1> QED BY <1>1 DEF SectorStart

\* A page behind the start of some sector is in that sector or behind it.
LEMMA SectorAbove ==
    ASSUME NEW p \in Nat, NEW a \in Nat, a % SectorPages = 0, a <= p
    PROVE  a <= SectorStart(p)
  <1>1. PICK q \in Nat, r \in 0..SectorPages - 1 :
            p = SectorPages * q + r /\ r = p % SectorPages
    BY Division
  <1>2. PICK k \in Nat : a = SectorPages * k
    <2>1. PICK k \in Nat, t \in 0..SectorPages - 1 :
              a = SectorPages * k + t /\ t = a % SectorPages
      BY Division
    <2> QED BY <2>1, SizesAssumption
  <1>3. k <= q
    BY <1>1, <1>2, SizesAssumption
  <1>4. SectorPages * k <= SectorPages * q
    BY <1>1, <1>2, <1>3, SizesAssumption
  <1> QED BY <1>1, <1>2, <1>4, SizesAssumption DEF SectorStart

\* A sector is a whole sector.
LEMMA OneSector == SectorPages % SectorPages = 0
  <1>1. PICK q \in Nat, r \in 0..SectorPages - 1 :
            SectorPages = SectorPages * q + r /\ r = SectorPages % SectorPages
    BY Division, SizesAssumption
  <1>2. CASE q = 0
    BY <1>1, <1>2, SizesAssumption
  <1>3. CASE q >= 1
    <2>1. SectorPages * q >= SectorPages
      BY <1>3, SizesAssumption
    <2> QED BY <1>1, <2>1, SizesAssumption
  <1> QED BY <1>1, <1>2, <1>3

\* The pages the erase of a sector of the running firmware touches.
LEMMA SectorPagesOf ==
    ASSUME NEW s \in 0..Area - 1, s % SectorPages = 0, NEW p \in Pages, InSector(p, s)
    PROVE  p \in Nat /\ s <= p /\ p < Area /\ (s < SectorPages => p < SectorPages)
  <1>1. /\ p \in Nat /\ s \in Nat /\ SectorStart(p) = s /\ Area \in Nat
        /\ SectorPages \in Nat \ {0} /\ Area % SectorPages = 0
    BY SizesAssumption DEF Pages, InSector
  <1>2. s <= p
    BY <1>1, SectorBelow
  <1>3. ~(p >= Area)
    <2>1. p >= Area => Area <= SectorStart(p)
      BY <1>1, SectorAbove
    <2>2. SectorStart(p) < Area
      BY <1>1
    <2> QED BY <1>1, <2>1, <2>2
  <1>4. s < SectorPages => ~(p >= SectorPages)
    <2>1. p >= SectorPages => SectorPages <= SectorStart(p)
      BY <1>1, OneSector, SectorAbove
    <2>2. SectorStart(p) = s
      BY <1>1
    <2> QED BY <1>1, <2>1, <2>2
  <1> QED BY <1>1, <1>2, <1>3, <1>4

\* The last sector of the new image.
LEMMA LastSectorBound ==
    ASSUME TypeOK, n \in 1..Area
    PROVE  LastSector \in 0..Area - 1
  <1>1. PICK q \in Nat, r \in 0..SectorPages - 1 :
            n - 1 = SectorPages * q + r /\ q = (n - 1) \div SectorPages
    <2>1. n - 1 \in Nat
      BY SizesAssumption
    <2>2. PICK k \in Nat : k = n - 1
      BY <2>1
    <2> QED BY <2>2, Division
  <1>2. SectorPages * q >= q
    BY <1>1, SizesAssumption
  <1> QED BY <1>1, <1>2, SizesAssumption DEF LastSector

\* A firmware in its place starts.
LEMMA ImageStarts ==
    ASSUME NEW f \in Firmware, ImageAt(f, 0)
    PROVE  Startable
  <1>1. \A p \in 0..StartPages - 1 : p \in 0..Area - 1 /\ p < Size[f] /\ 0 + p = p
    BY SizesAssumption
  <1> QED BY <1>1 DEF ImageAt, Startable

\* A step that leaves the running firmware alone.
LEMMA MainKept ==
    ASSUME \A p \in 0..Area - 1 : flash'[p] = flash[p]
    PROVE  /\ Startable <=> Startable'
           /\ \A f \in Firmware : ImageAt(f, 0) => ImageAt(f, 0)'
  <1>1. \A p \in 0..StartPages - 1 : p \in 0..Area - 1
    BY SizesAssumption
  <1>2. \A p \in 0..Area - 1 : 0 + p = p
    BY SizesAssumption
  <1> QED BY <1>1, <1>2 DEF Startable, ImageAt

\* The size the boot code reads is that of the image the flag stands for.
LEMMA HeaderIsWanted ==
    ASSUME TypeOK, ImageAt(want, Area)
    PROVE  HeaderSize = Size[want]
  <1>1. want \in Firmware /\ Size[want] \in Nat \ {0} /\ 0 \in 0..Area - 1 /\ Area + 0 = Area
    BY SizesAssumption DEF TypeOK
  <1>2. flash[Area] = Page(want, 0)
    BY <1>1 DEF ImageAt
  <1>3. \A f \in Firmware : flash[Area] = Page(f, 0) => f = want
    BY <1>2 DEF Page
  <1>4. (CHOOSE f \in Firmware : flash[Area] = Page(f, 0)) = want
    BY <1>1, <1>2, <1>3
  <1> QED BY <1>1, <1>2, <1>4 DEF HeaderSize

\* In the second loop everything behind the first sector is in its place.
LEMMA TailCopied ==
    ASSUME TypeOK, FlagInv, CopyInv, FlagMeansImage,
           \/ pc \in {"erase", "write"} /\ i < SectorPages
           \/ pc = "flag"
    PROVE  \A p \in SectorPages..Area - 1 : p < Size[want] => flash[p] = Page(want, p)
  <1> SUFFICES ASSUME NEW p \in SectorPages..Area - 1, p < Size[want]
               PROVE  flash[p] = Page(want, p)
    OBVIOUS
  <1>1. p \in 0..Area - 1 /\ p < n /\ Done(p)
    BY SizesAssumption DEF FlagInv, Done
  <1>2. flash[p] = flash[Area + p]
    BY <1>1 DEF CopyInv
  <1>3. ImageAt(want, Area)
    BY DEF FlagInv, FlagMeansImage
  <1> QED BY <1>1, <1>2, <1>3 DEF ImageAt

\* A step of the copy that changes the firmware behind the first sector in the
\* first loop, and the first sector in the second.
LEMMA CopyKeeps ==
    ASSUME IInv, pc \in {"erase", "write"}, flag' = flag, want' = want,
           \A p \in Pages : p >= Area => flash'[p] = flash[p],
           i >= SectorPages => \A p \in 0..SectorPages - 1 : flash'[p] = flash[p],
           i < SectorPages => \A p \in SectorPages..Area - 1 : flash'[p] = flash[p]
    PROVE  /\ FlagMeansImage' /\ UnstartableOnlyAtTheEnd'
           /\ i >= SectorPages => Startable'
  <1>1. FlagMeansImage'
    <2>1. ImageAt(want, Area)
      BY DEF IInv, FlagInv, FlagMeansImage
    <2>2. \A p \in 0..Area - 1 : Area + p \in Pages /\ Area + p >= Area
      BY SizesAssumption DEF Pages
    <2>3. \A p \in 0..Area - 1 : flash'[Area + p] = flash[Area + p]
      BY <2>2
    <2> QED BY <2>1, <2>3 DEF FlagMeansImage, ImageAt
  <1>2. CASE i >= SectorPages
    <2>1. Startable'
      <3>1. Startable
        BY <1>2 DEF IInv, StartInv
      <3>2. \A p \in 0..StartPages - 1 : p \in 0..SectorPages - 1
        BY SizesAssumption
      <3> QED BY <1>2, <3>1, <3>2 DEF Startable
    <2> QED BY <1>1, <2>1 DEF UnstartableOnlyAtTheEnd
  <1>3. CASE i < SectorPages
    <2>1. flag /\ \A p \in SectorPages..Area - 1 : p < Size[want] => flash[p] = Page(want, p)
      BY <1>3, TailCopied DEF IInv, FlagInv
    <2>2. UnstartableOnlyAtTheEnd'
      BY <1>3, <2>1 DEF UnstartableOnlyAtTheEnd
    <2> QED BY <1>1, <1>3, <2>2, SizesAssumption DEF IInv, TypeOK
  <1> QED BY <1>2, <1>3, SizesAssumption DEF IInv, TypeOK

\* The page under the index is one of the running firmware.
LEMMA IndexInFirmware ==
    ASSUME TypeOK, FlagInv, CopyInv, pc \in {"erase", "write"}, i < Limit
    PROVE  i \in 0..Area - 1 /\ i \in Pages /\ Area + i \in Pages
  BY SizesAssumption DEF TypeOK, FlagInv, CopyInv, Limit, Pages

----------------------------------------------------------------------------
(***************************************************************************)
(* One lemma for each action.                                              *)
(***************************************************************************)

\* A step that leaves flash, flag and image alone.
LEMMA FlashKept ==
    ASSUME IInv, flash' = flash, flag' = flag, want' = want
    PROVE  /\ FlagMeansImage' /\ UnstartableOnlyAtTheEnd'
           /\ Startable' <=> Startable
           /\ \A f \in Firmware : ImageAt(f, 0)' <=> ImageAt(f, 0)
  BY DEF IInv, FlagMeansImage, UnstartableOnlyAtTheEnd, Startable, ImageAt

\* A step without the flag that leaves the running firmware alone.
LEMMA WithoutFlag ==
    ASSUME IInv, ~flag, \A p \in 0..Area - 1 : flash'[p] = flash[p]
    PROVE  Startable' /\ \E f \in Firmware : ImageAt(f, 0)'
  <1>1. PICK f \in Firmware : ImageAt(f, 0)
    BY DEF IInv, FlagInv
  <1>2. Startable /\ ImageAt(f, 0)'
    BY <1>1, ImageStarts, MainKept
  <1> QED BY <1>2, MainKept

LEMMA StartupKeeps ==
    ASSUME IInv, Startup
    PROVE  IInv'
  <1>1. TypeOK' /\ CopyInv'
    BY DEF IInv, TypeOK, CopyInv, Startup
  <1>2. FlagInv' /\ StartInv'
    BY FlashKept DEF IInv, FlagInv, StartInv, Startup
  <1> QED BY <1>1, <1>2, FlashKept DEF IInv, Startup

LEMMA ClearNewFwDataAreaKeeps ==
    ASSUME IInv, ClearNewFwDataArea
    PROVE  IInv'
  <1>1. ~flag /\ ~flag'
    BY DEF IInv, FlagInv, ClearNewFwDataArea
  <1>2. \A p \in 0..Area - 1 : flash'[p] = flash[p]
    BY SizesAssumption DEF ClearNewFwDataArea, Pages
  <1>3. Startable' /\ \E f \in Firmware : ImageAt(f, 0)'
    BY <1>1, <1>2, WithoutFlag
  <1>4. TypeOK'
    <2>1. flash' \in [Pages -> Content]
      BY DEF IInv, TypeOK, ClearNewFwDataArea, Content
    <2> QED BY <2>1 DEF IInv, TypeOK, ClearNewFwDataArea
  <1>5. FlagInv' /\ CopyInv' /\ StartInv' /\ FlagMeansImage' /\ UnstartableOnlyAtTheEnd'
    BY <1>1, <1>3 DEF FlagInv, CopyInv, StartInv, FlagMeansImage, UnstartableOnlyAtTheEnd,
                      ClearNewFwDataArea
  <1> QED BY <1>4, <1>5 DEF IInv

LEMMA DownloadKeeps ==
    ASSUME IInv, NEW f \in Firmware, Download(f)
    PROVE  IInv'
  <1>1. ~flag /\ flag' = TRUE /\ want' = f /\ pc' = "off"
    BY DEF IInv, FlagInv, Download
  <1>2. \A p \in 0..Area - 1 : flash'[p] = flash[p]
    BY SizesAssumption DEF Download, Pages
  <1>3. Startable'
    BY <1>1, <1>2, WithoutFlag
  <1>4. TypeOK'
    <2>1. \A p \in Pages : p >= Area => Page(f, p - Area) \in Content
      BY SizesAssumption DEF Page, Content, Pages
    <2>2. flash' \in [Pages -> Content]
      BY <2>1 DEF IInv, TypeOK, Download
    <2> QED BY <1>1, <2>2 DEF IInv, TypeOK, Download
  <1>5. FlagMeansImage'
    <2>1. \A p \in 0..Area - 1 :
              Area + p \in Pages /\ Area + p >= Area /\ (Area + p) - Area = p
      BY SizesAssumption DEF Pages
    <2>2. \A p \in 0..Area - 1 : p < Size[f] => flash'[Area + p] = Page(f, p)
      BY <2>1 DEF Download
    <2> QED BY <1>1, <2>2 DEF FlagMeansImage, ImageAt
  <1>6. FlagInv' /\ CopyInv' /\ StartInv' /\ UnstartableOnlyAtTheEnd'
    BY <1>1, <1>3 DEF FlagInv, CopyInv, StartInv, UnstartableOnlyAtTheEnd
  <1> QED BY <1>4, <1>5, <1>6 DEF IInv

LEMMA DownloadPartKeeps ==
    ASSUME IInv, NEW f \in Firmware, NEW k \in 1..Area - 1, DownloadPart(f, k)
    PROVE  IInv'
  <1>1. ~flag /\ ~flag' /\ pc' = "off"
    BY DEF IInv, FlagInv, DownloadPart
  <1>2. \A p \in 0..Area - 1 : flash'[p] = flash[p]
    BY SizesAssumption DEF DownloadPart, Pages
  <1>3. Startable' /\ \E g \in Firmware : ImageAt(g, 0)'
    BY <1>1, <1>2, WithoutFlag
  <1>4. TypeOK'
    <2>1. \A p \in Pages : p >= Area => Page(f, p - Area) \in Content
      BY SizesAssumption DEF Page, Content, Pages
    <2>2. flash' \in [Pages -> Content]
      BY <2>1 DEF IInv, TypeOK, DownloadPart
    <2> QED BY <1>1, <2>2 DEF IInv, TypeOK, DownloadPart
  <1>5. FlagInv' /\ CopyInv' /\ StartInv' /\ FlagMeansImage' /\ UnstartableOnlyAtTheEnd'
    BY <1>1, <1>3 DEF FlagInv, CopyInv, StartInv, FlagMeansImage, UnstartableOnlyAtTheEnd
  <1> QED BY <1>4, <1>5 DEF IInv

LEMMA ReadHeaderKeeps ==
    ASSUME IInv, ReadHeader
    PROVE  IInv'
  <1>1. flag /\ flag' = flag /\ want' = want /\ flash' = flash /\ Startable
    BY DEF IInv, FlagInv, StartInv, ReadHeader
  <1>2. n' = Size[want] /\ Size[want] \in Nat \ {0}
    BY <1>1, HeaderIsWanted, SizesAssumption DEF IInv, TypeOK, FlagMeansImage, ReadHeader
  <1>3. \/ pc' = "hang" /\ i' = i
        \/ pc' = "erase" /\ i' = SectorPages /\ n' <= Area
    BY <1>2, SizesAssumption DEF ReadHeader
  <1>4. TypeOK'
    BY <1>1, <1>2, <1>3, SizesAssumption DEF IInv, TypeOK, ReadHeader
  <1>5. FlagInv' /\ StartInv'
    BY <1>1, <1>2, <1>3, FlashKept DEF FlagInv, StartInv
  <1>6. CopyInv'
    BY <1>1, <1>3, SizesAssumption DEF CopyInv, Done
  <1> QED BY <1>1, <1>4, <1>5, <1>6, FlashKept DEF IInv

LEMMA FirstLoopEndKeeps ==
    ASSUME IInv, FirstLoopEnd
    PROVE  IInv'
  <1>1. /\ pc = "erase" /\ i >= n /\ i >= SectorPages /\ i' = 0
        /\ pc' = pc /\ flash' = flash /\ flag' = flag /\ n' = n /\ want' = want
        /\ faults' = faults
    BY DEF FirstLoopEnd
  <1>2. TypeOK' /\ FlagInv' /\ StartInv'
    BY <1>1, FlashKept, SizesAssumption DEF IInv, TypeOK, FlagInv, StartInv
  <1>3. \A p \in 0..Area - 1 : p < n /\ Done(p)' => Done(p)
    BY <1>1, SizesAssumption DEF IInv, TypeOK, Done
  <1>4. CopyInv'
    BY <1>1, <1>3, SizesAssumption DEF IInv, CopyInv
  <1> QED BY <1>1, <1>2, <1>4, FlashKept DEF IInv

\* A sector of the running firmware that changes at the index.
LEMMA SectorChanges ==
    ASSUME IInv, pc \in {"erase", "write"}, i < Limit, i % SectorPages = 0,
           NEW c \in Content,
           flash' = [p \in Pages |-> IF InSector(p, i) THEN c ELSE flash[p]]
    PROVE  /\ flash' \in [Pages -> Content]
           /\ \A p \in Pages : p >= Area => flash'[p] = flash[p]
           /\ i >= SectorPages => \A p \in 0..SectorPages - 1 : flash'[p] = flash[p]
           /\ i < SectorPages => \A p \in SectorPages..Area - 1 : flash'[p] = flash[p]
           /\ \A p \in 0..Area - 1 : Done(p) => flash'[p] = flash[p]
  <1>1. i \in 0..Area - 1
    BY IndexInFirmware DEF IInv
  <1>2. \A p \in Pages : InSector(p, i) =>
            i <= p /\ p < Area /\ (i < SectorPages => p < SectorPages)
    <2> SUFFICES ASSUME NEW p \in Pages, InSector(p, i)
                 PROVE  i <= p /\ p < Area /\ (i < SectorPages => p < SectorPages)
      OBVIOUS
    <2>1. PICK s \in 0..Area - 1 : s = i
      BY <1>1
    <2> QED BY <2>1, SectorPagesOf
  <1>3. \A p \in 0..Area - 1 : p \in Pages
    BY SizesAssumption DEF Pages
  <1>4. flash' \in [Pages -> Content]
    BY DEF IInv, TypeOK
  <1>5. \A p \in Pages : p >= Area => flash'[p] = flash[p]
    BY <1>2, SizesAssumption DEF Pages
  <1>6. i >= SectorPages => \A p \in 0..SectorPages - 1 : flash'[p] = flash[p]
    BY <1>1, <1>2, <1>3, SizesAssumption
  <1>7. i < SectorPages => \A p \in SectorPages..Area - 1 : flash'[p] = flash[p]
    BY <1>1, <1>2, <1>3, SizesAssumption
  <1>8. \A p \in 0..Area - 1 : Done(p) => flash'[p] = flash[p]
    BY <1>1, <1>2, <1>3, SizesAssumption DEF Done
  <1> QED BY <1>4, <1>5, <1>6, <1>7, <1>8

LEMMA EraseSectorKeeps ==
    ASSUME IInv, EraseSector
    PROVE  IInv'
  <1>1. /\ pc = "erase" /\ i < Limit /\ pc' = "write" /\ flag' = flag /\ n' = n
        /\ i' = i /\ want' = want /\ faults' = faults
    BY DEF EraseSector
  <1>2. /\ flash' \in [Pages -> Content]
        /\ \A p \in Pages : p >= Area => flash'[p] = flash[p]
        /\ i >= SectorPages => \A p \in 0..SectorPages - 1 : flash'[p] = flash[p]
        /\ i < SectorPages => \A p \in SectorPages..Area - 1 : flash'[p] = flash[p]
        /\ \A p \in 0..Area - 1 : Done(p) => flash'[p] = flash[p]
    <2>1. CASE i % SectorPages = 0
      <3>1. Blank \in Content
        BY DEF Content
      <3> QED BY <1>1, <2>1, <3>1, SectorChanges DEF EraseSector
    <2>2. CASE i % SectorPages # 0
      BY <2>2 DEF EraseSector, IInv, TypeOK
    <2> QED BY <2>1, <2>2
  <1>3. /\ FlagMeansImage' /\ UnstartableOnlyAtTheEnd'
        /\ i >= SectorPages => Startable'
    BY <1>1, <1>2, CopyKeeps
  <1>4. TypeOK'
    BY <1>1, <1>2 DEF IInv, TypeOK
  <1>5. FlagInv' /\ StartInv'
    BY <1>1, <1>3 DEF IInv, FlagInv, StartInv
  <1>6. CopyInv'
    <2>1. \A p \in 0..Area - 1 : flash'[Area + p] = flash[Area + p]
      <3>1. \A p \in 0..Area - 1 : Area + p \in Pages /\ Area + p >= Area
        BY SizesAssumption DEF Pages
      <3> QED BY <1>2, <3>1
    <2>2. \A p \in 0..Area - 1 : Done(p)' <=> Done(p)
      BY <1>1 DEF Done
    <2>3. i' < Limit' /\ i' \in 0..Area
      BY <1>1 DEF IInv, CopyInv, Limit
    <2>4. \A p \in 0..Area - 1 : p < n' /\ Done(p)' => flash'[p] = flash'[Area + p]
      BY <1>1, <1>2, <2>1, <2>2 DEF IInv, CopyInv
    <2> QED BY <1>1, <2>3, <2>4 DEF CopyInv
  <1> QED BY <1>3, <1>4, <1>5, <1>6 DEF IInv

\* The page under the index is written and judged.
LEMMA WrittenKeeps ==
    ASSUME IInv, pc = "write", NEW c \in Content, Written(c),
           flag' = flag, n' = n, want' = want, faults' \in 0..MaxFaults
    PROVE  IInv'
  <1>1. i \in 0..Area - 1 /\ i \in Pages /\ Area + i \in Pages
    BY IndexInFirmware DEF IInv, CopyInv
  <1>2. flash' = [flash EXCEPT ![i] = c]
    BY DEF Written
  <1>3. \A p \in Pages : p # i => flash'[p] = flash[p]
    BY <1>2 DEF IInv, TypeOK
  <1>4. flash'[i] = c /\ flash' \in [Pages -> Content]
    BY <1>1, <1>2 DEF IInv, TypeOK
  <1>5. \A p \in 0..Area - 1 : p \in Pages /\ Area + p \in Pages /\ Area + p # i
    BY <1>1, SizesAssumption DEF Pages
  <1>6. SectorStart(i) \in 0..i /\ (i >= SectorPages => SectorStart(i) >= SectorPages)
    <2>1. PICK k \in Nat : k = i
      BY <1>1
    <2>2. SectorStart(k) \in 0..k
      BY SectorBelow
    <2>3. k >= SectorPages => SectorPages <= SectorStart(k)
      BY SectorAbove, OneSector, SizesAssumption
    <2> QED BY <2>1, <2>2, <2>3
  <1>7. \/ /\ c = flash[Area + i] /\ i + 1 = SectorPages
           /\ pc' = "flag" /\ i' = 0
        \/ /\ c = flash[Area + i] /\ i + 1 # SectorPages
           /\ pc' = "erase" /\ i' = i + 1
        \/ /\ c # flash[Area + i]
           /\ pc' = "erase" /\ i' = SectorStart(i)
    BY DEF Written
  <1>8. /\ FlagMeansImage' /\ UnstartableOnlyAtTheEnd'
        /\ i >= SectorPages => Startable'
    <2>1. /\ \A p \in Pages : p >= Area => flash'[p] = flash[p]
          /\ i >= SectorPages => \A p \in 0..SectorPages - 1 : flash'[p] = flash[p]
          /\ i < SectorPages => \A p \in SectorPages..Area - 1 : flash'[p] = flash[p]
      BY <1>1, <1>3, SizesAssumption DEF Pages
    <2> QED BY <2>1, CopyKeeps
  <1>9. TypeOK'
    BY <1>1, <1>4, <1>6, <1>7, SizesAssumption DEF IInv, TypeOK
  <1>10. FlagInv'
    BY <1>7 DEF IInv, FlagInv
  <1>11. StartInv'
    BY <1>1, <1>6, <1>7, <1>8, SizesAssumption DEF StartInv
  <1>12. CopyInv'
    <2>1. pc' # "write" /\ i' \in 0..Area
      BY <1>1, <1>6, <1>7, SizesAssumption
    <2>2. ASSUME NEW p \in 0..Area - 1, p < n, Done(p)'
          PROVE  flash'[p] = flash'[Area + p]
      <3>1. flash'[Area + p] = flash[Area + p]
        BY <1>3, <1>5
      <3>2. CASE p = i
        <4>1. c = flash[Area + i]
          BY <1>1, <1>6, <1>7, <2>2, <3>2, SizesAssumption DEF Done
        <4> QED BY <1>4, <3>1, <3>2, <4>1
      <3>3. CASE p # i
        <4>1. Done(p)
          BY <1>1, <1>6, <1>7, <2>2, <3>3, SizesAssumption DEF Done
        <4>2. flash[p] = flash[Area + p]
          BY <2>2, <4>1 DEF IInv, CopyInv
        <4> QED BY <1>3, <1>5, <3>1, <3>3, <4>2
      <3> QED BY <3>2, <3>3
    <2> QED BY <2>1, <2>2 DEF CopyInv
  <1> QED BY <1>8, <1>9, <1>10, <1>11, <1>12 DEF IInv

LEMMA WritePageKeeps ==
    ASSUME IInv, WritePage
    PROVE  IInv'
  <1>1. i \in Pages /\ Area + i \in Pages
    BY IndexInFirmware DEF IInv, CopyInv, WritePage
  <1>2. flash[i] \in Content /\ flash[Area + i] \in Content
    BY <1>1 DEF IInv, TypeOK
  <1>3. Program(flash[i], flash[Area + i]) \in Content
    BY <1>2 DEF Program, Content
  <1>4. faults' \in 0..MaxFaults
    BY DEF IInv, TypeOK, WritePage
  <1> QED BY <1>3, <1>4, WrittenKeeps DEF WritePage

LEMMA WriteFailsKeeps ==
    ASSUME IInv, WriteFails
    PROVE  IInv'
  <1>1. faults' \in 0..MaxFaults
    BY SizesAssumption DEF IInv, TypeOK, WriteFails
  <1>2. Mixed \in Content
    BY DEF Content
  <1> QED BY <1>1, <1>2, WrittenKeeps DEF WriteFails

LEMMA ClearFlagKeeps ==
    ASSUME IInv, ClearFlag
    PROVE  IInv'
  <1>1. /\ pc = "flag" /\ flag /\ ~flag' /\ flag' \in BOOLEAN /\ pc' = "clean"
        /\ i' = LastSector /\ flash' = flash /\ n' = n /\ want' = want /\ faults' = faults
    BY DEF IInv, FlagInv, ClearFlag
  <1>2. n = Size[want] /\ n \in 1..Area /\ want \in Firmware
    BY <1>1, SizesAssumption DEF IInv, TypeOK, FlagInv
  <1>3. ImageAt(want, 0)
    <2> SUFFICES ASSUME NEW p \in 0..Area - 1, p < Size[want]
                 PROVE  flash[p] = Page(want, p)
      BY SizesAssumption DEF ImageAt
    <2>1. flash[p] = flash[Area + p]
      BY <1>1, <1>2 DEF IInv, CopyInv, Done
    <2>2. flash[Area + p] = Page(want, p)
      BY <1>1 DEF IInv, FlagMeansImage, ImageAt
    <2> QED BY <2>1, <2>2
  <1>4. Startable' /\ ImageAt(want, 0)'
    BY <1>1, <1>2, <1>3, ImageStarts DEF Startable, ImageAt
  <1>5. TypeOK'
    BY <1>1, <1>2, LastSectorBound, SizesAssumption DEF IInv, TypeOK
  <1>6. FlagInv' /\ CopyInv' /\ StartInv' /\ FlagMeansImage' /\ UnstartableOnlyAtTheEnd'
    BY <1>1, <1>2, <1>4 DEF FlagInv, CopyInv, StartInv, FlagMeansImage, UnstartableOnlyAtTheEnd
  <1> QED BY <1>5, <1>6 DEF IInv

\* A sector of the new image is behind the running firmware.
LEMMA NewSectorApart ==
    ASSUME NEW k \in Nat, NEW p \in 0..Area - 1
    PROVE  ~InSector(p, Area + k * SectorPages)
  <1>1. k * SectorPages >= 0
    BY SizesAssumption
  <1>2. SectorStart(p) \in 0..p
    BY SectorBelow
  <1> QED BY <1>1, <1>2, SizesAssumption DEF InSector

\* A change of a sector of the new image.
LEMMA NewSectorChanges ==
    ASSUME IInv, pc = "clean", i >= 0, NEW c \in Content,
           flash' = [p \in Pages |-> IF InSector(p, Area + i * SectorPages) THEN c ELSE flash[p]]
    PROVE  /\ flash' \in [Pages -> Content]
           /\ Startable' /\ \E f \in Firmware : ImageAt(f, 0)'
  <1>1. flash' \in [Pages -> Content]
    BY DEF IInv, TypeOK
  <1>2. PICK k \in Nat : k = i
    BY DEF IInv, TypeOK
  <1>3. \A p \in 0..Area - 1 : p \in Pages /\ ~InSector(p, Area + i * SectorPages)
    BY <1>2, NewSectorApart, SizesAssumption DEF Pages
  <1>4. \A p \in 0..Area - 1 : flash'[p] = flash[p]
    BY <1>3
  <1> QED BY <1>1, <1>4, WithoutFlag DEF IInv, FlagInv

LEMMA EraseNewKeeps ==
    ASSUME IInv, EraseNew
    PROVE  IInv'
  <1>1. /\ pc = "clean" /\ pc' = "clean" /\ i >= 0 /\ i' = i - 1 /\ flag' = flag /\ ~flag'
        /\ n' = n /\ want' = want /\ faults' = faults
    BY DEF IInv, FlagInv, EraseNew
  <1>2. /\ flash' \in [Pages -> Content]
        /\ Startable' /\ \E f \in Firmware : ImageAt(f, 0)'
    <2>1. Blank \in Content
      BY DEF Content
    <2> QED BY <2>1, NewSectorChanges DEF EraseNew
  <1>3. TypeOK'
    BY <1>1, <1>2, SizesAssumption DEF IInv, TypeOK
  <1>4. FlagInv' /\ CopyInv' /\ StartInv' /\ FlagMeansImage' /\ UnstartableOnlyAtTheEnd'
    BY <1>1, <1>2 DEF FlagInv, CopyInv, StartInv, FlagMeansImage, UnstartableOnlyAtTheEnd
  <1> QED BY <1>3, <1>4 DEF IInv

LEMMA RebootKeeps ==
    ASSUME IInv, Reboot
    PROVE  IInv'
  <1>1. TypeOK' /\ CopyInv'
    BY DEF IInv, TypeOK, CopyInv, Reboot
  <1>2. FlagInv' /\ StartInv'
    BY FlashKept DEF IInv, FlagInv, StartInv, Reboot
  <1> QED BY <1>1, <1>2, FlashKept DEF IInv, Reboot

LEMMA PowerLossKeeps ==
    ASSUME IInv, PowerLoss
    PROVE  IInv'
  <1>1. /\ pc' = "off" /\ flag' = flag /\ n' = n /\ i' = i /\ want' = want
        /\ faults' \in 0..MaxFaults /\ Mixed \in Content
    BY SizesAssumption DEF IInv, TypeOK, PowerLoss, Content
  <1>2. SUFFICES /\ flash' \in [Pages -> Content]
                 /\ FlagMeansImage' /\ UnstartableOnlyAtTheEnd'
                 /\ ~flag => \E f \in Firmware : ImageAt(f, 0)'
    BY <1>1, <1>2 DEF IInv, TypeOK, FlagInv, CopyInv, StartInv
  <1>3. CASE UNCHANGED flash
    BY <1>1, <1>3, FlashKept DEF IInv, TypeOK, FlagInv
  <1>4. CASE /\ pc = "erase" /\ i < Limit /\ i % SectorPages = 0
             /\ flash' = [p \in Pages |-> IF InSector(p, i) THEN Mixed ELSE flash[p]]
    <2>1. /\ flash' \in [Pages -> Content]
          /\ \A p \in Pages : p >= Area => flash'[p] = flash[p]
          /\ i >= SectorPages => \A p \in 0..SectorPages - 1 : flash'[p] = flash[p]
          /\ i < SectorPages => \A p \in SectorPages..Area - 1 : flash'[p] = flash[p]
      BY <1>1, <1>4, SectorChanges
    <2> QED BY <1>1, <1>4, <2>1, CopyKeeps DEF IInv, FlagInv
  <1>5. CASE pc = "write" /\ flash' = [flash EXCEPT ![i] = Mixed]
    <2>1. i \in 0..Area - 1 /\ i \in Pages
      BY <1>5, IndexInFirmware DEF IInv, CopyInv
    <2>2. flash' \in [Pages -> Content] /\ \A p \in Pages : p # i => flash'[p] = flash[p]
      BY <1>1, <1>5, <2>1 DEF IInv, TypeOK
    <2>3. /\ \A p \in Pages : p >= Area => flash'[p] = flash[p]
          /\ i >= SectorPages => \A p \in 0..SectorPages - 1 : flash'[p] = flash[p]
          /\ i < SectorPages => \A p \in SectorPages..Area - 1 : flash'[p] = flash[p]
      BY <2>1, <2>2, SizesAssumption DEF Pages
    <2> QED BY <1>1, <1>5, <2>2, <2>3, CopyKeeps DEF IInv, FlagInv
  <1>6. CASE /\ pc = "clean" /\ i >= 0
             /\ flash' = [p \in Pages |->
                             IF InSector(p, Area + i * SectorPages) THEN Mixed ELSE flash[p]]
    <2>1. ~flag'
      BY <1>1, <1>6 DEF IInv, FlagInv
    <2>2. /\ flash' \in [Pages -> Content]
          /\ Startable' /\ \E f \in Firmware : ImageAt(f, 0)'
      BY <1>1, <1>6, NewSectorChanges
    <2> QED BY <2>1, <2>2 DEF FlagMeansImage, UnstartableOnlyAtTheEnd
  <1> QED BY <1>3, <1>4, <1>5, <1>6 DEF PowerLoss

----------------------------------------------------------------------------

\* The flag stands for a whole image, and the copy has done what its index says,
\* in every reachable state.
THEOREM Invariant == Spec => []IInv
  <1>1. Init => IInv
    <2> SUFFICES ASSUME Init PROVE IInv
      OBVIOUS
    <2>1. pc = "off" /\ flag = FALSE /\ n = 0 /\ i = 0 /\ want = First /\ faults = 0
      BY DEF Init
    <2>2. TypeOK
      <3>1. \A p \in Pages : Page(First, p) \in Content
        BY SizesAssumption DEF Page, Content
      <3>2. flash \in [Pages -> Content]
        BY <3>1 DEF Init, Content
      <3>3. flag \in BOOLEAN
        BY <2>1
      <3>4. n \in Nat \cup {-1} /\ i \in -1..Area /\ want \in Firmware /\ faults \in 0..MaxFaults
        BY <2>1, SizesAssumption
      <3> QED BY <2>1, <3>2, <3>3, <3>4 DEF TypeOK
    <2>3. ImageAt(First, 0)
      <3>1. \A p \in 0..Area - 1 : 0 + p = p /\ p \in Pages
        BY SizesAssumption DEF Pages
      <3> QED BY <3>1 DEF ImageAt, Init
    <2>4. Startable
      BY <2>3, ImageStarts, SizesAssumption
    <2> QED BY <2>1, <2>2, <2>3, <2>4, SizesAssumption
         DEF IInv, FlagInv, CopyInv, StartInv, FlagMeansImage, UnstartableOnlyAtTheEnd
  <1>2. IInv /\ [Next]_vars => IInv'
    <2> SUFFICES ASSUME IInv, [Next]_vars PROVE IInv'
      OBVIOUS
    <2>1. CASE Boot
      BY <2>1, StartupKeeps, ReadHeaderKeeps, FirstLoopEndKeeps, EraseSectorKeeps,
         WritePageKeeps, ClearFlagKeeps, EraseNewKeeps, RebootKeeps DEF Boot
    <2>2. CASE ClearNewFwDataArea
      BY <2>2, ClearNewFwDataAreaKeeps
    <2>3. CASE \E f \in Firmware : Download(f)
      BY <2>3, DownloadKeeps
    <2>4. CASE \E f \in Firmware, k \in 1..Area - 1 : DownloadPart(f, k)
      BY <2>4, DownloadPartKeeps
    <2>5. CASE WriteFails
      BY <2>5, WriteFailsKeeps
    <2>6. CASE PowerLoss
      BY <2>6, PowerLossKeeps
    <2>7. CASE UNCHANGED vars
      <3>1. UNCHANGED <<pc, flash, flag, n, i, want, faults>>
        BY <2>7 DEF vars
      <3>2. TypeOK' /\ CopyInv'
        BY <3>1 DEF IInv, TypeOK, CopyInv, Done, Limit
      <3>3. FlagInv' /\ StartInv'
        BY <3>1, FlashKept DEF IInv, FlagInv, StartInv
      <3> QED BY <3>1, <3>2, <3>3, FlashKept DEF IInv
    <2> QED BY <2>1, <2>2, <2>3, <2>4, <2>5, <2>6, <2>7 DEF Next
  <1> QED BY <1>1, <1>2, PTL DEF Spec

\* The variables keep their types for all sizes.
THEOREM TypeCorrect == Spec => []TypeOK
  BY Invariant, PTL DEF IInv

\* The application never runs from a mixture of two images, and the flag always
\* stands for a whole one (main.c:100-170), however often power is lost.
THEOREM WholeImage == Spec => []WholeImageRuns
  <1>1. IInv => WholeImageRuns
    BY DEF IInv, FlagInv, WholeImageRuns
  <1> QED BY <1>1, Invariant, PTL

\* Only the rewrite of the first sector, which comes last, can leave a chip that
\* does not start (main.c:110-160).
THEOREM UnstartableOnly == Spec => []UnstartableOnlyAtTheEnd
  BY Invariant, PTL DEF IInv
=============================================================================
