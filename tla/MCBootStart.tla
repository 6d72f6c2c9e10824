---------------------------- MODULE MCBootStart -----------------------------
(* An instance of BootStart for TLC.  A host of 32 bits, with 1 GB for the kernel
   and the zone not at a multiple of 8 MB, and one of 64 bits, with the zone right
   below 3 GB; the image bootLoader() uploads, one whose sections
   meet every case of uploadProgram(), and an empty one. *)
EXTENDS BootStart, DspImages

(* A word more than a block in MSMC, less than a word right behind it, whole
   blocks and a block and a word in DDR, L2 by its global and by its local
   address. *)
Scattered ==
  <<Section(MSMC_START, 258), Section(MSMC_START + 65, 1),
    Section(DDR_START, 512), Section(DDR_START + 128, 260),
    Section(GlobalL2 + 100, 40), Section(LL2_START + 110, 256)>>

(* A constant of its own, so that TLC computes it once. *)
Images ==
  <<Encoded(InitEntry, InitImage), Encoded(DDR_START, Scattered), Encoded(LL2_START, <<>>)>>

MCPrograms == Images

(* 66 GB stand for the offset of a host of 64 bits, which TLC's integers cannot hold;
   its lower 32 bits are not 0, as where the kernel chooses them at random. *)
Offset32 == 786432
Offset64 == 16 * AddressPages + 524288

MCPageOffsets == {Offset32, Offset64}
MCZones       == [p \in MCPageOffsets |-> IF p = Offset32 THEN {1024} ELSE {785408}]

(* BARs where a host of 32 bits has room for them, and registers after a reset, or
   as a host of 64 bits left them: its inbound windows and outbound region 0 lie
   above 4 GB, the other outbound regions lead to some of its memory below. *)
MCBarStart == [i \in BarIndex |-> 1015808 + 4096 * i]
Above4GB   == {IB_START_HI(i) : i \in BarIndex} \cup {OB_OFFSET_HI(0)}
MCLeftovers ==
  {[r \in AppRegisters |-> Value(0, 0)],
   [r \in AppRegisters |-> IF r \in Above4GB THEN Value(0, 1) ELSE Value(8192, 1)]}

(* The application image: its words, four bytes each, in pages. *)
DPUCoreLength == 4 * Len(Encoded(AppEntry, AppImage).image)
MCImageLength == (DPUCoreLength + 4095) \div 4096
=============================================================================
