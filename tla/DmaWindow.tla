----------------------------- MODULE DmaWindow ------------------------------
(***************************************************************************)
(* The memory the host shares with a DSP.  After init_module() has set the *)
(* BARs up (PCI_setInBound), bootLoader() allocates the zone,              *)
(* finds its register table in it and lets the DSP reach it at PCIE_DATA   *)
(* (dspMemoryMap); LinkLayer_Open() lays the two buffers out behind the    *)
(* table and DPU_mmap() gives a process the same pages.                    *)
(*                                                                         *)
(* Addresses and lengths count pages of 4096 bytes: 32 bits of address are *)
(* 2^20 pages, 1 MB is 256.  Addresses of the bus and of the PCIe          *)
(* registers have 32 bits; those of the host have as many as the host, and *)
(* bootLoader() cuts them to 32 on its way to the register table.          *)
(***************************************************************************)
EXTENDS PciRegs

CONSTANTS
  PageOffsets, \* where the kernel of a host may map physical page 0
  Zones,       \* for each, the physical addresses dma_alloc_coherent() may return
  ImageLength  \* pages of the longest image bootLoader() copies into the zone

AddressPages == 1048576
Megabyte     == 256
NULL         == 0
Nowhere      == -1        \* no page, or none below 4 GB

(* Fault: the receive buffer is as long as if only the table came before it. *)
RDBUFLENGTHLong == 1022

DMA_TRANSFER_SIZE == 1024
REG_LEN           == 2
WTBUFLENGTH       == 2
RDBUFLENGTH       == 1020
TableLength       == 2    \* sizeof(LinkLayerRegisterTable)

(* The kernel aligns a consistent allocation to its size and takes it from memory
   that a device with 32 bits of address reaches.  A host of 32 bits has mapped that
   memory below 4 GB; one of 64 bits maps all memory above 4 GB. *)
ASSUME ZoneAssumption ==
  \A p \in PageOffsets :
    /\ p \in Nat \ {0}
    /\ \A z \in Zones[p] :
         /\ z \in Nat /\ z % DMA_TRANSFER_SIZE = 0
         /\ z + DMA_TRANSFER_SIZE <= AddressPages
         /\ p < AddressPages => p + z + DMA_TRANSFER_SIZE <= AddressPages

ASSUME ImageAssumption == ImageLength \in 1 .. DMA_TRANSFER_SIZE - REG_LEN

Zone == 0 .. DMA_TRANSFER_SIZE - 1

VARIABLES
  pageOffset,       \* what kind of host this is
  mapPc,            \* where bootLoader() is
  DMAVirAddr,       \* the zone, as the host addresses it, or NULL
  DMAPhyAddr,       \* the zone, as the bus does
  gpRegisterTable   \* the register table

zoneVars == <<DMAVirAddr, DMAPhyAddr, gpRegisterTable>>
dmaVars  == <<pageOffset, mapPc, zoneVars, regVars>>

DmaInit ==
  /\ pageOffset \in PageOffsets
  /\ mapPc = "inbound" /\ DMAVirAddr = NULL /\ DMAPhyAddr = 0
  /\ gpRegisterTable = NULL
  /\ RegsInit

-----------------------------------------------------------------------------
(* PCI_setInBound(), before bootLoader() is called. *)
SetInBound ==
  /\ mapPc = "inbound"
  /\ \/ SetRegion /\ UNCHANGED mapPc
     \/ SetOffsets /\ mapPc' = "alloc"
  /\ UNCHANGED <<pageOffset, zoneVars>>

(* The allocation may fail, which bootLoader() does not look at. *)
AllocZone ==
  /\ mapPc = "alloc"
  /\ \/ \E z \in Zones[pageOffset] : DMAPhyAddr' = z /\ DMAVirAddr' = z + pageOffset
     \/ UNCHANGED <<DMAPhyAddr, DMAVirAddr>>
  /\ mapPc' = "table"
  /\ UNCHANGED <<pageOffset, gpRegisterTable, regVars>>

(* addr & 0xfff00000 and the like: the multiple of pages at or below addr. *)
AlignDown(addr, pages) == addr - (addr % pages)

alignPhyAddr == AlignDown(DMAPhyAddr, Megabyte)

memOffset == (alignPhyAddr - DMAPhyAddr) % AddressPages

(* addrMap2DSPPCIE is a uint32_t, whatever the width of the pointer it is made from. *)
SetTable ==
  /\ mapPc = "table"
  /\ gpRegisterTable' = (DMAVirAddr + memOffset) % AddressPages
  /\ mapPc' = "map"
  /\ UNCHANGED <<pageOffset, DMAVirAddr, DMAPhyAddr, regVars>>

(* Fault: sizes on a boundary get the next window. *)
ObSizeStrict(size) ==
  IF size < 256 THEN 0
  ELSE IF size < 512 THEN 1 ELSE IF size < 1024 THEN 2 ELSE IF size < 2048 THEN 3 ELSE -1

(* dspMemoryMap(): the smallest window for size, -1 if there is none; ... *)
ObSize(size) ==
  IF size <= 256 THEN 0
  ELSE IF size <= 512 THEN 1 ELSE IF size <= 1024 THEN 2 ELSE IF size <= 2048 THEN 3 ELSE -1

WindowPages(ob) == IF ob = 0 THEN 256 ELSE IF ob = 1 THEN 512 ELSE IF ob = 2 THEN 1024 ELSE 2048

(* ... it is put over pcAddr, aligned to its own size. *)
MapTo(pcAddr, size) ==
  IF ObSize(size) = -1 THEN UNCHANGED regs
  ELSE SetWindow(ObSize(size), AlignDown(pcAddr, WindowPages(ObSize(size))))

MapWindow ==
  /\ mapPc = "map"
  /\ MapTo(alignPhyAddr, DMA_TRANSFER_SIZE)
  /\ mapPc' = "mapped"
  /\ UNCHANGED <<pageOffset, zoneVars, region>>

DmaNext == SetInBound \/ AllocZone \/ SetTable \/ MapWindow

-----------------------------------------------------------------------------
(* Who reaches what. *)

(* The page the DSP reaches k pages after PCIE_DATA: the regions divide what lies
   there among them, and each leads to a multiple of their size. *)
RegionPages == WindowPages(regs[OB_SIZE].low)

DspReaches(k) ==
  LET n == k \div RegionPages
  IN  IF n \in ObIndex /\ IsOpen(n)
      THEN AlignDown(regs[OB_OFFSET_INDEX(n)].page, RegionPages) + (k % RegionPages)
      ELSE Nowhere

(* The page the kernel reaches k pages after the start of the register table; below
   pageOffset it has mapped none. *)
HostReaches(k) ==
  IF gpRegisterTable + k >= pageOffset THEN gpRegisterTable + k - pageOffset ELSE Nowhere

(* The page DPU_mmap() puts k pages after the start of a process's mapping.  It cuts
   what virt_to_phys() returns to 32 bits, too. *)
MmapReaches(k) == ((gpRegisterTable - pageOffset) % AddressPages) + k

(* The buffers of LinkLayer_Open(). *)
pOutBuffer == gpRegisterTable + TableLength
pInBuffer  == pOutBuffer + WTBUFLENGTH

(* Where bootLoader() copies the images. *)
pPutDSPImgZone == gpRegisterTable + REG_LEN

Registers == gpRegisterTable .. gpRegisterTable + TableLength - 1
OutBuffer == pOutBuffer .. pOutBuffer + WTBUFLENGTH - 1
ImageZone == pPutDSPImgZone .. pPutDSPImgZone + ImageLength - 1
InBuffer  == pInBuffer .. pInBuffer + RDBUFLENGTH - 1
=============================================================================
