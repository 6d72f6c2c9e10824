------------------------------ MODULE PciRegs -------------------------------
(***************************************************************************)
(* The PCIe application registers of a DSP, behind BAR 0: what             *)
(* PCI_setInBound() of src/src/pcie.c and dspMemoryMap() of                *)
(* src/src/bootLoader.c make of them, whatever an earlier load or another  *)
(* program left there.  Nothing resets them: cleanup_module() is empty.    *)
(***************************************************************************)
EXTENDS DspMemory

CONSTANTS
  BarStart,  \* pPcieDev->resource[i].start of BAR 0 to 3, in pages
  Leftovers  \* what the registers may hold before insmod

(* Offsets, in bytes. *)
OB_SIZE            == 48
OB_OFFSET_INDEX(n) == 512 + 8 * n
OB_OFFSET_HI(n)    == 516 + 8 * n
IB_BAR(n)          == 768 + 16 * n
IB_START_LO(n)     == 772 + 16 * n
IB_START_HI(n)     == 776 + 16 * n
IB_OFFSET(n)       == 780 + 16 * n

BarIndex == 0 .. 3
ObIndex  == 0 .. 31    \* the outbound regions of a C6678

AppRegisters ==
  {OB_SIZE} \cup {OB_OFFSET_INDEX(n) : n \in ObIndex} \cup {OB_OFFSET_HI(n) : n \in ObIndex} \cup
  {IB_BAR(i) : i \in BarIndex} \cup {IB_START_LO(i) : i \in BarIndex} \cup
  {IB_START_HI(i) : i \in BarIndex} \cup {IB_OFFSET(i) : i \in BarIndex}

(* 32 bits: a page number and the 12 bits below. *)
Value(page, low) == [page |-> page, low |-> low]
Values == [page : Nat, low : Nat]

(* The BARs are where 32 bits reach them: IB_START_HI is set to 0. *)
ASSUME RegsAssumption ==
  /\ BarStart \in [BarIndex -> Nat] /\ \A b \in BarIndex : BarStart[b] < 1048576
  /\ Leftovers \subseteq [AppRegisters -> Values]

VARIABLES
  regs,   \* the registers
  region  \* inbound regions that are set; 5 when their offsets are, too

regVars == <<regs, region>>

RegsInit == regs \in Leftovers /\ region = 0

-----------------------------------------------------------------------------
(* Fault: the upper half of the start address is left as it was. *)
SetRegionLow ==
  /\ region < 4
  /\ regs' = [regs EXCEPT ![IB_BAR(region)]      = Value(0, region),
                          ![IB_START_LO(region)] = Value(BarStart[region], 0)]
  /\ region' = region + 1

(* One turn of the loop of PCI_setInBound: region i takes what comes by BAR i. *)
SetRegion ==
  /\ region < 4
  /\ regs' = [regs EXCEPT ![IB_BAR(region)]      = Value(0, region),
                          ![IB_START_LO(region)] = Value(BarStart[region], 0),
                          ![IB_START_HI(region)] = Value(0, 0)]
  /\ region' = region + 1

(* What follows it: where each region leads. *)
SetOffsets ==
  /\ region = 4
  /\ regs' = [regs EXCEPT ![IB_OFFSET(0)] = Value(Page(PCIE_BASE_ADDRESS), 0),
                          ![IB_OFFSET(1)] = Value(Page(GlobalL2), 0),
                          ![IB_OFFSET(2)] = Value(Page(MSMC_START), 0),
                          ![IB_OFFSET(3)] = Value(Page(DDR_START), 0)]
  /\ region' = 5

(* The size of every outbound region; where region 0 leads, and that it is enabled.
   Nothing stores into the registers of the others. *)
SetWindow(ob, base) ==
  regs' = [regs EXCEPT ![OB_SIZE]            = Value(0, ob),
                       ![OB_OFFSET_INDEX(0)] = Value(base, 1),
                       ![OB_OFFSET_HI(0)]    = Value(0, 0)]

-----------------------------------------------------------------------------
(* The translation (external).  Page k of BAR b, by way of region i: *)

Start(i) == regs[IB_START_LO(i)].page

RegionTakes(i, b, k) ==
  /\ regs[IB_BAR(i)] = Value(0, b)
  /\ regs[IB_START_HI(i)] = Value(0, 0)
  /\ Start(i) <= BarStart[b] + k

InboundPages(b, k) ==
  {regs[IB_OFFSET(i)].page + BarStart[b] + k - Start(i) :
     i \in {j \in BarIndex : RegionTakes(j, b, k)}}

(* Outbound region n: enabled, and below 4 GB. *)
IsOpen(n) ==
  regs[OB_OFFSET_INDEX(n)].low % 2 = 1 /\ regs[OB_OFFSET_HI(n)] = Value(0, 0)
=============================================================================
