--------------------------- MODULE BootStartProofs ----------------------------
(***************************************************************************)
(* Proofs about BootStart: for hosts of 32 and of 64 bits, every place     *)
(* their kernels may give the zone, every set of images that follow the format and are linked into the      *)
(* memories the BARs lead to, and every length of an image that fits.      *)
(***************************************************************************)
EXTENDS BootStart, UploadProofs

(* What bootLoader() has set up at each point.  The zone is NULL, or where the kernel
   of this host may allocate it, and the table is at the lower 32 bits of its address. *)
ZoneIs(z) == z \in Zones[pageOffset] /\ DMAPhyAddr = z /\ DMAVirAddr = z + pageOffset

DmaInv ==
  /\ pageOffset \in PageOffsets
  /\ mapPc \in {"inbound", "alloc", "table", "map", "mapped"}
  /\ \/ DMAPhyAddr = 0 /\ DMAVirAddr = NULL
     \/ \E z \in Zones[pageOffset] : ZoneIs(z)
  /\ mapPc \in {"inbound", "alloc", "table"} => gpRegisterTable = NULL
  /\ mapPc \in {"map", "mapped"} => gpRegisterTable = DMAVirAddr % AddressPages

(* And which registers, whatever they held before. *)
RegionIsSet(i) ==
  /\ regs[IB_BAR(i)] = Value(0, i)
  /\ regs[IB_START_LO(i)] = Value(BarStart[i], 0)
  /\ regs[IB_START_HI(i)] = Value(0, 0)

OffsetsAreSet ==
  /\ regs[IB_OFFSET(0)] = Value(Page(PCIE_BASE_ADDRESS), 0)
  /\ regs[IB_OFFSET(1)] = Value(Page(GlobalL2), 0)
  /\ regs[IB_OFFSET(2)] = Value(Page(MSMC_START), 0)
  /\ regs[IB_OFFSET(3)] = Value(Page(DDR_START), 0)

WindowIsSet ==
  /\ regs[OB_SIZE] = Value(0, 2)
  /\ regs[OB_OFFSET_INDEX(0)] = Value(DMAPhyAddr, 1)
  /\ regs[OB_OFFSET_HI(0)] = Value(0, 0)

RegsInv ==
  /\ regs \in [AppRegisters -> Values]
  /\ region \in 0 .. 5
  /\ mapPc = "inbound" <=> region # 5
  /\ \A i \in BarIndex : i < region => RegionIsSet(i)
  /\ region = 5 => OffsetsAreSet
  /\ mapPc = "mapped" => WindowIsSet

(* Nothing is uploaded before the window is there. *)
Inv ==
  /\ DmaInv
  /\ RegsInv
  /\ UploadInv
  /\ mapPc # "mapped" => pc = "entry"

LEMMA InRange == \A n, m \in Nat : n < m => n \in 0 .. m - 1
OBVIOUS

(* What the allocator's alignment means for the code's own. *)
LEMMA Aligned ==
  ASSUME DmaInv
  PROVE  /\ alignPhyAddr = DMAPhyAddr /\ memOffset = 0
         /\ (DMAVirAddr + memOffset) % AddressPages = DMAVirAddr % AddressPages
         /\ AlignDown(alignPhyAddr, WindowPages(2)) = DMAPhyAddr
         /\ AlignDown(DMAPhyAddr, 1024) = DMAPhyAddr
         /\ DMAPhyAddr \in Nat /\ DMAVirAddr \in Nat
         /\ DMAVirAddr % AddressPages \in 0 .. AddressPages - 1
<1>1. /\ DMAPhyAddr \in Nat /\ DMAPhyAddr % 1024 = 0 /\ DMAVirAddr \in Nat
  <2>1. CASE DMAPhyAddr = 0 /\ DMAVirAddr = NULL
    BY <2>1 DEF NULL
  <2>2. CASE \E z \in Zones[pageOffset] : ZoneIs(z)
    <3>1. PICK z \in Zones[pageOffset] : DMAPhyAddr = z /\ DMAVirAddr = z + pageOffset
      BY <2>2 DEF ZoneIs
    <3>2. z \in Nat /\ z % DMA_TRANSFER_SIZE = 0 /\ pageOffset \in Nat
      BY ZoneAssumption DEF DmaInv
    <3>3. QED
      BY <3>1, <3>2 DEF DMA_TRANSFER_SIZE
  <2>3. QED
    BY <2>1, <2>2 DEF DmaInv
<1>2. DMAPhyAddr % 256 = 0
  BY <1>1
<1>3. alignPhyAddr = DMAPhyAddr
  BY <1>1, <1>2 DEF alignPhyAddr, AlignDown, Megabyte
<1>4. memOffset = 0
  BY <1>1, <1>3 DEF memOffset, AddressPages
<1>5. (DMAVirAddr + memOffset) % AddressPages = DMAVirAddr % AddressPages
  BY <1>1, <1>4
<1>6. /\ AlignDown(alignPhyAddr, WindowPages(2)) = DMAPhyAddr
      /\ AlignDown(DMAPhyAddr, 1024) = DMAPhyAddr
  BY <1>1, <1>3 DEF AlignDown, WindowPages
<1>7. DMAVirAddr % AddressPages \in 0 .. AddressPages - 1
  <2>1. /\ AddressPages \in Nat /\ DMAVirAddr % AddressPages \in Nat
        /\ DMAVirAddr % AddressPages < AddressPages
    BY <1>1, SMT DEF AddressPages
  <2>2. QED
    BY <2>1, InRange
<1>8. QED
  BY <1>1, <1>3, <1>4, <1>5, <1>6, <1>7

LEMMA WindowForZone == ObSize(DMA_TRANSFER_SIZE) = 2
BY DEF ObSize, DMA_TRANSFER_SIZE

LEMMA InitInv == Init => Inv
<1> SUFFICES ASSUME Init PROVE Inv
  OBVIOUS
<1>1. DmaInv
  BY DEF Init, DmaInit, DmaInv
<1>2. RegsInv
  BY RegsAssumption DEF Init, DmaInit, RegsInit, RegsInv, BarIndex
<1>3. UploadInv /\ pc = "entry"
  BY UploadInitInv DEF Init, UploadInit
<1>4. QED
  BY <1>1, <1>2, <1>3 DEF Inv

LEMMA DmaStep == DmaInv /\ DmaNext => DmaInv'
<1> SUFFICES ASSUME DmaInv, DmaNext PROVE DmaInv'
  OBVIOUS
<1>1. CASE SetInBound
  BY <1>1 DEF SetInBound, zoneVars, DmaInv, ZoneIs
<1>2. CASE AllocZone
  <2>1. mapPc = "alloc" /\ mapPc' = "table" /\ UNCHANGED <<pageOffset, gpRegisterTable>>
    BY <1>2 DEF AllocZone
  <2>2. \/ UNCHANGED <<DMAPhyAddr, DMAVirAddr>>
        \/ \E z \in Zones[pageOffset] : DMAPhyAddr' = z /\ DMAVirAddr' = z + pageOffset
    BY <1>2 DEF AllocZone
  <2>3. (DMAPhyAddr = 0 /\ DMAVirAddr = NULL)' \/ (\E z \in Zones[pageOffset] : ZoneIs(z))'
    BY <2>1, <2>2 DEF DmaInv, ZoneIs
  <2>4. QED
    BY <2>1, <2>3 DEF DmaInv
<1>3. CASE SetTable
  <2>1. gpRegisterTable' = DMAVirAddr % AddressPages
    BY <1>3, Aligned DEF SetTable
  <2>2. QED
    BY <1>3, <2>1 DEF SetTable, DmaInv, ZoneIs
<1>4. CASE MapWindow
  BY <1>4 DEF MapWindow, zoneVars, DmaInv, ZoneIs
<1>5. QED
  BY <1>1, <1>2, <1>3, <1>4 DEF DmaNext

(* No register has the offset of another. *)
LEMMA RegionRegisters ==
  ASSUME NEW i \in BarIndex
  PROVE  /\ {IB_BAR(i), IB_START_LO(i), IB_START_HI(i), IB_OFFSET(i)} \subseteq AppRegisters
         /\ IB_BAR(i) # IB_START_LO(i) /\ IB_BAR(i) # IB_START_HI(i)
         /\ IB_START_LO(i) # IB_START_HI(i)
         /\ \A j \in BarIndex \ {i} :
              {IB_BAR(i), IB_START_LO(i), IB_START_HI(i)} \cap
              {IB_BAR(j), IB_START_LO(j), IB_START_HI(j)} = {}
         /\ \A j \in BarIndex :
              IB_OFFSET(j) \notin {IB_BAR(i), IB_START_LO(i), IB_START_HI(i)}
BY DEF AppRegisters, BarIndex, IB_BAR, IB_START_LO, IB_START_HI, IB_OFFSET

LEMMA WindowRegisters ==
  /\ OB_SIZE \in AppRegisters /\ OB_OFFSET_INDEX(0) \in AppRegisters
  /\ OB_OFFSET_HI(0) \in AppRegisters
  /\ OB_SIZE # OB_OFFSET_INDEX(0) /\ OB_SIZE # OB_OFFSET_HI(0)
  /\ OB_OFFSET_INDEX(0) # OB_OFFSET_HI(0)
  /\ \A i \in BarIndex :
       {OB_SIZE, OB_OFFSET_INDEX(0), OB_OFFSET_HI(0)} \cap
       {IB_BAR(i), IB_START_LO(i), IB_START_HI(i), IB_OFFSET(i)} = {}
BY DEF AppRegisters, BarIndex, ObIndex, OB_SIZE, OB_OFFSET_INDEX, OB_OFFSET_HI,
   IB_BAR, IB_START_LO, IB_START_HI, IB_OFFSET

LEMMA IsValue == \A page, low \in Nat : Value(page, low) \in Values
BY DEF Value, Values

LEMMA RegionStep ==
  ASSUME RegsInv, mapPc = "inbound", SetRegion, mapPc' = mapPc
  PROVE  RegsInv'
<1>1. region \in BarIndex /\ region' = region + 1 /\ region' \in 0 .. 4
  BY DEF RegsInv, SetRegion, BarIndex
<1>2. BarStart[region] \in Nat
  BY <1>1, RegsAssumption
<1>3. region \in Nat
  BY <1>1 DEF BarIndex
<1>4. regs' \in [AppRegisters -> Values]
  BY <1>2, <1>3, IsValue DEF SetRegion, RegsInv
<1>5. \A i \in BarIndex : i < region' => RegionIsSet(i)'
  <2>1. /\ regs'[IB_BAR(region)] = Value(0, region)
        /\ regs'[IB_START_LO(region)] = Value(BarStart[region], 0)
        /\ regs'[IB_START_HI(region)] = Value(0, 0)
    BY <1>1, RegionRegisters DEF SetRegion, RegsInv
  <2>2. \A i \in BarIndex : i < region + 1 => i = region \/ i < region
    BY <1>1 DEF BarIndex
  <2>3. ASSUME NEW i \in BarIndex, i < region' PROVE RegionIsSet(i)'
    <3>1. CASE i = region
      BY <2>1, <3>1 DEF RegionIsSet
    <3>2. CASE i # region
      <4>1. RegionIsSet(i)
        BY <1>1, <2>2, <2>3, <3>2 DEF RegsInv
      <4>2. /\ regs'[IB_BAR(i)] = regs[IB_BAR(i)]
            /\ regs'[IB_START_LO(i)] = regs[IB_START_LO(i)]
            /\ regs'[IB_START_HI(i)] = regs[IB_START_HI(i)]
        BY <1>1, <3>2, RegionRegisters DEF SetRegion, RegsInv
      <4>3. QED
        BY <4>1, <4>2 DEF RegionIsSet
    <3>3. QED
      BY <3>1, <3>2
  <2>4. QED
    BY <2>3
<1>6. QED
  BY <1>1, <1>4, <1>5 DEF RegsInv

LEMMA OffsetsStep ==
  ASSUME RegsInv, SetOffsets, mapPc' = "alloc"
  PROVE  RegsInv'
<1>1. /\ Page(PCIE_BASE_ADDRESS) \in Nat /\ Page(GlobalL2) \in Nat
      /\ Page(MSMC_START) \in Nat /\ Page(DDR_START) \in Nat
  BY DEF Page, PCIE_BASE_ADDRESS, GlobalL2, LL2_START, MSMC_START, DDR_START
<1>2. regs' \in [AppRegisters -> Values]
  BY <1>1, IsValue DEF SetOffsets, RegsInv
<1>3. {IB_OFFSET(0), IB_OFFSET(1), IB_OFFSET(2), IB_OFFSET(3)} \subseteq AppRegisters
  BY RegionRegisters DEF BarIndex
<1>4. /\ IB_OFFSET(0) # IB_OFFSET(1) /\ IB_OFFSET(0) # IB_OFFSET(2) /\ IB_OFFSET(0) # IB_OFFSET(3)
      /\ IB_OFFSET(1) # IB_OFFSET(2) /\ IB_OFFSET(1) # IB_OFFSET(3)
      /\ IB_OFFSET(2) # IB_OFFSET(3)
  BY DEF IB_OFFSET
<1>5. OffsetsAreSet'
  BY <1>2, <1>3, <1>4 DEF OffsetsAreSet, SetOffsets, RegsInv
<1>6. ASSUME NEW i \in BarIndex PROVE RegionIsSet(i)'
  <2>1. RegionIsSet(i)
    BY <1>6 DEF RegsInv, SetOffsets, BarIndex
  <2>2. /\ regs'[IB_BAR(i)] = regs[IB_BAR(i)]
        /\ regs'[IB_START_LO(i)] = regs[IB_START_LO(i)]
        /\ regs'[IB_START_HI(i)] = regs[IB_START_HI(i)]
    BY <1>3, RegionRegisters DEF SetOffsets, RegsInv, BarIndex
  <2>3. QED
    BY <2>1, <2>2 DEF RegionIsSet
<1>7. region' = 5
  BY DEF SetOffsets
<1>8. QED
  BY <1>2, <1>5, <1>6, <1>7 DEF RegsInv

LEMMA WindowStep == DmaInv /\ RegsInv /\ MapWindow => RegsInv'
<1> SUFFICES ASSUME DmaInv, RegsInv, MapWindow PROVE RegsInv'
  OBVIOUS
<1>1. SetWindow(2, DMAPhyAddr) /\ DMAPhyAddr \in Nat
  BY Aligned, WindowForZone DEF MapWindow, MapTo
<1>2. regs' \in [AppRegisters -> Values]
  BY <1>1, IsValue DEF SetWindow, RegsInv
<1>3. WindowIsSet'
  BY <1>1, WindowRegisters DEF SetWindow, WindowIsSet, RegsInv, MapWindow, zoneVars
<1>4. ASSUME NEW i \in BarIndex
      PROVE  /\ RegionIsSet(i) => RegionIsSet(i)'
             /\ regs'[IB_OFFSET(i)] = regs[IB_OFFSET(i)]
  BY <1>1, RegionRegisters, WindowRegisters DEF SetWindow, RegionIsSet, RegsInv
<1>5. mapPc = "map" /\ mapPc' = "mapped" /\ region = 5 /\ region' = region
  BY DEF MapWindow, RegsInv
<1>6. OffsetsAreSet'
  BY <1>4, <1>5 DEF OffsetsAreSet, RegsInv, BarIndex
<1>7. QED
  BY <1>2, <1>3, <1>4, <1>5, <1>6 DEF RegsInv

LEMMA RegsStep == DmaInv /\ RegsInv /\ DmaNext => RegsInv'
<1> SUFFICES ASSUME DmaInv, RegsInv, DmaNext PROVE RegsInv'
  OBVIOUS
<1>1. CASE SetInBound
  BY <1>1, RegionStep, OffsetsStep DEF SetInBound
<1>2. CASE AllocZone \/ SetTable
  <2>1. UNCHANGED regVars /\ mapPc # "inbound" /\ mapPc' \in {"table", "map"}
    BY <1>2 DEF AllocZone, SetTable
  <2>2. QED
    BY <2>1 DEF regVars, RegsInv, RegionIsSet, OffsetsAreSet
<1>3. CASE MapWindow
  BY <1>3, WindowStep
<1>4. QED
  BY <1>1, <1>2, <1>3 DEF DmaNext

LEMMA StepInv == Inv /\ [Next]_vars => Inv'
<1> SUFFICES ASSUME Inv, [Next]_vars PROVE Inv'
  OBVIOUS
<1>1. CASE Map
  <2>1. DmaInv' /\ RegsInv' /\ UNCHANGED uploadVars
    BY <1>1, DmaStep, RegsStep DEF Map, Inv
  <2>2. mapPc # "mapped"
    BY <1>1 DEF Map, DmaNext, SetInBound, AllocZone, SetTable, MapWindow
  <2>3. UploadInv'
    BY <2>1, UploadStutter DEF Inv
  <2>4. pc' = pc /\ pc = "entry"
    BY <2>1, <2>2 DEF uploadVars, Inv
  <2>5. QED
    BY <2>1, <2>3, <2>4 DEF Inv
<1>2. CASE UploadMapped \/ Rom \/ UNCHANGED vars
  <2>1. UNCHANGED dmaVars /\ [UploadNext]_uploadVars
    BY <1>2 DEF UploadMapped, Rom, UploadNext, vars
  <2>2. DmaInv'
    BY <2>1 DEF dmaVars, zoneVars, Inv, DmaInv, ZoneIs
  <2>3. RegsInv'
    BY <2>1 DEF dmaVars, zoneVars, regVars, Inv, RegsInv, RegionIsSet, OffsetsAreSet, WindowIsSet
  <2>4. UploadInv'
    BY <2>1, UploadStep DEF Inv
  <2>5. mapPc' # "mapped" => pc' = "entry"
    BY <1>2 DEF UploadMapped, Rom, RomStarts, dmaVars, uploadVars, vars, Inv
  <2>6. QED
    BY <2>2, <2>3, <2>4, <2>5 DEF Inv
<1>3. QED
  BY <1>1, <1>2 DEF Next, Boot

LEMMA Invariance == Spec => []Inv
BY InitInv, StepInv, PTL DEF Spec

-----------------------------------------------------------------------------
(* The upload. *)

(* Every variable of the zone, the window and the upload keeps its type. *)
THEOREM TypeCorrect == Spec => []TypeOK
<1>1. Inv => TypeOK
  <2> SUFFICES ASSUME Inv PROVE TypeOK
    OBVIOUS
  <2>1. pageOffset \in PageOffsets /\ DMAPhyAddr \in Zones[pageOffset] \cup {0}
    BY DEF Inv, DmaInv, ZoneIs
  <2>2. DMAVirAddr \in {z + pageOffset : z \in Zones[pageOffset]} \cup {NULL}
    BY DEF Inv, DmaInv, ZoneIs
  <2>3. gpRegisterTable \in 0 .. AddressPages - 1
    <3>1. gpRegisterTable = NULL \/ gpRegisterTable = DMAVirAddr % AddressPages
      BY DEF Inv, DmaInv
    <3>2. DMAVirAddr % AddressPages \in 0 .. AddressPages - 1 /\ NULL \in 0 .. AddressPages - 1
      <4>1. DMAVirAddr % AddressPages \in 0 .. AddressPages - 1
        BY Aligned DEF Inv
      <4>2. NULL \in Nat /\ AddressPages \in Nat /\ NULL < AddressPages
        BY DEF NULL, AddressPages
      <4>3. QED
        BY <4>1, <4>2, InRange
    <3>3. QED
      BY <3>1, <3>2
  <2>4. regs \in [AppRegisters -> Values] /\ region \in 0 .. 5
    BY DEF Inv, RegsInv
  <2>5. QED
    BY <2>1, <2>2, <2>3, <2>4 DEF TypeOK, Inv, DmaInv, UploadInv
<1>2. QED
  BY <1>1, Invariance, PTL

(* When the DSP jumps, it jumps to the entry point of an image of which every
   word is where it was linked to be: MAGIC_ADDR is written last. *)
THEOREM ProgramWholeHolds == Spec => []ProgramWhole
<1>1. Inv => ProgramWhole
  BY InvWhole DEF Inv
<1>2. QED
  BY <1>1, Invariance, PTL

(* The blocks and remainders of uploadProgram() touch the sections and the word
   at MAGIC_ADDR only. *)
THEOREM NothingElseWrittenHolds == Spec => []NothingElseWritten
<1>1. Inv => NothingElseWritten
  BY DEF Inv, UploadInv
<1>2. QED
  BY <1>1, Invariance, PTL

(* uploadProgram() reads the image to its last word and not beyond. *)
THEOREM ImageConsumedHolds == Spec => []ImageConsumed
<1>1. Inv => ImageConsumed
  BY InvConsumed DEF Inv
<1>2. QED
  BY <1>1, Invariance, PTL

(* The upload, block by block, is the load in one step of ProgramLoad. *)
THEOREM UploadImplementsLoad == Spec => LoadSpec
<1>1. Init => Load!Init
  BY LoadInit DEF Init
<1>2. Inv /\ [Next]_vars => [Load!Next]_<<prog, Loaded, rom>>
  <2> SUFFICES ASSUME Inv, [Next]_vars PROVE [Load!Next]_<<prog, Loaded, rom>>
    OBVIOUS
  <2>1. [UploadNext]_uploadVars
    BY DEF Next, Boot, Map, UploadMapped, Rom, UploadNext, vars
  <2>2. QED
    BY <2>1, LoadStep DEF Inv
<1>3. QED
  BY <1>1, <1>2, Invariance, PTL DEF Spec, LoadSpec, Load!Spec, Loaded

-----------------------------------------------------------------------------
(* The zone. *)

(* Region 0 covers as much as the zone and leads to its start. *)
LEMMA WindowReaches ==
  ASSUME WindowIsSet, DmaInv
  PROVE  RegionPages = 1024 /\ \A k \in 0 .. 1023 : DspReaches(k) = DMAPhyAddr + k
<1>1. /\ IsOpen(0) /\ regs[OB_SIZE].low = 2 /\ regs[OB_OFFSET_INDEX(0)].page = DMAPhyAddr
  BY DEF WindowIsSet, IsOpen, Value
<1>2. RegionPages = 1024
  BY <1>1 DEF RegionPages, WindowPages
<1>3. ASSUME NEW k \in 0 .. 1023
      PROVE  DspReaches(k) = DMAPhyAddr + k
  <2>1. k \div RegionPages = 0 /\ k % RegionPages = k /\ 0 \in ObIndex
    BY <1>2 DEF ObIndex
  <2>2. AlignDown(regs[OB_OFFSET_INDEX(0)].page, RegionPages) = DMAPhyAddr
    BY <1>1, <1>2, Aligned
  <2>3. QED
    BY <1>1, <2>1, <2>2 DEF DspReaches
<1>4. QED
  BY <1>2, <1>3

(* What is written through a BAR reaches the memory it is meant for, through one
   region, whatever was in the registers before insmod. *)
THEOREM InboundAsUploadedHolds == Spec => []InboundAsUploaded
<1>1. Inv => InboundAsUploaded
  <2> SUFFICES ASSUME Inv, pc # "entry" PROVE InboundAsUploaded
    BY DEF InboundAsUploaded
  <2>1. region = 5 /\ OffsetsAreSet /\ \A i \in BarIndex : RegionIsSet(i)
    BY DEF Inv, RegsInv, BarIndex
  <2>2. ASSUME NEW b \in BarIndex, NEW addr, Page(addr) \in Nat,
               regs[IB_OFFSET(b)].page = Page(addr),
               NEW k \in 0 .. BarPages(b) - 1
        PROVE  InboundPages(b, k) = {Page(addr) + k}
    <3>1. k \in Nat /\ BarStart[b] \in Nat
      <4>1. BarPages(b) \in Nat
        BY DEF BarPages, BarIndex, Page, RegWords, L2Words, MsmcWords, DdrWords
      <4>2. QED
        BY <4>1, RegsAssumption
    <3>2. \A i \in BarIndex : RegionTakes(i, b, k) <=> i = b
      BY <2>1, <3>1 DEF RegionTakes, RegionIsSet, Value, Start, BarIndex
    <3>3. Start(b) = BarStart[b]
      <4>1. regs[IB_START_LO(b)] = Value(BarStart[b], 0)
        BY <2>1 DEF RegionIsSet
      <4>2. QED
        BY <4>1 DEF Start, Value
    <3>4. InboundPages(b, k) = {regs[IB_OFFSET(b)].page + BarStart[b] + k - Start(b)}
      BY <3>2 DEF InboundPages
    <3>5. QED
      BY <2>2, <3>1, <3>3, <3>4
  <2>3. ASSUME NEW core \in {0, 8, 9} PROVE LeadsTo(BarOf(core), Inbound(core))
    <3>1. BarOf(core) \in BarIndex
      BY DEF BarOf, BarIndex
    <3>2. regs[IB_OFFSET(BarOf(core))].page = Page(Inbound(core))
      BY <2>1 DEF OffsetsAreSet, Value, BarOf, Inbound
    <3>3. Page(Inbound(core)) \in Nat
      BY DEF Inbound, Page, GlobalL2, LL2_START, MSMC_START, DDR_START
    <3>4. QED
      BY <2>2, <3>1, <3>2, <3>3 DEF LeadsTo
  <2>4. LeadsTo(0, PCIE_BASE_ADDRESS)
    <3>1. 0 \in BarIndex /\ Page(PCIE_BASE_ADDRESS) \in Nat
      BY DEF BarIndex, Page, PCIE_BASE_ADDRESS
    <3>2. regs[IB_OFFSET(0)].page = Page(PCIE_BASE_ADDRESS)
      BY <2>1 DEF OffsetsAreSet, Value
    <3>3. QED
      BY <2>2, <3>1, <3>2 DEF LeadsTo
  <2>5. QED
    BY <2>3, <2>4 DEF InboundAsUploaded
<1>2. QED
  BY <1>1, Invariance, PTL

(* What is left of the zone's address in the table, seen by mmap and by the kernel. *)
LEMMA TableReaches ==
  ASSUME DmaInv, DMAVirAddr # NULL, mapPc = "mapped"
  PROVE  \A k \in 0 .. 1023 : /\ MmapReaches(k) = DMAPhyAddr + k
                              /\ (HostReaches(k) = DMAPhyAddr + k) <=> HostHas32Bits
<1> SUFFICES ASSUME NEW k \in 0 .. 1023
             PROVE  /\ MmapReaches(k) = DMAPhyAddr + k
                    /\ (HostReaches(k) = DMAPhyAddr + k) <=> HostHas32Bits
  OBVIOUS
<1>1. PICK z \in Zones[pageOffset] : DMAPhyAddr = z /\ DMAVirAddr = z + pageOffset
  BY DEF DmaInv, ZoneIs
<1>2. /\ z \in Nat /\ z + 1024 <= AddressPages /\ pageOffset \in Nat
      /\ pageOffset < AddressPages => pageOffset + z + 1024 <= AddressPages
  BY ZoneAssumption DEF DmaInv, DMA_TRANSFER_SIZE
<1>3. gpRegisterTable = (z + pageOffset) % 1048576 /\ z < 1048576
  BY <1>1, <1>2, SMT DEF AddressPages, DmaInv
<1>4. ((((z + pageOffset) % 1048576) - pageOffset) % 1048576) = z
  BY <1>2, <1>3, SMT
<1>5. MmapReaches(k) = DMAPhyAddr + k
  BY <1>1, <1>3, <1>4, SMT DEF MmapReaches, AddressPages
<1>6. CASE HostHas32Bits
  <2>1. z + pageOffset < 1048576
    BY <1>2, <1>6, SMT DEF HostHas32Bits, AddressPages
  <2>2. gpRegisterTable = z + pageOffset
    BY <1>2, <1>3, <2>1, SMT
  <2>3. HostReaches(k) = DMAPhyAddr + k
    <3>1. gpRegisterTable + k >= pageOffset /\ gpRegisterTable + k - pageOffset = z + k
      BY <1>2, <2>2, SMT
    <3>2. QED
      BY <1>1, <3>1 DEF HostReaches
  <2>4. QED
    BY <1>5, <1>6, <2>3
<1>7. CASE ~ HostHas32Bits
  <2>1. gpRegisterTable \in Nat /\ gpRegisterTable < 1048576 /\ pageOffset >= 1048576
    BY <1>2, <1>3, <1>7, SMT DEF HostHas32Bits, AddressPages
  <2>2. HostReaches(k) # DMAPhyAddr + k
    BY <1>1, <1>2, <2>1 DEF HostReaches, Nowhere
  <2>3. QED
    BY <1>5, <1>7, <2>2
<1>8. QED
  BY <1>6, <1>7

(* A DSP that runs and a process see the same page of the zone at the same distance,
   on every host and wherever its kernel put the zone; the kernel sees it there, too,
   if and only if its addresses have 32 bits. *)
THEOREM DspSeesZoneHolds == Spec => []DspSeesZone
<1>1. Inv => DspSeesZone
  <2> SUFFICES ASSUME Inv, rom # 0, DMAVirAddr # NULL, NEW k \in Zone
               PROVE  /\ DspReaches(k) = DMAPhyAddr + k
                      /\ MmapReaches(k) = DMAPhyAddr + k
                      /\ (HostReaches(k) = DMAPhyAddr + k) <=> HostHas32Bits
    BY DEF DspSeesZone
  <2>1. mapPc = "mapped"
    BY DEF Inv, UploadInv, Contents
  <2>2. WindowIsSet /\ DmaInv
    BY <2>1 DEF Inv, RegsInv
  <2>3. \A i \in 0 .. 1023 : DspReaches(i) = DMAPhyAddr + i
    BY <2>2, WindowReaches
  <2>4. \A i \in 0 .. 1023 : /\ MmapReaches(i) = DMAPhyAddr + i
                             /\ (HostReaches(i) = DMAPhyAddr + i) <=> HostHas32Bits
    BY <2>1, <2>2, TableReaches
  <2>5. k \in 0 .. 1023
    BY DEF Zone, DMA_TRANSFER_SIZE
  <2>6. QED
    BY <2>3, <2>4, <2>5
<1>2. QED
  BY <1>1, Invariance, PTL

(* The outbound region dspMemoryMap() sets leads to all of the zone and to no page
   beside it, whatever was in its registers and wherever the zone is. *)
THEOREM WindowIsZoneHolds == Spec => []WindowIsZone
<1>1. Inv => WindowIsZone
  <2> SUFFICES ASSUME Inv, mapPc = "mapped"
               PROVE  {DspReaches(k) : k \in 0 .. RegionPages - 1} = {DMAPhyAddr + k : k \in Zone}
    BY DEF WindowIsZone
  <2>1. RegionPages = 1024 /\ \A k \in 0 .. 1023 : DspReaches(k) = DMAPhyAddr + k
    BY WindowReaches DEF Inv, RegsInv
  <2>2. 0 .. RegionPages - 1 = 0 .. 1023 /\ Zone = 0 .. 1023
    BY <2>1 DEF Zone, DMA_TRANSFER_SIZE
  <2>3. QED
    BY <2>1, <2>2
<1>2. QED
  BY <1>1, Invariance, PTL

(* The registers and the two buffers fill the zone and share no page, and an
   image bootLoader() puts behind the registers stays in the buffers. *)
THEOREM BuffersInZoneHolds == Spec => []BuffersInZone
<1>1. Inv => BuffersInZone
  <2> SUFFICES ASSUME Inv, mapPc \in {"map", "mapped"}
               PROVE  /\ Registers \cap (OutBuffer \cup InBuffer) = {}
                      /\ OutBuffer \cap InBuffer = {}
                      /\ Registers \cup OutBuffer \cup InBuffer = {gpRegisterTable + k : k \in Zone}
                      /\ ImageZone \subseteq OutBuffer \cup InBuffer
    BY DEF BuffersInZone
  <2>1. gpRegisterTable \in Nat
    BY Aligned, SMT DEF Inv, DmaInv, NULL
  <2>2. /\ Registers = gpRegisterTable .. gpRegisterTable + 1
        /\ OutBuffer = gpRegisterTable + 2 .. gpRegisterTable + 3
        /\ InBuffer = gpRegisterTable + 4 .. gpRegisterTable + 1023
        /\ ImageZone = gpRegisterTable + 2 .. gpRegisterTable + 1 + ImageLength
    BY <2>1, ImageAssumption DEF Registers, OutBuffer, InBuffer, ImageZone, pOutBuffer,
       pInBuffer, pPutDSPImgZone, TableLength, WTBUFLENGTH, RDBUFLENGTH, REG_LEN,
       DMA_TRANSFER_SIZE
  <2>3. {gpRegisterTable + k : k \in Zone} = gpRegisterTable .. gpRegisterTable + 1023
    <3>1. \A a \in gpRegisterTable .. gpRegisterTable + 1023 : a - gpRegisterTable \in Zone /\ a = gpRegisterTable + (a - gpRegisterTable)
      BY <2>1 DEF Zone, DMA_TRANSFER_SIZE
    <3>2. \A k \in Zone : gpRegisterTable + k \in gpRegisterTable .. gpRegisterTable + 1023
      BY <2>1 DEF Zone, DMA_TRANSFER_SIZE
    <3>3. QED
      BY <3>1, <3>2
  <2>4. ImageLength \in 1 .. 1022
    BY ImageAssumption DEF DMA_TRANSFER_SIZE, REG_LEN
  <2>5. QED
    BY <2>1, <2>2, <2>3, <2>4
<1>2. QED
  BY <1>1, Invariance, PTL
=============================================================================
