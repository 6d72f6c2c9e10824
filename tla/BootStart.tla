----------------------------- MODULE BootStart ------------------------------
(***************************************************************************)
(* How a DSP is started.  init_module() sets its inbound regions and calls *)
(* bootLoader(), of which this is the first half, up to where it waits for *)
(* the DSP: the zone is allocated and mapped (DmaWindow), then the init    *)
(* program is uploaded (Upload), and the DSP starts it when it pleases.    *)
(***************************************************************************)
EXTENDS DmaWindow, Upload

vars == <<dmaVars, uploadVars>>

Init == DmaInit /\ UploadInit

(* Fault: the program is uploaded without waiting for the window. *)
UploadEarly == UploadProgram /\ UNCHANGED dmaVars

UploadMapped ==
  /\ mapPc = "mapped"
  /\ UploadProgram
  /\ UNCHANGED dmaVars

Map  == DmaNext /\ UNCHANGED uploadVars
Boot == Map \/ UploadMapped
Rom  == RomStarts /\ UNCHANGED dmaVars

Next == Boot \/ Rom

(* insmod runs on until bootLoader() is done, and the ROM keeps polling. *)
Spec == Init /\ [][Next]_vars /\ WF_vars(Boot) /\ WF_vars(Rom)

-----------------------------------------------------------------------------
(* Properties. *)

TypeOK ==
  /\ mapPc \in {"inbound", "alloc", "table", "map", "mapped"}
  /\ pageOffset \in PageOffsets
  /\ DMAPhyAddr \in Zones[pageOffset] \cup {0}
  /\ DMAVirAddr \in {z + pageOffset : z \in Zones[pageOffset]} \cup {NULL}
  /\ gpRegisterTable \in 0 .. AddressPages - 1
  /\ regs \in [AppRegisters -> Values] /\ region \in 0 .. 5
  /\ UploadTypeOK

(* The BAR writeDSPMemory() writes through, and the pages of each.  BAR 0, through
   which all registers are written, is one page. *)
BarOf(core) == IF core < 8 THEN 1 ELSE IF core = 8 THEN 2 ELSE 3
BarPages(b) ==
  Page(CASE b = 0 -> RegWords [] b = 1 -> L2Words [] b = 2 -> MsmcWords [] b = 3 -> DdrWords)

(* Whatever the registers held before, once the upload has begun exactly one
   region takes what is written through a BAR, to its last page, and leads to the
   memory Upload takes it for, or, by BAR 0, to the registers. *)
LeadsTo(b, addr) == \A k \in 0 .. BarPages(b) - 1 : InboundPages(b, k) = {Page(addr) + k}

InboundAsUploaded ==
  pc # "entry" => /\ \A core \in {0, 8, 9} : LeadsTo(BarOf(core), Inbound(core))
                  /\ LeadsTo(0, PCIE_BASE_ADDRESS)

(* The kernel's own mapping of all memory has addresses of 32 bits. *)
HostHas32Bits == pageOffset < AddressPages

(* The DSP runs only after the window is there.  Then the DSP, through the window,
   and a process, through mmap, see the same page of the zone at the same distance,
   to the end of the zone, on every host.  The kernel itself, through the register
   table, sees it on a host of 32 bits and on no other: there the table's address
   has lost its upper half. *)
DspSeesZone ==
  rom # 0 /\ DMAVirAddr # NULL =>
    \A k \in Zone : /\ DspReaches(k) = DMAPhyAddr + k
                    /\ MmapReaches(k) = DMAPhyAddr + k
                    /\ (HostReaches(k) = DMAPhyAddr + k) <=> HostHas32Bits

(* The region dspMemoryMap() sets leads to the zone and to nothing else: what a size
   is rounded to and a base is cut to neither leaves a page of the zone out nor
   opens one beside it.  It says nothing of the other 31 regions, which lead where
   the registers were left to lead. *)
WindowIsZone ==
  mapPc = "mapped" /\ DMAVirAddr # NULL =>
    {DspReaches(k) : k \in 0 .. RegionPages - 1} = {DMAPhyAddr + k : k \in Zone}

(* The registers and the two buffers share no page and fill the zone as it lies
   behind the register table, to its last page; an image overwrites no register and
   does not leave it. *)
BuffersInZone ==
  mapPc \in {"map", "mapped"} =>
    /\ Registers \cap (OutBuffer \cup InBuffer) = {} /\ OutBuffer \cap InBuffer = {}
    /\ Registers \cup OutBuffer \cup InBuffer = {gpRegisterTable + k : k \in Zone}
    /\ ImageZone \subseteq OutBuffer \cup InBuffer

(* An insmod that is not disturbed starts the program. *)
ProgramStarts == <>(rom # 0)
=============================================================================
