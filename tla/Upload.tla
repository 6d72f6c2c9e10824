------------------------------- MODULE Upload -------------------------------
(***************************************************************************)
(* uploadProgram() and writeDSPMemory() of src/src/bootLoader.c: an image, *)
(* which is an entry point and a list of sections, is cut into blocks and  *)
(* written through the BARs into the memory of the DSP.  Meanwhile the     *)
(* boot ROM of core 0 polls the word at MAGIC_ADDR and jumps to the        *)
(* address it finds there, so that word has to be written last, over a     *)
(* program that is complete.                                               *)
(*                                                                         *)
(* Addresses count words of 4 bytes, section sizes bytes, as in the image. *)
(***************************************************************************)
EXTENDS DspMemory, Sequences

CONSTANTS
  Programs  \* the images that may be uploaded, each a record of
            \*   image: the words byteTo32bits() makes of it,
            \*   head:  where in them each section starts, and the end

-----------------------------------------------------------------------------
(* The same memory as core 0 addresses it. *)
Sees(addr) == IF addr \div Segment = 0 THEN addr + 67108864 ELSE addr

(* Fault: sizes are rounded down. *)
RoundedDown(size) == (size \div 4) * 4

(* A section size, made a multiple of 4. *)
Rounded(size) == IF (size \div 4) * 4 # size THEN (size \div 4 + 1) * 4 ELSE size

Words(size) == Rounded(size) \div 4

-----------------------------------------------------------------------------
(* Images.  Section k of program p: *)

Sections(p) == 1 .. Len(p.head) - 1
SizeWord(p, k) == p.image[p.head[k]]
Addr(p, k)     == p.image[p.head[k] + 1]
Length(p, k)   == (SizeWord(p, k) + 3) \div 4
Word(p, k, i)  == p.image[p.head[k] + 1 + i]
First(p, k)    == Sees(Addr(p, k))
Place(p, k, i) == First(p, k) + i - 1

(* The sections follow each other and end with a size of 0. *)
IsImage(p) ==
  /\ p.image \in Seq(Nat) /\ p.head \in Seq(Nat)
  /\ Len(p.head) >= 1 /\ p.head[1] = 2
  /\ Len(p.image) = p.head[Len(p.head)]
  /\ p.image[Len(p.image)] = 0
  /\ p.image[1] # 0
  /\ \A k \in Sections(p) :
       /\ p.head[k] >= 2 /\ p.head[k] + 1 < Len(p.image)
       /\ SizeWord(p, k) > 0
       /\ p.head[k + 1] = p.head[k] + 2 + Length(p, k)
       /\ p.head[k + 1] <= Len(p.image)

(* Every section is linked to lie in one memory a BAR leads to, ... *)
InMemory(first, n) ==
  \/ first >= LL2_START  /\ first + n <= LL2_START + L2Words
  \/ first >= GlobalL2   /\ first + n <= GlobalL2 + L2Words
  \/ first >= MSMC_START /\ first + n <= MSMC_START + MsmcWords
  \/ first >= DDR_START  /\ first + n <= DDR_START + DdrWords

(* ... apart from the others and from the word at MAGIC_ADDR. *)
IsLinked(p) ==
  /\ \A k \in Sections(p) :
       /\ InMemory(Addr(p, k), Length(p, k))
       /\ ~ (First(p, k) <= Sees(MAGIC_ADDR) /\ Sees(MAGIC_ADDR) < First(p, k) + Length(p, k))
  /\ \A k, l \in Sections(p) :
       k < l => \/ First(p, k) + Length(p, k) <= First(p, l)
                \/ First(p, l) + Length(p, l) <= First(p, k)

ASSUME UploadAssumption ==
  /\ 0 \notin DOMAIN Programs
  /\ \A n \in DOMAIN Programs : IsImage(Programs[n]) /\ IsLinked(Programs[n])

-----------------------------------------------------------------------------
VARIABLES
  prog,          \* the image this call was given
  pc,            \* where uploadProgram() is
  pDspImg,       \* the next word of the image to be read
  secNum,        \* sections that are finished
  secSize,       \* size of the section that comes or is sent
  secStartAddr,  \* where the next block goes
  newCoreNum,    \* which BAR it goes through
  block,         \* blocks of this section that are sent
  bootEntryAddr, \* the first word of the image
  retValue,      \* result of uploadProgram()
  mem,           \* the memory of the DSP: the words that were written, by global
                 \* address, and the word at MAGIC_ADDR
  rom            \* where the boot ROM went: 0 while it polls

uploadVars == <<prog, pc, pDspImg, secNum, secSize, secStartAddr, newCoreNum, block,
                bootEntryAddr, retValue, mem, rom>>

Image == Programs[prog].image

UploadInit ==
  /\ prog \in DOMAIN Programs
  /\ pc = "entry" /\ pDspImg = 1 /\ secNum = 0 /\ secSize = 0 /\ secStartAddr = 0
  /\ newCoreNum = 0 /\ block = 0 /\ bootEntryAddr = 0 /\ retValue = 0
  /\ mem = [a \in {Sees(MAGIC_ADDR)} |-> 0]
  /\ rom = 0

(* byteTo32bits() at position n; beyond the array there is no image. *)
Fetch(n) == IF n \in 1 .. Len(Image) THEN Image[n] ELSE 0

-----------------------------------------------------------------------------
(* writeDSPMemory(). *)

(* Faults: global addresses of L2 are not masked, and the upper half of an
   address chooses the BAR. *)
OffsetUnmasked(core, addr) ==
  IF core < 8 THEN addr - LL2_START
  ELSE IF core = 8 THEN addr - MSMC_START ELSE addr - DDR_START

(* Where addr lies in the BAR of core; negative if it is before it. *)
Offset(core, addr) ==
  IF core < 8 THEN (addr % Segment) - LL2_START
  ELSE IF core = 8 THEN addr - MSMC_START ELSE addr - DDR_START

(* Fault: the BARs of MSMC and DDR are taken for each other. *)
InboundSwapped(core) ==
  IF core < 8 THEN GlobalL2 ELSE IF core = 8 THEN DDR_START ELSE MSMC_START

(* PCI_setInBound(): the address each BAR leads to. *)
Inbound(core) ==
  IF core < 8 THEN GlobalL2 ELSE IF core = 8 THEN MSMC_START ELSE DDR_START

Accepts(core, addr, n) == n > 0 /\ Offset(core, addr) >= 0

(* The memory after n words of buffer are written to addr; ... *)
Written(core, addr, buffer, n) ==
  LET first  == Inbound(core) + Offset(core, addr)
      target == IF Accepts(core, addr, n) THEN first .. first + n - 1 ELSE {}
  IN  [a \in DOMAIN mem \cup target |-> IF a \in target THEN buffer[a - first] ELSE mem[a]]

(* ... the result, 0 if the address is refused. *)
WriteResult(core, addr, n) == IF Accepts(core, addr, n) THEN 4 * n ELSE 0

-----------------------------------------------------------------------------
(* uploadProgram(). *)

(* What is next once size was read: another section, or the entry point. *)
After(size) == IF size = 0 THEN "magic" ELSE "section"

ReadEntry ==
  /\ pc = "entry"
  /\ bootEntryAddr' = Fetch(1)
  /\ secSize' = Fetch(2)
  /\ pDspImg' = 3
  /\ pc' = After(Fetch(2))
  /\ UNCHANGED <<prog, secNum, secStartAddr, newCoreNum, block, retValue, mem, rom>>

(* The BAR of an address: L2 for 0x00 and 0x10 to 0x1F in the upper byte, of the
   core the program is for, which is core 0. *)
CoreOf(addr) ==
  LET upper == addr \div Segment
  IN  IF upper = 0 \/ upper \div 16 = 1 THEN 0 ELSE IF upper = 12 THEN 8 ELSE 9

BeginSection ==
  /\ pc = "section"
  /\ secSize' = Rounded(secSize)
  /\ secStartAddr' = Fetch(pDspImg)
  /\ newCoreNum' = CoreOf(Fetch(pDspImg))
  /\ pDspImg' = pDspImg + 1
  /\ block' = 0
  /\ pc' = "block"
  /\ UNCHANGED <<prog, secNum, bootEntryAddr, retValue, mem, rom>>

Count == secSize \div BLOCK_TRANSFER_SIZE
BlockWords == BLOCK_TRANSFER_SIZE \div 4

(* Words of the image from where it is read, as tempArray. *)
TempArray(n) == [j \in 0 .. n - 1 |-> Fetch(pDspImg + j)]

(* Fault: the next block goes where this one went. *)
SendBlockInPlace ==
  /\ pc = "block" /\ block < Count
  /\ mem' = Written(newCoreNum, secStartAddr, TempArray(BlockWords), BlockWords)
  /\ pDspImg' = pDspImg + BlockWords
  /\ block' = block + 1
  /\ UNCHANGED <<prog, pc, secNum, secSize, secStartAddr, newCoreNum, bootEntryAddr,
                 retValue, rom>>

(* Fault: one block too many, instead of the remainder. *)
SendBlockOneMore ==
  /\ pc = "block" /\ block <= Count
  /\ mem' = Written(newCoreNum, secStartAddr, TempArray(BlockWords), BlockWords)
  /\ pDspImg' = pDspImg + BlockWords
  /\ secStartAddr' = secStartAddr + BlockWords
  /\ block' = block + 1
  /\ UNCHANGED <<prog, pc, secNum, secSize, newCoreNum, bootEntryAddr, retValue, rom>>

SendBlock ==
  /\ pc = "block" /\ block < Count
  /\ mem' = Written(newCoreNum, secStartAddr, TempArray(BlockWords), BlockWords)
  /\ pDspImg' = pDspImg + BlockWords
  /\ secStartAddr' = secStartAddr + BlockWords
  /\ block' = block + 1
  /\ UNCHANGED <<prog, pc, secNum, secSize, newCoreNum, bootEntryAddr, retValue, rom>>

(* What no block held, perhaps nothing; then the size of the next section. *)
SendRemainder ==
  /\ pc = "block" /\ block = Count
  /\ LET rest == (secSize - Count * BLOCK_TRANSFER_SIZE) \div 4
         next == pDspImg + rest
     IN  /\ mem' = Written(newCoreNum, secStartAddr, TempArray(rest), rest)
         /\ secSize' = Fetch(next)
         /\ pDspImg' = next + 1
         /\ pc' = After(Fetch(next))
  /\ secNum' = secNum + 1
  /\ UNCHANGED <<prog, secStartAddr, newCoreNum, block, bootEntryAddr, retValue, rom>>

(* Faults: the entry point is kept back; the length written is returned. *)
PublishNothing ==
  /\ pc = "magic"
  /\ mem' = mem
  /\ retValue' = IF WriteResult(0, MAGIC_ADDR, 1) = 4 THEN 0 ELSE -1
  /\ pc' = "done"
  /\ UNCHANGED <<prog, pDspImg, secNum, secSize, secStartAddr, newCoreNum, block,
                 bootEntryAddr, rom>>

PublishLength ==
  /\ pc = "magic"
  /\ mem' = Written(0, MAGIC_ADDR, [j \in {0} |-> bootEntryAddr], 1)
  /\ retValue' = WriteResult(0, MAGIC_ADDR, 1)
  /\ pc' = "done"
  /\ UNCHANGED <<prog, pDspImg, secNum, secSize, secStartAddr, newCoreNum, block,
                 bootEntryAddr, rom>>

PublishEntry ==
  /\ pc = "magic"
  /\ mem' = Written(0, MAGIC_ADDR, [j \in {0} |-> bootEntryAddr], 1)
  /\ retValue' = IF WriteResult(0, MAGIC_ADDR, 1) = 4 THEN 0 ELSE -1
  /\ pc' = "done"
  /\ UNCHANGED <<prog, pDspImg, secNum, secSize, secStartAddr, newCoreNum, block,
                 bootEntryAddr, rom>>

UploadProgram == ReadEntry \/ BeginSection \/ SendBlock \/ SendRemainder \/ PublishEntry

(* The boot ROM of core 0 (external) finds an address and jumps. *)
RomStarts ==
  /\ rom = 0
  /\ mem[Sees(MAGIC_ADDR)] # 0
  /\ rom' = mem[Sees(MAGIC_ADDR)]
  /\ UNCHANGED <<prog, pc, pDspImg, secNum, secSize, secStartAddr, newCoreNum, block,
                 bootEntryAddr, retValue, mem>>

UploadNext == UploadProgram \/ RomStarts
UploadSpec == UploadInit /\ [][UploadNext]_uploadVars

-----------------------------------------------------------------------------
(* Properties. *)

Entry  == [n \in DOMAIN Programs |-> Programs[n].image[1]]

(* What an image puts where: the words of its sections, by place. *)
InSection(p, a) ==
  \E k \in Sections(p) : First(p, k) <= a /\ a < First(p, k) + Length(p, k)

Present(p) ==
  \A k \in Sections(p) : \A j \in 1 .. Length(p, k) :
    Place(p, k, j) \in DOMAIN mem /\ mem[Place(p, k, j)] = Word(p, k, j)

UploadTypeOK ==
  /\ prog \in DOMAIN Programs
  /\ pc \in {"entry", "section", "block", "magic", "done"}
  /\ pDspImg \in Nat /\ secNum \in Nat /\ secSize \in Nat /\ secStartAddr \in Nat
  /\ newCoreNum \in {0, 8, 9} /\ block \in Nat /\ bootEntryAddr \in Nat
  /\ retValue \in {0, -1}
  /\ mem \in [DOMAIN mem -> Nat]
  /\ rom \in Nat

(* MAGIC_ADDR is written last: when the DSP jumps, and it may as soon as it finds
   an address there, it jumps to the entry point of the image and every word of
   every section is where it was linked to be. *)
ProgramWhole == rom # 0 => rom = Entry[prog] /\ Present(Programs[prog])

(* Rounding, blocks and remainder add up: nothing outside the sections and the
   word at MAGIC_ADDR is touched, ... *)
NothingElseWritten ==
  \A a \in DOMAIN mem : a = Sees(MAGIC_ADDR) \/ InSection(Programs[prog], a)

(* ... and the image is read to its last word and not beyond. *)
ImageConsumed ==
  /\ pDspImg <= Len(Image) + 1
  /\ pc \in {"magic", "done"} =>
       pDspImg = Len(Image) + 1 /\ secNum = Len(Programs[prog].head) - 1

Load == INSTANCE ProgramLoad WITH
  Program <- [n \in DOMAIN Programs |-> n],
  Nothing <- 0,
  which   <- prog,
  loaded  <- IF mem[Sees(MAGIC_ADDR)] # 0 /\ Present(Programs[prog]) THEN prog ELSE 0,
  started <- rom

(* The upload implements the load in one step that bootLoader() takes it for. *)
LoadSpec == Load!Spec
=============================================================================
