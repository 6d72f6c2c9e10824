# A verification project for the DSPC8681 Linux driver

The driver lets a Linux host boot a TI C6678 DSP on a PCIe card and exchange
messages with the programs on it. Everything of interest happens between actors that
never call each other: kernel code that spins on words in memory, a DSP that
stores those words over the bus, processes that issue `ioctl` commands in an
order of their own, an interrupt line shared with other devices. The modules here
describe those protocols; TLC checks them on small instances and the TLA+ proof
system proves the most important results for all parameters.

Source paths below are relative to `src/`, so `src/entry.c` is the driver's
`src/` directory.

## 1. Inventory

| Part | Code | State it keeps | Operations | Talks to |
|---|---|---|---|---|
| Bounded polling | `src/common.c` | loop counter, stop flag (locals) | `pollValue`, `pollEqualValue`, `pollCompareValue` | reads words the DSP stores |
| Boot loader | `src/bootLoader.c`, `inc/bootLoader.h` | the push words of the register table, the image zone | `bootLoader` | polls; the loader on the DSP through shared memory |
| Code upload | `src/bootLoader.c`, `byteTo32bits` | DSP memory through BAR 1, 2, 3 | `uploadProgram`, `writeDSPMemory` | the boot ROM of the DSP through `MAGIC_ADDR` |
| DMA zone, outbound window | `src/bootLoader.c` | zone address, PCIe registers | `dspMemoryMap`, address arithmetic | `mmap`, the addresses the DSP uses |
| Link layer | `src/LinkLayer.c`, `inc/LinkLayer.h` | four words and two buffers of the register table, the handle | `LinkLayer_Open`, `WaitBufferReady`, `ChangeBufferStatus` | called by `ioctl`; the DSP programs |
| Driver lifecycle | `src/entry.c` | per chip pointers, character device, interrupt, semaphores | `init_module`, `DPU_open`, `DPU_mmap`, `DPU_ioctl`, `ISR_handler`, `cleanup_module` | everything else |
| PCI access | `src/pcie.c` | BAR mappings, PCIe registers | device search, `PCI_readBAR`, inbound translation, interrupt registers | called by `init_module` and the handler |
| CRC32 | `src/crc32.c`, `inc/crc32_table.h` | the checksum so far (the caller's) | `crc32_getCrc`; `crc32_initCrc`, `updataCrc`, `finalCrc` | nothing in the driver calls it |
| Images | `inc/app4Core0_6678.h`, `inc/DSP_TBL_6678.h` | data | | read by `uploadProgram` and `bootLoader` |
| Logging | `inc/DPUdebug.h` | none | | |

What is hard in each, and what makes it correct:

* **Polling.** The word changes between any two steps of the loop. A poll must end,
  and its verdict must be right: success only if the word was read.
* **Boot loader.** Three images go through one buffer, handed over with one control
  word and one status word. Every wait can expire; some results are checked and some
  are ignored. Each core must be given its own image, whole; the result must say
  whether that happened; `insmod` must return.
* **Link layer.** Two directions, each with a hand-shake in which one word is reused
  for every message, so an old answer looks like a new one. Waits time out and are
  repeated. Messages must be taken whole, once and in order, and never both sides at
  a buffer.
* **Lifecycle.** The device can be opened and the shared interrupt can arrive in the
  middle of `init_module`, which can also fail at several points and takes nothing
  back. Pointers must be set before they are used.
* **Upload.** The boot ROM jumps as soon as the word at `MAGIC_ADDR` is not 0, so that
  word must come last, over a program that is complete: sizes are rounded, a section is
  cut into blocks and a remainder, an address chooses a BAR, and a section that lies
  below the memory of its BAR is dropped without an error.
* **PCI access.** BARs may be missing, and the translation registers keep what an earlier
  load or another host left in them. Before the upload exactly one region must take what
  is written through a BAR and lead to the memory the upload means.
* **DMA zone.** Three views of the same pages, the host's, the DSP's through a window
  that the hardware aligns to its own size, and that of a process through `mmap`, each
  reached by 32-bit arithmetic on hosts of 32 and of 64 bits. They must agree, and the
  region the driver opens for the DSP must be the zone, no less and no more.
* **CRC32.** A table of 256 entries and two forms of the loop that uses it.

The hazards are listed one by one, each at its line, in `PROJECT.json`.

## 2. Plan

| Order | Modules | Question | State |
|---|---|---|---|
| 1 | `Polling`, `PollCall`, `PollLoop` | what a poll tells its caller | done, proved |
| 2 | `ImagePush`, `BootLoader` | does every core get its image | done, proved |
| 3 | `LinkChannel`, `LinkLayer` | does the exchange deliver, and does every message get through | done, safety proved |
| 4 | `Driver` | are pointers set before they are used, also after another `insmod` | done, proved |
| 5 | `ProgramLoad`, `Upload` | is the program whole when the DSP can start it | done, proved |
| 6 | `DspMemory`, `PciRegs`, `DmaWindow`, `BootStart` | does each BAR lead to its memory; do the host, the DSP and a process mean the same page | done, proved |
| 7 | `Crc32Table`, `Crc32` | is it the checksum it claims to be | done, proved |

`PollLoop` implements `PollCall`, whose steps `BootLoader` and `LinkLayer` take.
`BootStart` composes `DmaWindow` and `Upload`: `PCI_setInBound()` and the first half of
`bootLoader()`;
`BootLoader` is the second half, and has the first as one step, `UploadProgram`: this
is the step that `ProgramLoad` specifies and that `Upload` implements. `BootLoader`
implements `ImagePush`; `LinkLayer` implements `LinkChannel`. `Driver` uses the boot
loader only through the pointer it sets and the results `BootLoader` can return.

Left: the effects of failing allocations in `init_module`, if the code comes to look
at them; a take-down in `cleanup_module`, once there is one.

## 3. The modules

### Polling, PollCall, PollLoop

`PollLoop` is the loop all three functions share: `Condition`, `Read` (load and
test), `Increment`, `Verdict`, with `DspStores` between any two of them. A word is
the set of its bits that are 1, so `a & b` is an intersection. The functions differ
in the test, `MaskSet` or `EqualTo`; `pollCompareValue` reads the word it compares with in
each turn (`ReadSet`). `PollCall` is the same poll as one read per step
(`PollRepeats`, `PollReturns` of `Polling`). `CallSpec` is the refinement that permits
the other modules to use it: the verdict of the one-step poll is `retVal` once the loop
has returned it, and its reads are the misses so far. So `Verdict`, which looks at the
counter and not at the stop flag, has to return what the callers' model of it returns,
also when the last permitted read finds the word.

### BootLoader and ImagePush

The host follows `bootLoader()`: the upload, the wait for the platform
(`PollInitReturns`, whose result the code stores and never reads), then for each
image `ResetControl`, `PollResetReturns`, `CopyBlock`..., `PushFinish`,
`PollFinishReturns`, `ReleaseControl`, and `PollBootReturns`. The code writes the
steps out twice, for core 0 and in a loop for the other cores; the one difference is
that the wait for the reset is checked for core 0 only, which is the condition in
`PollResetReturns`. A `memcpy` is several steps, so that a torn image exists.
The DSP (`Dsp...`) is external: it is modelled from the register words and comments.
Loading a word and storing the answer to it are two steps. It may be arbitrarily slow
and may stop. `imgZone` and `dspImage` record whose image each block belongs to.

`HostLeft` is how many steps `bootLoader()` has left at most, reads of registers included;
`HostWaits` and `DspWaits` are when each side waits for a word of the other.

Two behaviours are told apart. `Spec` is everything. `TimelySpec` excludes one event:
that a wait *whose result is ignored* (line 460) expires. `ImagePush` is the
abstract specification: images arrive whole and in order, and success is reported only
when all did.

### LinkLayer and LinkChannel

One writing and one reading process, the driver functions they call and the two DSP
programs. `ControlWord` is the table in `LinkLayer_ChangeBufferStatus`, `ReadyValue`
the one in `LinkLayer_WaitBufferReady`; the DSP side has its own words (`PcWord`,
`DspWord`), so a wrong entry in a table of the driver is a mismatch and not a renaming.
The order in which processes issue the commands is external, but it is not free. Each
control word has to be answered by the status word waited for next; for a reader this
means RESET, QFIN, copy, FIN, QRESET. A reader that goes on to the next RESET
right after FIN overwrites the word before the DSP has looked, and both wait forever.
After a timeout a process waits again, or issues `WRITE_TIMEOUT` or `READ_TIMEOUT` and
stays in `down`, or (only in `ImpatientSpec`) starts the exchange again.
`AnswerIsFresh` says what an answer means for the exchange it is taken for; `NoMutualWait`
that no word of the host is replaced before the DSP has seen it.
`LinkChannel` is the abstract channel: take message `n`, then acknowledge it.

### Upload, ProgramLoad

`uploadProgram()` on an image that is given by its words (`image`) and by where its
sections start (`head`); `Fetch` is `byteTo32bits`. The steps are those of the code:
`ReadEntry`, then for each section `BeginSection` (size rounded to words, address, BAR),
`SendBlock` for each 256 bytes, `SendRemainder`, which also reads the next size, and
`PublishEntry`. `Written` is `writeDSPMemory`: it masks an L2 address, subtracts where
the BAR begins, and writes nothing if the result would be negative. `Inbound` is the
address each BAR leads to, so a wrong BAR puts the words elsewhere. `mem` is the DSP's
memory by global address; L2 as core 0 sees it and as the others do are one memory
(`Sees`). The ROM (`RomStarts`, external) may look between any two steps.
`UploadAssumption` says what a linker makes: a list of sections that ends with a size
of 0, each in one memory, none over another or over `MAGIC_ADDR`. `ProgramLoad` is the
abstract specification: the program is there, then it is started.

### DspMemory, PciRegs, DmaWindow, BootStart

`DspMemory` has the addresses of a DSP's memories. `PciRegs` is the DSP's application
registers: `SetRegion` is one turn of the loop of `PCI_setInBound()`, `SetOffsets` the four
stores behind it, `SetWindow` those of `dspMemoryMap()`. Before that the registers hold
anything (`Leftovers`), because nothing ever resets them. What the hardware makes of them
is external: `InboundPages` is where a page of a BAR leads, by whichever regions take it,
and `InboundAsUploaded` says that it is the one place `Upload` writes to, and for BAR 0
the registers themselves. Outbound there are 32 regions (`ObIndex`), of which the driver
sets region 0; `IsOpen` tells which of them lead anywhere, and the other 31 do what they
were left to do.

`DmaWindow` counts pages. `pageOffset` is the kind of host: where its kernel maps physical
memory, below 4 GB with 32 bits of address, above with 64. `SetInBound`; `AllocZone`,
which may fail without being noticed; `SetTable`, with the code's `memOffset` modulo 2^32
and the table's address cut to 32 bits, as in `bootLoader.c:320`; and `MapWindow`, which is
`dspMemoryMap()`: the smallest of the four sizes of window, and the base cut to that size, in
the registers. Three views of the zone follow from what these leave behind. `DspReaches`
finds the outbound region a page lies in and where it leads, whether the driver set that
region or not; `HostReaches` is the kernel at the address it has in `gpRegisterTable`;
`MmapReaches` is the arithmetic of `DPU_mmap()`, which keeps what `virt_to_phys` returns
in 32 bits, too, so that the upper half that was lost is not missed there. `Registers`,
`OutBuffer`, `InBuffer`, `ImageZone` are the layout of `LinkLayer_Open()` and `bootLoader()`
behind the register table.

The code aligns the zone to 1 MB and the window to 4 MB. Both change nothing, because
the kernel aligns a consistent allocation to its size; `ZoneAssumption` says so, and it
is what `DspSeesZone` and `WindowIsZone` rest on: with an allocation at an odd megabyte
`memOffset` is still 0, and the DSP sees other pages than the host. `DspSeesZone` says of
the kernel's view that it is the zone on a host of 32 bits *and on no other*.
`BootStart` is the sequence of both, and `DspImages` has the sections of the images in the
repository.

### Crc32, Crc32Table

`UpdataCrc` and `FinalCrc` are the functions for a stream, `GetCrc` the one for a
message, over the table of `crc32_table.h`. Words and bytes are the sets of their bits.
`Divide` is the division of a message by the polynomial, bit by bit and without a table,
from any start; `Remainder`, the definition of the checksum, starts from all ones.
`TableAssumption` and `ResidueAssumption` are about numbers only, the entries of the
table and the residue, and leave nothing open: TLC evaluates both completely before the
run. (The header declares `crc32_updateCrc`; the code defines `crc32_updataCrc`.)

### Driver

`init_module` in the order of the code, each registration or pointer a step
(`FindPciDevices` ... `BootReturns`), with each failure the code looks at, and with a step
for each call that needs BAR 0 (`SetInBound`, `EnableDspInterrupt`); the fields of a
`ProcessorUnitDev_t` are stored one by one (`UnitStores`) after the pointer to it is; the
processes (`OpenFindsUnit`, `OpenNoMemory`, which is a `kmalloc` that fails,
`OpenLinkLayer`, which follows the unit's pointer to the BARs, every command of `Ioctl`,
`MmapTable`, `Close`); the handler in two steps (`IsrChecks`, `IsrClears`); `CleanupModule`, which
does nothing; `Reload`, another `insmod`, whose variables are fresh while what the
last one registered stays (`left`) and the processes that were inside are `"stale"`;
and `FreedCode`, the kernel calling into a module that is gone. `oops` names who used a
pointer that is not set; no step follows it. The loop over the chips runs once
(`InitBound`), as in the code. A use of a pointer that *is* set changes nothing here,
so such a command is a step only when it goes wrong. `IoctlInterrupt` takes the
chip from the name of the node (`unit`), everything else from the minor number
(`minor`), as the code does. `enabled` are the interrupts a DSP may raise: nothing
disables them again, also not over an unload.

Processes open any node at any time. `orderly` are those whose last open came after
`insmod` had succeeded and whose node's name and minor number agree: what `mknod`
after `insmod` amounts to. The properties are about them, among all the others.

## 4. The runs

All bounds are in the `MC` modules.

| Run | Bounds | Shows |
|---|---|---|
| `PollLoop_loop` | words of 2 bits, 0 to 3 reads, each of the three functions | success was read; a poll ends whatever the DSP stores; the loop implements the one-step poll |
| `BootStart_start` | the init image of the repository, one with every kind of section, an empty one; a host of 32 bits and one of 64, each with a zone; registers after a reset and as another host left them | each BAR leads to its memory or registers; the program is whole when the DSP can start it, nothing else is written, the image is read to its end; DSP and process see the same pages on both hosts, the kernel on that of 32 bits; the region the driver sets is the zone; table, buffers and images fit in it; the program starts; `ProgramLoad` is implemented |
| `BootLoader_anytime` | 3 images, 2 blocks, 3 reads per poll | whatever expires: core 0 gets its image, no core gets a block older than its own, `bootLoader` returns, after a number of steps known beforehand, even if the DSP stops |
| `BootLoader_timely` | same | no ignored wait expires: every image whole, 0 means all were, nobody writes the zone while it is read, host and DSP never wait for each other, `ImagePush` is implemented |
| `BootLoader_patient` | same | a DSP that answers in time is booted |
| `BootLoader_initfail` | same | **violated**: a platform that never comes up does not give -1 |
| `BootLoader_success` | same | **violated**: 0 although a core has another core's image |
| `LinkLayer_safety` | 2 messages, 2 blocks, 2 reads per poll | whole, in order, once; never both at a buffer; no old answer is taken for a new one; the two sides never wait for each other; `LinkChannel` is implemented; every message gets through unless its process turns to the interrupt |
| `LinkLayer_impatient` | same | **violated**: a WRITE_RESET after a timeout does not stop a DSP that reads |
| `Driver_safety` | 2 endpoints, 2 processes | the handler finds the registers mapped; no unset pointer for `init_module` and for orderly processes; their device is a booted DSP that may interrupt |
| `Driver_interrupt` | same | **violated**: a process that waits for the interrupt is not woken |
| `Crc32_stream` | messages of up to 3 bytes, every first byte | the checksum is the remainder, in one call and byte by byte; a message with its checksum leaves the fixed residue |

Why the bounds are enough. Three reads per poll contain a miss, a success that counts
and the last read, whose success is reported as a timeout; two reads the last two of
these. Two blocks make a torn copy. Three images are what the code pushes
(`bootCoreNum` is 3), and cores 1 and 2 are the first and second that follow an old
answer. The second message is the first that finds words of an earlier exchange.
Two endpoints are one that `init_module` serves and one that it does not. One of the
two processes may be orderly and the other not. The sections of the second image of
`BootStart_start` are a block and a word, less than a word, whole blocks only, L2 by its
global and by its local address, in each of the three memories. The host of 32 bits maps
memory at 3 GB and its zone begins at no multiple of 8 MB, so that a window of 8 MB would
show; that of 64 bits has the zone right below 3 GB. Its offset is 66 GB because TLC's
integers hold no real one: what matters is that it is above 4 GB and that its lower 32
bits are not 0. The registers another host left have the inbound windows and outbound
region 0 above 4 GB, so that a high word that is not stored shows, and the other 31
outbound regions open into its memory below. The first byte of a CRC
message uses every entry of the table, and the later ones meet a register that is not
all ones. The proofs hold for all values, and messages of any length.

`CHECK_DEADLOCK FALSE` everywhere: a poll and a boot end, messages are bounded by
`NMsg`, processes block in `down`, and a model after an oops stops.

Each property has a fault in its module (`...Unchecked`, `...Early`, `...Swapped`
and so on, each with a comment) that breaks it.

### Fairness

`PollLoop` and `FairSpec` of `BootLoader`: only the polling kernel thread is fair; it
is scheduled, and nothing it waits for is assumed. `PatientSpec` adds fairness of the
DSP and answers before the last read, which is the hypothesis of that run.
`FairSpec` of `LinkLayer`: processes and DSP programs keep running, each of the four
only as a whole; a process that turns to the interrupt does not come back, which
`AllGiven` excepts. `FairSpec` of `Driver`: init, handler, DSP and processes run.
`Spec` of `BootStart`: `insmod` runs on, and the ROM polls.
Weak fairness is enough: no step of one actor disables a step another waits to take.

## 5. What the violated runs say

1. *-1 is never returned* (`bootLoader.c:284`, 347). The poll for `DSP_INIT_READY` is
   not looked at.
2. *0 is not success* (`bootLoader.c:460`). The wait for the reset of images 1 and 2
   is not checked. If it expires, the host overwrites the zone while the DSP reads the
   previous image, takes that image's answer for this one's, and the DSP starts a core
   with another core's image. With a bound of 0xffffffff reads this needs a DSP
   that is stuck for minutes. This is the only such event: `TimelySpec` excludes it
   and everything holds.
3. *WRITE_RESET does not stop the DSP* (`LinkLayer.c:288`).
4. *Turning to the interrupt is final* (`entry.c:598`). The semaphores start at 0 and
   the only `up` is in code that is compiled out.

Not a finding, because nothing in the repository says otherwise: a poll counts the
successful read too (`common.c:46`), so a word found by the last permitted read is
reported as a timeout. `PollCall` says so explicitly.

Visible in `BootStart`, and stated by `DspSeesZone` rather than by a violated run of its own:
on a host of 64 bits the register table does not lead the kernel to the zone. Line 320 of
`bootLoader.c` makes a `uint32_t` of the virtual address, and line 322 a pointer of that.
The revision history in the head of `entry.c` (line 23, "support 32-bit/64-bit Linux") is
not true of this code; `bootLoader.c:238` ("TODO: convert to 64 bit machine,will change this
code") says as much of `dspMemoryMap()`. On such a host the boot goes wrong at the first use of
the table, so `BootLoader` and the modules after it are about hosts of 32 bits.

Also visible there, though no text claims otherwise: the outbound regions 1 to 31 keep what they
held, right behind the zone in the DSP's addresses. `WindowIsZone` is about region 0 only.

Also visible in `Driver`, though no text in the repository claims otherwise
(`entry.c:227` is a todo): after a failed `insmod` or an `rmmod` the character
device and the shared interrupt still lead into the module (`FreedCode`). A process that
opens a node between `cdev_add` and the end of `init_module`, or one whose name and minor
number disagree, may use a pointer that is not set, or another chip's registers
(`OpenFindsUnit`, `OpenLinkLayer`, `Ioctl`). `NoOops` does not say that this cannot happen; it
says that `init_module` and orderly processes never do it.

## 6. What is proved

Every theorem holds for all values of the constants that satisfy the named
assumptions: `PollAssumption` (bounds are natural numbers), `BootAssumption` and
`LinkAssumption` (at least one core and one block), `DriverAssumption` (1 to 4
endpoints, the size of `g_pPcieDev`), `UploadAssumption` (images as a linker makes
them), `ZoneAssumption` (the kernel aligns the zone to its size and takes it from below 4 GB;
on a host of 32 bits that memory is mapped below 4 GB, too),
`ImageAssumption` (an application image fits behind the registers), `RegsAssumption` (the
BARs lie below 4 GB, because `PCI_setInBound` stores 32 bits of their start and 0 above),
`InputAssumption` (messages are made of bytes), and `TableAssumption` and
`ResidueAssumption`, which have no parameter and are evaluated by TLC.

* **`PollLoopProofs`**: type correctness, `SuccessWasRead`, and that the loop implements `PollCall`.
  `LoopInv` says what counter and flag are at each point of the loop. The refinement maps
  a read that finds nothing to `Miss`, and the step that sets `retVal`, `Verdict`, to
  `Return`; the read that finds the word is a stutter, because nothing is returned yet.
* **`BootLoaderProofs`**: about `Spec`, type correctness, `CoreZeroLoaded` and
  `NoOldImage`. Neither is inductive. `HostInv` ties the control word to the host's
  place, `DspInv` the status word to the DSP's, `PaceInv` bounds how far one may be
  ahead of the other, `ZoneInv` says what is in the zone, and `CoreZeroInv` that the
  checked waits keep both at the same image until core 0 has its own. `BootBounded`
  follows with a measure: each step of the host uses up some of `HostLeft` and a step
  of the DSP none, so the part of `BootReturns` that does not need fairness is proved. About
  `TimelySpec` the same argument goes on for all cores (`Sync`): every image whole,
  success means loaded, the zone is held while read, the answer is fresh, the two sides
  never wait for each other, and `ImagePush` is implemented.
* **`LinkLayerProofs`**: type correctness, `TakenInOrder`, `BufferHeld`, `AnswerIsFresh`,
  `NoMutualWait` and the refinement of `LinkChannel`. The invariant is one conjunct per direction
  (`WriteInv`, `ReadInv`), each by cases on the control word: it tells how far the
  exchange is even when the process is blocked in `down`, and each case says how many
  messages are taken against given. `WriteLeavesRead` and `ReadLeavesWrite` let each
  direction be proved alone.
* **`UploadProofs`**, **`BootStartProofs`**: type correctness, `ProgramWhole`,
  `NothingElseWritten`, `ImageConsumed`, the refinement of `ProgramLoad`, and
  `InboundAsUploaded`, `DspSeesZone`, `WindowIsZone`, `BuffersInZone`, for every linked image, every host
  and zone, and every content the registers had before.
  `UploadProofs` has the lemmas. Its invariant `UploadInv` has two parts beyond the
  types and `NothingElseWritten`: `Position` ties the place in the image, the address
  of the next block and the blocks sent to one another, within section `secNum + 1`;
  `Contents` says that what was sent so far is where it belongs. A step is then one
  question about arithmetic (blocks and remainder make up the rounded size) and one
  about memory (a block overwrites no finished section, because sections are apart).
  `BootStartProofs` adds `DmaInv`, the addresses at each point of the mapping (the register
  table is the lower 32 bits of the zone's address on the host), and
  `RegsInv`: the regions below `region` are set and stay so, since no two registers
  have the same offset.
* **`DriverProofs`**: type correctness, `IsrFindsRegisters`, `NoOops` and
  `OpenMeansBooted`, all under `Spec`, so with every open, failure and reload. `IrqInv` says that an interrupt is
  requested only when all BARs of its chip are mapped; `ProgressInv` what
  `init_module` has set and enabled at each point; `ProcInv` what a process that opened a node has
  found. Chip 0 is the only one served, and that bound is what `OpenMeansBooted` needs:
  with the loop over all chips, which is commented out, the result of the last chip
  hides a failed boot of an earlier one.

* **`Crc32Proofs`**: `CrcIsRemainder`, `StreamIsOneShot` and `ResidueIsFixed`, for every
  message of any length. The division by single bits is linear (`DivideLinear`): dividing
  the exclusive or of two messages, from the exclusive or of two registers, gives the
  exclusive or of the results. A register whose own bits come in again as the message is
  only shifted (`DivideShifts`). A byte is its exclusive or with the upper byte of the
  register, which the table divides, and that upper byte, which shifts the register:
  one turn of the loop (`StepDivides`), and by induction over the message the whole
  (`GetCrcDivides`). Before its trailer the register is the
  exclusive or of the checksum, which the trailer shifts out, and of all ones, which four
  bytes of 0 divide: what is left is the same for every message (`TrailerLeavesResidue`).
  The induction theorems of the library take an operator, which the provers cannot
  instantiate; `Induction` states the same for a set of numbers, from the
  well-foundedness of `<`, and that is what all inductions here use.

Only checked: liveness (`PollEnds`, `BootReturns`, `BootSucceeds`, `AllGiven`,
`ProgramStarts`), which the prover does not reach, as it does not reach `ENABLED`.

## 7. Assumptions and what is left out

* DMA memory is zero at first (`dma_alloc_coherent` returns zeroed memory).
* Stores of one side are seen by the other in program order: x86 stores, and posted
  writes on the bus. The driver uses no barrier. Loads and stores of a word are atomic.
* The DSP programs and the processes are not in the repository; a different DSP loader
  or a process with another order of commands is another model.
* Two processes that use the same direction of the same device at once are not
  modelled; the driver has no lock, so they would mix their exchanges.
* `ISR_handler` has no return statement. What the kernel makes of the value is left out.
* `sscanf` with `%d` stores an `int` into the 8-bit chip index (`entry.c:508`); the
  model takes the number in the name.
* Results the code does not look at, and what follows is not known: a failing `kzalloc`,
  `cdev_alloc`, `ioremap_nocache` or `request_mem_region`. After a failed
  `dma_alloc_coherent` the upload is still followed, but what a store to address 0 does
  is not.
* `DPU_probe`, `DPU_close`, `DPU_release`, `LinkLayer_Close`, `LinkLayer_CheckStatus` and
  `PCI_DisableDspInterrupt` have no caller in the build, and the commands `CONFIRM` and
  `CHECKDPMALLOVER` are compiled out (`IgnoredCommands`). `uploadProgram` is only called
  for core 0.
* The DSP is not reset by a second `insmod`; what a program that still runs makes of a
  second upload is not known. `Driver` follows the host's pointers only.
* A process that passes an unknown type to a wait reads through NULL (`IoctlWait`); a
  mapping longer than the zone shows other memory. Both are in the hands of the process.
* `DPUCore1_6678.h` and `DPUCore2_6678.h` are not in the repository. The application image
  goes through the zone; its sections are read by the loader on the DSP, and only its
  length matters here.
* The words of an image are represented by the addresses they are linked to, and
  logging changes no state.

## 8. Running

    tlc -workers 2 -config BootLoader_timely.cfg MCBootLoader.tla
    tlc -workers 2 -config BootStart_start.cfg MCBootStart.tla
    tlapm BootLoaderProofs.tla
    tlapm BootStartProofs.tla
    tlapm Crc32Proofs.tla
