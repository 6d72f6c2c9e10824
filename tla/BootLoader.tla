----------------------------- MODULE BootLoader -----------------------------
(***************************************************************************)
(* bootLoader() of src/src/bootLoader.c: the host uploads the init code,   *)
(* waits for the DSP, then pushes one program image per core through a     *)
(* single buffer (the image zone behind the register table), handing the   *)
(* buffer over with pushCodeControl (written by the host) and              *)
(* pushCodeStatus (written by the DSP).  Every wait is a bounded poll.     *)
(*                                                                         *)
(* The DSP side runs code that is not in the repository.  It is modelled   *)
(* from the register values and the comments of bootLoader.c and           *)
(* bootLoader.h, may be arbitrarily slow, and may stop at any point.       *)
(***************************************************************************)
EXTENDS Polling

CONSTANTS
  BootCoreNum,  \* number of images pushed: one for core 0, then bootCoreNum-1
  NBlock,       \* pieces in which memcpy fills and the DSP reads the zone
  MaxPoll       \* the bound of every poll (0xffffffff in the code)

ASSUME BootAssumption ==
  /\ BootCoreNum \in Nat \ {0}
  /\ NBlock \in Nat \ {0}
  /\ MaxPoll \in Nat

Cores  == 0 .. BootCoreNum - 1
Blocks == 1 .. NBlock
NoData == -1     \* a block nobody has written; otherwise the core whose image it is

(* Register words, as sets of bits (src/inc/bootLoader.h). *)
DSP_INIT_READY     == {0}
DSP_GETCODE_RESET  == {0}
DSP_GETCODE_FINISH == {4}
PC_PUSHCODE_RESET  == {0}
PC_PUSHCODE_FINISH == {4}
setWhichCoreRun    == Cores   \* 0x07 for cores 0, 1 and 2

VARIABLES
  pc,                  \* where bootLoader() is
  coreIndex,           \* index of the image being pushed
  copied,              \* blocks of the zone the running memcpy has written
  loopCount,           \* counter of the poll in progress
  retValue,            \* result returned when pc = "done"
  pushCodeControl,     \* register table, written by the host
  pushCodeStatus,      \* register table, written by the DSP
  DPUBootStatus,       \* register table, written by the DSP
  MultiCoreBootStatus, \* register table: set of cores that report they run
  imgZone,             \* the image zone: whose image each block belongs to
  dspPc,               \* where the loader on the DSP is
  dspCore,             \* number of images the DSP has finished reading
  dspGot,              \* blocks of the current image the DSP has read
  dspImage             \* what the DSP loaded for each core

hostVars == <<pc, coreIndex, copied, loopCount, retValue, pushCodeControl, imgZone>>
dspVars  == <<pushCodeStatus, DPUBootStatus, MultiCoreBootStatus,
              dspPc, dspCore, dspGot, dspImage>>
vars     == <<pc, coreIndex, copied, loopCount, retValue, pushCodeControl, imgZone,
              pushCodeStatus, DPUBootStatus, MultiCoreBootStatus,
              dspPc, dspCore, dspGot, dspImage>>

Blank == [b \in Blocks |-> NoData]

Init ==
  /\ pc = "upload" /\ coreIndex = 0 /\ copied = 0 /\ loopCount = 0 /\ retValue = 0
  /\ pushCodeControl = {} /\ imgZone = Blank
  /\ pushCodeStatus = {} /\ DPUBootStatus = {} /\ MultiCoreBootStatus = {}
  /\ dspPc = "rom" /\ dspCore = 0 /\ dspGot = 0
  /\ dspImage = [c \in Cores |-> Blank]

-----------------------------------------------------------------------------
(* The host. *)

PollPoints == {"pollInit", "pollReset", "pollFinish", "pollBoot"}

(* Fault: the boot poll awaits all eight cores, as in a commented-out test. *)
AwaitedEight(p) ==
  \/ p = "pollInit"   /\ MaskSet(DPUBootStatus, DSP_INIT_READY)
  \/ p = "pollReset"  /\ MaskSet(pushCodeStatus, DSP_GETCODE_RESET)
  \/ p = "pollFinish" /\ MaskSet(pushCodeStatus, DSP_GETCODE_FINISH)
  \/ p = "pollBoot"   /\ EqualTo(MultiCoreBootStatus, 0 .. 7)

(* Fault: the wait for the end of the reading tests the bit of the reset. *)
AwaitedReset(p) ==
  \/ p = "pollInit"   /\ MaskSet(DPUBootStatus, DSP_INIT_READY)
  \/ p = "pollReset"  /\ MaskSet(pushCodeStatus, DSP_GETCODE_RESET)
  \/ p = "pollFinish" /\ MaskSet(pushCodeStatus, DSP_GETCODE_RESET)
  \/ p = "pollBoot"   /\ EqualTo(MultiCoreBootStatus, setWhichCoreRun)

(* The test of the poll at p. *)
Awaited(p) ==
  \/ p = "pollInit"   /\ MaskSet(DPUBootStatus, DSP_INIT_READY)
  \/ p = "pollReset"  /\ MaskSet(pushCodeStatus, DSP_GETCODE_RESET)
  \/ p = "pollFinish" /\ MaskSet(pushCodeStatus, DSP_GETCODE_FINISH)
  \/ p = "pollBoot"   /\ EqualTo(MultiCoreBootStatus, setWhichCoreRun)

(* The poll at pc returns rv; the next call starts counting from 0 again. *)
PollEnds(rv) ==
  /\ PollReturns(loopCount, MaxPoll, Awaited(pc), rv)
  /\ loopCount' = 0

(* uploadProgram() writes the init code and, last, its entry point at
   MAGIC_ADDR; the boot ROM of core 0 then starts it.  The write of one word
   at MAGIC_ADDR always returns 4, so uploadProgram always returns 0. *)
UploadProgram ==
  /\ pc = "upload"
  /\ pc' = "pollInit"
  /\ dspPc' = "init"
  /\ UNCHANGED <<coreIndex, copied, loopCount, retValue, pushCodeControl, imgZone,
                 pushCodeStatus, DPUBootStatus, MultiCoreBootStatus,
                 dspCore, dspGot, dspImage>>

(* Fault: the counter of the poll is not advanced. *)
PollMissStuck ==
  /\ pc \in PollPoints
  /\ PollRepeats(loopCount, MaxPoll, Awaited(pc))
  /\ UNCHANGED vars

PollMiss ==
  /\ pc \in PollPoints
  /\ PollRepeats(loopCount, MaxPoll, Awaited(pc))
  /\ loopCount' = loopCount + 1
  /\ UNCHANGED <<pc, coreIndex, copied, retValue, pushCodeControl, imgZone, dspVars>>

(* The result of the poll for DSP_INIT_READY is stored and never looked at. *)
PollInitReturns ==
  /\ pc = "pollInit"
  /\ \E rv \in {0, -1} : PollEnds(rv)
  /\ pc' = "reset"
  /\ UNCHANGED <<coreIndex, copied, retValue, pushCodeControl, imgZone, dspVars>>

(* Step 1: updateWriteBuffer(resetBeforeWrite). *)
ResetControl ==
  /\ pc = "reset"
  /\ pushCodeControl' = PC_PUSHCODE_RESET
  /\ pc' = "pollReset"
  /\ UNCHANGED <<coreIndex, copied, loopCount, retValue, imgZone, dspVars>>

(* Fault: step 2 is left out for every core. *)
PollResetSkipped ==
  /\ pc = "pollReset"
  /\ pc' = "copy"
  /\ UNCHANGED <<coreIndex, copied, loopCount, retValue, pushCodeControl, imgZone, dspVars>>

(* Step 2: waitDSPreadBufferReset.  A timeout ends the boot for core 0 only;
   for the other cores the result is ignored. *)
PollResetReturns ==
  /\ pc = "pollReset"
  /\ \E rv \in {0, -1} :
       /\ PollEnds(rv)
       /\ \/ /\ rv = -1 /\ coreIndex = 0
             /\ retValue' = -2 /\ pc' = "done"
          \/ /\ rv = 0 \/ coreIndex > 0
             /\ pc' = "copy" /\ UNCHANGED retValue
  /\ UNCHANGED <<coreIndex, copied, pushCodeControl, imgZone, dspVars>>

(* Step 3: writeOutBuffer, the memcpy, block by block. *)
CopyBlock ==
  /\ pc = "copy"
  /\ copied < NBlock
  /\ imgZone' = [imgZone EXCEPT ![copied + 1] = coreIndex]
  /\ copied' = copied + 1
  /\ UNCHANGED <<pc, coreIndex, loopCount, retValue, pushCodeControl, dspVars>>

(* Fault: the image is announced before the copy is complete. *)
PushFinishEarly ==
  /\ pc = "copy"
  /\ copied + 1 = NBlock
  /\ pushCodeControl' = PC_PUSHCODE_FINISH
  /\ copied' = 0
  /\ pc' = "pollFinish"
  /\ UNCHANGED <<coreIndex, loopCount, retValue, imgZone, dspVars>>

(* Step 4: updateWriteBuffer(finished). *)
PushFinish ==
  /\ pc = "copy"
  /\ copied = NBlock
  /\ pushCodeControl' = PC_PUSHCODE_FINISH
  /\ copied' = 0
  /\ pc' = "pollFinish"
  /\ UNCHANGED <<coreIndex, loopCount, retValue, imgZone, dspVars>>

(* Fault: the result of waitDSPread is ignored like that of step 2. *)
PollFinishReturnsUnchecked ==
  /\ pc = "pollFinish"
  /\ \E rv \in {0, -1} : PollEnds(rv)
  /\ pc' = "release"
  /\ UNCHANGED <<coreIndex, copied, retValue, pushCodeControl, imgZone, dspVars>>

(* Step 5: waitDSPread; a timeout ends the boot for every core. *)
PollFinishReturns ==
  /\ pc = "pollFinish"
  /\ \E rv \in {0, -1} :
       /\ PollEnds(rv)
       /\ \/ rv = 0  /\ pc' = "release" /\ UNCHANGED retValue
          \/ rv = -1 /\ pc' = "done" /\ retValue' = -2
  /\ UNCHANGED <<coreIndex, copied, pushCodeControl, imgZone, dspVars>>

(* Fault: one image too many. *)
ReleaseControlOneMore ==
  /\ pc = "release"
  /\ pushCodeControl' = PC_PUSHCODE_RESET
  /\ coreIndex' = coreIndex + 1
  /\ pc' = IF coreIndex < BootCoreNum THEN "reset" ELSE "pollBoot"
  /\ UNCHANGED <<copied, loopCount, retValue, imgZone, dspVars>>

(* PC_PUSHCODE_RESET again, then the next image or the final poll. *)
ReleaseControl ==
  /\ pc = "release"
  /\ pushCodeControl' = PC_PUSHCODE_RESET
  /\ coreIndex' = coreIndex + 1
  /\ pc' = IF coreIndex + 1 < BootCoreNum THEN "reset" ELSE "pollBoot"
  /\ UNCHANGED <<copied, loopCount, retValue, imgZone, dspVars>>

(* pollCompareValue(&setWhichCoreRun, &MultiCoreBootStatus). *)
PollBootReturns ==
  /\ pc = "pollBoot"
  /\ \E rv \in {0, -1} :
       /\ PollEnds(rv)
       /\ retValue' = IF rv = 0 THEN 0 ELSE -4
  /\ pc' = "done"
  /\ UNCHANGED <<coreIndex, copied, pushCodeControl, imgZone, dspVars>>

Host ==
  \/ UploadProgram \/ PollMiss \/ PollInitReturns
  \/ ResetControl \/ PollResetReturns \/ CopyBlock \/ PushFinish
  \/ PollFinishReturns \/ ReleaseControl \/ PollBootReturns

-----------------------------------------------------------------------------
(* The DSP (external). *)

(* The init code set up the platform: DPUBootStatus = DSP_INIT_READY. *)
DspInitReady ==
  /\ dspPc = "init"
  /\ DPUBootStatus' = DSP_INIT_READY
  /\ dspPc' = "awaitReset"
  /\ UNCHANGED <<hostVars, pushCodeStatus, MultiCoreBootStatus, dspCore, dspGot, dspImage>>

(* It sees the host's reset, ... *)
DspSeesReset ==
  /\ dspPc = "awaitReset"
  /\ dspCore < BootCoreNum
  /\ MaskSet(pushCodeControl, PC_PUSHCODE_RESET)
  /\ dspPc' = "answerReset"
  /\ UNCHANGED <<hostVars, pushCodeStatus, DPUBootStatus, MultiCoreBootStatus,
                 dspCore, dspGot, dspImage>>

(* ... and some time later answers by resetting its read buffer: the load of
   one register and the store to another are two accesses over the bus. *)
DspGetcodeReset ==
  /\ dspPc = "answerReset"
  /\ pushCodeStatus' = DSP_GETCODE_RESET
  /\ dspPc' = "awaitFinish"
  /\ UNCHANGED <<hostVars, DPUBootStatus, MultiCoreBootStatus, dspCore, dspGot, dspImage>>

DspStartGet ==
  /\ dspPc = "awaitFinish"
  /\ MaskSet(pushCodeControl, PC_PUSHCODE_FINISH)
  /\ dspPc' = "get"
  /\ UNCHANGED <<hostVars, pushCodeStatus, DPUBootStatus, MultiCoreBootStatus,
                 dspCore, dspGot, dspImage>>

(* It reads the zone block by block, for the next core it has to start. *)
DspGetBlock ==
  /\ dspPc = "get"
  /\ dspGot < NBlock
  /\ dspImage' = [dspImage EXCEPT ![dspCore][dspGot + 1] = imgZone[dspGot + 1]]
  /\ dspGot' = dspGot + 1
  /\ UNCHANGED <<hostVars, pushCodeStatus, DPUBootStatus, MultiCoreBootStatus, dspPc, dspCore>>

DspGetcodeFinish ==
  /\ dspPc = "get"
  /\ dspGot = NBlock
  /\ pushCodeStatus' = DSP_GETCODE_FINISH
  /\ dspCore' = dspCore + 1
  /\ dspGot' = 0
  /\ dspPc' = "awaitReset"
  /\ UNCHANGED <<hostVars, DPUBootStatus, MultiCoreBootStatus, dspImage>>

(* A core that was given an image, whatever it is, starts and reports. *)
DspCoreRuns(c) ==
  /\ c < dspCore
  /\ c \notin MultiCoreBootStatus
  /\ MultiCoreBootStatus' = MultiCoreBootStatus \cup {c}
  /\ UNCHANGED <<hostVars, pushCodeStatus, DPUBootStatus, dspPc, dspCore, dspGot, dspImage>>

Dsp ==
  \/ DspInitReady \/ DspSeesReset \/ DspGetcodeReset \/ DspStartGet
  \/ DspGetBlock \/ DspGetcodeFinish
  \/ \E c \in Cores : DspCoreRuns(c)

-----------------------------------------------------------------------------
Next == Host \/ Dsp
Spec == Init /\ [][Next]_vars

(* bootLoader() runs in the context of insmod and is scheduled; nothing is
   assumed of the DSP. *)
FairSpec == Spec /\ WF_vars(Host)

(* The same system when no wait for the DSP's reset whose result is ignored
   expires.  Every other poll may expire. *)
ResetAnswered == pc = "pollReset" /\ pc' = "copy" => loopCount + 1 < MaxPoll
TimelyNext    == Next /\ ResetAnswered
TimelySpec    == Init /\ [][TimelyNext]_vars

(* The same system when the DSP answers every poll before it expires. *)
NoPollExpires == loopCount' + 1 < MaxPoll
PatientHost   == Host /\ NoPollExpires
PatientNext   == PatientHost \/ Dsp
PatientSpec   == Init /\ [][PatientNext]_vars /\ WF_vars(PatientHost) /\ WF_vars(Dsp)

-----------------------------------------------------------------------------
(* Properties. *)

TypeOK ==
  /\ pc \in {"upload", "reset", "copy", "release", "done"} \cup PollPoints
  /\ coreIndex \in 0 .. BootCoreNum
  /\ copied \in 0 .. NBlock
  /\ loopCount \in 0 .. MaxPoll
  /\ retValue \in {0, -2, -4}
  /\ pushCodeControl \in {{}, PC_PUSHCODE_RESET, PC_PUSHCODE_FINISH}
  /\ pushCodeStatus \in {{}, DSP_GETCODE_RESET, DSP_GETCODE_FINISH}
  /\ DPUBootStatus \in {{}, DSP_INIT_READY}
  /\ MultiCoreBootStatus \in SUBSET Cores
  /\ imgZone \in [Blocks -> Cores \cup {NoData}]
  /\ dspPc \in {"rom", "init", "awaitReset", "answerReset", "awaitFinish", "get"}
  /\ dspCore \in 0 .. BootCoreNum
  /\ dspGot \in 0 .. NBlock
  /\ dspImage \in [Cores -> [Blocks -> Cores \cup {NoData}]]

WholeImage(k) == [b \in Blocks |-> k]

(* Core 0, all of whose waits are checked, gets its own image and gets it
   whole, however slow the DSP is and however far the host runs ahead later. *)
CoreZeroLoaded == dspCore > 0 => dspImage[0] = WholeImage(0)

(* No core is given a block older than its own image. *)
NoOldImage == \A c \in Cores : c < dspCore => \A b \in Blocks : dspImage[c][b] >= c

(* bootLoader.c:284, "0 : success": every core was given the image meant for
   it.  It holds when no ignored wait expires (TimelySpec); otherwise a host
   that goes on without the DSP's reset may take the answer to the previous
   image for an answer to this one, and the run BootLoader_success fails. *)
SuccessMeansLoaded ==
  pc = "done" /\ retValue = 0 => \A c \in Cores : dspImage[c] = WholeImage(c)

(* If no ignored wait expires, no other timeout does harm: what the DSP took
   for an image is the image of that core, whole, ... *)
ExactDelivery == \A c \in Cores : c < dspCore => dspImage[c] = WholeImage(c)

(* ... the host does not touch the zone, or announce another image, while the
   DSP reads it, ... *)
ZoneHeldWhileRead ==
  dspPc = "get" => /\ pushCodeControl = PC_PUSHCODE_FINISH
                   /\ imgZone = WholeImage(coreIndex)

(* ... and the host moves on only when the DSP has the image. *)
AckIsFresh == pc = "release" => dspCore = coreIndex + 1

(* insmod does not hang: bootLoader returns even if the DSP never answers. *)
BootReturns == <>(pc = "done")

(* How many steps bootLoader has left at most: every poll counts up to its bound
   and every image is pushed once, so the bound is known when insmod starts. *)
PollSteps   == MaxPoll + 1
ImageSteps  == 2 * PollSteps + NBlock + 3
ImagesAfter == (BootCoreNum - coreIndex - 1) * ImageSteps
ImageLeft ==
  CASE pc = "reset"      -> ImageSteps
    [] pc = "pollReset"  -> 2 * PollSteps + NBlock + 2 - loopCount
    [] pc = "copy"       -> PollSteps + NBlock + 2 - copied
    [] pc = "pollFinish" -> PollSteps + 1 - loopCount
    [] OTHER             -> 1
HostLeft ==
  CASE pc = "upload"   -> 2 * PollSteps + 1 + BootCoreNum * ImageSteps
    [] pc = "pollInit" -> 2 * PollSteps - loopCount + BootCoreNum * ImageSteps
    [] pc = "pollBoot" -> PollSteps - loopCount
    [] pc = "done"     -> 0
    [] OTHER           -> ImageLeft + ImagesAfter + PollSteps

(* Without any fairness, and whatever the DSP does or leaves undone, bootLoader
   uses up that number step by step and goes back to no poll and no image: it is
   what keeps insmod from hanging. *)
BootBounded == [][HostLeft' \in 0 .. HostLeft - 1 \/ (Dsp /\ HostLeft' = HostLeft)]_vars

(* If no ignored wait expires, host and DSP never wait for each other: while
   the host polls pushCodeStatus in vain, the DSP is not waiting for a word in
   pushCodeControl that the host has not stored or has stored over. *)
HostWaits == pc \in {"pollReset", "pollFinish"} /\ ~ Awaited(pc)
DspWaits ==
  \/ dspPc = "awaitReset" /\ dspCore < BootCoreNum /\ ~ MaskSet(pushCodeControl, PC_PUSHCODE_RESET)
  \/ dspPc = "awaitFinish" /\ ~ MaskSet(pushCodeControl, PC_PUSHCODE_FINISH)

NoMutualWait == ~ (HostWaits /\ DspWaits)

(* With a DSP that answers in time the boot succeeds. *)
BootSucceeds == <>(pc = "done" /\ retValue = 0)

(* bootLoader.c:284, "-1 : platform init fail": a DSP whose platform init never
   completed makes bootLoader return -1. *)
PlatformInitFailCode ==
  pc = "done" /\ DPUBootStatus = {} => retValue = -1

(* The push seen from outside: what the DSP received, and the result. *)
Outcome ==
  IF pc # "done" THEN "pending" ELSE IF retValue = 0 THEN "success" ELSE "failure"

Push == INSTANCE ImagePush WITH
  received <- dspCore,
  image    <- [c \in Cores |-> IF c < dspCore THEN dspImage[c] ELSE Blank],
  outcome  <- Outcome

(* If no ignored wait expires, bootLoader implements the abstract push. *)
PushSpec == Push!Spec
=============================================================================
