-------------------------- MODULE BootLoaderProofs --------------------------
(***************************************************************************)
(* Proofs about BootLoader for every number of cores, blocks and polls.    *)
(* The first part is about Spec, the second about TimelySpec, where no     *)
(* ignored wait expires.                                                   *)
(***************************************************************************)
EXTENDS BootLoader, TLAPS

(* The inductive invariant of Spec, in named parts. *)

(* Where the host is determines what it has written to pushCodeControl. *)
HostInv ==
  /\ pc = "upload" <=> dspPc = "rom"
  /\ pc \in {"upload", "pollInit"} => pushCodeControl = {}
  /\ pc \in {"pollReset", "copy", "pollBoot"} => pushCodeControl = PC_PUSHCODE_RESET
  /\ pc \in {"pollFinish", "release"} => pushCodeControl = PC_PUSHCODE_FINISH
  /\ pushCodeControl = {} => pc \in {"upload", "pollInit", "reset"} /\ coreIndex = 0
  /\ pushCodeControl = PC_PUSHCODE_FINISH => pc \in {"pollFinish", "release", "done"}
  /\ copied > 0 => pc = "copy"

(* How far the host is and what it will return. *)
ReturnInv ==
  /\ pc = "pollBoot" => coreIndex = BootCoreNum
  /\ pc \notin {"pollBoot", "done"} => coreIndex < BootCoreNum
  /\ pushCodeControl = PC_PUSHCODE_FINISH => coreIndex < BootCoreNum
  /\ pc # "done" => retValue = 0
  /\ pc = "done" /\ retValue = 0 =>
       /\ MultiCoreBootStatus = setWhichCoreRun
       /\ coreIndex = BootCoreNum
       /\ pushCodeControl = PC_PUSHCODE_RESET

(* Where the DSP is determines pushCodeStatus. *)
DspInv ==
  /\ dspPc \in {"rom", "init"} => dspCore = 0
  /\ dspPc \in {"answerReset", "awaitFinish", "get"} =>
       dspCore < BootCoreNum /\ pushCodeControl # {}
  /\ pushCodeStatus = DSP_GETCODE_RESET <=> dspPc \in {"awaitFinish", "get"}
  /\ pushCodeStatus = DSP_GETCODE_FINISH => dspPc \in {"awaitReset", "answerReset"} /\ dspCore > 0
  /\ pushCodeStatus = {} => dspCore = 0
  /\ dspGot > 0 => dspPc = "get"
  /\ \A c \in MultiCoreBootStatus : c < dspCore

(* The DSP never overtakes the host: it may fall behind, when the host ran
   ahead, and is ahead only between receiving an image and its release. *)
PaceInv ==
  /\ dspCore <= coreIndex + 1
  /\ pushCodeControl # PC_PUSHCODE_FINISH => dspCore <= coreIndex
  /\ dspPc \in {"answerReset", "awaitFinish", "get"} => dspCore <= coreIndex
  /\ dspPc = "get" /\ pushCodeControl # PC_PUSHCODE_FINISH => dspCore < coreIndex

(* What is in the zone, and no block there is too old for who reads it. *)
ZoneInv ==
  /\ pc = "copy" => \A b \in 1 .. copied : imgZone[b] = coreIndex
  /\ pushCodeControl = PC_PUSHCODE_FINISH => \A b \in Blocks : imgZone[b] = coreIndex
  /\ dspPc = "get" => \A b \in Blocks : imgZone[b] >= dspCore
  /\ dspPc = "get" => \A b \in 1 .. dspGot : dspImage[dspCore][b] >= dspCore

(* Host and DSP are at the same image. *)
Sync ==
  /\ pushCodeControl # PC_PUSHCODE_FINISH => dspCore = coreIndex /\ dspPc # "get"
  /\ pushCodeControl = PC_PUSHCODE_FINISH =>
       \/ dspCore = coreIndex /\ dspPc \in {"awaitFinish", "get"}
       \/ dspCore = coreIndex + 1 /\ dspPc = "awaitReset"
  /\ pc = "copy" => dspPc = "awaitFinish"
  /\ pc = "release" => dspCore = coreIndex + 1

(* The waits for core 0 are checked, so they are at the same image until core 0
   has its own. *)
CoreZeroInv ==
  /\ coreIndex = 0 => Sync
  /\ coreIndex > 0 => dspCore > 0
  /\ dspCore = 0 /\ dspPc = "get" => \A b \in 1 .. dspGot : dspImage[0][b] = 0
  /\ dspCore > 0 => \A b \in Blocks : dspImage[0][b] = 0

IInv == /\ TypeOK /\ HostInv /\ ReturnInv /\ DspInv
        /\ PaceInv /\ ZoneInv /\ NoOldImage /\ CoreZeroInv

-----------------------------------------------------------------------------
(* The register words that are compared are pairwise different, and testing
   one bit of a word tells which word it is. *)
LEMMA Words ==
  /\ PC_PUSHCODE_RESET # {} /\ PC_PUSHCODE_FINISH # {}
  /\ PC_PUSHCODE_RESET # PC_PUSHCODE_FINISH
  /\ DSP_GETCODE_RESET # {} /\ DSP_GETCODE_FINISH # {}
  /\ DSP_GETCODE_RESET # DSP_GETCODE_FINISH
  /\ DSP_INIT_READY # {}
  /\ TypeOK => /\ MaskSet(pushCodeControl, PC_PUSHCODE_RESET) => pushCodeControl = PC_PUSHCODE_RESET
               /\ MaskSet(pushCodeControl, PC_PUSHCODE_FINISH) => pushCodeControl = PC_PUSHCODE_FINISH
               /\ MaskSet(pushCodeStatus, DSP_GETCODE_RESET) => pushCodeStatus = DSP_GETCODE_RESET
               /\ MaskSet(pushCodeStatus, DSP_GETCODE_FINISH) => pushCodeStatus = DSP_GETCODE_FINISH
BY DEF TypeOK, MaskSet, PC_PUSHCODE_RESET, PC_PUSHCODE_FINISH,
       DSP_GETCODE_RESET, DSP_GETCODE_FINISH, DSP_INIT_READY

(* The constants and sets every step needs. *)
LEMMA Domains ==
  /\ BootCoreNum \in Nat /\ BootCoreNum > 0
  /\ NBlock \in Nat /\ NBlock > 0
  /\ MaxPoll \in Nat
  /\ 0 \in Cores
  /\ 1 \in Blocks
  /\ \A c : c \in Cores <=> c \in Int /\ 0 <= c /\ c < BootCoreNum
  /\ \A b : b \in Blocks <=> b \in Int /\ 1 <= b /\ b <= NBlock
BY BootAssumption DEF Cores, Blocks

LEMMA InitIInv == Init => IInv
BY Words, Domains DEF Init, IInv, TypeOK, HostInv, ReturnInv, DspInv, PaceInv, ZoneInv,
                      NoOldImage, CoreZeroInv, Sync, Blank, PollPoints, NoData

(* Every step preserves the type invariant; the bounds on coreIndex and
   dspCore need the other parts. *)
LEMMA StepType ==
  ASSUME IInv, [Next]_vars
  PROVE  TypeOK'
<1> USE Words, Domains DEF IInv, TypeOK, PollPoints, ReturnInv, DspInv
<1>1. CASE UploadProgram
  BY <1>1 DEF UploadProgram, dspVars
<1>2. CASE PollMiss
  BY <1>2 DEF PollMiss, dspVars, PollRepeats
<1>3. CASE PollInitReturns
  BY <1>3 DEF PollInitReturns, dspVars, PollEnds
<1>4. CASE ResetControl
  BY <1>4 DEF ResetControl, dspVars
<1>5. CASE PollResetReturns
  BY <1>5 DEF PollResetReturns, dspVars, PollEnds
<1>6. CASE CopyBlock
  BY <1>6 DEF CopyBlock, dspVars
<1>7. CASE PushFinish
  BY <1>7 DEF PushFinish, dspVars
<1>8. CASE PollFinishReturns
  BY <1>8 DEF PollFinishReturns, dspVars, PollEnds
<1>9. CASE ReleaseControl
  BY <1>9 DEF ReleaseControl, dspVars
<1>10. CASE PollBootReturns
  BY <1>10 DEF PollBootReturns, dspVars, PollEnds
<1>11. CASE DspInitReady
  BY <1>11 DEF DspInitReady, hostVars
<1>12. CASE DspSeesReset
  BY <1>12 DEF DspSeesReset, hostVars
<1>13. CASE DspGetcodeReset
  BY <1>13 DEF DspGetcodeReset, hostVars
<1>14. CASE DspStartGet
  BY <1>14 DEF DspStartGet, hostVars
<1>15. CASE DspGetBlock
  <2>1. dspCore \in Cores /\ dspGot + 1 \in Blocks
    BY <1>15 DEF DspGetBlock
  <2>2. imgZone[dspGot + 1] \in Cores \cup {NoData}
    BY <2>1
  <2>3. dspImage' \in [Cores -> [Blocks -> Cores \cup {NoData}]]
    BY <1>15, <2>1, <2>2 DEF DspGetBlock
  <2>4. QED
    BY <1>15, <2>1, <2>3 DEF DspGetBlock, hostVars
<1>16. CASE DspGetcodeFinish
  BY <1>16 DEF DspGetcodeFinish, hostVars
<1>17. ASSUME NEW c \in Cores, DspCoreRuns(c) PROVE TypeOK'
  BY <1>17 DEF DspCoreRuns, hostVars
<1>18. CASE UNCHANGED vars
  BY <1>18 DEF vars
<1>19. QED
  BY <1>1, <1>2, <1>3, <1>4, <1>5, <1>6, <1>7, <1>8, <1>9, <1>10,
     <1>11, <1>12, <1>13, <1>14, <1>15, <1>16, <1>17, <1>18 DEF Next, Host, Dsp

(* The host's control word follows its program counter. *)
LEMMA StepHost ==
  ASSUME IInv, TypeOK', [Next]_vars
  PROVE  HostInv'
<1> USE Words, Domains DEF IInv, TypeOK, HostInv, DspInv
<1>1. CASE UploadProgram
  BY <1>1 DEF UploadProgram, dspVars
<1>2. CASE PollMiss
  BY <1>2 DEF PollMiss, dspVars, PollRepeats
<1>3. CASE PollInitReturns
  BY <1>3 DEF PollInitReturns, dspVars, PollEnds
<1>4. CASE ResetControl
  BY <1>4 DEF ResetControl, dspVars
<1>5. CASE PollResetReturns
  BY <1>5 DEF PollResetReturns, dspVars, PollEnds
<1>6. CASE CopyBlock
  BY <1>6 DEF CopyBlock, dspVars
<1>7. CASE PushFinish
  BY <1>7 DEF PushFinish, dspVars
<1>8. CASE PollFinishReturns
  BY <1>8 DEF PollFinishReturns, dspVars, PollEnds
<1>9. CASE ReleaseControl
  BY <1>9 DEF ReleaseControl, dspVars
<1>10. CASE PollBootReturns
  BY <1>10 DEF PollBootReturns, dspVars, PollEnds
<1>11. CASE DspInitReady
  BY <1>11 DEF DspInitReady, hostVars
<1>12. CASE DspSeesReset
  BY <1>12 DEF DspSeesReset, hostVars
<1>13. CASE DspGetcodeReset
  BY <1>13 DEF DspGetcodeReset, hostVars
<1>14. CASE DspStartGet
  BY <1>14 DEF DspStartGet, hostVars
<1>15. CASE DspGetBlock
  BY <1>15 DEF DspGetBlock, hostVars
<1>16. CASE DspGetcodeFinish
  BY <1>16 DEF DspGetcodeFinish, hostVars
<1>17. ASSUME NEW c \in Cores, DspCoreRuns(c) PROVE HostInv'
  BY <1>17 DEF DspCoreRuns, hostVars
<1>18. CASE UNCHANGED vars
  BY <1>18 DEF vars
<1>19. QED
  BY <1>1, <1>2, <1>3, <1>4, <1>5, <1>6, <1>7, <1>8, <1>9, <1>10,
     <1>11, <1>12, <1>13, <1>14, <1>15, <1>16, <1>17, <1>18 DEF Next, Host, Dsp

(* The result follows the last poll. *)
LEMMA StepReturn ==
  ASSUME IInv, TypeOK', [Next]_vars
  PROVE  ReturnInv'
<1> USE Words, Domains DEF IInv, TypeOK, ReturnInv, HostInv, setWhichCoreRun
<1>1. CASE UploadProgram
  BY <1>1 DEF UploadProgram, dspVars
<1>2. CASE PollMiss
  BY <1>2 DEF PollMiss, dspVars, PollRepeats
<1>3. CASE PollInitReturns
  BY <1>3 DEF PollInitReturns, dspVars, PollEnds, PollReturns, Awaited
<1>4. CASE ResetControl
  BY <1>4 DEF ResetControl, dspVars
<1>5. CASE PollResetReturns
  BY <1>5 DEF PollResetReturns, dspVars, PollEnds, PollReturns, Awaited
<1>6. CASE CopyBlock
  BY <1>6 DEF CopyBlock, dspVars
<1>7. CASE PushFinish
  BY <1>7 DEF PushFinish, dspVars
<1>8. CASE PollFinishReturns
  BY <1>8 DEF PollFinishReturns, dspVars, PollEnds, PollReturns, Awaited
<1>9. CASE ReleaseControl
  BY <1>9 DEF ReleaseControl, dspVars
<1>10. CASE PollBootReturns
  BY <1>10 DEF PollBootReturns, dspVars, PollEnds, PollReturns, Awaited, EqualTo
<1>11. CASE DspInitReady
  BY <1>11 DEF DspInitReady, hostVars
<1>12. CASE DspSeesReset
  BY <1>12 DEF DspSeesReset, hostVars
<1>13. CASE DspGetcodeReset
  BY <1>13 DEF DspGetcodeReset, hostVars
<1>14. CASE DspStartGet
  BY <1>14 DEF DspStartGet, hostVars
<1>15. CASE DspGetBlock
  BY <1>15 DEF DspGetBlock, hostVars
<1>16. CASE DspGetcodeFinish
  BY <1>16 DEF DspGetcodeFinish, hostVars
<1>17. ASSUME NEW c \in Cores, DspCoreRuns(c) PROVE ReturnInv'
  BY <1>17 DEF DspCoreRuns, hostVars
<1>18. CASE UNCHANGED vars
  BY <1>18 DEF vars
<1>19. QED
  BY <1>1, <1>2, <1>3, <1>4, <1>5, <1>6, <1>7, <1>8, <1>9, <1>10,
     <1>11, <1>12, <1>13, <1>14, <1>15, <1>16, <1>17, <1>18 DEF Next, Host, Dsp

(* The DSP's status word follows its program counter. *)
LEMMA StepDsp ==
  ASSUME IInv, TypeOK', [Next]_vars
  PROVE  DspInv'
<1> USE Words, Domains DEF IInv, TypeOK, DspInv, HostInv
<1>1. CASE UploadProgram
  BY <1>1 DEF UploadProgram, dspVars
<1>2. CASE PollMiss
  BY <1>2 DEF PollMiss, dspVars, PollRepeats
<1>3. CASE PollInitReturns
  BY <1>3 DEF PollInitReturns, dspVars, PollEnds
<1>4. CASE ResetControl
  BY <1>4 DEF ResetControl, dspVars
<1>5. CASE PollResetReturns
  BY <1>5 DEF PollResetReturns, dspVars, PollEnds
<1>6. CASE CopyBlock
  BY <1>6 DEF CopyBlock, dspVars
<1>7. CASE PushFinish
  BY <1>7 DEF PushFinish, dspVars
<1>8. CASE PollFinishReturns
  BY <1>8 DEF PollFinishReturns, dspVars, PollEnds
<1>9. CASE ReleaseControl
  BY <1>9 DEF ReleaseControl, dspVars
<1>10. CASE PollBootReturns
  BY <1>10 DEF PollBootReturns, dspVars, PollEnds
<1>11. CASE DspInitReady
  BY <1>11 DEF DspInitReady, hostVars
<1>12. CASE DspSeesReset
  BY <1>12 DEF DspSeesReset, hostVars
<1>13. CASE DspGetcodeReset
  BY <1>13 DEF DspGetcodeReset, hostVars
<1>14. CASE DspStartGet
  BY <1>14 DEF DspStartGet, hostVars
<1>15. CASE DspGetBlock
  BY <1>15 DEF DspGetBlock, hostVars
<1>16. CASE DspGetcodeFinish
  BY <1>16 DEF DspGetcodeFinish, hostVars
<1>17. ASSUME NEW c \in Cores, DspCoreRuns(c) PROVE DspInv'
  BY <1>17 DEF DspCoreRuns, hostVars
<1>18. CASE UNCHANGED vars
  BY <1>18 DEF vars
<1>19. QED
  BY <1>1, <1>2, <1>3, <1>4, <1>5, <1>6, <1>7, <1>8, <1>9, <1>10,
     <1>11, <1>12, <1>13, <1>14, <1>15, <1>16, <1>17, <1>18 DEF Next, Host, Dsp

(* The DSP never overtakes the host. *)
LEMMA StepPace ==
  ASSUME IInv, TypeOK', [Next]_vars
  PROVE  PaceInv'
<1> USE Words, Domains DEF IInv, TypeOK, PaceInv, HostInv, DspInv
<1>1. CASE UploadProgram
  BY <1>1 DEF UploadProgram, dspVars
<1>2. CASE PollMiss
  BY <1>2 DEF PollMiss, dspVars, PollRepeats
<1>3. CASE PollInitReturns
  BY <1>3 DEF PollInitReturns, dspVars, PollEnds, PollReturns, Awaited
<1>4. CASE ResetControl
  BY <1>4 DEF ResetControl, dspVars
<1>5. CASE PollResetReturns
  BY <1>5 DEF PollResetReturns, dspVars, PollEnds, PollReturns, Awaited
<1>6. CASE CopyBlock
  BY <1>6 DEF CopyBlock, dspVars
<1>7. CASE PushFinish
  BY <1>7 DEF PushFinish, dspVars
<1>8. CASE PollFinishReturns
  BY <1>8 DEF PollFinishReturns, dspVars, PollEnds, PollReturns, Awaited
<1>9. CASE ReleaseControl
  BY <1>9 DEF ReleaseControl, dspVars
<1>10. CASE PollBootReturns
  BY <1>10 DEF PollBootReturns, dspVars, PollEnds, PollReturns, Awaited, EqualTo
<1>11. CASE DspInitReady
  BY <1>11 DEF DspInitReady, hostVars
<1>12. CASE DspSeesReset
  BY <1>12 DEF DspSeesReset, hostVars
<1>13. CASE DspGetcodeReset
  BY <1>13 DEF DspGetcodeReset, hostVars
<1>14. CASE DspStartGet
  BY <1>14 DEF DspStartGet, hostVars
<1>15. CASE DspGetBlock
  BY <1>15 DEF DspGetBlock, hostVars
<1>16. CASE DspGetcodeFinish
  BY <1>16 DEF DspGetcodeFinish, hostVars
<1>17. ASSUME NEW c \in Cores, DspCoreRuns(c) PROVE PaceInv'
  BY <1>17 DEF DspCoreRuns, hostVars
<1>18. CASE UNCHANGED vars
  BY <1>18 DEF vars
<1>19. QED
  BY <1>1, <1>2, <1>3, <1>4, <1>5, <1>6, <1>7, <1>8, <1>9, <1>10,
     <1>11, <1>12, <1>13, <1>14, <1>15, <1>16, <1>17, <1>18 DEF Next, Host, Dsp

(* The zone holds no block older than the image the DSP reads. *)
LEMMA StepZone ==
  ASSUME IInv, TypeOK', [Next]_vars
  PROVE  ZoneInv'
<1> USE Words, Domains DEF IInv, TypeOK, ZoneInv, PaceInv, HostInv, DspInv, ReturnInv
<1>1. CASE UploadProgram
  BY <1>1 DEF UploadProgram, dspVars
<1>2. CASE PollMiss
  BY <1>2 DEF PollMiss, dspVars, PollRepeats
<1>3. CASE PollInitReturns
  BY <1>3 DEF PollInitReturns, dspVars, PollEnds
<1>4. CASE ResetControl
  BY <1>4 DEF ResetControl, dspVars
<1>5. CASE PollResetReturns
  BY <1>5 DEF PollResetReturns, dspVars, PollEnds
<1>6. CASE CopyBlock
  BY <1>6 DEF CopyBlock, dspVars
<1>7. CASE PushFinish
  BY <1>7 DEF PushFinish, dspVars
<1>8. CASE PollFinishReturns
  BY <1>8 DEF PollFinishReturns, dspVars, PollEnds
<1>9. CASE ReleaseControl
  BY <1>9 DEF ReleaseControl, dspVars
<1>10. CASE PollBootReturns
  BY <1>10 DEF PollBootReturns, dspVars, PollEnds
<1>11. CASE DspInitReady
  BY <1>11 DEF DspInitReady, hostVars
<1>12. CASE DspSeesReset
  BY <1>12 DEF DspSeesReset, hostVars
<1>13. CASE DspGetcodeReset
  BY <1>13 DEF DspGetcodeReset, hostVars
<1>14. CASE DspStartGet
  BY <1>14 DEF DspStartGet, hostVars
<1>15. CASE DspGetBlock
  BY <1>15 DEF DspGetBlock, hostVars
<1>16. CASE DspGetcodeFinish
  BY <1>16 DEF DspGetcodeFinish, hostVars
<1>17. ASSUME NEW c \in Cores, DspCoreRuns(c) PROVE ZoneInv'
  BY <1>17 DEF DspCoreRuns, hostVars
<1>18. CASE UNCHANGED vars
  BY <1>18 DEF vars
<1>19. QED
  BY <1>1, <1>2, <1>3, <1>4, <1>5, <1>6, <1>7, <1>8, <1>9, <1>10,
     <1>11, <1>12, <1>13, <1>14, <1>15, <1>16, <1>17, <1>18 DEF Next, Host, Dsp

(* An image that is complete keeps its blocks. *)
LEMMA StepOld ==
  ASSUME IInv, TypeOK', [Next]_vars
  PROVE  NoOldImage'
<1> USE Words, Domains DEF IInv, TypeOK, NoOldImage, ZoneInv, DspInv
<1>1. CASE UploadProgram
  BY <1>1 DEF UploadProgram, dspVars
<1>2. CASE PollMiss
  BY <1>2 DEF PollMiss, dspVars, PollRepeats
<1>3. CASE PollInitReturns
  BY <1>3 DEF PollInitReturns, dspVars, PollEnds
<1>4. CASE ResetControl
  BY <1>4 DEF ResetControl, dspVars
<1>5. CASE PollResetReturns
  BY <1>5 DEF PollResetReturns, dspVars, PollEnds
<1>6. CASE CopyBlock
  BY <1>6 DEF CopyBlock, dspVars
<1>7. CASE PushFinish
  BY <1>7 DEF PushFinish, dspVars
<1>8. CASE PollFinishReturns
  BY <1>8 DEF PollFinishReturns, dspVars, PollEnds
<1>9. CASE ReleaseControl
  BY <1>9 DEF ReleaseControl, dspVars
<1>10. CASE PollBootReturns
  BY <1>10 DEF PollBootReturns, dspVars, PollEnds
<1>11. CASE DspInitReady
  BY <1>11 DEF DspInitReady, hostVars
<1>12. CASE DspSeesReset
  BY <1>12 DEF DspSeesReset, hostVars
<1>13. CASE DspGetcodeReset
  BY <1>13 DEF DspGetcodeReset, hostVars
<1>14. CASE DspStartGet
  BY <1>14 DEF DspStartGet, hostVars
<1>15. CASE DspGetBlock
  BY <1>15 DEF DspGetBlock, hostVars
<1>16. CASE DspGetcodeFinish
  <2>1. /\ dspCore \in Cores /\ dspCore' = dspCore + 1
        /\ UNCHANGED dspImage
        /\ \A b \in Blocks : dspImage[dspCore][b] >= dspCore
    BY <1>16 DEF DspGetcodeFinish
  <2>2. \A c \in Cores : c < dspCore + 1 => c < dspCore \/ c = dspCore
    BY <2>1
  <2>3. QED
    BY <2>1, <2>2
<1>17. ASSUME NEW c \in Cores, DspCoreRuns(c) PROVE NoOldImage'
  BY <1>17 DEF DspCoreRuns, hostVars
<1>18. CASE UNCHANGED vars
  BY <1>18 DEF vars
<1>19. QED
  BY <1>1, <1>2, <1>3, <1>4, <1>5, <1>6, <1>7, <1>8, <1>9, <1>10,
     <1>11, <1>12, <1>13, <1>14, <1>15, <1>16, <1>17, <1>18 DEF Next, Host, Dsp

(* Core 0 gets its own image. *)
LEMMA StepCoreZero ==
  ASSUME IInv, TypeOK', [Next]_vars
  PROVE  CoreZeroInv'
<1> USE Words, Domains DEF IInv, TypeOK, CoreZeroInv, Sync, ZoneInv, PaceInv, HostInv, DspInv
<1>1. CASE UploadProgram
  BY <1>1 DEF UploadProgram, dspVars
<1>2. CASE PollMiss
  BY <1>2 DEF PollMiss, dspVars, PollRepeats
<1>3. CASE PollInitReturns
  BY <1>3 DEF PollInitReturns, dspVars, PollEnds, PollReturns, Awaited
<1>4. CASE ResetControl
  BY <1>4 DEF ResetControl, dspVars
<1>5. CASE PollResetReturns
  BY <1>5 DEF PollResetReturns, dspVars, PollEnds, PollReturns, Awaited
<1>6. CASE CopyBlock
  BY <1>6 DEF CopyBlock, dspVars
<1>7. CASE PushFinish
  BY <1>7 DEF PushFinish, dspVars
<1>8. CASE PollFinishReturns
  BY <1>8 DEF PollFinishReturns, dspVars, PollEnds, PollReturns, Awaited
<1>9. CASE ReleaseControl
  BY <1>9 DEF ReleaseControl, dspVars
<1>10. CASE PollBootReturns
  BY <1>10 DEF PollBootReturns, dspVars, PollEnds, PollReturns, Awaited, EqualTo
<1>11. CASE DspInitReady
  BY <1>11 DEF DspInitReady, hostVars
<1>12. CASE DspSeesReset
  BY <1>12 DEF DspSeesReset, hostVars
<1>13. CASE DspGetcodeReset
  BY <1>13 DEF DspGetcodeReset, hostVars
<1>14. CASE DspStartGet
  BY <1>14 DEF DspStartGet, hostVars
<1>15. CASE DspGetBlock
  BY <1>15 DEF DspGetBlock, hostVars
<1>16. CASE DspGetcodeFinish
  BY <1>16 DEF DspGetcodeFinish, hostVars
<1>17. ASSUME NEW c \in Cores, DspCoreRuns(c) PROVE CoreZeroInv'
  BY <1>17 DEF DspCoreRuns, hostVars
<1>18. CASE UNCHANGED vars
  BY <1>18 DEF vars
<1>19. QED
  BY <1>1, <1>2, <1>3, <1>4, <1>5, <1>6, <1>7, <1>8, <1>9, <1>10,
     <1>11, <1>12, <1>13, <1>14, <1>15, <1>16, <1>17, <1>18 DEF Next, Host, Dsp

LEMMA StepIInv == IInv /\ [Next]_vars => IInv'
<1> SUFFICES ASSUME IInv, [Next]_vars PROVE IInv'
  OBVIOUS
<1>1. TypeOK'
  BY StepType
<1>2. HostInv' /\ ReturnInv' /\ DspInv' /\ PaceInv'
  BY <1>1, StepHost, StepReturn, StepDsp, StepPace
<1>3. ZoneInv' /\ NoOldImage' /\ CoreZeroInv'
  BY <1>1, StepZone, StepOld, StepCoreZero
<1>4. QED
  BY <1>1, <1>2, <1>3 DEF IInv

LEMMA Invariance == Spec => []IInv
BY InitIInv, StepIInv, PTL DEF Spec

-----------------------------------------------------------------------------
(* Every variable keeps its type: in particular coreIndex never passes
   bootCoreNum and no poll counter passes its bound. *)
THEOREM TypeCorrect == Spec => []TypeOK
<1>1. IInv => TypeOK
  BY DEF IInv
<1>2. QED
  BY <1>1, Invariance, PTL

(* Core 0 gets its own image, whole, whatever times out. *)
THEOREM CoreZeroLoadedHolds == Spec => []CoreZeroLoaded
<1>1. ASSUME IInv PROVE CoreZeroLoaded
  <2>1. dspImage[0] \in [Blocks -> Cores \cup {NoData}]
    BY <1>1, Domains DEF IInv, TypeOK
  <2>2. QED
    BY <1>1, <2>1 DEF IInv, CoreZeroInv, CoreZeroLoaded, WholeImage
<1>2. QED
  BY <1>1, Invariance, PTL

(* No core is given a block older than its own image, whatever times out. *)
THEOREM NoOldImageHolds == Spec => []NoOldImage
<1>1. IInv => NoOldImage
  BY DEF IInv
<1>2. QED
  BY <1>1, Invariance, PTL

-----------------------------------------------------------------------------
(* How many steps the host has left. *)

LEMMA Lengths ==
  /\ PollSteps \in Nat /\ PollSteps = MaxPoll + 1
  /\ ImageSteps \in Nat /\ ImageSteps = 2 * PollSteps + NBlock + 3
BY Domains DEF PollSteps, ImageSteps

(* The images still to come, when one is released and when none is left. *)
LEMMA OneImageLess ==
  ASSUME NEW n \in Int, NEW c \in Int, NEW k \in Nat
  PROVE  /\ (n - (c + 1) - 1) * k = (n - c - 1) * k - k
         /\ (n - 0 - 1) * k = n * k - k
         /\ n >= 0 => n * k \in Nat
         /\ c < n => (n - c - 1) * k \in Nat
<1>1. (n - (c + 1) - 1) * k = (n - c - 1) * k - k
  OBVIOUS
<1>2. (n - 0 - 1) * k = n * k - k
  OBVIOUS
<1>3. ASSUME NEW m \in Nat PROVE m * k \in Nat
  OBVIOUS
<1>4. c < n => (n - c - 1) * k \in Nat
  <2>1. c < n => n - c - 1 \in Nat
    OBVIOUS
  <2> QED
    BY <2>1, <1>3
<1> QED
  BY <1>1, <1>2, <1>3, <1>4

LEMMA LeftAfter ==
  ASSUME IInv
  PROVE  /\ coreIndex \in Int /\ ImagesAfter \in Int
         /\ pc \notin {"pollBoot", "done"} => ImagesAfter \in Nat
         /\ BootCoreNum * ImageSteps \in Nat
         /\ coreIndex = 0 => ImagesAfter = BootCoreNum * ImageSteps - ImageSteps
         /\ coreIndex' = coreIndex => ImagesAfter' = ImagesAfter
         /\ coreIndex' = coreIndex + 1 => ImagesAfter' = ImagesAfter - ImageSteps
<1>1. coreIndex \in Int /\ BootCoreNum \in Nat /\ ImageSteps \in Nat
  BY Domains, Lengths DEF IInv, TypeOK
<1>2. ImagesAfter \in Int /\ BootCoreNum * ImageSteps \in Nat
  <2>1. BootCoreNum - coreIndex - 1 \in Int
    BY <1>1
  <2> QED
    BY <1>1, <2>1, OneImageLess DEF ImagesAfter
<1>3. pc \notin {"pollBoot", "done"} => ImagesAfter \in Nat
  BY <1>1, OneImageLess DEF ImagesAfter, IInv, ReturnInv
<1>4. coreIndex = 0 => ImagesAfter = BootCoreNum * ImageSteps - ImageSteps
  BY <1>1, OneImageLess DEF ImagesAfter
<1>5. coreIndex' = coreIndex => ImagesAfter' = ImagesAfter
  BY DEF ImagesAfter, ImageSteps, PollSteps
<1>6. coreIndex' = coreIndex + 1 => ImagesAfter' = ImagesAfter - ImageSteps
  <2>1. coreIndex' = coreIndex + 1 => ImagesAfter' = (BootCoreNum - (coreIndex + 1) - 1) * ImageSteps
    BY DEF ImagesAfter, ImageSteps, PollSteps
  <2> QED
    BY <1>1, <2>1, OneImageLess DEF ImagesAfter
<1> QED
  BY <1>1, <1>2, <1>3, <1>4, <1>5, <1>6

(* Every step of the host uses up some of what is left. *)
LEMMA StepLeft ==
  ASSUME IInv, TypeOK', Host
  PROVE  HostLeft' \in 0 .. HostLeft - 1
<1> USE Domains, Lengths, LeftAfter DEF TypeOK, PollPoints, HostLeft, ImageLeft
<1>0. TypeOK
  BY DEF IInv
<1>a. BootCoreNum * ImageSteps' = BootCoreNum * ImageSteps /\ ImageSteps' = ImageSteps /\ PollSteps' = PollSteps
  BY DEF ImageSteps, PollSteps
<1>1. CASE UploadProgram
  BY <1>0, <1>a, <1>1 DEF UploadProgram
<1>2. CASE PollMiss
  BY <1>0, <1>a, <1>2 DEF PollMiss, PollRepeats
<1>3. CASE PollInitReturns
  <2>1. coreIndex = 0
    BY <1>3 DEF PollInitReturns, IInv, HostInv
  <2> QED
    BY <1>0, <1>a, <1>3, <2>1 DEF PollInitReturns, PollEnds
<1>4. CASE ResetControl
  BY <1>0, <1>a, <1>4 DEF ResetControl
<1>5. CASE PollResetReturns
  BY <1>0, <1>a, <1>5 DEF PollResetReturns, PollEnds
<1>6. CASE CopyBlock
  BY <1>0, <1>a, <1>6 DEF CopyBlock
<1>7. CASE PushFinish
  BY <1>0, <1>a, <1>7 DEF PushFinish
<1>8. CASE PollFinishReturns
  BY <1>0, <1>a, <1>8 DEF PollFinishReturns, PollEnds
<1>9. CASE ReleaseControl
  BY <1>0, <1>a, <1>9 DEF ReleaseControl
<1>10. CASE PollBootReturns
  BY <1>0, <1>a, <1>10 DEF PollBootReturns, PollEnds
<1> QED
  BY <1>1, <1>2, <1>3, <1>4, <1>5, <1>6, <1>7, <1>8, <1>9, <1>10 DEF Host

(* The DSP uses up nothing of it. *)
LEMMA DspLeavesHost ==
  ASSUME Dsp \/ UNCHANGED vars
  PROVE  HostLeft' = HostLeft
<1>1. UNCHANGED <<pc, coreIndex, copied, loopCount>>
  BY DEF Dsp, DspInitReady, DspSeesReset, DspGetcodeReset, DspStartGet, DspGetBlock,
         DspGetcodeFinish, DspCoreRuns, hostVars, vars
<1> QED
  BY <1>1 DEF HostLeft, ImageLeft, ImagesAfter, ImageSteps, PollSteps

(* bootLoader returns after a number of steps that is known when insmod starts,
   for every number of images, every poll bound and every DSP, whether it
   answers or not. *)
THEOREM BootBoundedHolds == Spec => BootBounded
<1>1. ASSUME IInv, IInv', [Next]_vars
      PROVE  [HostLeft' \in 0 .. HostLeft - 1 \/ (Dsp /\ HostLeft' = HostLeft)]_vars
  <2>1. TypeOK'
    BY <1>1 DEF IInv
  <2> QED
    BY <1>1, <2>1, StepLeft, DspLeavesHost DEF Next
<1>2. IInv /\ IInv' /\ [Next]_vars
        => [HostLeft' \in 0 .. HostLeft - 1 \/ (Dsp /\ HostLeft' = HostLeft)]_vars
  BY <1>1
<1> QED
  BY <1>2, Invariance, PTL DEF Spec, BootBounded

-----------------------------------------------------------------------------
(* The inductive invariant of TimelySpec: host and DSP stay at the same image,
   and what the DSP has read of it is of that image. *)
ReadInv == dspPc = "get" => \A b \in 1 .. dspGot : dspImage[dspCore][b] = coreIndex

TInv == IInv /\ Sync /\ ReadInv /\ ExactDelivery

(* Host and DSP stay at the same image: the host leaves each wait for the
   DSP with the answer it waited for. *)
LEMMA StepSync ==
  ASSUME TInv, TypeOK', [TimelyNext]_vars
  PROVE  Sync'
<1> USE Words, Domains DEF IInv, TypeOK, TInv, Sync, HostInv, DspInv, TimelyNext, ResetAnswered
<1>1. CASE UploadProgram
  BY <1>1 DEF UploadProgram, dspVars
<1>2. CASE PollMiss
  BY <1>2 DEF PollMiss, dspVars, PollRepeats
<1>3. CASE PollInitReturns
  BY <1>3 DEF PollInitReturns, dspVars, PollEnds, PollReturns, Awaited
<1>4. CASE ResetControl
  BY <1>4 DEF ResetControl, dspVars
<1>5. CASE PollResetReturns
  <2>1. pc = "pollReset" /\ pc' \in {"copy", "done"}
    BY <1>5 DEF PollResetReturns
  <2>2. pc' = "copy" => loopCount + 1 < MaxPoll
    BY <2>1 DEF vars
  <2>3. pc' = "copy" => pushCodeStatus = DSP_GETCODE_RESET
    BY <1>5, <2>1, <2>2 DEF PollResetReturns, PollEnds, PollReturns, Awaited
  <2>4. QED
    BY <1>5, <2>1, <2>3 DEF PollResetReturns, dspVars
<1>6. CASE CopyBlock
  BY <1>6 DEF CopyBlock, dspVars
<1>7. CASE PushFinish
  BY <1>7 DEF PushFinish, dspVars
<1>8. CASE PollFinishReturns
  BY <1>8 DEF PollFinishReturns, dspVars, PollEnds, PollReturns, Awaited
<1>9. CASE ReleaseControl
  BY <1>9 DEF ReleaseControl, dspVars
<1>10. CASE PollBootReturns
  BY <1>10 DEF PollBootReturns, dspVars, PollEnds, PollReturns, Awaited, EqualTo
<1>11. CASE DspInitReady
  BY <1>11 DEF DspInitReady, hostVars
<1>12. CASE DspSeesReset
  BY <1>12 DEF DspSeesReset, hostVars
<1>13. CASE DspGetcodeReset
  BY <1>13 DEF DspGetcodeReset, hostVars
<1>14. CASE DspStartGet
  BY <1>14 DEF DspStartGet, hostVars
<1>15. CASE DspGetBlock
  BY <1>15 DEF DspGetBlock, hostVars
<1>16. CASE DspGetcodeFinish
  BY <1>16 DEF DspGetcodeFinish, hostVars
<1>17. ASSUME NEW c \in Cores, DspCoreRuns(c) PROVE Sync'
  BY <1>17 DEF DspCoreRuns, hostVars
<1>18. CASE UNCHANGED vars
  BY <1>18 DEF vars
<1>19. QED
  BY <1>1, <1>2, <1>3, <1>4, <1>5, <1>6, <1>7, <1>8, <1>9, <1>10,
     <1>11, <1>12, <1>13, <1>14, <1>15, <1>16, <1>17, <1>18 DEF Next, Host, Dsp, TimelyNext

(* The DSP reads the zone only while it holds the image announced. *)
LEMMA StepRead ==
  ASSUME TInv, TypeOK', [TimelyNext]_vars
  PROVE  ReadInv'
<1> USE Words, Domains DEF IInv, TypeOK, TInv, ReadInv, Sync, ZoneInv, HostInv, DspInv, TimelyNext
<1>1. CASE UploadProgram
  BY <1>1 DEF UploadProgram, dspVars
<1>2. CASE PollMiss
  BY <1>2 DEF PollMiss, dspVars, PollRepeats
<1>3. CASE PollInitReturns
  BY <1>3 DEF PollInitReturns, dspVars, PollEnds
<1>4. CASE ResetControl
  BY <1>4 DEF ResetControl, dspVars
<1>5. CASE PollResetReturns
  BY <1>5 DEF PollResetReturns, dspVars, PollEnds
<1>6. CASE CopyBlock
  BY <1>6 DEF CopyBlock, dspVars
<1>7. CASE PushFinish
  BY <1>7 DEF PushFinish, dspVars
<1>8. CASE PollFinishReturns
  BY <1>8 DEF PollFinishReturns, dspVars, PollEnds
<1>9. CASE ReleaseControl
  BY <1>9 DEF ReleaseControl, dspVars
<1>10. CASE PollBootReturns
  BY <1>10 DEF PollBootReturns, dspVars, PollEnds
<1>11. CASE DspInitReady
  BY <1>11 DEF DspInitReady, hostVars
<1>12. CASE DspSeesReset
  BY <1>12 DEF DspSeesReset, hostVars
<1>13. CASE DspGetcodeReset
  BY <1>13 DEF DspGetcodeReset, hostVars
<1>14. CASE DspStartGet
  BY <1>14 DEF DspStartGet, hostVars
<1>15. CASE DspGetBlock
  BY <1>15 DEF DspGetBlock, hostVars
<1>16. CASE DspGetcodeFinish
  BY <1>16 DEF DspGetcodeFinish, hostVars
<1>17. ASSUME NEW c \in Cores, DspCoreRuns(c) PROVE ReadInv'
  BY <1>17 DEF DspCoreRuns, hostVars
<1>18. CASE UNCHANGED vars
  BY <1>18 DEF vars
<1>19. QED
  BY <1>1, <1>2, <1>3, <1>4, <1>5, <1>6, <1>7, <1>8, <1>9, <1>10,
     <1>11, <1>12, <1>13, <1>14, <1>15, <1>16, <1>17, <1>18 DEF Next, Host, Dsp, TimelyNext

(* What the DSP takes for an image is the one both are at. *)
LEMMA StepExact ==
  ASSUME TInv, TypeOK', [TimelyNext]_vars
  PROVE  ExactDelivery'
<1> USE Words, Domains DEF IInv, TypeOK, TInv, ExactDelivery, Sync, ReadInv, DspInv, TimelyNext
<1>1. CASE UploadProgram
  BY <1>1 DEF UploadProgram, dspVars
<1>2. CASE PollMiss
  BY <1>2 DEF PollMiss, dspVars, PollRepeats
<1>3. CASE PollInitReturns
  BY <1>3 DEF PollInitReturns, dspVars, PollEnds
<1>4. CASE ResetControl
  BY <1>4 DEF ResetControl, dspVars
<1>5. CASE PollResetReturns
  BY <1>5 DEF PollResetReturns, dspVars, PollEnds
<1>6. CASE CopyBlock
  BY <1>6 DEF CopyBlock, dspVars
<1>7. CASE PushFinish
  BY <1>7 DEF PushFinish, dspVars
<1>8. CASE PollFinishReturns
  BY <1>8 DEF PollFinishReturns, dspVars, PollEnds
<1>9. CASE ReleaseControl
  BY <1>9 DEF ReleaseControl, dspVars
<1>10. CASE PollBootReturns
  BY <1>10 DEF PollBootReturns, dspVars, PollEnds
<1>11. CASE DspInitReady
  BY <1>11 DEF DspInitReady, hostVars
<1>12. CASE DspSeesReset
  BY <1>12 DEF DspSeesReset, hostVars
<1>13. CASE DspGetcodeReset
  BY <1>13 DEF DspGetcodeReset, hostVars
<1>14. CASE DspStartGet
  BY <1>14 DEF DspStartGet, hostVars
<1>15. CASE DspGetBlock
  BY <1>15 DEF DspGetBlock, hostVars
<1>16. CASE DspGetcodeFinish
  <2>1. /\ dspCore \in Cores /\ dspCore' = dspCore + 1
        /\ UNCHANGED dspImage
        /\ \A b \in Blocks : dspImage[dspCore][b] = dspCore
    BY <1>16 DEF DspGetcodeFinish
  <2>2. dspImage[dspCore] \in [Blocks -> Cores \cup {NoData}]
    BY <2>1
  <2>3. dspImage[dspCore] = WholeImage(dspCore)
    BY <2>1, <2>2 DEF WholeImage
  <2>4. \A c \in Cores : c < dspCore + 1 => c < dspCore \/ c = dspCore
    BY <2>1
  <2>5. QED
    BY <2>1, <2>3, <2>4 DEF WholeImage
<1>17. ASSUME NEW c \in Cores, DspCoreRuns(c) PROVE ExactDelivery'
  BY <1>17 DEF DspCoreRuns, hostVars
<1>18. CASE UNCHANGED vars
  BY <1>18 DEF vars
<1>19. QED
  BY <1>1, <1>2, <1>3, <1>4, <1>5, <1>6, <1>7, <1>8, <1>9, <1>10,
     <1>11, <1>12, <1>13, <1>14, <1>15, <1>16, <1>17, <1>18 DEF Next, Host, Dsp, TimelyNext

LEMMA TimelyInvariance == TimelySpec => []TInv
<1>1. Init => TInv
  BY InitIInv, Words, Domains DEF Init, TInv, IInv, CoreZeroInv, ReadInv, ExactDelivery, TypeOK
<1>2. TInv /\ [TimelyNext]_vars => TInv'
  <2> SUFFICES ASSUME TInv, [TimelyNext]_vars PROVE TInv'
    OBVIOUS
  <2>1. IInv'
    BY StepIInv DEF TInv, TimelyNext
  <2>2. TypeOK'
    BY <2>1 DEF IInv
  <2>3. QED
    BY <2>1, <2>2, StepSync, StepRead, StepExact DEF TInv
<1>3. QED
  BY <1>1, <1>2, PTL DEF TimelySpec

(* If no ignored wait expires, every core gets its own image, whole. *)
THEOREM ExactDeliveryHolds == TimelySpec => []ExactDelivery
<1>1. TInv => ExactDelivery
  BY DEF TInv
<1>2. QED
  BY <1>1, TimelyInvariance, PTL

(* If no ignored wait expires, the zone is untouched while the DSP reads it. *)
THEOREM ZoneHeldHolds == TimelySpec => []ZoneHeldWhileRead
<1>1. ASSUME TInv, dspPc = "get"
      PROVE  pushCodeControl = PC_PUSHCODE_FINISH /\ imgZone = WholeImage(coreIndex)
  <2>1. pushCodeControl = PC_PUSHCODE_FINISH /\ \A b \in Blocks : imgZone[b] = coreIndex
    BY <1>1 DEF TInv, IInv, Sync, ZoneInv
  <2>2. QED
    BY <1>1, <2>1 DEF TInv, IInv, TypeOK, WholeImage
<1>2. TInv => ZoneHeldWhileRead
  BY <1>1 DEF ZoneHeldWhileRead
<1>3. QED
  BY <1>2, TimelyInvariance, PTL

(* If no ignored wait expires, the host moves on only when the DSP has the
   image it pushed. *)
THEOREM AckIsFreshHolds == TimelySpec => []AckIsFresh
<1>1. TInv => AckIsFresh
  BY DEF TInv, Sync, AckIsFresh
<1>2. QED
  BY <1>1, TimelyInvariance, PTL

(* If no ignored wait expires, host and DSP never wait for each other: each word
   the host stores is seen before the next. *)
THEOREM NoMutualWaitHolds == TimelySpec => []NoMutualWait
<1>1. ASSUME TInv, HostWaits, DspWaits PROVE FALSE
  <2> USE <1>1, Words DEF TInv, IInv
  <2>1. CASE pc = "pollReset"
    <3>1. pushCodeControl = PC_PUSHCODE_RESET
      BY <2>1 DEF HostInv
    <3>2. dspPc = "awaitFinish"
      BY <3>1 DEF DspWaits, MaskSet, PC_PUSHCODE_RESET
    <3>3. pushCodeStatus = DSP_GETCODE_RESET
      BY <3>2 DEF DspInv
    <3> QED
      BY <2>1, <3>3 DEF HostWaits, Awaited, MaskSet, DSP_GETCODE_RESET
  <2>2. CASE pc = "pollFinish"
    <3>1. pushCodeControl = PC_PUSHCODE_FINISH
      BY <2>2 DEF HostInv
    <3>2. dspPc = "awaitReset" /\ dspCore = coreIndex + 1
      BY <3>1 DEF Sync, DspWaits, MaskSet, PC_PUSHCODE_FINISH
    <3>3. pushCodeStatus = DSP_GETCODE_FINISH
      BY <3>2 DEF DspInv, TypeOK
    <3> QED
      BY <2>2, <3>3 DEF HostWaits, Awaited, MaskSet, DSP_GETCODE_FINISH
  <2> QED
    BY <2>1, <2>2 DEF HostWaits
<1>2. TInv => NoMutualWait
  BY <1>1 DEF NoMutualWait
<1> QED
  BY <1>2, TimelyInvariance, PTL

(* When every core reports that it runs, every image was received. *)
LEMMA AllReceived ==
  ASSUME TInv, MultiCoreBootStatus = setWhichCoreRun
  PROVE  dspCore = BootCoreNum /\ \A c \in Cores : dspImage[c] = WholeImage(c)
<1> USE Domains DEF TInv, IInv
<1>1. BootCoreNum - 1 \in MultiCoreBootStatus
  BY DEF setWhichCoreRun
<1>2. dspCore = BootCoreNum
  BY <1>1 DEF DspInv, TypeOK
<1>3. QED
  BY <1>2 DEF ExactDelivery

(* If no ignored wait expires, bootLoader returns 0 only when every core has
   its own image. *)
THEOREM SuccessMeansLoadedHolds == TimelySpec => []SuccessMeansLoaded
<1>1. TInv => SuccessMeansLoaded
  BY AllReceived DEF SuccessMeansLoaded, TInv, IInv, ReturnInv
<1>2. QED
  BY <1>1, TimelyInvariance, PTL

-----------------------------------------------------------------------------
(* bootLoader implements the abstract push. *)

Given == [c \in Cores |-> IF c < dspCore THEN dspImage[c] ELSE Blank]

LEMMA PushInit == Init => Push!Init
BY Domains DEF Init, Push!Init, Push!Nothing, Push!WholeImage, Push!Cores, Push!Blocks,
               Cores, Blocks, Blank, NoData, Outcome

(* The DSP finishing an image is the abstract Receive. *)
LEMMA FinishIsReceive ==
  ASSUME TInv, TInv', DspGetcodeFinish
  PROVE  Push!Receive
<1> USE Domains DEF TInv, IInv
<1>1. /\ dspCore \in Cores /\ dspCore' = dspCore + 1
      /\ UNCHANGED <<pc, retValue, dspImage>>
  BY DEF DspGetcodeFinish, hostVars, DspInv, TypeOK
<1>2. dspImage[dspCore] = WholeImage(dspCore)
  BY <1>1 DEF ExactDelivery
<1>3. Given' = [Given EXCEPT ![dspCore] = WholeImage(dspCore)]
  <2>1. Given' = [c \in Cores |-> IF c < dspCore + 1 THEN dspImage[c] ELSE Blank]
    BY <1>1 DEF Given, Blank
  <2>2. \A c \in Cores : c < dspCore + 1 <=> c < dspCore \/ c = dspCore
    BY <1>1
  <2>3. QED
    BY <1>1, <1>2, <2>1, <2>2 DEF Given
<1>4. Outcome' = Outcome /\ Outcome # "success"
  <2>1. ~ (pc = "done" /\ retValue = 0)
    BY DEF DspGetcodeFinish, ReturnInv, Sync, HostInv, TypeOK
  <2>2. QED
    BY <1>1, <2>1 DEF Outcome
<1>5. QED
  BY <1>1, <1>3, <1>4 DEF Push!Receive, Push!WholeImage, Push!Blocks, Blocks, WholeImage, Given

(* A step that neither finishes an image nor returns is a stutter. *)
LEMMA StutterStep ==
  ASSUME UNCHANGED dspCore, Outcome' = Outcome,
         \A c \in Cores : c < dspCore => dspImage'[c] = dspImage[c]
  PROVE  UNCHANGED Push!vars
BY DEF Push!vars, Blank

LEMMA PushStep ==
  ASSUME TInv, TInv', [TimelyNext]_vars
  PROVE  [Push!Next]_(Push!vars)
<1> USE Domains DEF TInv, IInv
<1>1. CASE Host
  <2>1. UNCHANGED <<dspCore, dspImage>>
    BY <1>1 DEF Host, dspVars, UploadProgram, PollMiss, PollInitReturns, ResetControl,
                PollResetReturns, CopyBlock, PushFinish, PollFinishReturns,
                ReleaseControl, PollBootReturns
  <2>2. CASE Outcome' = Outcome
    BY <2>1, <2>2, StutterStep
  <2>3. CASE Outcome' # Outcome
    <3>1. Outcome = "pending" /\ pc' = "done" /\ Outcome' \in {"success", "failure"}
      BY <1>1, <2>3 DEF Outcome, Host, UploadProgram, PollMiss, PollInitReturns,
                        ResetControl, PollResetReturns, CopyBlock, PushFinish,
                        PollFinishReturns, ReleaseControl, PollBootReturns
    <3>2. UNCHANGED Given
      BY <2>1 DEF Given, Blank
    <3>3. CASE Outcome' = "failure"
      BY <2>1, <3>1, <3>2, <3>3 DEF Push!Next, Push!Fail, Given
    <3>4. CASE Outcome' = "success"
      <4>1. PollBootReturns /\ retValue' = 0
        <5>1. pc # "done" /\ pc' = "done" /\ retValue' = 0
          BY <3>4, <3>1 DEF Outcome
        <5>2. QED
          BY <1>1, <5>1 DEF Host, UploadProgram, PollMiss, PollInitReturns, ResetControl,
                            PollResetReturns, CopyBlock, PushFinish, PollFinishReturns,
                            ReleaseControl
      <4>2. MultiCoreBootStatus = setWhichCoreRun
        BY <4>1 DEF PollBootReturns, PollEnds, PollReturns, Awaited, EqualTo
      <4>3. dspCore = BootCoreNum
        BY <4>2, AllReceived
      <4>4. QED
        BY <2>1, <3>1, <3>2, <3>4, <4>3 DEF Push!Next, Push!Succeed, Given
    <3>5. QED
      BY <3>1, <3>3, <3>4
  <2>4. QED
    BY <2>2, <2>3
<1>2. CASE DspGetcodeFinish
  BY <1>2, FinishIsReceive DEF Push!Next
<1>3. CASE DspGetBlock
  <2>1. dspCore \in Cores /\ UNCHANGED <<pc, retValue, dspCore>>
    BY <1>3 DEF DspGetBlock, hostVars, DspInv, TypeOK
  <2>2. \A c \in Cores : c < dspCore => dspImage'[c] = dspImage[c]
    BY <1>3, <2>1 DEF DspGetBlock, TypeOK
  <2>3. QED
    BY <2>1, <2>2, StutterStep DEF Outcome
<1>4. CASE \/ DspInitReady \/ DspSeesReset \/ DspGetcodeReset \/ DspStartGet
           \/ \E c \in Cores : DspCoreRuns(c)
  <2>1. UNCHANGED <<pc, retValue, dspCore, dspImage>>
    BY <1>4 DEF DspInitReady, DspSeesReset, DspGetcodeReset, DspStartGet, DspCoreRuns, hostVars
  <2>2. QED
    BY <2>1, StutterStep DEF Outcome
<1>5. CASE UNCHANGED vars
  BY <1>5, StutterStep DEF vars, Outcome
<1>6. QED
  BY <1>1, <1>2, <1>3, <1>4, <1>5 DEF TimelyNext, Next, Dsp

(* If no ignored wait expires, the push as the host carries it out, piece by
   piece through one shared buffer, implements the abstract push. *)
THEOREM Refinement == TimelySpec => PushSpec
<1>1. TInv /\ TInv' /\ [TimelyNext]_vars => [Push!Next]_(Push!vars)
  BY PushStep
<1>2. QED
  BY <1>1, PushInit, TimelyInvariance, PTL DEF TimelySpec, PushSpec, Push!Spec
=============================================================================
