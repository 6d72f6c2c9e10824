------------------------------ MODULE LinkLayer ------------------------------
(***************************************************************************)
(* The exchange of messages after the boot: src/src/LinkLayer.c and the    *)
(* commands of DPU_ioctl (src/src/entry.c) that call it.                   *)
(*                                                                         *)
(* One process writes messages to the DSP ("write") and another reads      *)
(* messages from it ("read").  Each direction has a buffer that is mapped  *)
(* into the process, a control word that only the host stores and a status *)
(* word that only the DSP stores.  Through ioctl a process stores a        *)
(* control word (LinkLayer_ChangeBufferStatus) and polls a status word     *)
(* (LinkLayer_WaitBufferReady); nothing else keeps the buffer apart.       *)
(*                                                                         *)
(* The processes and the DSP program are not in the repository: they are   *)
(* modelled from the register words and the comments of LinkLayer.h and    *)
(* LinkLayer.c.  Loading a register and storing the answer to it are       *)
(* separate steps on both sides.                                           *)
(***************************************************************************)
EXTENDS Polling, Sequences

CONSTANTS
  NMsg,      \* bound: messages sent in each direction
  NBlock,    \* pieces in which a buffer is filled and drained
  PendTime   \* bound of every poll, passed in by the process

ASSUME LinkAssumption ==
  /\ NMsg \in Nat
  /\ NBlock \in Nat \ {0}
  /\ PendTime \in Nat

Dirs   == {"write", "read"}
Blocks == 1 .. NBlock
Whole(m) == [b \in Blocks |-> m]

VARIABLES
  control,    \* writeControl and readControl
  status,     \* writeStatus and readStatus
  buffer,     \* pOutBuffer and pInBuffer: the message each block is of, or 0
  host,       \* where the process of each direction is
  loopCount,  \* its poll in progress
  dsp,        \* where the DSP program of each direction is
  filled,     \* blocks the sender has filled
  drained,    \* blocks the receiver has drained
  taking,     \* what it drained
  received,   \* history: the messages the receiver took
  given       \* messages the sender knows to be taken

vars == <<control, status, buffer, host, loopCount, dsp,
          filled, drained, taking, received, given>>
copyVars == <<buffer, filled, drained, taking>>
endVars  == <<received, given>>

Init ==
  /\ control = [d \in Dirs |-> "zero"]
  /\ status  = [d \in Dirs |-> "zero"]
  /\ buffer  = [d \in Dirs |-> Whole(0)]
  /\ host    = [d \in Dirs |-> "reset"]
  /\ loopCount = [d \in Dirs |-> 0]
  /\ dsp     = [d \in Dirs |-> "awaitReset"]
  /\ filled  = [d \in Dirs |-> 0]
  /\ drained = [d \in Dirs |-> 0]
  /\ taking  = [d \in Dirs |-> Whole(0)]
  /\ received = [d \in Dirs |-> <<>>]
  /\ given   = [d \in Dirs |-> 0]

-----------------------------------------------------------------------------
(* The two ends of the copying, used by the host in one direction and by the
   DSP in the other. *)

FillBlock(d) ==
  /\ filled[d] < NBlock
  /\ buffer' = [buffer EXCEPT ![d][filled[d] + 1] = given[d] + 1]
  /\ filled' = [filled EXCEPT ![d] = @ + 1]
  /\ UNCHANGED <<drained, taking>>

DrainBlock(d) ==
  /\ drained[d] < NBlock
  /\ taking' = [taking EXCEPT ![d][drained[d] + 1] = buffer[d][drained[d] + 1]]
  /\ drained' = [drained EXCEPT ![d] = @ + 1]
  /\ UNCHANGED <<buffer, filled>>

FillEnds(d) ==
  /\ filled[d] = NBlock
  /\ filled' = [filled EXCEPT ![d] = 0]
  /\ UNCHANGED <<buffer, drained, taking>>

DrainEnds(d) ==
  /\ drained[d] = NBlock
  /\ drained' = [drained EXCEPT ![d] = 0]
  /\ UNCHANGED <<buffer, filled, taking>>

Took(d) == received' = [received EXCEPT ![d] = Append(@, taking[d])] /\ UNCHANGED given
Gave(d) == given' = [given EXCEPT ![d] = @ + 1] /\ UNCHANGED received

-----------------------------------------------------------------------------
(* The driver, called by the process of direction d through ioctl. *)

(* Fault: the reader's FIN is stored where the writer's is. *)
ControlWordSwapped(d, fin) ==
  CASE d = "write" /\ ~ fin -> "PC_WT_RESET"
    [] d = "write" /\ fin   -> "PC_WT_FINISH"
    [] d = "read"           -> "PC_RD_RESET"

(* Fault: DSP_RD_FINISH for PC_WT_FINISH. *)
ControlWordOfDsp(d, fin) ==
  CASE d = "write" /\ ~ fin -> "PC_WT_RESET"
    [] d = "write" /\ fin   -> "DSP_RD_FINISH"
    [] d = "read"  /\ ~ fin -> "PC_RD_RESET"
    [] d = "read"  /\ fin   -> "PC_RD_FINISH"

(* LinkLayer_ChangeBufferStatus: the word stored for LINKLAYER_IO_WRITE_RESET,
   WRITE_FIN, READ_RESET and READ_FIN. *)
ControlWord(d, fin) ==
  CASE d = "write" /\ ~ fin -> "PC_WT_RESET"
    [] d = "write" /\ fin   -> "PC_WT_FINISH"
    [] d = "read"  /\ ~ fin -> "PC_RD_RESET"
    [] d = "read"  /\ fin   -> "PC_RD_FINISH"

(* Fault: WRITE_QFIN awaits the word of WRITE_QRESET. *)
ReadyValueOfReset(d, fin) ==
  CASE d = "write"          -> "DSP_RD_RESET"
    [] d = "read"  /\ ~ fin -> "DSP_WT_RESET"
    [] d = "read"  /\ fin   -> "DSP_WT_FINISH"

(* LinkLayer_WaitBufferReady: the word awaited for LINKLAYER_IO_WRITE_QRESET,
   WRITE_QFIN, READ_QRESET and READ_QFIN. *)
ReadyValue(d, fin) ==
  CASE d = "write" /\ ~ fin -> "DSP_RD_RESET"
    [] d = "write" /\ fin   -> "DSP_RD_FINISH"
    [] d = "read"  /\ ~ fin -> "DSP_WT_RESET"
    [] d = "read"  /\ fin   -> "DSP_WT_FINISH"

ChangeBufferStatus(d, fin) ==
  control' = [control EXCEPT ![d] = ControlWord(d, fin)]

BufferReady(d) == EqualTo(status[d], ReadyValue(d, host[d] = "qfin"))

(* Fault: a timeout is reported as 0, as DPU_IO_CMD_WAITDPMSTART does, which
   never copies the result to the process. *)
WaitReturnsUnreported(d, rv) ==
  /\ host[d] \in {"qreset", "qfin"}
  /\ rv = 0
  /\ \E r \in {0, -1} : PollReturns(loopCount[d], PendTime, BufferReady(d), r)
  /\ loopCount' = [loopCount EXCEPT ![d] = 0]

(* LinkLayer_WaitBufferReady returns rv, which reaches the process. *)
WaitReturns(d, rv) ==
  /\ host[d] \in {"qreset", "qfin"}
  /\ PollReturns(loopCount[d], PendTime, BufferReady(d), rv)
  /\ loopCount' = [loopCount EXCEPT ![d] = 0]

(* One read of the register that does not find the word. *)
WaitMiss(d) ==
  /\ host[d] \in {"qreset", "qfin"}
  /\ PollRepeats(loopCount[d], PendTime, BufferReady(d))
  /\ loopCount' = [loopCount EXCEPT ![d] = @ + 1]
  /\ UNCHANGED <<control, status, host, dsp, copyVars, endVars>>

-----------------------------------------------------------------------------
(* The processes (external).  Each control word is answered by the status word
   that is waited for next.  The writer stores WRITE_RESET, waits for
   WRITE_QRESET, fills the buffer, stores WRITE_FIN and waits for WRITE_QFIN;
   the reader stores READ_RESET, waits for READ_QFIN, drains the buffer, stores
   READ_FIN and waits for READ_QRESET. *)

(* LINKLAYER_IO_..._RESET opens an exchange. *)
HostReset(d) ==
  /\ host[d] = "reset"
  /\ given[d] < NMsg
  /\ ChangeBufferStatus(d, FALSE)
  /\ host' = [host EXCEPT ![d] = IF d = "write" THEN "qreset" ELSE "qfin"]
  /\ UNCHANGED <<status, loopCount, dsp, copyVars, endVars>>

(* LINKLAYER_IO_..._QRESET succeeds. *)
HostResetSeen(d) ==
  /\ host[d] = "qreset"
  /\ WaitReturns(d, 0)
  /\ host' = [host EXCEPT ![d] = IF d = "write" THEN "copy" ELSE "reset"]
  /\ UNCHANGED <<control, status, dsp, copyVars, endVars>>

HostCopies(d) ==
  /\ host[d] = "copy"
  /\ \/ d = "write" /\ FillBlock(d)
     \/ d = "read"  /\ DrainBlock(d)
  /\ UNCHANGED <<control, status, host, loopCount, dsp, endVars>>

(* LINKLAYER_IO_WRITE_FIN announces the message. *)
WriterFin ==
  /\ host["write"] = "copy"
  /\ FillEnds("write")
  /\ ChangeBufferStatus("write", TRUE)
  /\ host' = [host EXCEPT !["write"] = "qfin"]
  /\ UNCHANGED <<status, loopCount, dsp, endVars>>

(* LINKLAYER_IO_READ_FIN hands the buffer back. *)
ReaderFin ==
  /\ host["read"] = "copy"
  /\ DrainEnds("read")
  /\ ChangeBufferStatus("read", TRUE)
  /\ Took("read")
  /\ host' = [host EXCEPT !["read"] = "qreset"]
  /\ UNCHANGED <<status, loopCount, dsp>>

(* LINKLAYER_IO_WRITE_QFIN succeeds: the message is given. *)
WriterFinSeen ==
  /\ host["write"] = "qfin"
  /\ WaitReturns("write", 0)
  /\ Gave("write")
  /\ host' = [host EXCEPT !["write"] = "reset"]
  /\ UNCHANGED <<control, status, dsp, copyVars>>

(* LINKLAYER_IO_READ_QFIN succeeds: a message can be read. *)
ReaderFinSeen ==
  /\ host["read"] = "qfin"
  /\ WaitReturns("read", 0)
  /\ host' = [host EXCEPT !["read"] = "copy"]
  /\ UNCHANGED <<control, status, dsp, copyVars, endVars>>

(* After a timeout a process waits again, ... *)
HostWaitsAgain(d) ==
  /\ WaitReturns(d, -1)
  /\ UNCHANGED <<control, status, host, dsp, copyVars, endVars>>

(* ... or issues DPU_IO_CMD_WRITE_TIMEOUT or READ_TIMEOUT, whose down() never
   returns: nothing in the build calls up(), ... *)
HostUsesInterrupt(d) ==
  /\ WaitReturns(d, -1)
  /\ host' = [host EXCEPT ![d] = "down"]
  /\ UNCHANGED <<control, status, dsp, copyVars, endVars>>

(* ... or gives up and starts the exchange again. *)
HostGivesUp(d) ==
  /\ WaitReturns(d, -1)
  /\ host' = [host EXCEPT ![d] = "reset"]
  /\ UNCHANGED <<control, status, dsp, copyVars, endVars>>

Host(d) ==
  \/ HostReset(d) \/ HostResetSeen(d) \/ HostCopies(d)
  \/ d = "write" /\ (WriterFin \/ WriterFinSeen)
  \/ d = "read"  /\ (ReaderFin \/ ReaderFinSeen)
  \/ WaitMiss(d) \/ HostWaitsAgain(d)

-----------------------------------------------------------------------------
(* The DSP programs (external). *)

(* The words of LinkLayer.h the DSP loads and stores. *)
PcWord(d, fin) ==
  IF d = "write" THEN (IF fin THEN "PC_WT_FINISH" ELSE "PC_WT_RESET")
                 ELSE (IF fin THEN "PC_RD_FINISH" ELSE "PC_RD_RESET")

DspWord(d, fin) ==
  IF d = "write" THEN (IF fin THEN "DSP_RD_FINISH" ELSE "DSP_RD_RESET")
                 ELSE (IF fin THEN "DSP_WT_FINISH" ELSE "DSP_WT_RESET")

DspStores(d, word) == status' = [status EXCEPT ![d] = word]
DspGoes(d, to) == dsp' = [dsp EXCEPT ![d] = to]

(* A new exchange is open: a message will come, or can be written. *)
DspSeesReset(d) ==
  /\ dsp[d] = "awaitReset"
  /\ control[d] = PcWord(d, FALSE)
  /\ DspGoes(d, IF d = "write" THEN "answerReset" ELSE "copy")
  /\ UNCHANGED <<control, status, host, loopCount, copyVars, endVars>>

(* The buffer is reset, for the writer to fill or for the next read. *)
DspAnswersReset(d) ==
  /\ dsp[d] = "answerReset"
  /\ DspStores(d, DspWord(d, FALSE))
  /\ DspGoes(d, IF d = "write" THEN "awaitFinish" ELSE "awaitReset")
  /\ UNCHANGED <<control, host, loopCount, copyVars, endVars>>

(* The writer's message is announced, or the reader is done with the buffer. *)
DspSeesWriterFin ==
  /\ dsp["write"] = "awaitFinish"
  /\ control["write"] = PcWord("write", TRUE)
  /\ DspGoes("write", "copy")
  /\ UNCHANGED <<control, status, host, loopCount, copyVars, endVars>>

DspSeesReaderFin ==
  /\ dsp["read"] = "awaitFinish"
  /\ control["read"] = PcWord("read", TRUE)
  /\ Gave("read")
  /\ DspGoes("read", "answerReset")
  /\ UNCHANGED <<control, status, host, loopCount, copyVars>>

DspCopies(d) ==
  /\ dsp[d] = "copy"
  /\ \/ d = "write" /\ DrainBlock(d)
     \/ d = "read"  /\ FillBlock(d)
  /\ UNCHANGED <<control, status, host, loopCount, dsp, endVars>>

(* The message is taken. *)
DspReadFinish ==
  /\ dsp["write"] = "copy"
  /\ DrainEnds("write")
  /\ DspStores("write", DspWord("write", TRUE))
  /\ Took("write")
  /\ DspGoes("write", "awaitReset")
  /\ UNCHANGED <<control, host, loopCount>>

(* A message can be read. *)
DspWriteFinish ==
  /\ dsp["read"] = "copy"
  /\ FillEnds("read")
  /\ DspStores("read", DspWord("read", TRUE))
  /\ DspGoes("read", "awaitFinish")
  /\ UNCHANGED <<control, host, loopCount, endVars>>

Dsp(d) ==
  \/ DspSeesReset(d) \/ DspAnswersReset(d) \/ DspCopies(d)
  \/ d = "write" /\ (DspSeesWriterFin \/ DspReadFinish)
  \/ d = "read"  /\ (DspSeesReaderFin \/ DspWriteFinish)

-----------------------------------------------------------------------------
(* No process gives up an exchange it has opened. *)
Next == \E d \in Dirs : Host(d) \/ HostUsesInterrupt(d) \/ Dsp(d)
Spec == Init /\ [][Next]_vars

(* Processes keep running, which after a timeout means that they wait again or
   turn to the interrupt, and so do the DSP programs. *)
FairSpec == Spec /\ \A d \in Dirs : WF_vars(Host(d)) /\ WF_vars(Dsp(d))

(* Processes may also give up. *)
ImpatientNext == Next \/ \E d \in Dirs : HostGivesUp(d)
ImpatientSpec == Init /\ [][ImpatientNext]_vars

-----------------------------------------------------------------------------
(* Properties. *)

TypeOK ==
  /\ control \in [Dirs -> {"zero", "PC_WT_RESET", "PC_WT_FINISH", "PC_RD_RESET", "PC_RD_FINISH"}]
  /\ status \in [Dirs -> {"zero", "DSP_RD_RESET", "DSP_RD_FINISH", "DSP_WT_RESET", "DSP_WT_FINISH"}]
  /\ buffer \in [Dirs -> [Blocks -> 0 .. NMsg]]
  /\ host \in [Dirs -> {"reset", "qreset", "copy", "qfin", "down"}]
  /\ loopCount \in [Dirs -> 0 .. PendTime]
  /\ dsp \in [Dirs -> {"awaitReset", "answerReset", "copy", "awaitFinish"}]
  /\ filled \in [Dirs -> 0 .. NBlock]
  /\ drained \in [Dirs -> 0 .. NBlock]
  /\ taking \in [Dirs -> [Blocks -> 0 .. NMsg]]
  /\ received \in [Dirs -> Seq([Blocks -> 0 .. NMsg])]
  /\ given \in [Dirs -> 0 .. NMsg]

(* Messages are taken whole, in order and once each, although a poll may time
   out at any point and be started again. *)
TakenInOrder ==
  \A d \in Dirs : \A i \in DOMAIN received[d] : received[d][i] = Whole(i)

(* LinkLayer.h, "PC-side write buffer status" and "DSP-side read buffer
   status": while one side is at the buffer the other is not. *)
BufferHeld == \A d \in Dirs : ~ (host[d] = "copy" /\ dsp[d] = "copy")

(* LinkLayer.c:288, "PC writeBuffer reset.DSP can't read.": once WRITE_RESET is
   stored the DSP does not read the write buffer.  It holds as long as no
   process gives up an exchange. *)
WriteResetStopsDsp ==
  control["write"] = "PC_WT_RESET" => dsp["write"] # "copy"

(* An answer is to the request that awaits it, not a word the register kept from
   an earlier message: the writer is let at the buffer, and the reader at a
   message, only by a DSP that has stepped back until the host is done, and the
   other answers come when the message is taken, or counted, and not before. *)
Freed(d) == host[d] = (IF d = "write" THEN "qreset" ELSE "qfin")

AnswerIsFresh ==
  \A d \in Dirs : host[d] \in {"qreset", "qfin"} /\ BufferReady(d) =>
    IF Freed(d) THEN /\ dsp[d] = "awaitFinish"
                     /\ Len(received[d]) = given[d]
                     /\ d = "read" => buffer[d] = Whole(given[d] + 1)
                ELSE /\ dsp[d] = "awaitReset"
                     /\ Len(received[d]) = given[d] + (IF d = "write" THEN 1 ELSE 0)

(* The two sides never wait for each other: while the host polls a status word
   that has not come, the DSP is not waiting for a control word that the host
   has not stored.  A control word that replaced one the DSP had not seen yet
   would end in that (LinkLayer.c:289, 305). *)
HostWaits(d) == host[d] \in {"qreset", "qfin"} /\ ~ BufferReady(d)
DspWaits(d) ==
  \/ dsp[d] = "awaitReset"  /\ control[d] # PcWord(d, FALSE)
  \/ dsp[d] = "awaitFinish" /\ control[d] # PcWord(d, TRUE)

NoMutualWait == \A d \in Dirs : ~ (HostWaits(d) /\ DspWaits(d))

(* Every message gets through however often a poll times out, unless the process
   turns to the interrupt, which does not come back (Driver). *)
AllGiven == \A d \in Dirs : <>(given[d] = NMsg \/ host[d] = "down")

(* In each direction the exchange implements the abstract channel. *)
Channel == INSTANCE LinkChannel
ChannelSpec == Channel!Spec
=============================================================================
