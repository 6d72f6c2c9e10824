-------------------------- MODULE LinkLayerProofs --------------------------
(***************************************************************************)
(* Proofs about LinkLayer for every number of messages, blocks and reads   *)
(* per poll.                                                               *)
(***************************************************************************)
EXTENDS LinkLayer, TLAPS

Taken(d) == Len(received[d])

(* The writer and the DSP program that reads: the control word tells how far
   the exchange is, also when the writer is blocked. *)
WriteInv ==
  /\ control["write"] \in {"zero", "PC_WT_RESET", "PC_WT_FINISH"}
  /\ status["write"] \in {"zero", "DSP_RD_RESET", "DSP_RD_FINISH"}
  /\ status["write"] = "DSP_RD_RESET" <=> dsp["write"] \in {"awaitFinish", "copy"}
  /\ control["write"] = "zero" =>
       host["write"] = "reset" /\ dsp["write"] = "awaitReset" /\ Taken("write") = given["write"]
  /\ control["write"] = "PC_WT_RESET" =>
       /\ host["write"] \in {"qreset", "copy", "down"}
       /\ dsp["write"] # "copy"
       /\ host["write"] = "copy" => dsp["write"] = "awaitFinish"
       /\ Taken("write") = given["write"] /\ given["write"] < NMsg
  /\ control["write"] = "PC_WT_FINISH" =>
       /\ host["write"] \in {"qfin", "down", "reset"}
       /\ \/ /\ dsp["write"] \in {"awaitFinish", "copy"} /\ host["write"] # "reset"
             /\ Taken("write") = given["write"] /\ given["write"] < NMsg
             /\ \A b \in Blocks : buffer["write"][b] = given["write"] + 1
          \/ /\ dsp["write"] = "awaitReset" /\ host["write"] # "reset"
             /\ status["write"] = "DSP_RD_FINISH"
             /\ Taken("write") = given["write"] + 1 /\ given["write"] < NMsg
          \/ /\ dsp["write"] = "awaitReset" /\ host["write"] = "reset"
             /\ Taken("write") = given["write"]
  /\ host["write"] = "copy" => \A b \in 1 .. filled["write"] : buffer["write"][b] = given["write"] + 1
  /\ filled["write"] > 0 => host["write"] = "copy"
  /\ dsp["write"] = "copy" => \A b \in 1 .. drained["write"] : taking["write"][b] = given["write"] + 1
  /\ drained["write"] > 0 => dsp["write"] = "copy"

(* The reader and the DSP program that writes. *)
ReadInv ==
  /\ control["read"] \in {"zero", "PC_RD_RESET", "PC_RD_FINISH"}
  /\ status["read"] \in {"zero", "DSP_WT_RESET", "DSP_WT_FINISH"}
  /\ status["read"] = "DSP_WT_FINISH" <=> dsp["read"] \in {"awaitFinish", "answerReset"}
  /\ control["read"] = "zero" =>
       host["read"] = "reset" /\ dsp["read"] = "awaitReset" /\ Taken("read") = given["read"]
  /\ control["read"] = "PC_RD_RESET" =>
       /\ host["read"] \in {"qfin", "copy", "down"}
       /\ dsp["read"] # "answerReset"
       /\ host["read"] = "copy" => dsp["read"] = "awaitFinish"
       /\ dsp["read"] = "awaitFinish" => \A b \in Blocks : buffer["read"][b] = given["read"] + 1
       /\ Taken("read") = given["read"] /\ given["read"] < NMsg
  /\ control["read"] = "PC_RD_FINISH" =>
       /\ host["read"] \in {"qreset", "down", "reset"}
       /\ \/ /\ dsp["read"] = "awaitFinish" /\ host["read"] # "reset"
             /\ Taken("read") = given["read"] + 1 /\ given["read"] < NMsg
          \/ /\ dsp["read"] = "answerReset" /\ host["read"] # "reset"
             /\ Taken("read") = given["read"]
          \/ /\ dsp["read"] = "awaitReset" /\ status["read"] = "DSP_WT_RESET"
             /\ Taken("read") = given["read"]
  /\ dsp["read"] = "copy" => control["read"] = "PC_RD_RESET"
  /\ dsp["read"] = "copy" => \A b \in 1 .. filled["read"] : buffer["read"][b] = given["read"] + 1
  /\ filled["read"] > 0 => dsp["read"] = "copy"
  /\ host["read"] = "copy" => \A b \in 1 .. drained["read"] : taking["read"][b] = given["read"] + 1
  /\ host["read"] = "copy" => control["read"] = "PC_RD_RESET"
  /\ drained["read"] > 0 => host["read"] = "copy"

IInv == TypeOK /\ WriteInv /\ ReadInv /\ TakenInOrder

-----------------------------------------------------------------------------
(* The state of direction d does not change. *)
Same(d) ==
  /\ control'[d] = control[d] /\ status'[d] = status[d] /\ buffer'[d] = buffer[d]
  /\ host'[d] = host[d] /\ loopCount'[d] = loopCount[d] /\ dsp'[d] = dsp[d]
  /\ filled'[d] = filled[d] /\ drained'[d] = drained[d] /\ taking'[d] = taking[d]
  /\ received'[d] = received[d] /\ given'[d] = given[d]

(* Messages taken in direction d. *)
Ordered(d) == \A i \in DOMAIN received[d] : received[d][i] = Whole(i)

(* An exchange in one direction does not touch the other. *)
LEMMA WriteLeavesRead ==
  ASSUME TypeOK, Host("write") \/ HostUsesInterrupt("write") \/ Dsp("write")
  PROVE  Same("read")
<1>1. CASE HostReset("write")
  BY <1>1 DEF TypeOK, Dirs, Same, HostReset, ControlWord, ChangeBufferStatus, copyVars, endVars
<1>2. CASE HostResetSeen("write")
  BY <1>2 DEF TypeOK, Dirs, Same, HostResetSeen, WaitReturns, BufferReady, ReadyValue, EqualTo, PollReturns, copyVars, endVars
<1>3. CASE HostCopies("write")
  BY <1>3 DEF TypeOK, Dirs, Same, HostCopies, FillBlock, DrainBlock, endVars
<1>4. CASE WriterFin
  BY <1>4 DEF TypeOK, Dirs, Same, WriterFin, FillEnds, ControlWord, ChangeBufferStatus, endVars
<1>5. CASE WriterFinSeen
  BY <1>5 DEF TypeOK, Dirs, Same, WriterFinSeen, WaitReturns, BufferReady, ReadyValue, EqualTo, PollReturns, Gave, copyVars
<1>6. CASE WaitMiss("write")
  BY <1>6 DEF TypeOK, Dirs, Same, WaitMiss, PollRepeats, BufferReady, ReadyValue, EqualTo, copyVars, endVars
<1>7. CASE HostWaitsAgain("write")
  BY <1>7 DEF TypeOK, Dirs, Same, HostWaitsAgain, WaitReturns, PollReturns, BufferReady, ReadyValue, EqualTo, copyVars, endVars
<1>8. CASE HostUsesInterrupt("write")
  BY <1>8 DEF TypeOK, Dirs, Same, HostUsesInterrupt, WaitReturns, PollReturns, BufferReady, ReadyValue, EqualTo, copyVars, endVars
<1>9. CASE DspSeesReset("write")
  BY <1>9 DEF TypeOK, Dirs, Same, DspSeesReset, PcWord, DspGoes, copyVars, endVars
<1>10. CASE DspAnswersReset("write")
  BY <1>10 DEF TypeOK, Dirs, Same, DspAnswersReset, DspWord, DspStores, DspGoes, copyVars, endVars
<1>11. CASE DspCopies("write")
  BY <1>11 DEF TypeOK, Dirs, Same, DspCopies, FillBlock, DrainBlock, endVars
<1>12. CASE DspSeesWriterFin
  BY <1>12 DEF TypeOK, Dirs, Same, DspSeesWriterFin, PcWord, DspGoes, copyVars, endVars
<1>13. CASE DspReadFinish
  BY <1>13 DEF TypeOK, Dirs, Same, DspReadFinish, DrainEnds, DspWord, DspStores, DspGoes, Took
<1> QED
  BY <1>1, <1>2, <1>3, <1>4, <1>5, <1>6, <1>7, <1>8, <1>9, <1>10, <1>11, <1>12, <1>13 DEF Host, Dsp

LEMMA ReadLeavesWrite ==
  ASSUME TypeOK, Host("read") \/ HostUsesInterrupt("read") \/ Dsp("read")
  PROVE  Same("write")
<1>1. CASE HostReset("read")
  BY <1>1 DEF TypeOK, Dirs, Same, HostReset, ControlWord, ChangeBufferStatus, copyVars, endVars
<1>2. CASE HostResetSeen("read")
  BY <1>2 DEF TypeOK, Dirs, Same, HostResetSeen, WaitReturns, BufferReady, ReadyValue, EqualTo, PollReturns, copyVars, endVars
<1>3. CASE HostCopies("read")
  BY <1>3 DEF TypeOK, Dirs, Same, HostCopies, FillBlock, DrainBlock, endVars
<1>4. CASE ReaderFin
  BY <1>4 DEF TypeOK, Dirs, Same, ReaderFin, DrainEnds, ControlWord, ChangeBufferStatus, Took
<1>5. CASE ReaderFinSeen
  BY <1>5 DEF TypeOK, Dirs, Same, ReaderFinSeen, WaitReturns, BufferReady, ReadyValue, EqualTo, PollReturns, copyVars, endVars
<1>6. CASE WaitMiss("read")
  BY <1>6 DEF TypeOK, Dirs, Same, WaitMiss, PollRepeats, BufferReady, ReadyValue, EqualTo, copyVars, endVars
<1>7. CASE HostWaitsAgain("read")
  BY <1>7 DEF TypeOK, Dirs, Same, HostWaitsAgain, WaitReturns, PollReturns, BufferReady, ReadyValue, EqualTo, copyVars, endVars
<1>8. CASE HostUsesInterrupt("read")
  BY <1>8 DEF TypeOK, Dirs, Same, HostUsesInterrupt, WaitReturns, PollReturns, BufferReady, ReadyValue, EqualTo, copyVars, endVars
<1>9. CASE DspSeesReset("read")
  BY <1>9 DEF TypeOK, Dirs, Same, DspSeesReset, PcWord, DspGoes, copyVars, endVars
<1>10. CASE DspAnswersReset("read")
  BY <1>10 DEF TypeOK, Dirs, Same, DspAnswersReset, DspWord, DspStores, DspGoes, copyVars, endVars
<1>11. CASE DspCopies("read")
  BY <1>11 DEF TypeOK, Dirs, Same, DspCopies, FillBlock, DrainBlock, endVars
<1>12. CASE DspSeesReaderFin
  BY <1>12 DEF TypeOK, Dirs, Same, DspSeesReaderFin, PcWord, DspGoes, Gave, copyVars
<1>13. CASE DspWriteFinish
  BY <1>13 DEF TypeOK, Dirs, Same, DspWriteFinish, FillEnds, DspWord, DspStores, DspGoes, endVars
<1> QED
  BY <1>1, <1>2, <1>3, <1>4, <1>5, <1>6, <1>7, <1>8, <1>9, <1>10, <1>11, <1>12, <1>13 DEF Host, Dsp

(* The two ends of the copying. *)
LEMMA FillKeepsType ==
  ASSUME TypeOK, NEW d \in Dirs, FillBlock(d), given[d] < NMsg
  PROVE  /\ buffer' \in [Dirs -> [Blocks -> 0 .. NMsg]]
         /\ filled' \in [Dirs -> 0 .. NBlock]
         /\ UNCHANGED <<drained, taking>>
<1> USE LinkAssumption
<1>1. filled[d] + 1 \in Blocks /\ given[d] + 1 \in 0 .. NMsg /\ filled[d] + 1 \in 0 .. NBlock
  <2>1. filled[d] \in 0 .. NBlock /\ given[d] \in 0 .. NMsg
    BY DEF TypeOK
  <2>2. filled[d] < NBlock
    BY DEF FillBlock
  <2> QED
    BY <2>1, <2>2 DEF Blocks
<1>2. [buffer[d] EXCEPT ![filled[d] + 1] = given[d] + 1] \in [Blocks -> 0 .. NMsg]
  BY <1>1 DEF TypeOK
<1> QED
  BY <1>1, <1>2 DEF TypeOK, FillBlock

LEMMA FillExtends ==
  ASSUME TypeOK, NEW d \in Dirs, FillBlock(d),
         \A b \in 1 .. filled[d] : buffer[d][b] = given[d] + 1
  PROVE  \A b \in 1 .. filled'[d] : buffer'[d][b] = given[d] + 1
<1> USE LinkAssumption
<1>1. filled[d] \in Nat /\ filled'[d] = filled[d] + 1 /\ filled[d] + 1 \in Blocks
  <2>1. filled[d] \in 0 .. NBlock
    BY DEF TypeOK
  <2>2. filled[d] < NBlock /\ filled'[d] = filled[d] + 1
    BY DEF TypeOK, FillBlock
  <2> QED
    BY <2>1, <2>2 DEF Blocks
<1>2. buffer'[d] = [buffer[d] EXCEPT ![filled[d] + 1] = given[d] + 1]
  BY DEF TypeOK, FillBlock
<1> SUFFICES ASSUME NEW b \in 1 .. filled'[d] PROVE buffer'[d][b] = given[d] + 1
  OBVIOUS
<1>3. b \in Blocks /\ (b = filled[d] + 1 \/ b \in 1 .. filled[d])
  BY <1>1 DEF Blocks
<1>4. buffer[d] \in [Blocks -> 0 .. NMsg]
  BY DEF TypeOK
<1> QED
  BY <1>1, <1>2, <1>3, <1>4

LEMMA DrainKeepsType ==
  ASSUME TypeOK, NEW d \in Dirs, DrainBlock(d)
  PROVE  /\ taking' \in [Dirs -> [Blocks -> 0 .. NMsg]]
         /\ drained' \in [Dirs -> 0 .. NBlock]
         /\ UNCHANGED <<buffer, filled>>
<1> USE LinkAssumption
<1>1. drained[d] + 1 \in Blocks /\ drained[d] + 1 \in 0 .. NBlock
  <2>1. drained[d] \in 0 .. NBlock
    BY DEF TypeOK
  <2>2. drained[d] < NBlock
    BY DEF DrainBlock
  <2> QED
    BY <2>1, <2>2 DEF Blocks
<1>2. buffer[d][drained[d] + 1] \in 0 .. NMsg
  BY <1>1 DEF TypeOK
<1>3. [taking[d] EXCEPT ![drained[d] + 1] = buffer[d][drained[d] + 1]] \in [Blocks -> 0 .. NMsg]
  BY <1>1, <1>2 DEF TypeOK
<1> QED
  BY <1>1, <1>3 DEF TypeOK, DrainBlock

LEMMA DrainExtends ==
  ASSUME TypeOK, NEW d \in Dirs, DrainBlock(d),
         \A b \in Blocks : buffer[d][b] = given[d] + 1,
         \A b \in 1 .. drained[d] : taking[d][b] = given[d] + 1
  PROVE  \A b \in 1 .. drained'[d] : taking'[d][b] = given[d] + 1
<1> USE LinkAssumption
<1>1. drained[d] \in Nat /\ drained'[d] = drained[d] + 1 /\ drained[d] + 1 \in Blocks
  <2>1. drained[d] \in 0 .. NBlock
    BY DEF TypeOK
  <2>2. drained[d] < NBlock /\ drained'[d] = drained[d] + 1
    BY DEF TypeOK, DrainBlock
  <2> QED
    BY <2>1, <2>2 DEF Blocks
<1>2. taking'[d] = [taking[d] EXCEPT ![drained[d] + 1] = given[d] + 1]
  BY <1>1 DEF TypeOK, DrainBlock
<1> SUFFICES ASSUME NEW b \in 1 .. drained'[d] PROVE taking'[d][b] = given[d] + 1
  OBVIOUS
<1>3. b \in Blocks /\ (b = drained[d] + 1 \/ b \in 1 .. drained[d])
  BY <1>1 DEF Blocks
<1>4. taking[d] \in [Blocks -> 0 .. NMsg]
  BY DEF TypeOK
<1> QED
  BY <1>1, <1>2, <1>3, <1>4

(* Taking a message appends it to the history. *)
LEMMA TookAppends ==
  ASSUME TypeOK, NEW d \in Dirs, Took(d)
  PROVE  /\ received' \in [Dirs -> Seq([Blocks -> 0 .. NMsg])]
         /\ received'[d] = Append(received[d], taking[d])
         /\ Taken(d) \in Nat /\ Len(received'[d]) = Taken(d) + 1
         /\ UNCHANGED given
<1>1. received[d] \in Seq([Blocks -> 0 .. NMsg]) /\ taking[d] \in [Blocks -> 0 .. NMsg]
  BY DEF TypeOK
<1>2. Append(received[d], taking[d]) \in Seq([Blocks -> 0 .. NMsg])
  BY <1>1
<1>3. received' = [received EXCEPT ![d] = Append(received[d], taking[d])]
  BY DEF Took
<1>4. received'[d] = Append(received[d], taking[d])
  BY <1>3 DEF TypeOK
<1>5. received' \in [Dirs -> Seq([Blocks -> 0 .. NMsg])]
  BY <1>2, <1>3 DEF TypeOK
<1>6. Taken(d) \in Nat /\ Len(received'[d]) = Taken(d) + 1
  BY <1>1, <1>4 DEF Taken
<1> QED
  BY <1>4, <1>5, <1>6 DEF Took

(* A message taken whole and next in order keeps the history in order. *)
LEMMA TookOrdered ==
  ASSUME TypeOK, NEW d \in Dirs, Took(d), Ordered(d),
         Taken(d) = given[d], taking[d] = Whole(given[d] + 1)
  PROVE  Ordered(d)'
<1>1. received[d] \in Seq([Blocks -> 0 .. NMsg]) /\ received'[d] = Append(received[d], taking[d])
  BY TookAppends DEF TypeOK
<1> SUFFICES ASSUME NEW i \in DOMAIN received'[d] PROVE received'[d][i] = Whole(i)
  BY DEF Ordered
<1>2. CASE i = Taken(d) + 1
  BY <1>1, <1>2 DEF Taken
<1>3. CASE i \in DOMAIN received[d]
  BY <1>1, <1>3 DEF Ordered
<1> QED
  BY <1>1, <1>2, <1>3 DEF Taken

(* A poll, going on or returning, keeps its counter in bounds. *)
LEMMA PollKeepsType ==
  ASSUME TypeOK, NEW d \in Dirs
  PROVE  /\ WaitMiss(d) => loopCount' \in [Dirs -> 0 .. PendTime]
         /\ \A rv \in {0, -1} : WaitReturns(d, rv) => loopCount' \in [Dirs -> 0 .. PendTime]
<1> USE LinkAssumption
<1>1. loopCount \in [Dirs -> 0 .. PendTime] /\ loopCount[d] \in 0 .. PendTime
  BY DEF TypeOK
<1>2. ASSUME WaitMiss(d) PROVE loopCount' \in [Dirs -> 0 .. PendTime]
  <2>1. loopCount[d] + 1 \in 0 .. PendTime
    BY <1>1, <1>2 DEF WaitMiss, PollRepeats
  <2> QED
    BY <1>1, <1>2, <2>1 DEF WaitMiss
<1>3. ASSUME NEW rv \in {0, -1}, WaitReturns(d, rv)
      PROVE  loopCount' \in [Dirs -> 0 .. PendTime]
  BY <1>1, <1>3 DEF WaitReturns
<1> QED
  BY <1>2, <1>3

(* The type of the state, together with the bounds that the invariants of the
   two directions give. *)
LEMMA WriteKeepsType ==
  ASSUME TypeOK, WriteInv, Host("write") \/ HostUsesInterrupt("write") \/ Dsp("write")
  PROVE  TypeOK'
<1> USE LinkAssumption
<1>1. CASE HostReset("write")
  BY <1>1 DEF TypeOK, Dirs, Blocks, Whole, HostReset, ControlWord, ChangeBufferStatus, copyVars, endVars
<1>2. CASE HostResetSeen("write")
  <2>1. loopCount' \in [Dirs -> 0 .. PendTime]
    BY <1>2, PollKeepsType DEF HostResetSeen, Dirs
  <2> QED
    BY <1>2, <2>1 DEF TypeOK, Dirs, HostResetSeen, copyVars, endVars
<1>3. CASE HostCopies("write")
  <2>1. FillBlock("write") /\ given["write"] < NMsg
    BY <1>3 DEF HostCopies, WriteInv
  <2> QED
    BY <1>3, <2>1, FillKeepsType DEF TypeOK, Dirs, HostCopies, endVars
<1>4. CASE WriterFin
  BY <1>4 DEF TypeOK, Dirs, Blocks, Whole, WriterFin, FillEnds, ControlWord, ChangeBufferStatus, endVars
<1>5. CASE WriterFinSeen
  <2>1. loopCount' \in [Dirs -> 0 .. PendTime]
    BY <1>5, PollKeepsType DEF WriterFinSeen, Dirs
  <2>2. given["write"] \in 0 .. NMsg /\ host["write"] = "qfin"
    BY <1>5 DEF TypeOK, Dirs, WriterFinSeen
  <2>3. given["write"] < NMsg
    BY <1>5, <2>2 DEF TypeOK, Dirs, WriteInv, WriterFinSeen, WaitReturns, BufferReady, EqualTo, ReadyValue, PollReturns
  <2>4. given["write"] + 1 \in 0 .. NMsg
    BY <2>2, <2>3
  <2>5. given' \in [Dirs -> 0 .. NMsg]
    BY <1>5, <2>4 DEF TypeOK, Dirs, WriterFinSeen, Gave
  <2> QED
    BY <1>5, <2>1, <2>5 DEF TypeOK, Dirs, WriterFinSeen, Gave, copyVars
<1>6. CASE WaitMiss("write")
  <2>1. loopCount' \in [Dirs -> 0 .. PendTime]
    BY <1>6, PollKeepsType DEF Dirs
  <2> QED
    BY <1>6, <2>1 DEF TypeOK, WaitMiss, copyVars, endVars
<1>7. CASE HostWaitsAgain("write")
  <2>1. loopCount' \in [Dirs -> 0 .. PendTime]
    BY <1>7, PollKeepsType DEF HostWaitsAgain, Dirs
  <2> QED
    BY <1>7, <2>1 DEF TypeOK, Dirs, HostWaitsAgain, copyVars, endVars
<1>8. CASE HostUsesInterrupt("write")
  <2>1. loopCount' \in [Dirs -> 0 .. PendTime]
    BY <1>8, PollKeepsType DEF HostUsesInterrupt, Dirs
  <2> QED
    BY <1>8, <2>1 DEF TypeOK, Dirs, HostUsesInterrupt, copyVars, endVars
<1>9. CASE DspSeesReset("write")
  BY <1>9 DEF TypeOK, Dirs, Blocks, Whole, DspSeesReset, PcWord, DspGoes, copyVars, endVars
<1>10. CASE DspAnswersReset("write")
  BY <1>10 DEF TypeOK, Dirs, Blocks, Whole, DspAnswersReset, DspWord, DspStores, DspGoes, copyVars, endVars
<1>11. CASE DspCopies("write")
  <2>1. DrainBlock("write")
    BY <1>11 DEF DspCopies
  <2> QED
    BY <1>11, <2>1, DrainKeepsType DEF TypeOK, Dirs, DspCopies, endVars
<1>12. CASE DspSeesWriterFin
  BY <1>12 DEF TypeOK, Dirs, Blocks, Whole, DspSeesWriterFin, PcWord, DspGoes, copyVars, endVars
<1>13. CASE DspReadFinish
  <2>1. Took("write") /\ DrainEnds("write")
    BY <1>13 DEF DspReadFinish
  <2>2. drained' = [drained EXCEPT !["write"] = 0] /\ UNCHANGED <<buffer, filled, taking>>
    BY <2>1 DEF DrainEnds
  <2>3. status' = [status EXCEPT !["write"] = "DSP_RD_FINISH"] /\ dsp' = [dsp EXCEPT !["write"] = "awaitReset"]
    BY <1>13 DEF DspReadFinish, DspStores, DspGoes, DspWord
  <2>4. drained' \in [Dirs -> 0 .. NBlock]
    BY <2>2 DEF TypeOK, Dirs
  <2>5. UNCHANGED <<control, host, loopCount>>
    BY <1>13 DEF DspReadFinish
  <2>6. received' \in [Dirs -> Seq([Blocks -> 0 .. NMsg])] /\ UNCHANGED given
    BY <2>1, TookAppends DEF Dirs
  <2> QED
    BY <2>2, <2>3, <2>4, <2>5, <2>6 DEF TypeOK
<1> QED
  BY <1>1, <1>2, <1>3, <1>4, <1>5, <1>6, <1>7, <1>8, <1>9, <1>10, <1>11, <1>12, <1>13 DEF Host, Dsp

LEMMA ReadKeepsType ==
  ASSUME TypeOK, ReadInv, Host("read") \/ HostUsesInterrupt("read") \/ Dsp("read")
  PROVE  TypeOK'
<1> USE LinkAssumption
<1>1. CASE HostReset("read")
  BY <1>1 DEF TypeOK, Dirs, Blocks, Whole, HostReset, ControlWord, ChangeBufferStatus, copyVars, endVars
<1>2. CASE HostResetSeen("read")
  <2>1. loopCount' \in [Dirs -> 0 .. PendTime]
    BY <1>2, PollKeepsType DEF HostResetSeen, Dirs
  <2> QED
    BY <1>2, <2>1 DEF TypeOK, Dirs, HostResetSeen, copyVars, endVars
<1>3. CASE HostCopies("read")
  <2>1. DrainBlock("read")
    BY <1>3 DEF HostCopies
  <2> QED
    BY <1>3, <2>1, DrainKeepsType DEF TypeOK, Dirs, HostCopies, endVars
<1>4. CASE ReaderFin
  <2>1. Took("read") /\ DrainEnds("read")
    BY <1>4 DEF ReaderFin
  <2>2. drained' = [drained EXCEPT !["read"] = 0] /\ UNCHANGED <<buffer, filled, taking>>
    BY <2>1 DEF DrainEnds
  <2>3. control' = [control EXCEPT !["read"] = "PC_RD_FINISH"] /\ host' = [host EXCEPT !["read"] = "qreset"]
    BY <1>4 DEF ReaderFin, ChangeBufferStatus, ControlWord
  <2>4. drained' \in [Dirs -> 0 .. NBlock]
    BY <2>2 DEF TypeOK, Dirs
  <2>5. UNCHANGED <<status, loopCount, dsp>>
    BY <1>4 DEF ReaderFin
  <2>6. received' \in [Dirs -> Seq([Blocks -> 0 .. NMsg])] /\ UNCHANGED given
    BY <2>1, TookAppends DEF Dirs
  <2> QED
    BY <2>2, <2>3, <2>4, <2>5, <2>6 DEF TypeOK
<1>5. CASE ReaderFinSeen
  <2>1. loopCount' \in [Dirs -> 0 .. PendTime]
    BY <1>5, PollKeepsType DEF ReaderFinSeen, Dirs
  <2> QED
    BY <1>5, <2>1 DEF TypeOK, Dirs, ReaderFinSeen, copyVars, endVars
<1>6. CASE WaitMiss("read")
  <2>1. loopCount' \in [Dirs -> 0 .. PendTime]
    BY <1>6, PollKeepsType DEF Dirs
  <2> QED
    BY <1>6, <2>1 DEF TypeOK, WaitMiss, copyVars, endVars
<1>7. CASE HostWaitsAgain("read")
  <2>1. loopCount' \in [Dirs -> 0 .. PendTime]
    BY <1>7, PollKeepsType DEF HostWaitsAgain, Dirs
  <2> QED
    BY <1>7, <2>1 DEF TypeOK, Dirs, HostWaitsAgain, copyVars, endVars
<1>8. CASE HostUsesInterrupt("read")
  <2>1. loopCount' \in [Dirs -> 0 .. PendTime]
    BY <1>8, PollKeepsType DEF HostUsesInterrupt, Dirs
  <2> QED
    BY <1>8, <2>1 DEF TypeOK, Dirs, HostUsesInterrupt, copyVars, endVars
<1>9. CASE DspSeesReset("read")
  BY <1>9 DEF TypeOK, Dirs, Blocks, Whole, DspSeesReset, PcWord, DspGoes, copyVars, endVars
<1>10. CASE DspAnswersReset("read")
  BY <1>10 DEF TypeOK, Dirs, Blocks, Whole, DspAnswersReset, DspWord, DspStores, DspGoes, copyVars, endVars
<1>11. CASE DspCopies("read")
  <2>1. FillBlock("read") /\ given["read"] < NMsg
    BY <1>11 DEF DspCopies, ReadInv
  <2> QED
    BY <1>11, <2>1, FillKeepsType DEF TypeOK, Dirs, DspCopies, endVars
<1>12. CASE DspSeesReaderFin
  <2>1. given["read"] < NMsg
    BY <1>12 DEF DspSeesReaderFin, PcWord, ReadInv
  <2>2. given["read"] + 1 \in 0 .. NMsg
    BY <2>1 DEF TypeOK, Dirs
  <2>3. given' \in [Dirs -> 0 .. NMsg]
    BY <1>12, <2>2 DEF DspSeesReaderFin, Gave, TypeOK, Dirs
  <2> QED
    BY <1>12, <2>3 DEF TypeOK, DspSeesReaderFin, DspGoes, Gave, copyVars
<1>13. CASE DspWriteFinish
  <2>1. filled' = [filled EXCEPT !["read"] = 0] /\ UNCHANGED <<buffer, drained, taking>>
    BY <1>13 DEF DspWriteFinish, FillEnds
  <2>2. status' = [status EXCEPT !["read"] = "DSP_WT_FINISH"] /\ dsp' = [dsp EXCEPT !["read"] = "awaitFinish"]
    BY <1>13 DEF DspWriteFinish, DspStores, DspGoes, DspWord
  <2>3. filled' \in [Dirs -> 0 .. NBlock]
    BY <2>1 DEF TypeOK, Dirs
  <2>4. UNCHANGED <<control, host, loopCount, received, given>>
    BY <1>13 DEF DspWriteFinish, endVars
  <2> QED
    BY <2>1, <2>2, <2>3, <2>4 DEF TypeOK
<1> QED
  BY <1>1, <1>2, <1>3, <1>4, <1>5, <1>6, <1>7, <1>8, <1>9, <1>10, <1>11, <1>12, <1>13 DEF Host, Dsp

(* The invariant of direction "write" is kept by its own steps. *)
LEMMA WriteKeepsInv ==
  ASSUME TypeOK, WriteInv, Host("write") \/ HostUsesInterrupt("write") \/ Dsp("write")
  PROVE  WriteInv'
<1> USE LinkAssumption
<1>1. CASE HostReset("write")
  BY <1>1 DEF TypeOK, Dirs, Blocks, WriteInv, Taken, HostReset, ControlWord, ChangeBufferStatus, copyVars, endVars
<1>2. CASE HostResetSeen("write")
  BY <1>2 DEF TypeOK, Dirs, Blocks, WriteInv, Taken, HostResetSeen, WaitReturns, BufferReady, ReadyValue, EqualTo, PollReturns, copyVars, endVars
<1>3. CASE HostCopies("write")
  <2>1. FillBlock("write") /\ control["write"] = "PC_WT_RESET" /\ host["write"] = "copy"
    BY <1>3 DEF HostCopies, WriteInv
  <2>2. \A b \in 1 .. filled'["write"] : buffer'["write"][b] = given["write"] + 1
    BY <2>1, FillExtends DEF WriteInv, Dirs
  <2>3. UNCHANGED <<control, status, host, dsp, drained, taking, received, given>>
    BY <1>3, <2>1 DEF HostCopies, FillBlock, endVars
  <2> QED
    BY <2>1, <2>2, <2>3 DEF WriteInv, Taken
<1>4. CASE WriterFin
  BY <1>4 DEF TypeOK, Dirs, Blocks, WriteInv, Taken, WriterFin, FillEnds, ControlWord, ChangeBufferStatus, endVars
<1>5. CASE WriterFinSeen
  BY <1>5 DEF TypeOK, Dirs, Blocks, WriteInv, Taken, WriterFinSeen, WaitReturns, BufferReady, ReadyValue, EqualTo, PollReturns, Gave, copyVars
<1>6. CASE WaitMiss("write")
  BY <1>6 DEF TypeOK, Dirs, Blocks, WriteInv, Taken, WaitMiss, PollRepeats, BufferReady, ReadyValue, EqualTo, copyVars, endVars
<1>7. CASE HostWaitsAgain("write")
  BY <1>7 DEF TypeOK, Dirs, Blocks, WriteInv, Taken, HostWaitsAgain, WaitReturns, PollReturns, BufferReady, ReadyValue, EqualTo, copyVars, endVars
<1>8. CASE HostUsesInterrupt("write")
  BY <1>8 DEF TypeOK, Dirs, Blocks, WriteInv, Taken, HostUsesInterrupt, WaitReturns, PollReturns, BufferReady, ReadyValue, EqualTo, copyVars, endVars
<1>9. CASE DspSeesReset("write")
  BY <1>9 DEF TypeOK, Dirs, Blocks, WriteInv, Taken, DspSeesReset, PcWord, DspGoes, copyVars, endVars
<1>10. CASE DspAnswersReset("write")
  BY <1>10 DEF TypeOK, Dirs, Blocks, WriteInv, Taken, DspAnswersReset, DspWord, DspStores, DspGoes, copyVars, endVars
<1>11. CASE DspCopies("write")
  <2>1. DrainBlock("write") /\ control["write"] = "PC_WT_FINISH" /\ dsp["write"] = "copy"
    BY <1>11 DEF DspCopies, WriteInv
  <2>2. \A b \in 1 .. drained'["write"] : taking'["write"][b] = given["write"] + 1
    BY <2>1, DrainExtends DEF WriteInv, Dirs
  <2>3. UNCHANGED <<control, status, host, dsp, buffer, filled, received, given>>
    BY <1>11, <2>1 DEF DspCopies, DrainBlock, endVars
  <2> QED
    BY <2>1, <2>2, <2>3 DEF WriteInv, Taken
<1>12. CASE DspSeesWriterFin
  <2>1. dsp["write"] = "awaitFinish" /\ control["write"] = "PC_WT_FINISH" /\ dsp'["write"] = "copy"
    BY <1>12 DEF DspSeesWriterFin, PcWord, DspGoes, TypeOK, Dirs
  <2>2. drained["write"] = 0
    BY <2>1 DEF WriteInv, TypeOK, Dirs
  <2>3. UNCHANGED <<control, status, host, buffer, filled, drained, taking, received, given>>
    BY <1>12 DEF DspSeesWriterFin, copyVars, endVars
  <2> QED
    BY <2>1, <2>2, <2>3 DEF WriteInv, Taken
<1>13. CASE DspReadFinish
  <2>1. dsp["write"] = "copy" /\ Took("write") /\ DrainEnds("write")
    BY <1>13 DEF DspReadFinish
  <2>2. status'["write"] = "DSP_RD_FINISH" /\ dsp'["write"] = "awaitReset" /\ drained'["write"] = 0
    BY <1>13 DEF DspReadFinish, DspStores, DspGoes, DspWord, DrainEnds, TypeOK, Dirs
  <2>3. UNCHANGED <<control, host, buffer, filled, taking, given>>
    BY <1>13, <2>1 DEF DspReadFinish, DrainEnds, Took
  <2>4. control["write"] = "PC_WT_FINISH" /\ Taken("write") = given["write"] /\ given["write"] < NMsg
        /\ host["write"] \in {"qfin", "down"}
    BY <2>1 DEF WriteInv
  <2>5. Len(received'["write"]) = given["write"] + 1
    BY <2>1, <2>4, TookAppends DEF Dirs
  <2> QED
    BY <2>1, <2>2, <2>3, <2>4, <2>5 DEF WriteInv, Taken
<1> QED
  BY <1>1, <1>2, <1>3, <1>4, <1>5, <1>6, <1>7, <1>8, <1>9, <1>10, <1>11, <1>12, <1>13 DEF Host, Dsp

(* The invariant of direction "read" is kept by its own steps. *)
LEMMA ReadKeepsInv ==
  ASSUME TypeOK, ReadInv, Host("read") \/ HostUsesInterrupt("read") \/ Dsp("read")
  PROVE  ReadInv'
<1> USE LinkAssumption
<1>1. CASE HostReset("read")
  BY <1>1 DEF TypeOK, Dirs, Blocks, ReadInv, Taken, HostReset, ControlWord, ChangeBufferStatus, copyVars, endVars
<1>2. CASE HostResetSeen("read")
  BY <1>2 DEF TypeOK, Dirs, Blocks, ReadInv, Taken, HostResetSeen, WaitReturns, BufferReady, ReadyValue, EqualTo, PollReturns, copyVars, endVars
<1>3. CASE HostCopies("read")
  <2>1. DrainBlock("read") /\ host["read"] = "copy" /\ control["read"] = "PC_RD_RESET" /\ dsp["read"] = "awaitFinish"
    BY <1>3 DEF HostCopies, ReadInv
  <2>2. \A b \in 1 .. drained'["read"] : taking'["read"][b] = given["read"] + 1
    BY <2>1, DrainExtends DEF ReadInv, Dirs
  <2>3. UNCHANGED <<control, status, host, dsp, buffer, filled, received, given>>
    BY <1>3, <2>1 DEF HostCopies, DrainBlock, endVars
  <2> QED
    BY <2>1, <2>2, <2>3 DEF ReadInv, Taken
<1>4. CASE ReaderFin
  BY <1>4 DEF TypeOK, Dirs, Blocks, ReadInv, Taken, ReaderFin, DrainEnds, ControlWord, ChangeBufferStatus, Took
<1>5. CASE ReaderFinSeen
  BY <1>5 DEF TypeOK, Dirs, Blocks, ReadInv, Taken, ReaderFinSeen, WaitReturns, BufferReady, ReadyValue, EqualTo, PollReturns, copyVars, endVars
<1>6. CASE WaitMiss("read")
  BY <1>6 DEF TypeOK, Dirs, Blocks, ReadInv, Taken, WaitMiss, PollRepeats, BufferReady, ReadyValue, EqualTo, copyVars, endVars
<1>7. CASE HostWaitsAgain("read")
  BY <1>7 DEF TypeOK, Dirs, Blocks, ReadInv, Taken, HostWaitsAgain, WaitReturns, PollReturns, BufferReady, ReadyValue, EqualTo, copyVars, endVars
<1>8. CASE HostUsesInterrupt("read")
  BY <1>8 DEF TypeOK, Dirs, Blocks, ReadInv, Taken, HostUsesInterrupt, WaitReturns, PollReturns, BufferReady, ReadyValue, EqualTo, copyVars, endVars
<1>9. CASE DspSeesReset("read")
  <2>1. dsp["read"] = "awaitReset" /\ control["read"] = "PC_RD_RESET" /\ dsp'["read"] = "copy"
    BY <1>9 DEF DspSeesReset, PcWord, DspGoes, TypeOK, Dirs
  <2>2. filled["read"] = 0
    BY <2>1 DEF ReadInv, TypeOK, Dirs
  <2>3. UNCHANGED <<control, status, host, buffer, filled, drained, taking, received, given>>
    BY <1>9 DEF DspSeesReset, copyVars, endVars
  <2> QED
    BY <2>1, <2>2, <2>3 DEF ReadInv, Taken
<1>10. CASE DspAnswersReset("read")
  BY <1>10 DEF TypeOK, Dirs, Blocks, ReadInv, Taken, DspAnswersReset, DspWord, DspStores, DspGoes, copyVars, endVars
<1>11. CASE DspCopies("read")
  <2>1. FillBlock("read") /\ dsp["read"] = "copy" /\ control["read"] = "PC_RD_RESET" /\ host["read"] # "copy"
    BY <1>11 DEF DspCopies, ReadInv
  <2>2. \A b \in 1 .. filled'["read"] : buffer'["read"][b] = given["read"] + 1
    BY <2>1, FillExtends DEF ReadInv, Dirs
  <2>3. UNCHANGED <<control, status, host, dsp, drained, taking, received, given>>
    BY <1>11, <2>1 DEF DspCopies, FillBlock, endVars
  <2> QED
    BY <2>1, <2>2, <2>3 DEF ReadInv, Taken
<1>12. CASE DspSeesReaderFin
  BY <1>12 DEF TypeOK, Dirs, Blocks, ReadInv, Taken, DspSeesReaderFin, PcWord, DspGoes, Gave, copyVars
<1>13. CASE DspWriteFinish
  BY <1>13 DEF TypeOK, Dirs, Blocks, ReadInv, Taken, DspWriteFinish, FillEnds, DspWord, DspStores, DspGoes, endVars
<1> QED
  BY <1>1, <1>2, <1>3, <1>4, <1>5, <1>6, <1>7, <1>8, <1>9, <1>10, <1>11, <1>12, <1>13 DEF Host, Dsp

(* What is taken is the next message, whole. *)
LEMMA WriteTakes ==
  ASSUME TypeOK, WriteInv, DspReadFinish
  PROVE  /\ Took("write") /\ Taken("write") = given["write"]
         /\ taking["write"] = Whole(given["write"] + 1)
<1> USE LinkAssumption
<1>1. dsp["write"] = "copy" /\ Took("write") /\ drained["write"] = NBlock
  BY DEF DspReadFinish, DrainEnds
<1>2. Taken("write") = given["write"]
  BY <1>1 DEF WriteInv
<1>3. taking["write"] = Whole(given["write"] + 1)
  BY <1>1 DEF WriteInv, TypeOK, Dirs, Whole, Blocks
<1> QED
  BY <1>1, <1>2, <1>3

LEMMA ReadTakes ==
  ASSUME TypeOK, ReadInv, ReaderFin
  PROVE  /\ Took("read") /\ Taken("read") = given["read"]
         /\ taking["read"] = Whole(given["read"] + 1)
<1> USE LinkAssumption
<1>1. host["read"] = "copy" /\ Took("read") /\ drained["read"] = NBlock
  BY DEF ReaderFin, DrainEnds
<1>2. Taken("read") = given["read"]
  BY <1>1 DEF ReadInv
<1>3. taking["read"] = Whole(given["read"] + 1)
  BY <1>1 DEF ReadInv, TypeOK, Dirs, Whole, Blocks
<1> QED
  BY <1>1, <1>2, <1>3

LEMMA WriteKeepsOrder ==
  ASSUME TypeOK, WriteInv, Ordered("write"), Host("write") \/ HostUsesInterrupt("write") \/ Dsp("write")
  PROVE  Ordered("write")'
<1> USE LinkAssumption
<1>1. CASE DspReadFinish
  BY <1>1, WriteTakes, TookOrdered DEF Dirs
<1>2. CASE UNCHANGED received
  BY <1>2 DEF Ordered
<1>3. DspReadFinish \/ UNCHANGED received
  BY DEF Host, Dsp, HostReset, HostResetSeen, HostCopies, WriterFin, WriterFinSeen, WaitMiss,
         HostWaitsAgain, HostUsesInterrupt, DspSeesReset, DspAnswersReset, DspCopies,
         DspSeesWriterFin, Gave, endVars
<1> QED
  BY <1>1, <1>2, <1>3

LEMMA ReadKeepsOrder ==
  ASSUME TypeOK, ReadInv, Ordered("read"), Host("read") \/ HostUsesInterrupt("read") \/ Dsp("read")
  PROVE  Ordered("read")'
<1> USE LinkAssumption
<1>1. CASE ReaderFin
  BY <1>1, ReadTakes, TookOrdered DEF Dirs
<1>2. CASE UNCHANGED received
  BY <1>2 DEF Ordered
<1>3. ReaderFin \/ UNCHANGED received
  BY DEF Host, Dsp, HostReset, HostResetSeen, HostCopies, ReaderFinSeen, WaitMiss,
         HostWaitsAgain, HostUsesInterrupt, DspSeesReset, DspAnswersReset, DspCopies,
         DspSeesReaderFin, DspWriteFinish, Gave, endVars
<1> QED
  BY <1>1, <1>2, <1>3

-----------------------------------------------------------------------------
LEMMA Frame ==
  /\ WriteInv /\ Same("write") => WriteInv'
  /\ ReadInv /\ Same("read") => ReadInv'
  /\ \A d \in Dirs : Ordered(d) /\ Same(d) => Ordered(d)'
<1>1. WriteInv /\ Same("write") => WriteInv'
  BY DEF WriteInv, Same, Taken
<1>2. ReadInv /\ Same("read") => ReadInv'
  BY DEF ReadInv, Same, Taken
<1>3. \A d \in Dirs : Ordered(d) /\ Same(d) => Ordered(d)'
  BY DEF Ordered, Same
<1> QED
  BY <1>1, <1>2, <1>3

LEMMA OrderOfBoth == TakenInOrder <=> Ordered("write") /\ Ordered("read")
BY DEF TakenInOrder, Ordered, Dirs

LEMMA InitEstablishes == Init => IInv
<1> SUFFICES ASSUME Init PROVE IInv
  OBVIOUS
<1> USE LinkAssumption
<1>1. TypeOK
  BY DEF Init, TypeOK, Dirs, Whole, Blocks
<1>2. WriteInv
  BY DEF Init, WriteInv, Taken, Dirs
<1>3. ReadInv
  BY DEF Init, ReadInv, Taken, Dirs
<1>4. TakenInOrder
  BY DEF Init, TakenInOrder, Dirs
<1> QED
  BY <1>1, <1>2, <1>3, <1>4 DEF IInv

LEMMA StepKeeps == IInv /\ [Next]_vars => IInv'
<1> SUFFICES ASSUME IInv, [Next]_vars PROVE IInv'
  OBVIOUS
<1>0. TypeOK /\ WriteInv /\ ReadInv /\ Ordered("write") /\ Ordered("read")
  BY OrderOfBoth DEF IInv
<1>1. CASE Host("write") \/ HostUsesInterrupt("write") \/ Dsp("write")
  <2>1. TypeOK' /\ WriteInv' /\ Ordered("write")'
    BY <1>0, <1>1, WriteKeepsType, WriteKeepsInv, WriteKeepsOrder
  <2>2. ReadInv' /\ Ordered("read")'
    BY <1>0, <1>1, WriteLeavesRead, Frame DEF Dirs
  <2>3. TakenInOrder'
    BY <2>1, <2>2 DEF TakenInOrder, Ordered, Dirs
  <2> QED
    BY <2>1, <2>2, <2>3 DEF IInv
<1>2. CASE Host("read") \/ HostUsesInterrupt("read") \/ Dsp("read")
  <2>1. TypeOK' /\ ReadInv' /\ Ordered("read")'
    BY <1>0, <1>2, ReadKeepsType, ReadKeepsInv, ReadKeepsOrder
  <2>2. WriteInv' /\ Ordered("write")'
    BY <1>0, <1>2, ReadLeavesWrite, Frame DEF Dirs
  <2>3. TakenInOrder'
    BY <2>1, <2>2 DEF TakenInOrder, Ordered, Dirs
  <2> QED
    BY <2>1, <2>2, <2>3 DEF IInv
<1>3. CASE UNCHANGED vars
  <2>1. TypeOK'
    BY <1>0, <1>3 DEF TypeOK, vars
  <2>2. WriteInv'
    BY <1>0, <1>3 DEF WriteInv, Taken, vars
  <2>3. ReadInv'
    BY <1>0, <1>3 DEF ReadInv, Taken, vars
  <2>4. TakenInOrder'
    BY <1>3 DEF IInv, TakenInOrder, vars
  <2> QED
    BY <2>1, <2>2, <2>3, <2>4 DEF IInv
<1>4. Next \/ UNCHANGED vars
  OBVIOUS
<1> QED
  BY <1>1, <1>2, <1>3, <1>4 DEF Next, Dirs

(* What every reachable state of Spec satisfies. *)
THEOREM Invariance == Spec => []IInv
BY InitEstablishes, StepKeeps, PTL DEF Spec

(* Type correctness of the exchange: LinkLayer_ChangeBufferStatus and
   LinkLayer_WaitBufferReady only ever handle the words of their direction. *)
THEOREM TypeCorrect == Spec => []TypeOK
<1>1. IInv => TypeOK
  BY DEF IInv
<1> QED
  BY <1>1, Invariance, PTL

(* Through the registers that LinkLayer_ChangeBufferStatus stores and
   LinkLayer_WaitBufferReady polls, messages are taken whole, in order and once
   each, for every number of messages and blocks and whatever the poll bound:
   a timeout never makes a process go on without its answer. *)
THEOREM TakenInOrderHolds == Spec => []TakenInOrder
<1>1. IInv => TakenInOrder
  BY DEF IInv
<1> QED
  BY <1>1, Invariance, PTL

(* The host and the DSP are never at a buffer together. *)
THEOREM BufferHeldHolds == Spec => []BufferHeld
<1>1. IInv => BufferHeld
  <2>1. IInv => ~ (host["write"] = "copy" /\ dsp["write"] = "copy")
    BY DEF IInv, WriteInv
  <2>2. IInv => ~ (host["read"] = "copy" /\ dsp["read"] = "copy")
    BY DEF IInv, ReadInv
  <2> QED
    BY <2>1, <2>2 DEF BufferHeld, Dirs
<1> QED
  BY <1>1, Invariance, PTL

(* What an answer that LinkLayer_WaitBufferReady reports says of its direction. *)
LEMMA WriteAnswer ==
  ASSUME IInv, BufferReady("write")
  PROVE  /\ host["write"] = "qreset" => dsp["write"] = "awaitFinish" /\ Taken("write") = given["write"]
         /\ host["write"] = "qfin" => dsp["write"] = "awaitReset" /\ Taken("write") = given["write"] + 1
<1>0. WriteInv
  BY DEF IInv
<1>1. CASE host["write"] = "qreset"
  <2>1. status["write"] = "DSP_RD_RESET"
    BY <1>1 DEF BufferReady, ReadyValue, EqualTo
  <2>2. control["write"] = "PC_WT_RESET"
    BY <1>0, <1>1 DEF WriteInv
  <2> QED
    BY <1>0, <1>1, <2>1, <2>2 DEF WriteInv
<1>2. CASE host["write"] = "qfin"
  <2>1. status["write"] = "DSP_RD_FINISH"
    BY <1>2 DEF BufferReady, ReadyValue, EqualTo
  <2>2. control["write"] = "PC_WT_FINISH"
    BY <1>0, <1>2 DEF WriteInv
  <2> QED
    BY <1>0, <1>2, <2>1, <2>2 DEF WriteInv
<1> QED
  BY <1>1, <1>2

LEMMA ReadAnswer ==
  ASSUME IInv, BufferReady("read")
  PROVE  /\ host["read"] = "qfin" => /\ dsp["read"] = "awaitFinish"
                                    /\ Taken("read") = given["read"]
                                    /\ buffer["read"] = Whole(given["read"] + 1)
         /\ host["read"] = "qreset" => dsp["read"] = "awaitReset" /\ Taken("read") = given["read"]
<1>0. ReadInv /\ TypeOK
  BY DEF IInv
<1>1. CASE host["read"] = "qfin"
  <2>1. status["read"] = "DSP_WT_FINISH"
    BY <1>1 DEF BufferReady, ReadyValue, EqualTo
  <2>2. control["read"] = "PC_RD_RESET"
    BY <1>0, <1>1 DEF ReadInv
  <2>3. dsp["read"] = "awaitFinish" /\ Taken("read") = given["read"]
        /\ \A b \in Blocks : buffer["read"][b] = given["read"] + 1
    BY <1>0, <2>1, <2>2 DEF ReadInv
  <2>4. buffer["read"] \in [Blocks -> 0 .. NMsg]
    BY <1>0 DEF TypeOK, Dirs
  <2>5. buffer["read"] = Whole(given["read"] + 1)
    BY <2>3, <2>4 DEF Whole
  <2> QED
    BY <1>1, <2>3, <2>5
<1>2. CASE host["read"] = "qreset"
  <2>1. status["read"] = "DSP_WT_RESET"
    BY <1>2 DEF BufferReady, ReadyValue, EqualTo
  <2>2. control["read"] = "PC_RD_FINISH"
    BY <1>0, <1>2 DEF ReadInv
  <2> QED
    BY <1>0, <1>2, <2>1, <2>2 DEF ReadInv
<1> QED
  BY <1>1, <1>2

(* An answer that LinkLayer_WaitBufferReady reports is one to the request it
   was called for, never a word the register kept from an earlier message,
   however many messages there are. *)
THEOREM AnswerIsFreshHolds == Spec => []AnswerIsFresh
<1>1. IInv => AnswerIsFresh
  <2> SUFFICES ASSUME IInv, NEW d \in Dirs, host[d] \in {"qreset", "qfin"}, BufferReady(d)
               PROVE  IF Freed(d) THEN /\ dsp[d] = "awaitFinish"
                                       /\ Len(received[d]) = given[d]
                                       /\ d = "read" => buffer[d] = Whole(given[d] + 1)
                                  ELSE /\ dsp[d] = "awaitReset"
                                       /\ Len(received[d]) = given[d] + (IF d = "write" THEN 1 ELSE 0)
    BY DEF AnswerIsFresh
  <2>0. given["read"] \in 0 .. NMsg
    BY DEF IInv, TypeOK, Dirs
  <2>1. CASE d = "write"
    BY <2>1, WriteAnswer DEF Freed, Taken
  <2>2. CASE d = "read"
    BY <2>0, <2>2, ReadAnswer, LinkAssumption DEF Freed, Taken
  <2> QED
    BY <2>1, <2>2 DEF Dirs
<1> QED
  BY <1>1, Invariance, PTL

(* A process that polls and a DSP program never wait for each other: no control
   word that LinkLayer_ChangeBufferStatus stores is replaced before the DSP has
   seen it. *)
THEOREM NoMutualWaitHolds == Spec => []NoMutualWait
<1>1. IInv => NoMutualWait
  <2> SUFFICES ASSUME IInv, NEW d \in Dirs, HostWaits(d), DspWaits(d)
               PROVE  FALSE
    BY DEF NoMutualWait
  <2>1. CASE d = "write"
    <3>1. WriteInv /\ host["write"] \in {"qreset", "qfin"}
      BY <2>1 DEF IInv, HostWaits
    <3>2. CASE host["write"] = "qreset"
      BY <2>1, <3>1, <3>2 DEF WriteInv, HostWaits, DspWaits, PcWord, BufferReady, ReadyValue, EqualTo
    <3>3. CASE host["write"] = "qfin"
      BY <2>1, <3>1, <3>3 DEF WriteInv, HostWaits, DspWaits, PcWord, BufferReady, ReadyValue, EqualTo
    <3> QED
      BY <3>1, <3>2, <3>3
  <2>2. CASE d = "read"
    <3>1. ReadInv /\ host["read"] \in {"qreset", "qfin"}
      BY <2>2 DEF IInv, HostWaits
    <3>2. CASE host["read"] = "qreset"
      BY <2>2, <3>1, <3>2 DEF ReadInv, HostWaits, DspWaits, PcWord, BufferReady, ReadyValue, EqualTo
    <3>3. CASE host["read"] = "qfin"
      BY <2>2, <3>1, <3>3 DEF ReadInv, HostWaits, DspWaits, PcWord, BufferReady, ReadyValue, EqualTo
    <3> QED
      BY <3>1, <3>2, <3>3
  <2> QED
    BY <2>1, <2>2 DEF Dirs
<1> QED
  BY <1>1, Invariance, PTL

-----------------------------------------------------------------------------
(* The steps of the abstract channel. *)
LEMMA TakeStep ==
  ASSUME NEW d \in Dirs, Took(d), Taken(d) = given[d], taking[d] = Whole(given[d] + 1)
  PROVE  Channel!Next
<1>1. received' = [received EXCEPT ![d] = Append(received[d], Channel!Whole(given[d] + 1))]
  BY DEF Took, Whole, Blocks, Channel!Whole
<1>2. Channel!Take(d)
  BY <1>1 DEF Channel!Take, Took, Taken
<1> QED
  BY <1>2 DEF Channel!Next

LEMMA AcknowledgeStep ==
  ASSUME NEW d \in Dirs, Gave(d), Taken(d) = given[d] + 1
  PROVE  Channel!Next
<1>1. Channel!Acknowledge(d)
  BY DEF Channel!Acknowledge, Gave, Taken
<1> QED
  BY <1>1 DEF Channel!Next

LEMMA WriterGives ==
  ASSUME TypeOK, WriteInv, WriterFinSeen
  PROVE  Gave("write") /\ Taken("write") = given["write"] + 1
<1>1. Gave("write") /\ host["write"] = "qfin" /\ status["write"] = "DSP_RD_FINISH"
  BY DEF WriterFinSeen, WaitReturns, PollReturns, BufferReady, EqualTo, ReadyValue
<1>2. control["write"] = "PC_WT_FINISH" /\ dsp["write"] = "awaitReset"
  BY <1>1 DEF WriteInv
<1> QED
  BY <1>1, <1>2 DEF WriteInv

LEMMA ReaderGives ==
  ASSUME TypeOK, ReadInv, DspSeesReaderFin
  PROVE  Gave("read") /\ Taken("read") = given["read"] + 1
BY DEF DspSeesReaderFin, PcWord, ReadInv

LEMMA ChannelInit == Init => Channel!Init
BY DEF Init, Channel!Init

LEMMA ChannelStep == IInv /\ [Next]_vars => [Channel!Next]_Channel!vars
<1> SUFFICES ASSUME IInv, [Next]_vars PROVE Channel!Next \/ UNCHANGED <<received, given>>
  BY DEF Channel!vars
<1>0. TypeOK /\ WriteInv /\ ReadInv
  BY DEF IInv
<1>1. CASE DspReadFinish
  BY <1>0, <1>1, WriteTakes, TakeStep DEF Dirs
<1>2. CASE ReaderFin
  BY <1>0, <1>2, ReadTakes, TakeStep DEF Dirs
<1>3. CASE WriterFinSeen
  BY <1>0, <1>3, WriterGives, AcknowledgeStep DEF Dirs
<1>4. CASE DspSeesReaderFin
  BY <1>0, <1>4, ReaderGives, AcknowledgeStep DEF Dirs
<1>5. ASSUME NEW d \in Dirs,
             \/ HostReset(d) \/ HostResetSeen(d) \/ HostCopies(d) \/ WaitMiss(d)
             \/ HostWaitsAgain(d) \/ HostUsesInterrupt(d)
             \/ DspSeesReset(d) \/ DspAnswersReset(d) \/ DspCopies(d)
      PROVE  UNCHANGED <<received, given>>
  BY <1>5 DEF HostReset, HostResetSeen, HostCopies, WaitMiss, HostWaitsAgain,
              HostUsesInterrupt, DspSeesReset, DspAnswersReset, DspCopies, endVars
<1>6. CASE WriterFin \/ ReaderFinSeen \/ DspSeesWriterFin \/ DspWriteFinish
  BY <1>6 DEF WriterFin, ReaderFinSeen, DspSeesWriterFin, DspWriteFinish, endVars
<1>7. CASE UNCHANGED vars
  BY <1>7 DEF vars
<1> QED
  BY <1>1, <1>2, <1>3, <1>4, <1>5, <1>6, <1>7 DEF Next, Host, Dsp

(* In each direction the exchange implements the abstract channel: a sender
   counts a message as given only when it was taken, whole, once and in
   order. *)
THEOREM Refinement == Spec => ChannelSpec
BY ChannelInit, ChannelStep, Invariance, PTL DEF Spec, ChannelSpec, Channel!Spec
=============================================================================
