------------------------------ MODULE PollLoop ------------------------------
(***************************************************************************)
(* The loop of pollValue, pollEqualValue and pollCompareValue              *)
(* (src/src/common.c) as the C code runs it: the loop condition, the read  *)
(* with its test, and the increment are separate steps, between which the  *)
(* DSP may store anything into the register.                               *)
(*                                                                         *)
(* pollCompareValue reads the word it compares with anew in each turn.     *)
(* Its only caller passes a local variable for it, which stays the same.   *)
(***************************************************************************)
EXTENDS Polling

CONSTANTS
  Words,       \* the register words, each a set of bits
  PollCounts   \* the bounds callers pass

ASSUME PollAssumption == PollCounts \subseteq Nat

VARIABLES
  test,          \* which of the functions runs: "mask", "equal" or "compare"
  pollVal,       \* the word it awaits, or the word at pAddress of pollCompareValue
  maxPollCount,
  register,      \* *pAddress, *qAddress of pollCompareValue: written by the DSP
  pc,            \* "condition", "readSet", "read", "increment", "verdict", "done"
  loopCount,
  stopPoll,
  setTimeVal,    \* the word pollCompareValue compares with, as it read it last
  retVal,
  lastReady      \* history: the last read found the awaited word

vars == <<test, pollVal, maxPollCount, register, pc, loopCount, stopPoll,
          setTimeVal, retVal, lastReady>>
args == <<test, pollVal, maxPollCount>>

Init ==
  /\ test \in {"mask", "equal", "compare"}
  /\ pollVal \in Words
  /\ maxPollCount \in PollCounts
  /\ register \in Words
  /\ pc = "condition"
  /\ loopCount = 0 /\ stopPoll = 0 /\ retVal = 0 /\ setTimeVal = {}
  /\ lastReady = FALSE

(* Where a turn of the loop begins. *)
FirstRead == IF test = "compare" THEN "readSet" ELSE "read"

(* Fault: <= instead of <, one read too many. *)
ConditionAtBound ==
  /\ pc = "condition"
  /\ pc' = IF loopCount <= maxPollCount /\ stopPoll = 0 THEN FirstRead ELSE "verdict"
  /\ UNCHANGED <<args, register, loopCount, stopPoll, setTimeVal, retVal, lastReady>>

(* The condition of the for statement. *)
Condition ==
  /\ pc = "condition"
  /\ pc' = IF loopCount < maxPollCount /\ stopPoll = 0 THEN FirstRead ELSE "verdict"
  /\ UNCHANGED <<args, register, loopCount, stopPoll, setTimeVal, retVal, lastReady>>

(* setTimeVal = *pAddress of pollCompareValue. *)
ReadSet ==
  /\ pc = "readSet"
  /\ setTimeVal' = pollVal
  /\ pc' = "read"
  /\ UNCHANGED <<args, register, loopCount, stopPoll, retVal, lastReady>>

(* The tests of pollValue and pollEqualValue, and that of pollCompareValue. *)
Ready ==
  \/ test = "mask"  /\ MaskSet(register, pollVal)
  \/ test = "equal" /\ EqualTo(register, pollVal)
Same == test = "compare" /\ EqualTo(register, setTimeVal)

(* What the caller waits for. *)
Awaited ==
  IF test = "mask" THEN MaskSet(register, pollVal) ELSE EqualTo(register, pollVal)

(* realTimeVal = *pAddress, or *qAddress, and its test. *)
Read ==
  /\ pc = "read"
  /\ stopPoll' = IF Ready \/ Same THEN 1 ELSE stopPoll
  /\ lastReady' = Awaited
  /\ pc' = "increment"
  /\ UNCHANGED <<args, register, loopCount, setTimeVal, retVal>>

(* Fault: only a successful read is counted. *)
IncrementOnStop ==
  /\ pc = "increment"
  /\ loopCount' = loopCount + stopPoll
  /\ pc' = "condition"
  /\ UNCHANGED <<args, register, stopPoll, setTimeVal, retVal, lastReady>>

Increment ==
  /\ pc = "increment"
  /\ loopCount' = loopCount + 1
  /\ pc' = "condition"
  /\ UNCHANGED <<args, register, stopPoll, setTimeVal, retVal, lastReady>>

(* Fault: <= instead of <, which calls every timeout a success. *)
VerdictAtBound ==
  /\ pc = "verdict"
  /\ retVal' = IF loopCount <= maxPollCount THEN 0 ELSE -1
  /\ pc' = "done"
  /\ UNCHANGED <<args, register, loopCount, stopPoll, setTimeVal, lastReady>>

(* Fault: stopPoll decides, which calls a word found by the last read a success. *)
VerdictOnStop ==
  /\ pc = "verdict"
  /\ retVal' = IF stopPoll = 1 THEN 0 ELSE -1
  /\ pc' = "done"
  /\ UNCHANGED <<args, register, loopCount, stopPoll, setTimeVal, lastReady>>

(* The verdict looks at the counter, not at stopPoll. *)
Verdict ==
  /\ pc = "verdict"
  /\ retVal' = IF loopCount < maxPollCount THEN 0 ELSE -1
  /\ pc' = "done"
  /\ UNCHANGED <<args, register, loopCount, stopPoll, setTimeVal, lastReady>>

(* The DSP stores a word (external). *)
DspStores ==
  /\ pc # "done"
  /\ register' \in Words \ {register}
  /\ UNCHANGED <<args, pc, loopCount, stopPoll, setTimeVal, retVal, lastReady>>

Poll == Condition \/ ReadSet \/ Read \/ Increment \/ Verdict
Next == Poll \/ DspStores
Spec == Init /\ [][Next]_vars
FairSpec == Spec /\ WF_vars(Poll)

-----------------------------------------------------------------------------
TypeOK ==
  /\ test \in {"mask", "equal", "compare"}
  /\ pollVal \in Words /\ register \in Words /\ setTimeVal \in Words \cup {{}}
  /\ maxPollCount \in PollCounts
  /\ pc \in {"condition", "readSet", "read", "increment", "verdict", "done"}
  /\ loopCount \in 0 .. maxPollCount
  /\ stopPoll \in {0, 1}
  /\ retVal \in {0, -1}
  /\ lastReady \in BOOLEAN

(* A poll reports success only if the word it read last was the awaited one,
   however the DSP changed the register meanwhile. *)
SuccessWasRead == pc = "done" /\ retVal = 0 => lastReady

(* A poll ends whatever the DSP stores and however often. *)
PollEnds == <>(pc = "done")

(* The read that ends the poll is not a miss. *)
MissesSoFar == loopCount + (IF pc = "increment" THEN 1 ELSE 0) - stopPoll

(* What the function returned, once it has; 1 is PollCall's Pending. *)
Returned == IF pc = "done" THEN retVal ELSE 1

Call == INSTANCE PollCall WITH reads <- MissesSoFar, verdict <- Returned

(* The loop implements the one-step poll its callers are modelled with: it returns
   what that poll returns after as many misses, whether the awaited word was never
   found, found, or found by the last permitted read, which counts as a timeout. *)
CallSpec == Call!Spec
=============================================================================
