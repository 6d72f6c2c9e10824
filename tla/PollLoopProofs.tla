--------------------------- MODULE PollLoopProofs ---------------------------
(***************************************************************************)
(* Proofs about PollLoop for every set of words and every bound.           *)
(***************************************************************************)
EXTENDS PollLoop, TLAPS

(* The counter and stopPoll at each point of the loop. *)
LoopInv ==
  /\ pc \in {"readSet", "read"} => loopCount < maxPollCount /\ stopPoll = 0
  /\ pc = "read" /\ test = "compare" => setTimeVal = pollVal
  /\ pc = "increment" => loopCount < maxPollCount
  /\ pc \in {"verdict", "done"} => loopCount = maxPollCount \/ stopPoll = 1
  /\ stopPoll = 1 => lastReady
  /\ stopPoll = 1 /\ pc # "increment" => loopCount > 0
  /\ pc = "done" => retVal = IF loopCount < maxPollCount THEN 0 ELSE -1

IInv == TypeOK /\ LoopInv

LEMMA InitIInv == Init => IInv
<1> SUFFICES ASSUME Init PROVE IInv
  OBVIOUS
<1>1. maxPollCount \in Nat
  BY PollAssumption DEF Init
<1>2. TypeOK
  <2>1. lastReady \in BOOLEAN
    BY DEF Init
  <2>2. QED
    BY <1>1, <2>1 DEF Init, TypeOK
<1>3. LoopInv
  BY <1>1 DEF Init, LoopInv
<1>4. QED
  BY <1>2, <1>3 DEF IInv

LEMMA StepIInv == IInv /\ [Next]_vars => IInv'
<1> SUFFICES ASSUME IInv, [Next]_vars PROVE IInv'
  OBVIOUS
<1> USE PollAssumption DEF IInv, TypeOK, LoopInv, args
<1>1. CASE Condition
  BY <1>1 DEF Condition, FirstRead
<1>2. CASE ReadSet
  BY <1>2 DEF ReadSet
<1>3. CASE Read
  <2>1. Awaited \in BOOLEAN
    BY DEF Awaited, MaskSet, EqualTo
  <2>2. Ready \/ Same => Awaited
    BY <1>3 DEF Read, Ready, Same, Awaited, EqualTo
  <2>3. QED
    BY <1>3, <2>1, <2>2 DEF Read
<1>4. CASE Increment
  BY <1>4 DEF Increment
<1>5. CASE Verdict
  BY <1>5 DEF Verdict
<1>6. CASE DspStores
  BY <1>6 DEF DspStores
<1>7. CASE UNCHANGED vars
  BY <1>7 DEF vars
<1>8. QED
  BY <1>1, <1>2, <1>3, <1>4, <1>5, <1>6, <1>7 DEF Next, Poll

LEMMA Invariance == Spec => []IInv
BY InitIInv, StepIInv, PTL DEF Spec

(* The loop's variables keep their types: the counter never passes the bound. *)
THEOREM TypeCorrect == Spec => []TypeOK
<1>1. IInv => TypeOK
  BY DEF IInv
<1>2. QED
  BY <1>1, Invariance, PTL

(* A poll that returns 0 has read the awaited word. *)
THEOREM SuccessWasReadHolds == Spec => []SuccessWasRead
<1>1. IInv => SuccessWasRead
  BY DEF IInv, TypeOK, LoopInv, SuccessWasRead
<1>2. QED
  BY <1>1, Invariance, PTL

-----------------------------------------------------------------------------
(* The loop implements the one-step poll. *)

LEMMA CallInit == Init => Call!Init
BY PollAssumption DEF Init, Call!Init, MissesSoFar, Returned, Call!Pending

(* A read that finds nothing is a miss, the verdict is the return, and all other
   steps are stutters: the read that finds the word is taken back by stopPoll. *)
LEMMA CallStep ==
  ASSUME IInv, [Next]_vars
  PROVE  [Call!Next]_(Call!vars)
<1> USE PollAssumption DEF IInv, TypeOK, LoopInv, args, MissesSoFar, Returned
<1>1. CASE Condition
  BY <1>1 DEF Condition, FirstRead, Call!vars
<1>2. CASE ReadSet
  BY <1>2 DEF ReadSet, Call!vars
<1>3. CASE Read
  <2>0. /\ pc = "read" /\ pc' = "increment" /\ stopPoll = 0
        /\ loopCount < maxPollCount
        /\ UNCHANGED <<loopCount, maxPollCount, retVal>>
    BY <1>3 DEF Read
  <2>1. CASE Ready \/ Same
    BY <1>3, <2>0, <2>1 DEF Read, Call!vars
  <2>2. CASE ~ (Ready \/ Same)
    <3>1. /\ Returned = 1 /\ Returned' = 1
          /\ MissesSoFar = loopCount /\ MissesSoFar' = loopCount + 1
      BY <1>3, <2>0, <2>2 DEF Read
    <3>2. Call!PollRepeats(MissesSoFar, maxPollCount, FALSE)
      BY <2>0, <3>1 DEF Call!PollRepeats
    <3>3. QED
      BY <2>0, <3>1, <3>2 DEF Call!Next, Call!Miss, Call!Pending
  <2>3. QED
    BY <2>1, <2>2
<1>4. CASE Increment
  BY <1>4 DEF Increment, Call!vars
<1>5. CASE Verdict
  <2>0. /\ Returned = 1 /\ Returned' = retVal'
        /\ retVal' = IF loopCount < maxPollCount THEN 0 ELSE -1
        /\ MissesSoFar = loopCount - stopPoll
        /\ UNCHANGED <<MissesSoFar, maxPollCount>>
    BY <1>5 DEF Verdict
  <2>1. CASE stopPoll = 1
    <3>1. Call!PollReturns(MissesSoFar, maxPollCount, TRUE, retVal')
      BY <1>5, <2>0, <2>1 DEF Call!PollReturns, Verdict
    <3>2. QED
      BY <2>0, <3>1 DEF Call!Next, Call!Return, Call!Pending
  <2>2. CASE stopPoll = 0
    <3>1. MissesSoFar = maxPollCount /\ retVal' = -1
      BY <1>5, <2>0, <2>2 DEF Verdict
    <3>2. Call!PollReturns(MissesSoFar, maxPollCount, FALSE, -1)
      BY <3>1 DEF Call!PollReturns
    <3>3. QED
      BY <2>0, <3>1, <3>2 DEF Call!Next, Call!Return, Call!Pending
  <2>3. QED
    BY <2>1, <2>2
<1>6. CASE DspStores
  BY <1>6 DEF DspStores, Call!vars
<1>7. CASE UNCHANGED vars
  BY <1>7 DEF vars, Call!vars
<1>8. QED
  BY <1>1, <1>2, <1>3, <1>4, <1>5, <1>6, <1>7 DEF Next, Poll

(* The three poll functions count and return as the one-step poll of their callers
   does, for every bound: what the mapping gives as verdict is retVal. *)
THEOREM LoopImplementsCall == Spec => CallSpec
<1>1. IInv /\ [Next]_vars => [Call!Next]_(Call!vars)
  BY CallStep
<1>2. QED
  BY <1>1, CallInit, Invariance, PTL DEF Spec, CallSpec, Call!Spec
=============================================================================
