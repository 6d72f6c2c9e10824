------------------------------- MODULE Polling -------------------------------
(***************************************************************************)
(* The bounded busy-wait loop shared by pollValue, pollEqualValue and      *)
(* pollCompareValue (src/src/common.c).  The three functions differ only   *)
(* in the test applied to the register word; the counting is identical.    *)
(*                                                                         *)
(* A register word is the set of its bits that are 1, so that `a & b' is   *)
(* a \cap b and the word 0 is the empty set.                               *)
(*                                                                         *)
(* The loop is                                                             *)
(*     for (n = 0; n < max && !stop; n++) if (test(read())) stop = 1;      *)
(*     return n < max ? 0 : -1;                                            *)
(* The counter is incremented after the successful read too, so a word     *)
(* that becomes ready in the last permitted read is reported as a timeout. *)
(* n never wraps: it stops at max, and max fits in 32 bits.                *)
(***************************************************************************)
EXTENDS Integers

(* The three tests. *)
MaskSet(word, pollVal) == word \cap pollVal # {}
EqualTo(word, pollVal) == word = pollVal

(* One iteration that does not find the awaited word; the loop goes on. *)
PollRepeats(loopCount, maxPollCount, ready) ==
  /\ loopCount < maxPollCount
  /\ ~ ready

(* The call returns rv: after the iteration that found the word, or because
   the permitted iterations are used up. *)
PollReturns(loopCount, maxPollCount, ready, rv) ==
  \/ /\ loopCount < maxPollCount
     /\ ready
     /\ rv = IF loopCount + 1 < maxPollCount THEN 0 ELSE -1
  \/ /\ loopCount >= maxPollCount
     /\ rv = -1
=============================================================================
