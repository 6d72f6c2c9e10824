------------------------------ MODULE PollCall ------------------------------
(***************************************************************************)
(* A poll as its callers see it: one register read per step, and a verdict *)
(* that depends only on the number of reads and on the last word read.     *)
(* BootLoader and LinkLayer take their polls in these steps.               *)
(***************************************************************************)
EXTENDS Polling

VARIABLES
  reads,         \* reads that did not find the awaited word
  maxPollCount,  \* the bound the caller passed
  verdict        \* Pending, then the value returned

Pending == 1

vars == <<reads, maxPollCount, verdict>>

Init ==
  /\ reads = 0
  /\ maxPollCount \in Nat
  /\ verdict = Pending

(* A read that finds or does not find the awaited word is the device's choice. *)
Miss ==
  /\ verdict = Pending
  /\ PollRepeats(reads, maxPollCount, FALSE)
  /\ reads' = reads + 1
  /\ UNCHANGED <<maxPollCount, verdict>>

Return ==
  /\ verdict = Pending
  /\ \E ready \in BOOLEAN, rv \in {0, -1} :
       /\ PollReturns(reads, maxPollCount, ready, rv)
       /\ verdict' = rv
  /\ UNCHANGED <<reads, maxPollCount>>

Next == Miss \/ Return
Spec == Init /\ [][Next]_vars
=============================================================================
