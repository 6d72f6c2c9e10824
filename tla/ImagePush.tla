------------------------------ MODULE ImagePush ------------------------------
(***************************************************************************)
(* What pushing the program images promises: the DSP receives the images   *)
(* whole and in order, the image of core c as the c-th, and the push is    *)
(* called a success only when it has received all of them.  The push may   *)
(* fail at any time, also after the last image was received.               *)
(***************************************************************************)
EXTENDS Integers

CONSTANTS BootCoreNum, NBlock

Cores  == 0 .. BootCoreNum - 1
Blocks == 1 .. NBlock
WholeImage(k) == [b \in Blocks |-> k]
Nothing == WholeImage(-1)

VARIABLES
  received,  \* number of images the DSP has received
  image,     \* image[c]: what core c was given
  outcome    \* "pending", then "success" or "failure"

vars == <<received, image, outcome>>

Init ==
  /\ received = 0
  /\ image = [c \in Cores |-> Nothing]
  /\ outcome = "pending"

(* Also after a failure: the host gave up while the DSP was still reading. *)
Receive ==
  /\ received < BootCoreNum
  /\ outcome # "success"
  /\ image' = [image EXCEPT ![received] = WholeImage(received)]
  /\ received' = received + 1
  /\ UNCHANGED outcome

Succeed ==
  /\ outcome = "pending"
  /\ received = BootCoreNum
  /\ outcome' = "success"
  /\ UNCHANGED <<received, image>>

Fail ==
  /\ outcome = "pending"
  /\ outcome' = "failure"
  /\ UNCHANGED <<received, image>>

Next == Receive \/ Succeed \/ Fail
Spec == Init /\ [][Next]_vars
=============================================================================
