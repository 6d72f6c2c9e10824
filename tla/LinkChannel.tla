----------------------------- MODULE LinkChannel -----------------------------
(***************************************************************************)
(* What an exchange promises in each direction: the receiver takes the     *)
(* messages 1, 2, 3, ... whole, in order and once each, and the sender     *)
(* counts a message as given only when the receiver has taken it.          *)
(***************************************************************************)
EXTENDS Naturals, Sequences

CONSTANTS Dirs, NBlock

Whole(m) == [b \in 1 .. NBlock |-> m]

VARIABLES
  received,  \* received[d]: contents of the messages taken
  given      \* given[d]: number of messages the sender knows to be taken

vars == <<received, given>>

Init ==
  /\ received = [d \in Dirs |-> <<>>]
  /\ given = [d \in Dirs |-> 0]

Take(d) ==
  /\ Len(received[d]) = given[d]
  /\ received' = [received EXCEPT ![d] = Append(@, Whole(given[d] + 1))]
  /\ UNCHANGED given

Acknowledge(d) ==
  /\ Len(received[d]) = given[d] + 1
  /\ given' = [given EXCEPT ![d] = @ + 1]
  /\ UNCHANGED received

Next == \E d \in Dirs : Take(d) \/ Acknowledge(d)
Spec == Init /\ [][Next]_vars
=============================================================================
