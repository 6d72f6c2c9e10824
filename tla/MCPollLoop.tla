----------------------------- MODULE MCPollLoop -----------------------------
(* Instances of PollLoop for TLC: words of two bits, so that a mask can be set
   in part, and bounds from "no read at all" to three reads. *)
EXTENDS PollLoop

MCWords      == SUBSET {0, 4}
MCPollCounts == 0 .. 3
=============================================================================
