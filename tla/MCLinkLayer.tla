---------------------------- MODULE MCLinkLayer ----------------------------
(* Instances of LinkLayer for TLC.  The second message is the first that finds
   the words of an earlier exchange in the registers. *)
EXTENDS LinkLayer

MCNMsg     == 2
MCNBlock   == 2
MCPendTime == 2
=============================================================================
