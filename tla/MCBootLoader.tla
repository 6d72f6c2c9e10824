---------------------------- MODULE MCBootLoader ----------------------------
(* Instances of BootLoader for TLC.  Three images is the number bootLoader()
   pushes; two blocks suffice for a torn image. *)
EXTENDS BootLoader

MCBootCoreNum == 3
MCNBlock      == 2
(* Three reads per poll: a miss, a success that counts, and the last read,
   whose success is reported as a timeout. *)
MCMaxPoll     == 3
=============================================================================
