------------------------------ MODULE MCDriver ------------------------------
(* Instances of Driver for TLC: a chip that init_module serves and one that it
   does not, and two processes. *)
EXTENDS Driver

CONSTANTS p1, p2

MCPciDevCount == 2
MCProcs       == {p1, p2}
=============================================================================
