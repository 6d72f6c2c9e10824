----------------------------- MODULE ProgramLoad -----------------------------
(***************************************************************************)
(* What an upload promises the DSP, as bootLoader() relies on it: a        *)
(* program is put into memory in one step, entry point and all, and only   *)
(* then started.                                                           *)
(***************************************************************************)
CONSTANTS
  Program,  \* the programs: what each puts where
  Entry,    \* the entry point of each
  Nothing   \* no program

VARIABLES
  which,    \* the program that is uploaded
  loaded,   \* the program the DSP finds in its memory, or Nothing
  started   \* the entry point the DSP went to, or Nothing

Init ==
  /\ which \in DOMAIN Program
  /\ loaded = Nothing
  /\ started = Nothing

Load ==
  /\ loaded = Nothing
  /\ loaded' = Program[which]
  /\ UNCHANGED <<which, started>>

Start ==
  /\ loaded = Program[which]
  /\ started = Nothing
  /\ started' = Entry[which]
  /\ UNCHANGED <<which, loaded>>

Next == Load \/ Start

Spec == Init /\ [][Next]_<<which, loaded, started>>
=============================================================================
