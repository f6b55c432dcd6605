--------------------------- MODULE MCConsoleSession ---------------------------
(* Constants of the TLC instances of ConsoleSession. *)
EXTENDS ConsoleSession, TLC

AllFaults == {"clearFails", "tabCloses", "noWebLocks", "lockFails"}
NoFaults == {}

\* Tabs, VMs and attempts are interchangeable: used for safety only.
Symmetry == Permutations(Tabs) \cup Permutations(VMs) \cup Permutations(Attempts)
===============================================================================
