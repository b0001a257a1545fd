----------------------------- MODULE MCCmdQueue -----------------------------
(* Model of CmdQueue for TLC. *)
EXTENDS CmdQueue, TLC

\* Commands, requests and nexuses are interchangeable in the safety runs.
Symmetry == Permutations(Cmds) \cup Permutations(Mreqs) \cup Permutations(Nexuses)
=============================================================================
