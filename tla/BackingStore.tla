---------------------------- MODULE BackingStore ----------------------------
(* What the models of the backing stores have in common.                   *)
EXTENDS Integers, Sequences, FiniteSets

CONSTANTS
    NrCmds,     \* bound: commands submitted in one behaviour, 1..NrCmds
    Lus,        \* logical units
    IoDepth,    \* AIO_MAX_IODEPTH
    None

ASSUME StoreConstants ==
    /\ NrCmds \in Nat
    /\ IoDepth \in Nat \ {0}
    /\ None \notin Lus /\ None \notin 1..NrCmds

\* Commands, numbered in the order of submission.
Cmds == 1..NrCmds
=============================================================================
