----------------------------- MODULE MCSheepdog -----------------------------
(* Small instances of Sheepdog for TLC.                                    *)
EXTENDS Sheepdog

\* A request: write or read, address and length in halves of an object.
W(a, n) == <<TRUE, a, n>>
R(a, n) == <<FALSE, a, n>>

\* Two threads with the same requests.
Both(reqs) == [t \in 1..2 |-> reqs]

None0 == [reqs |-> 0, lost |-> 0, fail |-> 0, snaps |-> 0, others |-> 0]

MCProfiles ==
    [own  |-> [zero |-> Base, reqs |-> Both({W(0, 1), W(1, 2), W(4, 1), R(1, 2), R(4, 1)}), left |-> [None0 EXCEPT !.reqs = 3, !.lost = 1]],
     snap |-> [zero |-> Base, reqs |-> Both({W(0, 1), W(5, 1), R(0, 2), R(4, 2)}), left |-> [None0 EXCEPT !.reqs = 3, !.snaps = 1]],
     fail |-> [zero |-> Base, reqs |-> Both({W(1, 2), W(0, 1), R(0, 1)}), left |-> [None0 EXCEPT !.reqs = 3, !.fail = 1]],
     over |-> [zero |-> Base, reqs |-> Both({W(5, 1), R(0, 2), R(2, 1)}), left |-> [None0 EXCEPT !.reqs = 2, !.snaps = 1, !.others = 1]],
     both |-> [zero |-> Base, reqs |-> Both({W(0, 1), W(4, 1), R(0, 1)}), left |-> [None0 EXCEPT !.reqs = 2, !.snaps = 1, !.fail = 1]],
     again |-> [zero |-> Own, reqs |-> Both({W(0, 1), W(4, 1)}), left |-> [None0 EXCEPT !.reqs = 2, !.snaps = 1, !.lost = 1]],
     queue |-> [zero |-> Own, reqs |-> <<{R(0, 1)}, {R(4, 1)}, {R(0, 6)}, {W(1, 1)}>>, left |-> [None0 EXCEPT !.reqs = 4]]]
=============================================================================
