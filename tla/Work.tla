-------------------------------- MODULE Work --------------------------------
(***************************************************************************)
(* The timed work of tgtd (usr/work.c): work items waiting on a list       *)
(* sorted by their time, and items that are due.  A queue is a record; now *)
(* is the clock, a machine word of the timer's ticks.                      *)
(***************************************************************************)
EXTENDS Integers, Sequences, SequencesExt

CONSTANT Word       \* ticks and seconds are counted modulo Word

Queue == [now |-> 0, inactive |-> << >>, active |-> << >>]

\* before of usr/util.h: the sign of the difference
before(a, b) == (a - b) % Word >= Word \div 2

Items(s)     == {s[i].work: i \in DOMAIN s}
Queued(q, w) == w \in Items(q.inactive) \cup Items(q.active)

\* An item goes before the first one that is later, or at once to the active list.
add_work(q, w, second) ==
    LET when == (q.now + second) % Word
        n    == Len(q.inactive)
        at   == CHOOSE i \in 1..(n + 1): /\ i = n + 1 \/ before(when, q.inactive[i].when)
                                         /\ \A j \in 1..(i - 1): ~before(when, q.inactive[j].when)
    IN  IF second = 0 THEN [q EXCEPT !.active = Append(@, [work |-> w, when |-> q.now])]
        ELSE [q EXCEPT !.inactive = InsertAt(@, at, [work |-> w, when |-> when])]

del_work(q, w) ==
    [q EXCEPT !.inactive = SelectSeq(@, LAMBDA e: e.work # w), !.active = SelectSeq(@, LAMBDA e: e.work # w)]

\* The first loop of execute_work: it ends at the first item that is not due.
MakeDue(q) ==
    LET n == Len(q.inactive)
        k == CHOOSE i \in 0..n: /\ \A j \in 1..i: ~before(q.now, q.inactive[j].when)
                                /\ i < n => before(q.now, q.inactive[i + 1].when)
    IN  [q EXCEPT !.inactive = SubSeq(@, k + 1, n), !.active = @ \o SubSeq(q.inactive, 1, k)]
=============================================================================
