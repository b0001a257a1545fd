------------------------------- MODULE MCIsns -------------------------------
(***************************************************************************)
(* Small instances of Isns.                                                *)
(***************************************************************************)
EXTENDS Isns

Conn(peer, interval, count) ==
    [open |-> TRUE, interval |-> interval, tick |-> interval, count |-> count, inflight |-> 0, pings |-> 0, peer |-> peer]

Base == [scn |-> TRUE, toggle |-> FALSE, names |-> {"a", "b"}, inits |-> {"i"}, period |-> 4, trans |-> 8, conns |-> << >>,
         left |-> [adm |-> 4, inits |-> 0, fails |-> 0, ticks |-> 0]]

\* scn: targets come and go while initiators do.
\* keep: the registration is kept alive for ever.
\* fail: the server fails.
\* wrap: after a failure, the transaction numbers are used again.
\* nop: connections are pinged, next to the registration's keep-alive.
MCProfiles ==
    [scn  |-> [Base EXCEPT !.trans = 64, !.left.inits = 2, !.toggle = TRUE],
     keep |-> [Base EXCEPT !.period = 5, !.left.ticks = -1, !.left.adm = 2, !.left.inits = 1, !.toggle = TRUE],
     fail |-> [Base EXCEPT !.trans = 64, !.left.fails = 2, !.left.adm = 4, !.left.ticks = 3, !.toggle = TRUE, !.scn = FALSE],
     wrap |-> [Base EXCEPT !.left.fails = 2, !.left.adm = 2, !.left.ticks = 27, !.toggle = TRUE, !.names = {"a"}],
     nop  |-> [Base EXCEPT !.conns = <<Conn("prompt", 2, 1), Conn("slow", 1, 2)>>, !.left.ticks = -1, !.left.adm = 2,
                           !.names = {"a"}, !.toggle = TRUE]]
=============================================================================
