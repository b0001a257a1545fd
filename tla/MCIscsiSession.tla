--------------------------- MODULE MCIscsiSession ---------------------------
(* Small instances of IscsiSession for TLC.                                *)
EXTENDS IscsiSession

\* What the initiator of a behaviour does: ordering of three plain requests, data
\* transfer with and without unsolicited data, pings among other requests.
MCProfiles ==
    {[kinds |-> {"nodata"}, requests |-> 3, conns |-> 2, r2t |-> TRUE, pings |-> FALSE],
     [kinds |-> {"read", "bidi"}, requests |-> 2, conns |-> 1, r2t |-> TRUE, pings |-> FALSE],
     [kinds |-> {"write"}, requests |-> 2, conns |-> 2, r2t |-> FALSE, pings |-> FALSE],
     [kinds |-> {"tm", "nop", "ping", "logout"}, requests |-> 2, conns |-> 1, r2t |-> TRUE, pings |-> TRUE]}
=============================================================================
