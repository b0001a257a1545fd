---------------------------- MODULE MCIscsiLogin ----------------------------
(* Small instances of IscsiLogin for TLC.                                  *)
EXTENDS IscsiLogin

\* One key of each kind of param.c; the numbers are small, their order is the code's.
MCKeys ==
    [MaxRecv |-> [def |-> 2, min |-> 1, max |-> 3, op |-> "min", local |-> FALSE],
     Digest  |-> [def |-> 1, min |-> 1, max |-> 3, op |-> "digest", local |-> FALSE],
     R2T     |-> [def |-> 1, min |-> 0, max |-> 1, op |-> "or", local |-> FALSE],
     Burst   |-> [def |-> 2, min |-> 1, max |-> 3, op |-> "min", local |-> FALSE],
     Wait    |-> [def |-> 2, min |-> 0, max |-> 3, op |-> "max", local |-> FALSE],
     RDMA    |-> [def |-> 0, min |-> 0, max |-> 1, op |-> "and", local |-> FALSE],
     MaxXmit |-> [def |-> 2, min |-> 1, max |-> 3, op |-> "min", local |-> TRUE]]

Default == [n \in DOMAIN MCKeys |-> IF n = "RDMA" THEN 1 ELSE MCKeys[n].def]

Base == [conns |-> 1, reqs |-> {}, honest |-> FALSE, admin |-> {}, params |-> {Default}, values |-> {0}, offers |-> {<< >>},
         keys |-> {}, disc |-> {FALSE}]

\* Every setting of a few parameters, every offer of a few keys.
Negotiation ==
    [Base EXCEPT !.honest = TRUE, !.values = -1..4, !.admin = {"lost"},
       !.params = {[Default EXCEPT !["Digest"] = d, !["R2T"] = r, !["Burst"] = b, !["MaxXmit"] = x] :
                     d \in {1, 3}, r \in {0, 1}, b \in {1, 2, 3}, x \in {1, 3}},
       !.offers = {<< >>} \cup {[Digest |-> d, Burst |-> b] : d \in {1, 3}, b \in -1..4}
                  \cup {[R2T |-> r, MaxRecv |-> m, Wait |-> w] : r \in {0, 1}, m \in {1, 3, 4}, w \in {1, 3}}]

\* The administrator binds and unbinds accounts during CHAP logins.
Chap ==
    [Base EXCEPT !.conns = 2, !.admin = {"account"},
       !.reqs = {[Request EXCEPT !.csg = "security", !.nsg = g, !.auth = a, !.transit = t] :
                   g \in {"login", "full"}, a \in {{}, {"None"}, {"CHAP"}, {"None", "CHAP"}}, t \in BOOLEAN}
                \cup {[Request EXCEPT !.csg = "security", !.nsg = "login", !.chap = r, !.user = u, !.transit = t] :
                   r \in {"none", "alg", "wrong", "right", "right+ask", "right+echo"}, u \in {"u1", "u2"}, t \in BOOLEAN}
                \cup {Request}]

\* Three connections log in, by either stage, while targets come and go.  The second PDU of a
\* login may name another port than the first.
Reinstatement ==
    [Base EXCEPT !.conns = 3, !.admin = {"lost", "close", "io", "destroy"},
       !.reqs = {[Request EXCEPT !.csg = "security", !.nsg = "login", !.auth = {"None"}, !.tsih = t] : t \in 0..2}
                \cup {Request, [Request EXCEPT !.csg = "security", !.auth = {"None"}, !.port = "p2", !.transit = FALSE]}]

\* Discovery: a list of targets that takes several PDUs, and requests out of place.
Discovery ==
    [Base EXCEPT !.admin = {"update", "param"}, !.values = {1, 3}, !.keys = {"Burst"},
       !.reqs = {[Request EXCEPT !.csg = "security", !.disc = TRUE, !.auth = {"None"}, !.tsih = t, !.named = n] : t \in {0, 1}, n \in BOOLEAN}
                \cup {[Request EXCEPT !.op = o, !.ttt = t] : o \in {"text", "logout", "other"}, t \in {"new", "next", "stale"}}
                \cup {[Request EXCEPT !.imm = FALSE], [Request EXCEPT !.csg = "full"]}]

MCProfiles == [negotiation |-> Negotiation, chap |-> Chap, reinstatement |-> Reinstatement, discovery |-> Discovery]
=============================================================================
