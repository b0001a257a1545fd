------------------------------- MODULE MCMgmt -------------------------------
(***************************************************************************)
(* Small instances of Mgmt.                                                *)
(***************************************************************************)
EXTENDS Mgmt

R(m, op) == [mode |-> m, op |-> op, lld |-> "iscsi", body |-> FALSE, tid |-> 1, name |-> "a", force |-> FALSE, lun |-> 1,
             addr |-> None, iqn |-> None, fails |-> None, portal |-> "p", more |-> None, conn |-> "c1"]

New(tid, name) == [R("target", "new") EXCEPT !.body = TRUE, !.tid = tid, !.name = name]

T(name) == [name |-> name, lld |-> "iscsi", acl |-> {}, iqn |-> {}, luns |-> {0, 1, 2}]

Empty == [targets |-> << >>, list |-> [l \in Drivers |-> {}], drv |-> [l \in Drivers |-> "INIT"], portals |-> {"p"}, conns |-> << >>,
          stores |-> {}, ready |-> TRUE]
One   == [Empty EXCEPT !.targets = <<T("a")>>, !.list["iscsi"] = {1}, !.stores = {1} \X {0, 1, 2}]
Used  == [One EXCEPT !.conns = [x \in {"c1"} |-> "in"]]

\* An environment: what there is, and the request of every client
P(s, reqs) == [sys |-> s, reqs |-> reqs, portals |-> {"p"}, left |-> [die |-> 0, data |-> 0, accept |-> 0]]

\* conn: connections come, go and are deleted by requests, also twice.
\* force: a target is destroyed under its connections.
\* bind: initiators are bound and unbound.
\* lld: a driver is stopped and started while targets are created.
\* name, unit: requests that are refused or fail on the way.
\* port: portals are deleted and added while initiators connect, two by one request.
\* rdma: the start of iSER fails; the system goes offline while initiators connect.
\* large: a body that is too large, next to one that is not.
\* stop: the daemon is asked to end.
\* die, half: clients go away in the middle.
MCProfiles ==
    [conn  |-> [P(Used, [m1 |-> R("connection", "delete"), m2 |-> R("connection", "delete")]) EXCEPT !.left.data = 1, !.left.accept = 1],
     force |-> [P(Used, [m1 |-> [R("target", "delete") EXCEPT !.force = TRUE], m2 |-> R("device", "delete")]) EXCEPT !.left.data = 2],
     bind  |-> [P(One, [m1 |-> [R("target", "bind") EXCEPT !.body = TRUE, !.addr = "ip", !.iqn = "iqn"],
                         m2 |-> [R("target", "unbind") EXCEPT !.body = TRUE, !.addr = "ip"]]) EXCEPT !.left.accept = 1],
     lld   |-> P(Empty, [m1 |-> R("lld", "stop"), m2 |-> R("lld", "start"), m3 |-> New(2, "a")]),
     name  |-> P(One, [m1 |-> New(2, "a"), m2 |-> [R("device", "new") EXCEPT !.lun = 3]]),
     unit  |-> P(One, [m1 |-> [R("device", "new") EXCEPT !.lun = 3, !.fails = "path"], m2 |-> [R("device", "new") EXCEPT !.lun = 4, !.fails = "init"]]),
     port  |-> [P(One, [m1 |-> [R("portal", "delete") EXCEPT !.more = "p2"], m2 |-> [R("portal", "new") EXCEPT !.portal = "p2", !.more = "p"]])
                EXCEPT !.portals = {"p", "p2"}, !.left.accept = 1],
     rdma  |-> [P([One EXCEPT !.drv["iser"] = "ERR"], [m1 |-> [R("lld", "start") EXCEPT !.lld = "iser", !.fails = "start"],
                 m2 |-> [R("system", "update") EXCEPT !.name = "offline"]])
                EXCEPT !.left.accept = 1],
     large |-> P(Empty, [m1 |-> [New(1, "a") EXCEPT !.fails = "body"], m2 |-> New(1, "a")]),
     stop  |-> P(Empty, [m1 |-> R("system", "delete"), m2 |-> R("lld", "show")]),
     die   |-> [P(Used, [m1 |-> R("system", "delete"), m2 |-> R("portal", "show")]) EXCEPT !.left.die = 1, !.left.data = 1],
     half  |-> [P(Used, [m1 |-> [R("target", "unbind") EXCEPT !.body = TRUE]]) EXCEPT !.left.die = 1, !.left.data = 1]]

=============================================================================
