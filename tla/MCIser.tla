------------------------------- MODULE MCIser -------------------------------
(* Small instances of Iser for TLC.                                        *)
EXTENDS Iser

Cmd(rd, wr, uns, how) == [NoPdu EXCEPT !.op = "cmd", !.rd = rd, !.wr = wr, !.uns = uns, !.how = how]
Imm(cmd)              == [cmd EXCEPT !.data = 1]
Req(op, how)          == [NoPdu EXCEPT !.op = op, !.imm = TRUE, !.how = how]

Base == [full |-> TRUE, tasks |-> 2, conns |-> {1}, mcs |-> FALSE, pool |-> 8, requests |-> <<2, 2>>, faults |-> {}, nop |-> FALSE,
         accept |-> {"ok"}, logins |-> {"final"}, pdus |-> {}]

MCProfiles ==
    [login |-> [Base EXCEPT !.full = FALSE, !.accept = {"ok", "qp", "accept"}, !.logins = {"more", "fail", "final"},
                            !.requests = <<1, 1>>, !.nop = TRUE, !.pdus = {Cmd(0, 0, 0, "ok")}],
     io    |-> [Base EXCEPT !.pdus = {Cmd(0, 1, 0, "ok"), Cmd(1, 0, 0, "ok")}, !.faults = {"disc", "wc"}],
     unsol |-> [Base EXCEPT !.tasks = 3, !.pdus = {Cmd(0, 0, 2, "ok"), Cmd(1, 0, 1, "ok"), Cmd(0, 0, 1, "ok"),
                                                   Imm(Cmd(0, 0, 1, "ok")), Imm(Cmd(1, 1, 0, "ok"))},
                            !.requests = <<1, 1>>, !.faults = {"disc"}],
     dout  |-> [Base EXCEPT !.tasks = 3, !.pdus = {Cmd(0, 0, 1, "ok"), Cmd(1, 0, 1, "ok")}, !.requests = <<3, 3>>],
     other |-> [Base EXCEPT !.pdus = {Req("nop", "ok"), Req("nop", "noresp"), Req("tm", "done"), Req("tm", "queued"),
                                      Req("tm", "bad"), Req("logout", "ok"), Req("bad", "ok"), Cmd(0, 1, 0, "big"),
                                      Cmd(1, 1, 0, "big"), Cmd(0, 0, 0, "bad")}],
     text  |-> [Base EXCEPT !.pdus = {Req("text", "ok")}, !.requests = <<1, 1>>, !.nop = TRUE],
     force |-> [Base EXCEPT !.pdus = {Cmd(0, 1, 0, "ok")}, !.requests = <<1, 1>>, !.faults = {"force"}],
     wait  |-> [Base EXCEPT !.pool = 1, !.pdus = {Cmd(1, 0, 0, "ok")}, !.faults = {"disc"}],
     scarce |-> [Base EXCEPT !.conns = {1, 2}, !.pool = 1, !.requests = <<1, 1>>, !.pdus = {Cmd(0, 1, 0, "ok"), Cmd(1, 0, 0, "ok")}],
     order |-> [Base EXCEPT !.conns = {1, 2}, !.mcs = TRUE, !.requests = <<2, 1>>, !.pdus = {Cmd(0, 0, 0, "ok")}]]
=============================================================================
