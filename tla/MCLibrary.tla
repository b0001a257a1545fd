----------------------------- MODULE MCLibrary -----------------------------
(* Small instances of Library for TLC.                                     *)
EXTENDS Library

Op(op, n, sz, v, fixed) == [op |-> op, n |-> n, sz |-> sz, v |-> v, fixed |-> fixed]

Full(type, addr, c) == [Slot(type, addr) EXCEPT !.full = TRUE, !.code = c]
Tied(addr)          == [Slot(Drive, addr) EXCEPT !.drive = TRUE]

Base == [ops |-> {}, cmds |-> 0, bl |-> 1, path |-> None, missing |-> {}, foreign |-> {}, faults |-> {}, adm |-> {}, add |-> {},
         moves |-> {}, slots |-> << >>, maxslots |-> 0]

Writes == {Op("write", 1, 1, 1, FALSE), Op("write", 1, 2, 2, FALSE), Op("marks!", 1, 0, 0, FALSE)}

MCProfiles ==
    [tape   |-> [Base EXCEPT !.path = "c1", !.cmds = 5,
                             !.ops = Writes \cup {Op("rewind", 0, 0, 0, FALSE), Op("blocks", 1, 0, 0, FALSE), Op("blocks", -1, 0, 0, FALSE),
                                                  Op("marks", 1, 0, 0, FALSE), Op("marks", -1, 0, 0, FALSE), Op("eod", 0, 0, 0, FALSE),
                                                  Op("read", 1, 1, 0, FALSE), Op("readn", 2, 0, 0, TRUE)}],
     counts |-> [Base EXCEPT !.path = "c1", !.cmds = 4,
                             !.ops = {Op("write", 2, 0, 1, TRUE), Op("marks!", 2, 0, 0, FALSE), Op("blocks", 2, 0, 0, FALSE),
                                      Op("blocks", -2, 0, 0, FALSE), Op("marks", 2, 0, 0, FALSE), Op("marks", -2, 0, 0, FALSE),
                                      Op("blocks", 0, 0, 0, FALSE), Op("marks", 0, 0, 0, FALSE), Op("read", 1, 0, 0, FALSE)}],
     fault  |-> [Base EXCEPT !.path = "c1", !.cmds = 4, !.faults = {"write"},
                             !.ops = Writes \cup {Op("rewind", 0, 0, 0, FALSE), Op("eod", 0, 0, 0, FALSE), Op("blocks", -1, 0, 0, FALSE)}],
     swap   |-> [Base EXCEPT !.path = "c1", !.cmds = 2, !.adm = {"path", "eject", "prevent"},
                             !.ops = {Op("write", 1, 1, 1, FALSE), Op("blocks", 1, 0, 0, FALSE), Op("rewind", 0, 0, 0, FALSE)}],
     format |-> [Base EXCEPT !.path = "c1", !.cmds = 1, !.adm = {"path", "eject"}, !.foreign = {"c2"}, !.moves = 1..2,
                             !.slots = <<Tied(1), Full(Storage, 2, "c2")>>,
                             !.ops = {Op("write", 1, 1, 1, FALSE), Op("blocks", -1, 0, 0, FALSE)}],
     vtl    |-> [Base EXCEPT !.path = "c1", !.cmds = 1, !.adm = {"prevent"}, !.moves = 1..3,
                             !.slots = <<Tied(1), Full(Storage, 2, "c1"), Full(Storage, 3, "c2")>>,
                             !.ops = {Op("write", 1, 1, 1, FALSE), Op("read", 1, 1, 0, FALSE)}],
     config |-> [Base EXCEPT !.adm = {"config", "prevent", "eject"}, !.missing = {"c2"}, !.moves = 1..3, !.maxslots = 4,
                             !.add = {[type |-> Drive, addr |-> 1, n |-> 1], [type |-> Storage, addr |-> 2, n |-> 2],
                                      [type |-> Storage, addr |-> 1, n |-> 2]}]]
=============================================================================
