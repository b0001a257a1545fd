-------------------------------- MODULE Mgmt --------------------------------
(***************************************************************************)
(* The event loop of tgtd (usr/tgtd.c) and management (usr/mgmt.c,         *)
(* usr/target.c).                                                          *)
(*                                                                         *)
(* epoll_wait returns a batch of events and the loop calls their handlers  *)
(* one after the other.  A handler may delete events, its own or others of *)
(* the batch.  tgtadm sends a request of a header and perhaps a body over  *)
(* a connection of its own; its task receives it piece by piece, executes  *)
(* it and sends the answer.  Next to the management connections there are  *)
(* iSCSI portals and connections, which requests create and delete.        *)
(***************************************************************************)
EXTENDS Integers, FiniteSetsExt

CONSTANTS
    Profiles,   \* the environments the model runs in, see MCMgmt
    None

VARIABLES
    mode,       \* the environment of this behaviour
    ev,         \* the event loop
    task,       \* for every management client its task, its socket and what it got
    sys,        \* targets, drivers, portals and iSCSI connections
    errno,      \* errno is EAGAIN, or another one
    hist,       \* what was seen
    left        \* what may still happen

vars == <<mode, ev, task, sys, errno, hist, left>>

profile == Profiles[mode]
Clients == DOMAIN profile.reqs
Req(k)  == profile.reqs[k]
First   == "m1"       \* any client; the instances give it different requests

Ipc   == "ipc_fd"
Timer == "timer_fd"
Bs    == "bs_fd"
Drivers == {"iscsi", "iser"}

\* What the environments have in common: descriptors of different kinds differ, requests name known drivers and portals,
\* those that bind have a body (without one they are about SCSI hosts, left out), and a behaviour starts as requests executed
\* before may have left things: units have their backing stores, targets are on the list of their driver, which runs.
Fixed == {Ipc, Timer, Bs, "c1", "c2"}

SysFields == {"targets", "list", "drv", "portals", "conns", "stores", "ready"}

WellFormed(p) ==
    /\ DOMAIN p.reqs \cap (Fixed \cup p.portals) = {} /\ p.portals \cap Fixed = {} /\ "p" \in p.portals
    /\ \A k \in DOMAIN p.reqs: /\ p.reqs[k].portal \in p.portals /\ p.reqs[k].more \in p.portals \cup {None}
                               /\ p.reqs[k].lld \in Drivers \cup {None} /\ (p.reqs[k].op \in {"bind", "unbind"} => p.reqs[k].body)
    /\ p.left \in [die: Nat, data: Nat, accept: Nat]
    /\ p.sys = [f \in SysFields |-> p.sys[f]]
    /\ DOMAIN p.sys.drv = Drivers /\ DOMAIN p.sys.list = Drivers /\ p.sys.portals \subseteq p.portals
    /\ DOMAIN p.sys.conns \subseteq {"c1", "c2"} /\ \A x \in DOMAIN p.sys.conns: p.sys.conns[x] \in {"new", "in", "busy"}
    /\ \A i \in DOMAIN p.sys.targets:
          LET t == p.sys.targets[i]
          IN  /\ DOMAIN t = {"name", "lld", "acl", "iqn", "luns"}
              /\ t.lld \in Drivers /\ p.sys.drv[t.lld] = "INIT" /\ i \in p.sys.list[t.lld]
    /\ p.sys.stores = UNION {{i} \X p.sys.targets[i].luns: i \in DOMAIN p.sys.targets}

ASSUME ProfilesAssumption == None \notin Drivers /\ \A m \in DOMAIN Profiles: WellFormed(Profiles[m])

Hdr    == 2                             \* pieces of a request's header
Pdu(k) == IF Req(k).body THEN 3 ELSE 0
TooLarge(k) == Req(k).fails = "body"    \* a body of more than 8 KB, or one there is no memory for
Rsp    == 1                             \* pieces of an answer's header

Task == [st |-> "none", alive |-> TRUE, sent |-> 0, read |-> 0, done |-> 0, ran |-> FALSE, err |-> 0, len |-> 0, got |-> 0]

Init ==
    /\ mode \in DOMAIN Profiles
    /\ ev = [set |-> {Ipc, Timer, Bs} \cup profile.sys.portals \cup DOMAIN profile.sys.conns, batch |-> {},
             refresh |-> FALSE, active |-> TRUE, ended |-> FALSE]
    /\ task = [k \in Clients |-> Task]
    /\ sys = profile.sys
    /\ errno = "other"
    /\ hist = [stale |-> FALSE, halfway |-> FALSE, unnamed |-> FALSE]
    /\ left = profile.left

-----------------------------------------------------------------------------
(* Events.                                                                 *)

tgt_event_add(e, fd) == [e EXCEPT !.set = @ \cup {fd}]

\* mutant: the rest of the batch is still handled
tgt_event_del_quiet(e, fds) == [e EXCEPT !.set = @ \ fds]

tgt_event_del(e, fds) == [e EXCEPT !.set = @ \ fds, !.refresh = @ \/ fds \cap e.set # {}]

\* After a handler: with an event deleted the loop starts again, without a look at system_active.
Loop(e, fd) ==
    IF e.refresh THEN [e EXCEPT !.refresh = FALSE, !.batch = {}]
    ELSE [e EXCEPT !.batch = @ \ {fd}, !.ended = e.batch = {fd} /\ ~e.active]

Receiving(k) == task[k].st \in {"HDR_RECV", "PDU_RECV"}
Sending(k)   == task[k].st \in {"HDR_SEND", "PDU_SEND"}

\* mutant: a task still waits for input when it has an answer to send
Writable_in(k) == FALSE

\* tgt_event_modify with EPOLLOUT: the socket can take more.
Writable(k) == Sending(k)

\* A connection has a command in progress.
InScsi(s, x) == s.conns[x] \in {"busy", "markedBusy", "closing"}

\* iscsi_tcp_conn_force_close: STATE_CLOSE, and the event waits for output too.
Marked(s, x) == x \in DOMAIN s.conns /\ s.conns[x] \in {"marked", "markedBusy"}

IsReady(fd) ==
    CASE fd = Ipc              -> \E k \in Clients: task[k].st = "backlog"
      [] fd = Bs               -> \E x \in DOMAIN sys.conns: InScsi(sys, x)
      [] fd = Timer            -> FALSE
      [] fd \in Clients        -> Writable(fd) \/ task[fd].read < task[fd].sent \/ ~task[fd].alive
      [] fd \in profile.portals -> left.accept > 0
      [] OTHER                 -> left.data > 0 \/ Marked(sys, fd)

\* The events a wait may return: those of clients, and those of initiators and of the timer when they come.
Waits ==
    LET must == {fd \in ev.set: IsReady(fd) /\ fd \in Clients \cup {Ipc}}
        may  == {fd \in ev.set: IsReady(fd)} \ must
    IN  {must \cup s: s \in SUBSET may} \cup (IF must = {} THEN {{Timer}} ELSE {})

epoll_wait ==
    /\ ev.batch = {} /\ ~ev.ended
    /\ \E s \in Waits \ {{}}: ev' = [ev EXCEPT !.batch = s]
    /\ UNCHANGED <<mode, task, sys, errno, hist, left>>

\* The handler of fd is called: the events of a batch come in any order.
Called(fd) == fd \in ev.batch

\* What is recorded with every call: the event may be gone.
Seen(h, fd) == [h EXCEPT !.stale = @ \/ fd \notin ev.set]

work_timer_evt_handler ==
    /\ Called(Timer)
    /\ ev' = Loop(ev, Timer)
    /\ UNCHANGED <<mode, task, sys, errno, hist, left>>

-----------------------------------------------------------------------------
(* The objects requests work on.  A result is the new state, the error and *)
(* whether the answer has a body.                                          *)

Result(s, err, body) == [s |-> s, err |-> err, body |-> body]
Ok(s)      == Result(s, 0, FALSE)
Refuse(s)  == Result(s, 1, FALSE)

target_lookup(s, tid) == tid \in DOMAIN s.targets
Bound(s)    == {x \in DOMAIN s.conns: s.conns[x] # "new"}
Nexus(s, tid) == IF tid = 1 THEN Bound(s) ELSE {}         \* connections log in to target 1
LuActive(s, tid, lun) == tid = 1 /\ lun = 1 /\ \E x \in DOMAIN s.conns: InScsi(s, x)
With(f, k, v)  == [i \in DOMAIN f \cup {k} |-> IF i = k THEN v ELSE f[i]]
Without(f, ks) == [i \in DOMAIN f \ ks |-> f[i]]
\* conn_close: a connection with a command in progress stays until it is done.
conn_close(s, xs) ==
    [s EXCEPT !.conns = [x \in {y \in DOMAIN @: y \notin xs \/ InScsi(s, y)} |-> IF x \in xs THEN "closing" ELSE @[x]]]

tgt_target_create(s, lld, q) ==
    LET t == [name |-> q.name, lld |-> lld, acl |-> {}, iqn |-> {}, luns |-> {0}]
    IN  IF target_lookup(s, q.tid) \/ (\E i \in DOMAIN s.targets: s.targets[i].name = q.name) THEN Refuse(s)
        ELSE Ok([s EXCEPT !.targets = With(@, q.tid, t), !.list[lld] = @ \cup {q.tid}, !.stores = @ \cup {<<q.tid, 0>>}])

\* bs_exit: what bs_init made, worker threads for example, goes.
bs_exit(s, tid, luns) == [s EXCEPT !.stores = @ \ ({tid} \X luns)]

\* The units are destroyed from the last to the first; an active one ends it halfway.
Destroyed(s, tid) == {l \in s.targets[tid].luns: \A a \in s.targets[tid].luns: LuActive(s, tid, a) => l > a}

tgt_target_destroy(s, q) ==
    IF ~target_lookup(s, q.tid) \/ (~q.force /\ Nexus(s, q.tid) # {}) THEN Refuse(s)
    ELSE LET u == bs_exit([s EXCEPT !.targets[q.tid].luns = @ \ Destroyed(s, q.tid)], q.tid, Destroyed(s, q.tid))
         IN  IF u.targets[q.tid].luns # {} THEN Refuse(u)
             ELSE Ok([conn_close(u, Nexus(s, q.tid)) EXCEPT !.targets = Without(@, {q.tid}),
                                                            !.list = [l \in Drivers |-> @[l] \ {q.tid}]])

\* mutant: a unit whose path cannot be opened leaves its backing store behind
NewUnit_leak(s, q) ==
    LET u == [s EXCEPT !.stores = @ \cup {<<q.tid, q.lun>>}]
    IN  IF q.fails = "init" THEN Refuse(s)
        ELSE IF q.fails = "path" THEN Refuse(u)
        ELSE Ok([u EXCEPT !.targets[q.tid].luns = @ \cup {q.lun}])

\* The backing store is started, then the path opened.
NewUnit(s, q) ==
    LET u == [s EXCEPT !.stores = @ \cup {<<q.tid, q.lun>>}]
    IN  IF q.fails = "init" THEN Refuse(s)
        ELSE IF q.fails = "path" THEN Refuse(bs_exit(u, q.tid, {q.lun}))
        ELSE Ok([u EXCEPT !.targets[q.tid].luns = @ \cup {q.lun}])

tgt_device_create(s, q) ==
    IF ~target_lookup(s, q.tid) \/ q.lun \in s.targets[q.tid].luns THEN Refuse(s) ELSE NewUnit(s, q)

tgt_device_destroy(s, q) ==
    IF \/ q.lun = 0 \/ ~target_lookup(s, q.tid)
       \/ q.lun \notin s.targets[q.tid].luns \/ LuActive(s, q.tid, q.lun)
    THEN Refuse(s)
    ELSE Ok(bs_exit([s EXCEPT !.targets[q.tid].luns = @ \ {q.lun}], q.tid, {q.lun}))

acl_add(s, tid, a) ==
    IF ~target_lookup(s, tid) \/ a \in s.targets[tid].acl THEN Refuse(s) ELSE Ok([s EXCEPT !.targets[tid].acl = @ \cup {a}])

acl_del(s, tid, a) ==
    IF ~target_lookup(s, tid) \/ a \notin s.targets[tid].acl THEN Refuse(s) ELSE Ok([s EXCEPT !.targets[tid].acl = @ \ {a}])

iqn_acl_add(s, tid, a) ==
    IF ~target_lookup(s, tid) \/ a \in s.targets[tid].iqn THEN Refuse(s) ELSE Ok([s EXCEPT !.targets[tid].iqn = @ \cup {a}])

iqn_acl_del(s, tid, a) ==
    IF ~target_lookup(s, tid) \/ a \notin s.targets[tid].iqn THEN Refuse(s) ELSE Ok([s EXCEPT !.targets[tid].iqn = @ \ {a}])

\* By address, by name or by both: an error of the first keeps the second from being tried, not the first from being done.
bind(s, q) ==
    LET r == IF q.addr = None THEN Ok(s) ELSE acl_add(s, q.tid, q.addr)
    IN  IF q.addr = None /\ q.iqn = None THEN Refuse(s)
        ELSE IF r.err # 0 \/ q.iqn = None THEN r
        ELSE iqn_acl_add(r.s, q.tid, q.iqn)

unbind(s, q) ==
    LET r == IF q.addr = None THEN Ok(s) ELSE acl_del(s, q.tid, q.addr)
    IN  IF q.addr = None /\ q.iqn = None THEN Refuse(s)
        ELSE IF r.err # 0 \/ q.iqn = None THEN r
        ELSE iqn_acl_del(r.s, q.tid, q.iqn)

target_mgmt(s, lld, q) ==
    CASE q.op = "new"    -> tgt_target_create(s, lld, q)
      [] q.op = "delete" -> tgt_target_destroy(s, q)
      [] q.op = "bind"   -> bind(s, q)
      [] q.op = "unbind" -> unbind(s, q)
      [] q.op = "show"   -> Result(s, 0, TRUE)
      [] OTHER           -> Refuse(s)

\* A portal there is cannot be bound again.
iscsi_add_portal(s, p) == IF p \in s.portals THEN Refuse(s) ELSE Ok([s EXCEPT !.portals = @ \cup {p}])

iscsi_delete_portal(s, p) == IF p \notin s.portals THEN Refuse(s) ELSE Ok([s EXCEPT !.portals = @ \ {p}])

\* A request may name one portal more: an error ends the list, and what was done before it stays.
iscsi_portal_create(s, q) ==
    LET r == iscsi_add_portal(s, q.portal)
    IN  IF r.err # 0 \/ q.more = None THEN r ELSE iscsi_add_portal(r.s, q.more)

iscsi_portal_destroy(s, q) ==
    LET r == iscsi_delete_portal(s, q.portal)
    IN  IF r.err # 0 \/ q.more = None THEN r ELSE iscsi_delete_portal(r.s, q.more)

\* Only the iSCSI driver has portals.
portal_mgmt(s, lld, q) ==
    CASE q.op = "new" /\ lld = "iscsi"    -> iscsi_portal_create(s, q)
      [] q.op = "delete" /\ lld = "iscsi" -> iscsi_portal_destroy(s, q)
      [] q.op = "show"                    -> Result(s, 0, TRUE)
      [] OTHER                            -> Refuse(s)

device_mgmt(s, q) ==
    CASE q.op = "new"    -> tgt_device_create(s, q)
      [] q.op = "delete" -> tgt_device_destroy(s, q)
      [] OTHER           -> Refuse(s)

\* The connection is marked; its own handler closes it later.  One that was closed already and waits for its command is
\* found too: it has no event any more, and the request does nothing to it.
ep_force_close(s, x) ==
    IF s.conns[x] = "closing" THEN s ELSE [s EXCEPT !.conns[x] = IF InScsi(s, x) THEN "markedBusy" ELSE "marked"]

connection_mgmt(s, q) ==
    CASE q.op = "delete" /\ q.conn \in Nexus(s, q.tid) -> Ok(ep_force_close(s, q.conn))
      [] q.op = "show"                                 -> Result(s, 0, TRUE)
      [] OTHER                                         -> Refuse(s)

\* lld_init_one empties the driver's list of targets before it calls init.  That of iSER fails without RDMA; that of iSCSI
\* does not, and opens the default portal when there is none.
lld_init_one(s, lld, q) ==
    LET u == [s EXCEPT !.list[lld] = {}]
    IN  IF lld = "iser" /\ q.fails = "start" THEN Refuse([u EXCEPT !.drv[lld] = "ERR"])
        ELSE Ok([u EXCEPT !.drv[lld] = "INIT", !.portals = IF lld = "iscsi" /\ @ = {} THEN {"p"} ELSE @])

\* The iSCSI driver's exit deletes all portals.
lld_mgmt(s, lld, q) ==
    CASE q.op = "start" -> IF s.drv[lld] = "INIT" THEN Ok(s) ELSE lld_init_one(s, lld, q)
      [] q.op = "stop"  -> IF s.drv[lld] # "INIT" THEN Ok(s)
                           ELSE IF s.list[lld] # {} THEN Refuse(s)
                           ELSE Ok([s EXCEPT !.drv[lld] = "EXIT", !.portals = IF lld = "iscsi" THEN {} ELSE @])
      [] q.op = "show"  -> Result(s, 0, TRUE)
      [] OTHER          -> Refuse(s)

\* system_set_state by way of the driver's update; what else an update can set is in Isns.
sys_mgmt(s, q) ==
    CASE q.op = "delete" -> IF s.targets = << >> THEN Ok(s) ELSE Refuse(s)
      [] q.op = "update" -> IF q.name \in {"ready", "offline"} THEN Ok([s EXCEPT !.ready = q.name = "ready"]) ELSE Refuse(s)
      [] q.op = "show"   -> Result(s, 0, TRUE)
      [] OTHER           -> Refuse(s)

\* A request that names no driver goes to the first one, whatever its state.
mtask_execute(s, q) ==
    LET lld == IF q.lld = None THEN "iscsi" ELSE q.lld
    IN  IF q.lld # None /\ s.drv[lld] # "INIT" /\ q.mode # "lld" THEN Refuse(s)
        ELSE CASE q.mode = "system"     -> sys_mgmt(s, q)
               [] q.mode = "target"     -> target_mgmt(s, lld, q)
               [] q.mode = "portal"     -> portal_mgmt(s, lld, q)
               [] q.mode = "device"     -> device_mgmt(s, q)
               [] q.mode = "connection" -> connection_mgmt(s, q)
               [] q.mode = "lld"        -> lld_mgmt(s, lld, q)
               [] OTHER                 -> Refuse(s)

\* The events of portals and connections that came and went with a request
Events(e, s, t) ==
    LET before == s.portals \cup DOMAIN s.conns
        after  == t.portals \cup {x \in DOMAIN t.conns: t.conns[x] # "closing"}
    IN  tgt_event_del([e EXCEPT !.set = @ \cup (after \ before)], before \ after)

-----------------------------------------------------------------------------
(* Management tasks.                                                       *)

\* mgmt_event_handler: one waiting client is accepted.
mgmt_event_handler ==
    /\ Called(Ipc)
    /\ \/ \E k \in Clients:
             /\ task[k].st = "backlog"
             /\ task' = [task EXCEPT ![k].st = "HDR_RECV"]
             /\ ev' = Loop(tgt_event_add(ev, k), Ipc)
       \/ /\ \A k \in Clients: task[k].st # "backlog"
          /\ ev' = Loop(ev, Ipc) /\ UNCHANGED task
    /\ UNCHANGED <<mode, sys, errno, hist, left>>

\* The task is over: out of mtask_recv_send_handler.  rsp.err is zero also when nothing was executed.
Out(k, t) ==
    /\ task' = [task EXCEPT ![k] = [t EXCEPT !.st = "closed"]]
    /\ ev' = Loop(tgt_event_del([ev EXCEPT !.active = @ /\ ~(t.read > 0 /\ Req(k).mode = "system" /\ Req(k).op = "delete" /\ t.err = 0)], {k}), k)

\* Whatever the result, an answer is sent.
Received(t) == [t EXCEPT !.st = "HDR_SEND", !.done = 0]

\* What a refused request may have done: the first half of binding by address and by name or of a list of two portals, some
\* units of a target to delete, none of them active, and a failed start.
Half(s, t, q) ==
    \/ q.op = "bind" /\ t = [s EXCEPT !.targets[q.tid].acl = @ \cup {q.addr}]
    \/ q.op = "unbind" /\ t = [s EXCEPT !.targets[q.tid].acl = @ \ {q.addr}]
    \/ /\ q.mode = "target" /\ q.op = "delete"
       /\ \E d \in SUBSET s.targets[q.tid].luns:
             (\A l \in d: ~LuActive(s, q.tid, l)) /\ t = bs_exit([s EXCEPT !.targets[q.tid].luns = @ \ d], q.tid, d)
    \/ q.mode = "portal" /\ q.op = "new" /\ t = [s EXCEPT !.portals = @ \cup {q.portal}]
    \/ q.mode = "portal" /\ q.op = "delete" /\ t = [s EXCEPT !.portals = @ \ {q.portal}]
    \/ q.op = "start" /\ t = [s EXCEPT !.list["iser"] = {}, !.drv["iser"] = "ERR"]

mtask_received(k, t) ==
    LET r == mtask_execute(sys, Req(k))
    IN  /\ sys' = r.s
        /\ task' = [task EXCEPT ![k] = Received([t EXCEPT !.ran = TRUE, !.err = r.err, !.len = IF r.body THEN 2 ELSE 0])]
        /\ ev' = Loop(Events(ev, sys, r.s), k)
        /\ hist' = [Seen(hist, k) EXCEPT !.halfway = @ \/ (r.err # 0 /\ r.s # sys /\ ~Half(sys, r.s, Req(k))),
                                         !.unnamed = @ \/ (Req(k).lld = None /\ sys.drv["iscsi"] # "INIT")]

\* The end of the file is told from "try again" by an errno that read does not set.
AtEnd(k, t) ==
    /\ IF errno = "EAGAIN" THEN ev' = Loop(ev, k) /\ UNCHANGED task ELSE Out(k, t)
    /\ UNCHANGED sys
    /\ hist' = Seen(hist, k)

\* mutant: done is kept from the header
StartPdu_kept(t) == [t EXCEPT !.st = "PDU_RECV"]

StartPdu(t) == [t EXCEPT !.st = "PDU_RECV", !.done = 0]

\* Pieces are read up to the end of the header or the body.  A body that is too large ends the task without an answer.
Receive(k, size) ==
    LET n == Min({size - task[k].done, task[k].sent - task[k].read})
        t == [task[k] EXCEPT !.done = @ + n, !.read = @ + n]
    IN  IF n = 0 THEN AtEnd(k, t)
        ELSE IF t.done = size /\ t.st = "HDR_RECV" /\ Pdu(k) > 0 /\ TooLarge(k)
        THEN Out(k, t) /\ UNCHANGED sys /\ hist' = Seen(hist, k)
        ELSE IF t.done < size \/ (t.st = "HDR_RECV" /\ Pdu(k) > 0)
        THEN /\ task' = [task EXCEPT ![k] = IF t.done = size THEN StartPdu(t) ELSE t]
             /\ ev' = Loop(ev, k)
             /\ UNCHANGED sys
             /\ hist' = Seen(hist, k)
        ELSE mtask_received(k, t)

StartBody(t) == [t EXCEPT !.st = "PDU_SEND", !.done = 0]

\* Some pieces are written, or none when the client is gone.
Transmit(k, size) ==
    /\ \/ /\ task[k].alive
          /\ \E n \in 1..(size - task[k].done):
                LET t == [task[k] EXCEPT !.done = @ + n, !.got = @ + n]
                IN  IF t.done = size /\ (t.st = "PDU_SEND" \/ t.len = 0) THEN Out(k, t)
                    ELSE /\ task' = [task EXCEPT ![k] = IF t.done = size THEN StartBody(t) ELSE t]
                         /\ ev' = Loop(ev, k)
          /\ UNCHANGED errno
       \/ /\ ~task[k].alive
          /\ Out(k, task[k])
          /\ errno' = "other"
    /\ UNCHANGED sys
    /\ hist' = Seen(hist, k)

mtask_recv_send_handler(k) ==
    /\ Called(k)
    /\ \/ task[k].st = "HDR_RECV" /\ Receive(k, Hdr) /\ UNCHANGED errno
       \/ task[k].st = "PDU_RECV" /\ Receive(k, Pdu(k)) /\ UNCHANGED errno
       \/ task[k].st = "HDR_SEND" /\ Transmit(k, Rsp)
       \/ task[k].st = "PDU_SEND" /\ Transmit(k, task[k].len)
    /\ UNCHANGED <<mode, left>>

-----------------------------------------------------------------------------
(* iSCSI portals and connections.                                          *)

\* A new connection; without targets, or with the system offline, it is closed at once.
accept_connection(p) ==
    /\ Called(p)
    /\ LET new == {"c1", "c2"} \ DOMAIN sys.conns
       IN  IF ~sys.ready \/ sys.targets = << >> \/ new = {} \/ left.accept = 0 THEN ev' = Loop(ev, p) /\ UNCHANGED sys
           ELSE \E x \in new: ev' = Loop(tgt_event_add(ev, x), p) /\ sys' = [sys EXCEPT !.conns = With(@, x, "new")]
    /\ left' = [left EXCEPT !.accept = IF @ > 0 THEN @ - 1 ELSE @]
    /\ hist' = Seen(hist, p)
    /\ UNCHANGED <<mode, task, errno>>

\* Input of a connection: a login, a command, or its end.  Reading goes on until there is nothing left.  One that is marked
\* is closed, whether there was something to read or not.
iscsi_tcp_event_handler(x) ==
    LET st == IF x \in DOMAIN sys.conns THEN sys.conns[x] ELSE None
        close == conn_close(sys, {x})
        step == CASE st = "new" /\ 1 \in DOMAIN sys.targets -> [sys EXCEPT !.conns[x] = "in"]
                  [] st = "in" /\ 1 \in sys.targets[1].luns -> [sys EXCEPT !.conns[x] = "busy"]
                  [] OTHER -> close
    IN  /\ Called(x) /\ x \notin Clients \cup {Ipc, Timer, Bs} \cup profile.portals
        /\ \E s \in {step, close}: sys' = s /\ ev' = Loop(Events(ev, sys, s), x)
        /\ errno' = "EAGAIN" \/ (Marked(sys, x) /\ errno' = errno)
        /\ left' = [left EXCEPT !.data = IF @ > 0 THEN @ - 1 ELSE @]
        /\ hist' = Seen(hist, x)
        /\ UNCHANGED <<mode, task>>

\* A command is done: the connection may have been closed meanwhile.
bs_sig_request_done ==
    /\ Called(Bs)
    /\ \/ \E x \in DOMAIN sys.conns: sys.conns[x] = "busy" /\ sys' = [sys EXCEPT !.conns[x] = "in"]
       \/ \E x \in DOMAIN sys.conns: sys.conns[x] = "markedBusy" /\ sys' = [sys EXCEPT !.conns[x] = "marked"]
       \/ \E x \in DOMAIN sys.conns: sys.conns[x] = "closing" /\ sys' = [sys EXCEPT !.conns = Without(@, {x})]
       \/ (\A x \in DOMAIN sys.conns: ~InScsi(sys, x)) /\ UNCHANGED sys
    /\ ev' = Loop(ev, Bs)
    /\ UNCHANGED <<mode, task, errno, hist, left>>

-----------------------------------------------------------------------------
(* The clients (external).                                                 *)

Connect(k) ==
    /\ task[k].st = "none" /\ ~ev.ended
    /\ task' = [task EXCEPT ![k].st = "backlog"]
    /\ UNCHANGED <<mode, ev, sys, errno, hist, left>>

Unsent(k) == k \in Clients /\ task[k].alive /\ task[k].st \notin {"none", "closed"} /\ task[k].sent < Hdr + Pdu(k)

Send(k) ==
    /\ Unsent(k)
    /\ \E n \in {1, Hdr + Pdu(k) - task[k].sent}: task' = [task EXCEPT ![k].sent = @ + n]
    /\ UNCHANGED <<mode, ev, sys, errno, hist, left>>

Dies(k) ==
    /\ task[k].alive /\ task[k].st \notin {"none", "closed"} /\ left.die > 0
    /\ task' = [task EXCEPT ![k].alive = FALSE]
    /\ left' = [left EXCEPT !.die = @ - 1]
    /\ UNCHANGED <<mode, ev, sys, errno, hist>>

Handler ==
    \/ work_timer_evt_handler \/ mgmt_event_handler \/ bs_sig_request_done
    \/ \E k \in Clients: mtask_recv_send_handler(k)
    \/ \E p \in profile.portals: accept_connection(p)
    \/ \E x \in {"c1", "c2"}: iscsi_tcp_event_handler(x)

Next ==
    \/ epoll_wait \/ Handler
    \/ \E k \in Clients: Connect(k) \/ Send(k) \/ Dies(k)

\* The main thread runs until the loop ends (a wait that has nothing else to return has the timer), and the first client sends its
\* request once it is connected.  This is weak fairness, with the conditions under which the steps are enabled written out.
Fairness ==
    /\ []<>ev.ended \/ []<><<epoll_wait \/ Handler>>_vars
    /\ []<>~Unsent(First) \/ []<><<Send(First)>>_vars

Spec == Init /\ [][Next]_vars /\ Fairness

-----------------------------------------------------------------------------
TypeOK ==
    /\ \A k \in Clients: /\ task[k].st \in {"none", "backlog", "HDR_RECV", "PDU_RECV", "HDR_SEND", "PDU_SEND", "closed"}
                         /\ task[k].read <= task[k].sent
                         /\ (k \in ev.set <=> Receiving(k) \/ Sending(k))
    /\ sys.portals \subseteq ev.set
    /\ ev.set \cap {"c1", "c2"} = {x \in DOMAIN sys.conns: sys.conns[x] # "closing"}

\* No handler is called for an event that another handler of the same batch deleted: its data is freed.
NoStaleEvent == ~hist.stale

\* A request is executed only when all its pieces have arrived.
WholeRequest == \A k \in Clients: task[k].ran => task[k].read = Hdr + Pdu(k)

\* When a task is over and its client is still there, the client has all of the answer and nothing more.  Excepted: a request
\* whose body is too large.  It is not executed, and its client gets nothing.
WholeAnswer ==
    \A k \in Clients: task[k].st = "closed" /\ task[k].alive =>
        \/ task[k].ran /\ task[k].got = Rsp + task[k].len
        \/ TooLarge(k) /\ ~task[k].ran /\ task[k].read = Hdr /\ task[k].got = 0

\* A request that is refused has changed nothing but what Half says: of a binding by address and by name the address, of two
\* portals the first, of a target units behind the active one, and of a start that fails that the driver is in error.
RefusedKeeps == ~hist.halfway

\* A driver that was stopped has no target, as long as no request left the driver unnamed.
StoppedEmpty == ~hist.unnamed => \A i \in DOMAIN sys.targets: sys.drv[sys.targets[i].lld] = "INIT"

\* Backing stores run for the units there are and for no others, whichever step of creating or destroying one failed.
StoresMatch == sys.stores = UNION {{t} \X sys.targets[t].luns: t \in DOMAIN sys.targets}

\* The handlers of a batch do not trip over each other: the events are those of the tasks, portals and connections there are.
EventsFit == TypeOK /\ NoStaleEvent

\* Requests and answers are whole, in whatever pieces they come and go (mtask_recv_send_handler).
MessagesWhole == WholeRequest /\ WholeAnswer

\* No request leaves something half done (tgt_mgmt, tgt_target_create, tgt_device_create).
NothingHalf == StoresMatch /\ RefusedKeeps /\ StoppedEmpty

\* Whoever sends a request and waits gets an answer, unless the daemon ended, and the task of a client that went away is
\* freed, unless errno happens to be EAGAIN.
Answered == Receiving(First) ~> (task[First].st = "closed" \/ ev.ended \/ (~task[First].alive /\ errno = "EAGAIN"))

\* After a request to end was answered the daemon ends, although the handler that says so deletes its event and the loop
\* waits once more.
Ends == ~ev.active ~> ev.ended

\* Requests and the daemon come to their end.
Progress == Answered /\ Ends
=============================================================================
