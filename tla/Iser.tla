-------------------------------- MODULE Iser --------------------------------
(***************************************************************************)
(* The iSER transport (iscsi/iser.c): connections over RDMA from the       *)
(* connect request to the last reference, the tasks of the full feature    *)
(* phase, the pool of RDMA buffers they share, the completion queue with   *)
(* its polling and interrupts, and the scheduled events of tgtd.c that     *)
(* tie them together.                                                      *)
(*                                                                         *)
(* The handlers run in one thread.  A handler is an operator that maps the *)
(* state x = [conn, sess, dev, cq, sched, crash, err] to the state it      *)
(* leaves, err being the return value of the C function.  Around them      *)
(* tgt_exec_scheduled (RunEvent, NextEvent) walks the list of scheduled    *)
(* events and epoll brings CM events, CQ interrupts, completions of the    *)
(* SCSI layer and the NOP timer.                                           *)
(*                                                                         *)
(* Sizes are abstracted to what is left to transfer: a command has an      *)
(* RDMA-Read (rd) and an RDMA-Write (wr) of at most one buffer each, as    *)
(* in the code, data if it carries immediate data, and uns unsolicited     *)
(* Data-Out PDUs.  ibv_post_send and ibv_post_recv succeed, as do malloc   *)
(* and ibv_reg_mr after the accept.                                        *)
(***************************************************************************)
EXTENDS Integers, Sequences, FiniteSets, SequencesExt

CONSTANTS NConns,        \* connections
          NTasks,        \* the largest max_outst_pdu: tasks with a receive buffer, of each connection
          MaxWc,         \* MAX_POLL_WC
          MaxDelayedArm, \* MAX_NUM_DELAYED_ARM
          MaxQueueCmd,   \* session->max_queue_cmd
          Profiles,      \* name -> what the peers and the hardware do in a behaviour
          None

ASSUME IserAssumption ==
    NConns \in Nat /\ {NTasks, MaxWc, MaxDelayedArm, MaxQueueCmd} \subseteq Nat \ {0}

VARIABLES
    mode,    \* which of Profiles this behaviour follows
    conn,    \* connection -> struct iser_conn, its queue pair and its CM id
    sess,    \* session, named by its first connection -> [exp, pend, cmds, nsn, live]
    dev,     \* [free, wait, arm, armed, evt, consume] of struct iser_device
    cq,      \* completions the hardware has written and nobody has polled
    sched,   \* tgt_sched_events_list
    loop,    \* where the event loop is
    crash    \* an assertion, a freed connection or a broken list was met

vars == <<mode, conn, sess, dev, cq, sched, loop, crash>>

profile == Profiles[mode]
Conns   == 1..NConns
RxTasks == 1..NTasks
Posted  == 1..profile.tasks     \* those of this behaviour: its max_outst_pdu
\* The tasks of the login phase and the two that are sent unsolicited; 0 is no task.
login_rx_task == -1
login_tx_task == -2
nop_in_task   == -3
text_tx_task  == -4
Tasks   == RxTasks \cup {login_rx_task, login_tx_task, nop_in_task, text_tx_task}
Lists   == {"buf", "rdma", "io", "tx", "recv"}

\* iser_task_init.  pdub are the buffers of out_buf_list that are not RDMA buffers: immediate
\* data and Data-Outs.  The buffers of the first stale members of dout_task_list are no
\* longer on that list.  late: the RDMA-Read ended when the connection was no longer open.
task_init == [op |-> "none", tag |-> 0, sn |-> 0, imm |-> FALSE, rd |-> 0, wr |-> 0, uns |-> 0, big |-> FALSE,
              inb |-> 0, outb |-> 0, pdub |-> 0, scsi |-> FALSE, busy |-> FALSE, pend |-> FALSE, late |-> FALSE,
              douts |-> << >>, stale |-> 0]

\* iser_conn_init.  lone counts the writes that had one buffer, that of a Data-Out.
conn_init == [st |-> "NONE", ref |-> 0, phase |-> "INIT", sid |-> None, inlist |-> FALSE,
              cm |-> "none", rq |-> << >>, sq |-> << >>, buf |-> << >>, rdma |-> << >>, io |-> << >>,
              tx |-> << >>, sent |-> << >>, recv |-> << >>, nop |-> 0, forced |-> 0, tm |-> 0, lone |-> 0,
              t |-> [t \in Tasks |-> task_init], qp |-> TRUE, ini |-> "login", todo |-> 0, wire |-> << >>, open |-> {}]

World == [conn |-> conn, sess |-> sess, dev |-> dev, cq |-> cq, sched |-> sched, crash |-> crash, err |-> "ok"]

Become(x) == /\ conn' = x.conn /\ sess' = x.sess /\ dev' = x.dev /\ cq' = x.cq
             /\ sched' = x.sched /\ crash' = x.crash

Without(s, e)  == SelectSeq(s, LAMBDA v : v # e)
Crash(x, what) == [x EXCEPT !.crash = IF @ = "none" THEN what ELSE @]

----------------------------------------------------------------------------
(* Scheduled events (tgtd.c) and the lists of tasks that wait for them.    *)

tgt_add_sched_event(x, e)    == IF e \in Range(x.sched) THEN x ELSE [x EXCEPT !.sched = Append(@, e)]
tgt_remove_sched_event(x, e) == [x EXCEPT !.sched = Without(@, e)]

\* The lists that share a link of the task with list l.
Linked(k, l, t) ==
    CASE l = "tx" -> t \in Range(k.tx) \cup Range(k.sent)
      [] l = "io" -> t \in Range(k.io) \cup Range(k.buf) \/ k.t[t].pend
      [] OTHER    -> t \in Range(k[l])

\* schedule_task_iosubmit, schedule_rdma_read, schedule_resp_tx and schedule_post_recv:
\* the task goes to the end of its list, and the event of the list is scheduled.
schedule(x, c, l, t) ==
    IF Linked(x.conn[c], l, t) THEN Crash(x, "list")
    ELSE tgt_add_sched_event([x EXCEPT !.conn[c][l] = Append(@, t)], <<c, l>>)

\* The work requests of a task.
iser_prep_resp_send_req(t)    == <<"send", t>>
iser_prep_rdma_wr_send_req(t) == <<"write", t>>
iser_prep_rdma_rd_send_req(t) == <<"read", t>>

\* What is posted counts as a reference to the connection until its completion is handled.
iser_post_send(x, c, wrs) == [x EXCEPT !.conn[c].sq = @ \o wrs, !.conn[c].ref = @ + Len(wrs)]
iser_post_recv(x, c, ts)  == [x EXCEPT !.conn[c].rq = @ \o ts, !.conn[c].ref = @ + Len(ts)]

iser_conn_get(x, c) == [x EXCEPT !.conn[c].ref = @ + 1]

iser_conn_put(x, c) ==
    LET y == [x EXCEPT !.conn[c].ref = @ - 1] IN
    IF y.conn[c].ref # 0 THEN y
    ELSE IF y.conn[c].st # "CLOSE" THEN Crash(y, "put")       \* assert(state == STATE_CLOSE)
    ELSE tgt_add_sched_event(y, <<c, "free">>)

----------------------------------------------------------------------------
(* RDMA buffers.                                                           *)

\* iser_task_alloc_rdma_bufs.  A read part that is too big is found after the buffer of
\* the write part was taken, and that buffer is lost.
iser_task_alloc_rdma_bufs(x, c, t) ==
    LET k == x.conn[c].t[t]
        both == k.rd = 1 /\ k.wr = 1 IN
    IF k.big /\ (both => x.dev.free > 0)
    THEN [x EXCEPT !.dev.free = IF both THEN @ - 1 ELSE @, !.dev.lost = IF both THEN @ + 1 ELSE @, !.err = "big"]
    ELSE IF x.dev.free < k.rd + k.wr THEN [x EXCEPT !.dev.wait = TRUE, !.err = "nomem"]
    ELSE LET y == [x EXCEPT !.dev.free = @ - (k.rd + k.wr), !.err = "ok",
                            !.conn[c].t[t] = [@ EXCEPT !.inb = @ + k.wr, !.outb = @ + k.rd]]
         IN IF k.rd = 1 THEN schedule(y, c, "rdma", t)
            ELSE IF k.uns > 0 THEN y ELSE schedule(y, c, "io", t)

iser_task_free_rdma_buf_quiet(x, c, n) == [x EXCEPT !.dev.free = @ + n]    \* mutant: no wakeup

\* iser_task_free_rdma_buf for each of n buffers: the connection that frees one is the
\* connection that is woken.
iser_task_free_rdma_buf(x, c, n) ==
    LET y == [x EXCEPT !.dev.free = @ + n, !.dev.wait = IF n > 0 THEN FALSE ELSE @]
    IN IF n > 0 /\ x.dev.wait THEN tgt_add_sched_event(y, <<c, "buf">>) ELSE y

\* mutant: the buffers of writes are dropped
iser_task_free_bufs_in(x, c, t) ==
    [iser_task_free_rdma_buf(x, c, x.conn[c].t[t].inb) EXCEPT !.conn[c].t[t] = [@ EXCEPT !.inb = 0, !.outb = 0]]

\* iser_task_free_in_bufs and iser_task_free_out_bufs.  A Data-Out that is still on
\* dout_task_list stays there without its buffer.
iser_task_free_bufs(x, c, t) ==
    LET k == x.conn[c].t[t]
        y == iser_task_free_rdma_buf(x, c, k.inb + k.outb)
    IN [y EXCEPT !.conn[c].t[t] = [@ EXCEPT !.inb = 0, !.outb = 0, !.pdub = 0, !.stale = Len(k.douts)]]

\* iser_complete_task: only SCSI commands hold anything.
iser_complete_task(x, c, t) ==
    IF x.conn[c].t[t].op # "cmd" THEN x
    ELSE LET sid == x.conn[c].sid
             y   == iser_task_free_bufs([x EXCEPT !.sess[sid].cmds = @ \ {<<c, t>>}], c, t)
         IN IF y.conn[c].t[t].scsi THEN iser_conn_put([y EXCEPT !.conn[c].t[t].scsi = FALSE], c) ELSE y

CompleteAll(x, c, l) ==
    FoldLeft(LAMBDA y, t : iser_complete_task([y EXCEPT !.conn[c][l] = Without(@, t)], c, t), x, x.conn[c][l])

----------------------------------------------------------------------------
(* The end of a connection.                                                *)

\* A closed connection: rdma_disconnect puts the queue pair in error, and DISCONNECTED follows.
Closed(k) == [k EXCEPT !.st = "CLOSE", !.inlist = FALSE, !.qp = FALSE,
                       !.cm = IF @ \in {"accepted", "up"} THEN "disc" ELSE @]

\* iser_conn_close: the tasks with a response to send are completed, the scheduled events
\* go, and rdma_disconnect has the hardware flush the rest.
iser_conn_close(x, c) ==
    IF x.conn[c].st = "CLOSE" THEN x
    ELSE LET y == CompleteAll(x, c, "tx")
         IN [y EXCEPT !.conn[c] = Closed(@),
                      !.sched = SelectSeq(@, LAMBDA e : ~(e[1] = c /\ e[2] \in Lists))]

\* iser_conn_force_close, called by conn_close_admin.
iser_conn_force_close(x, c) == iser_conn_put(iser_conn_close([x EXCEPT !.conn[c].forced = @ + 1], c), c)

\* session_put: the session goes with the last of its connections.
session_put(x, s) ==
    [x EXCEPT !.sess[s].live = \E c \in Conns : x.conn[c].sid = s /\ x.conn[c].st # "FREED"]

\* iser_conn_free: what is left on the lists is completed or dropped; ibv_destroy_qp and
\* rdma_destroy_id take back completions and CM events that are still due.
iser_conn_free(x, c) ==
    IF x.conn[c].ref # 0 THEN Crash(x, "refcount")          \* assert(refcount == 0)
    ELSE LET y == CompleteAll(CompleteAll(CompleteAll(x, c, "io"), c, "rdma"), c, "tx")
             z == [y EXCEPT !.conn[c] = [@ EXCEPT !.st = "FREED", !.sent = << >>, !.recv = << >>, !.sq = << >>,
                                                  !.rq = << >>, !.cm = "done"],
                            !.cq = SelectSeq(@, LAMBDA w : w.c # c)]
         IN IF z.conn[c].sid = None THEN z ELSE session_put(z, z.conn[c].sid)

----------------------------------------------------------------------------
(* The SCSI layer.                                                         *)

\* The Data-Outs that came for this command.
NewDouts(k) == SubSeq(k.douts, k.stale + 1, Len(k.douts))

\* iser_task_free_dout_tasks: the Data-Out tasks are received into again.  One that an
\* earlier command left on dout_task_list has a buffer that is on no list.
iser_task_free_dout_tasks(x, c, t) ==
    IF x.conn[c].t[t].stale > 0 THEN Crash(x, "dout")
    ELSE LET ds == x.conn[c].t[t].douts
             y  == [x EXCEPT !.conn[c].t[t] = [@ EXCEPT !.douts = << >>, !.pdub = @ - Len(ds)]]
         IN FoldLeft(LAMBDA v, d : schedule(v, c, "recv", d), y, ds)

\* The command goes to the SCSI layer, which holds a reference to the connection.
target_cmd_queue(x, c, t) == iser_conn_get([x EXCEPT !.conn[c].t[t] = [@ EXCEPT !.scsi = TRUE, !.busy = TRUE]], c)

\* mutant: the Data-Out tasks are not received into again
iser_scsi_cmd_iosubmit_dout(x, c, t) == target_cmd_queue(x, c, t)

\* iser_scsi_cmd_iosubmit: several buffers are gathered in the last of them, and Data-Out
\* tasks are received into again; one buffer is used as it is.
iser_scsi_cmd_iosubmit(x, c, t) ==
    LET k == x.conn[c].t[t] IN
    target_cmd_queue(IF k.pdub + k.outb > 1 THEN iser_task_free_dout_tasks(x, c, t)
                     ELSE [x EXCEPT !.conn[c].lone = @ + Len(NewDouts(k))], c, t)

\* iser_scsi_cmd_done: n of the data is there to be written to the initiator.
iser_scsi_cmd_done(x, c, t, n) ==
    IF x.conn[c].st # "FULL" THEN iser_complete_task(x, c, t)
    ELSE schedule([x EXCEPT !.conn[c].t[t].wr = n], c, "tx", t)

iser_tm_done(x, c, t) == schedule(x, c, "tx", t)

iser_send_ping_nop_in(x, c, t) == schedule([x EXCEPT !.conn[c].nop = 0], c, "tx", t)

----------------------------------------------------------------------------
(* The handlers of the scheduled events.                                   *)

\* iser_sched_buf_alloc: until the list is empty or the pool is.  A task that goes on to
\* its RDMA-Read leaves the list.  A read is linked to iosubmit_list by the link that holds
\* it in buf_alloc_list: the list_del that follows takes it from iosubmit_list, and it
\* stays first here and takes buffers as long as there are any.
iser_sched_buf_alloc(x, c) ==
    FoldLeft(LAMBDA y, t :
               IF y.err # "ok" THEN y
               ELSE LET z == iser_task_alloc_rdma_bufs([y EXCEPT !.conn[c].buf = Tail(@)], c, t) IN
                    CASE z.err = "ok" /\ z.conn[c].t[t].rd > 0 -> z
                      [] z.err = "ok" ->
                           [y EXCEPT !.conn[c].t[t].inb = @ + y.dev.free, !.dev.free = 0, !.dev.wait = TRUE,
                                     !.sched = z.sched, !.err = "nomem"]
                      [] z.err = "nomem" -> [z EXCEPT !.conn[c].buf = y.conn[c].buf]
                      [] OTHER -> iser_conn_close([z EXCEPT !.conn[c].buf = y.conn[c].buf], c),
             x, x.conn[c].buf)

iser_sched_iosubmit(x, c) ==
    FoldLeft(LAMBDA y, t : iser_scsi_cmd_iosubmit([y EXCEPT !.conn[c].io = Without(@, t)], c, t), x, x.conn[c].io)

iser_sched_rdma_rd(x, c) ==
    IF x.conn[c].st # "FULL" THEN x
    ELSE LET ts == x.conn[c].rdma
         IN iser_post_send([x EXCEPT !.conn[c].rdma = << >>], c, [i \in DOMAIN ts |-> iser_prep_rdma_rd_send_req(ts[i])])

\* iser_sched_tx: the data of a read is written before its response.
Chain(k, t) == (IF k.t[t].wr > 0 THEN <<iser_prep_rdma_wr_send_req(t)>> ELSE << >>) \o <<iser_prep_resp_send_req(t)>>

iser_sched_tx(x, c) ==
    IF x.conn[c].st = "CLOSE" THEN x
    ELSE FoldLeft(LAMBDA y, t :
                    iser_post_send([y EXCEPT !.conn[c] = [@ EXCEPT !.tx = Without(@, t), !.sent = Append(@, t),
                                                                   !.t[t].wr = 0]], c, Chain(y.conn[c], t)),
                  x, x.conn[c].tx)

iser_sched_post_recv(x, c) ==
    IF x.conn[c].st # "FULL" THEN x
    ELSE iser_post_recv([x EXCEPT !.conn[c].recv = << >>], c, x.conn[c].recv)

----------------------------------------------------------------------------
(* Requests: p is the PDU that was received into task t.                   *)

\* iser_parse_req_headers
iser_parse_req_headers(x, c, t, p) ==
    [x EXCEPT !.conn[c].t[t] = [task_init EXCEPT !.op = p.op, !.tag = p.tag, !.sn = p.sn, !.imm = p.imm,
                                                 !.douts = x.conn[c].t[t].douts, !.stale = x.conn[c].t[t].stale]]

\* iser_scsi_cmd_rx
iser_scsi_cmd_rx(x, c, t, p) ==
    IF p.how = "bad" THEN [x EXCEPT !.err = "bad"]
    ELSE [x EXCEPT !.conn[c].t[t] = [@ EXCEPT !.rd = p.rd, !.wr = p.wr, !.uns = p.uns, !.pdub = p.data,
                                                    !.big = p.how = "big"],
                   !.sess[x.conn[c].sid].cmds = @ \cup {<<c, t>>}]

\* iser_data_out_rx: the last Data-Out of a command whose RDMA-Read is over submits it.
iser_data_out_rx(x, c, t, p) ==
    LET found == {d \in x.sess[x.conn[c].sid].cmds : x.conn[d[1]].t[d[2]].tag = p.tag} IN
    IF found = {} THEN [x EXCEPT !.err = "bad"]
    ELSE LET d == CHOOSE d \in found : TRUE
             y == [x EXCEPT !.conn[d[1]].t[d[2]] = [@ EXCEPT !.uns = @ - 1, !.pdub = @ + 1, !.douts = Append(@, t)]]
             k == y.conn[d[1]].t[d[2]]
         IN IF p.how = "final" /\ ~k.pend /\ k.rd = 0 /\ k.uns = 0 THEN schedule(y, c, "io", d[2]) ELSE y

\* iser_nop_out_rx: a NOP-Out that asks for no answer is received into again, and the
\* value returned for it closes the connection.
iser_nop_out_rx(x, c, t, p) ==
    IF p.how = "noresp" THEN [iser_post_recv(x, c, <<t>>) EXCEPT !.err = "again"] ELSE x

iser_nop_out_exec(x, c, t) == schedule(x, c, "tx", t)

\* iser_logout_exec: the response is sent at once, with what is scheduled to be sent.
iser_logout_exec(x, c, t) == iser_sched_tx(tgt_remove_sched_event(schedule(x, c, "tx", t), <<c, "tx">>), c)

\* mutant: a queued request holds no reference
iser_tm_exec_noref(x, c, t, how) ==
    IF how = "queued" THEN [x EXCEPT !.conn[c].t[t].busy = TRUE] ELSE iser_tm_done(x, c, t)

\* iser_tm_exec: answered in the call, by iser_tm_done, or queued behind the commands it aborts.
iser_tm_exec(x, c, t, how) ==
    CASE how = "bad"    -> [x EXCEPT !.err = "bad"]
      [] how = "queued" -> iser_conn_get([x EXCEPT !.conn[c].t[t] = [@ EXCEPT !.scsi = TRUE, !.busy = TRUE], !.conn[c].tm = @ + 1], c)
      [] OTHER          -> iser_tm_done(x, c, t)

\* iser_task_delivery
iser_task_delivery(x, c, t, how) ==
    LET op == x.conn[c].t[t].op IN
    CASE x.conn[c].st = "FREED" -> Crash(x, "freed")   \* a pending task of another connection
      [] op = "cmd"    -> LET y == iser_task_alloc_rdma_bufs(x, c, t)
                          IN IF y.err = "nomem" THEN [y EXCEPT !.conn[c].buf = Append(@, t)] ELSE y
      [] op = "nop"    -> iser_nop_out_exec(x, c, t)
      [] op = "logout" -> iser_logout_exec(x, c, t)
      [] op = "tm"     -> iser_tm_exec(x, c, t, how)
      [] op = "text"   -> schedule(x, c, "tx", text_tx_task)

SnOf(x, d) == x.conn[d[1]].t[d[2]].sn
Failed(x)  == x.err \notin {"ok", "nomem"}

\* The task with the expected CmdSN is delivered, and CmdSN advances.
InOrder(x, s, d) == iser_task_delivery([x EXCEPT !.sess[s].exp = @ + 1], d[1], d[2], "done")

\* The place of a task among the pending ones of its session, which are ordered by CmdSN.
Insert(x, pend, d) ==
    SelectSeq(pend, LAMBDA e : SnOf(x, e) < SnOf(x, d)) \o <<d>> \o SelectSeq(pend, LAMBDA e : SnOf(x, e) > SnOf(x, d))

\* iser_queue_task
iser_queue_task(x, c, t, how) ==
    LET s  == x.conn[c].sid
        sn == x.conn[c].t[t].sn
    IN IF x.conn[c].t[t].imm THEN iser_task_delivery(x, c, t, how)
       ELSE IF sn = x.sess[s].exp
       THEN FoldLeft(LAMBDA y, d :
                       IF Failed(y) \/ SnOf(y, d) # y.sess[s].exp THEN y
                       ELSE InOrder([y EXCEPT !.sess[s].pend = Tail(@), !.conn[d[1]].t[d[2]].pend = FALSE], s, d),
                     InOrder(x, s, <<c, t>>), x.sess[s].pend)
       ELSE IF sn > x.sess[s].exp + MaxQueueCmd \/ \E d \in Range(x.sess[s].pend) : SnOf(x, d) = sn
       THEN [x EXCEPT !.err = "bad"]
       ELSE [x EXCEPT !.sess[s].pend = Insert(x, @, <<c, t>>), !.conn[c].t[t].pend = TRUE]

----------------------------------------------------------------------------
(* Login.  The text negotiation is that of iser_text.c; out is its outcome *)
(* for this request.                                                       *)

\* iser_alloc_ff_resources: the receives of the full feature phase are posted before the
\* last login response is sent.
iser_alloc_ff_resources(x, c) == iser_post_recv([x EXCEPT !.conn[c].nop = nop_in_task], c, [t \in Posted |-> t])

\* iser_login_complete
iser_login_complete(x, c) ==
    LET s == IF profile.mcs /\ x.sess[1].live THEN 1 ELSE c
        y == [x EXCEPT !.conn[c] = [@ EXCEPT !.st = "FINAL", !.phase = "LAST_SEND", !.sid = s],
                       !.sess[s].live = TRUE]
    IN iser_alloc_ff_resources(y, c)

\* iser_login_exec, as far as the transport sees it
iser_login_exec(x, c, out) ==
    CASE out = "more" -> [x EXCEPT !.conn[c].st = "LOGIN"]
      [] out = "fail" -> [x EXCEPT !.conn[c].st = "EXIT"]
      [] OTHER        -> iser_login_complete(x, c)

\* iser_login_rx: a login request that overtakes the ESTABLISHED event waits for it.
iser_login_rx(x, c, out) ==
    IF x.conn[c].st = "START" THEN [x EXCEPT !.conn[c].st = "READY"]
    ELSE LET y == iser_login_exec(x, c, out)
             z == IF y.conn[c].phase = "LAST_SEND" THEN y ELSE iser_post_recv(y, c, <<login_rx_task>>)
         IN schedule(z, c, "tx", login_tx_task)

\* iser_rx_handler_non_ff
iser_rx_handler_non_ff(x, c, p) ==
    IF x.conn[c].st \notin {"START", "READY", "LOGIN", "FINAL"} THEN x
    ELSE IF p.op = "login" THEN iser_login_rx(x, c, p.how) ELSE [x EXCEPT !.err = "bad"]

\* iser_rx_handler
iser_rx_handler(x, c, t, p) ==
    LET y == iser_parse_req_headers(iser_conn_put(x, c), c, t, p)
        z == IF y.conn[c].st # "FULL" THEN iser_rx_handler_non_ff(y, c, p)
             ELSE CASE p.op = "cmd"  -> iser_scsi_cmd_rx(y, c, t, p)
                    [] p.op = "dout" -> iser_data_out_rx(y, c, t, p)
                    [] p.op = "nop"  -> iser_nop_out_rx(y, c, t, p)
                    [] p.op = "text" -> iser_task_delivery(y, c, t, p.how)
                    [] p.op = "bad"  -> [y EXCEPT !.err = "bad"]
                    [] OTHER         -> y
        q == IF y.conn[c].st = "FULL" /\ z.err = "ok" /\ p.op \notin {"dout", "text"}
             THEN iser_queue_task(z, c, t, p.how) ELSE z
    IN IF Failed(q) THEN iser_conn_close([q EXCEPT !.err = "ok"], c) ELSE [q EXCEPT !.err = "ok"]

----------------------------------------------------------------------------
(* Completions.                                                            *)

\* iser_login_tx_complete
iser_login_tx_complete(x, c) ==
    IF x.conn[c].st = "FINAL" THEN [x EXCEPT !.conn[c] = [@ EXCEPT !.st = "FULL", !.phase = "FF"]] ELSE x

\* task->unsolicited, set by iser_unsolicited_task_init
unsolicited(t) == t \in {nop_in_task, text_tx_task}

\* iser_tx_complete_handler: the tasks of NOP-In and text responses are both unsolicited.
iser_tx_complete_handler(x, c, t) ==
    LET y == [iser_conn_put(x, c) EXCEPT !.conn[c].sent = Without(@, t)] IN
    IF unsolicited(t) THEN [y EXCEPT !.conn[c].nop = t]
    ELSE LET z == iser_complete_task(y, c, t)
         IN IF z.conn[c].st # "FULL" THEN iser_login_tx_complete(z, c) ELSE schedule(z, c, "recv", t)

\* iser_rdma_wr_complete_handler: the send that follows takes care of the task.
iser_rdma_wr_complete_handler(x, c) == iser_conn_put(x, c)

\* iser_rdma_rd_complete_handler
iser_rdma_rd_complete_handler(x, c, t) ==
    LET y == iser_conn_put([x EXCEPT !.conn[c].t[t] = [@ EXCEPT !.rd = 0, !.late = x.conn[c].st # "FULL"]], c)
    IN IF y.conn[c].st = "FULL" /\ y.conn[c].t[t].uns = 0 THEN schedule(y, c, "io", t) ELSE y

handle_wc(x, w) ==
    CASE w.op = "recv"  -> iser_rx_handler(x, w.c, w.t, w.pdu)
      [] w.op = "send"  -> iser_tx_complete_handler(x, w.c, w.t)
      [] w.op = "write" -> iser_rdma_wr_complete_handler(x, w.c)
      [] w.op = "read"  -> iser_rdma_rd_complete_handler(x, w.c, w.t)

handle_wc_error(x, w) ==
    LET y == IF w.op \in {"send", "read"} THEN iser_complete_task(x, w.c, w.t) ELSE x
    IN iser_conn_close(iser_conn_put(y, w.c), w.c)

\* iser_poll_cq: at most MaxWc completions.
Polled(x) == SubSeq(x.cq, 1, Min({MaxWc, Len(x.cq)}))

iser_poll_cq(x) ==
    FoldLeft(LAMBDA y, w : IF w.ok THEN handle_wc(y, w) ELSE handle_wc_error(y, w),
             [x EXCEPT !.cq = SubSeq(@, Len(Polled(x)) + 1, Len(@))], Polled(x))

Drained(x) == Len(x.cq) < MaxWc

SchedPoll(x, consume) == tgt_add_sched_event([x EXCEPT !.dev.consume = consume], <<0, "poll">>)

\* iser_rearm_completions: interrupts on, and one more look at the queue.
iser_rearm_completions(x) == SchedPoll([x EXCEPT !.dev.armed = TRUE, !.dev.arm = 0], TRUE)

\* The rest of iser_poll_cq_armable: after MaxDelayedArm empty polls it gives up polling.
ArmOrPoll(x, drained) ==
    LET n == IF drained THEN x.dev.arm + 1 ELSE x.dev.arm IN
    IF drained /\ n = MaxDelayedArm THEN iser_rearm_completions(x) ELSE SchedPoll([x EXCEPT !.dev.arm = n], FALSE)

\* The rest of iser_sched_consume_cq
ConsumeMore(x, drained) == IF drained THEN x ELSE SchedPoll(x, TRUE)

----------------------------------------------------------------------------
(* RDMA CM events.                                                         *)

iser_alloc_login_resources(x, c) == iser_post_recv(x, c, <<login_rx_task>>)

\* iser_cm_connect_request; how is where it fails.  A connection whose queue pair is not
\* created stays in iser_conn_list; one that is not accepted has two references.
iser_cm_connect_request(x, c, how) ==
    LET y == [x EXCEPT !.conn[c] = [conn_init EXCEPT !.inlist = TRUE, !.phase = "START", !.todo = profile.requests[c]]]
        z == iser_conn_get(iser_alloc_login_resources(y, c), c)
    IN CASE how = "qp"     -> iser_conn_free(y, c)
         [] how = "accept" -> iser_conn_free(z, c)
         [] OTHER          -> [z EXCEPT !.conn[c] = [@ EXCEPT !.st = "START", !.cm = "accepted"]]

\* iser_cm_conn_established
iser_cm_conn_established(x, c, out) ==
    LET y == [x EXCEPT !.conn[c].cm = "up"] IN
    CASE y.conn[c].st = "START" -> [y EXCEPT !.conn[c].st = "READY"]
      [] y.conn[c].st = "READY" -> iser_login_rx(y, c, out)
      [] OTHER                  -> y

\* iser_cm_disconnected
iser_cm_disconnected(x, c) == iser_conn_close([x EXCEPT !.conn[c].cm = "wait"], c)

\* iser_cm_timewait_exit
iser_cm_timewait_exit(x, c) ==
    LET y == [x EXCEPT !.conn[c].cm = "done"]
    IN iser_conn_put(IF y.conn[c].st = "CLOSE" THEN CompleteAll(y, c, "tx") ELSE y, c)

----------------------------------------------------------------------------
(* The event loop (tgtd.c).                                                *)

Idle == [at |-> "epoll", tev |-> None, last |-> None, drained |-> FALSE]

InEpoll == loop.at = "epoll" /\ crash = "none"
Handle(x) == Become(x) /\ UNCHANGED <<mode, loop>>

\* iser_handle_rdmacm
ConnectRequest(c) == /\ InEpoll /\ conn[c].st = "NONE" /\ c \in profile.conns
                     /\ \E how \in profile.accept : Handle(iser_cm_connect_request(World, c, how))
Established(c)    == /\ InEpoll /\ conn[c].cm = "accepted"
                     /\ \E out \in profile.logins : Handle(iser_cm_conn_established(World, c, out))
Disconnected(c)   == InEpoll /\ conn[c].cm = "disc" /\ Handle(iser_cm_disconnected(World, c))
TimewaitExit(c)   == InEpoll /\ conn[c].cm = "wait" /\ Handle(iser_cm_timewait_exit(World, c))

\* The SCSI layer is done with a command, or with the commands a task management request
\* waited for; a freed connection is then used.
ScsiDone(c, t) ==
    /\ InEpoll /\ conn[c].t[t].busy
    /\ LET x == [World EXCEPT !.conn[c].t[t].busy = FALSE] IN
       Handle(IF conn[c].st = "FREED" THEN Crash(x, "freed")
              ELSE IF conn[c].t[t].op = "cmd" THEN iser_scsi_cmd_done(x, c, t, conn[c].t[t].wr)
              ELSE iser_tm_done(x, c, t))

ForceClose(c) == /\ InEpoll /\ "force" \in profile.faults /\ conn[c].st = "FULL"
                 /\ Handle(iser_conn_force_close(World, c))

\* iser_nop_work_handler: the connections of iser_conn_list.
NopTimer ==
    /\ InEpoll /\ profile.nop
    /\ Handle(FoldLeft(LAMBDA y, c :
                 CASE ~y.conn[c].inlist -> y
                   [] y.conn[c].inlist /\ y.conn[c].st = "FREED" -> Crash(y, "freed")
                   [] y.conn[c].st = "FULL" /\ y.conn[c].nop # 0 ->
                        iser_send_ping_nop_in(y, c, y.conn[c].nop)
                   [] OTHER -> y,
                 World, [c \in Conns |-> c]))

\* iser_handle_cq_event polls as the scheduled event does, which it replaces.
CqEvent ==
    /\ InEpoll /\ dev.evt
    /\ LET x == tgt_remove_sched_event([World EXCEPT !.dev.evt = FALSE], <<0, "poll">>) IN
       Become(iser_poll_cq(x)) /\ loop' = [loop EXCEPT !.at = "arm", !.drained = Drained(x)]
    /\ UNCHANGED mode

\* tgt_exec_scheduled: from the first event to the one that is last now.
StartSched ==
    /\ InEpoll /\ sched # << >>
    /\ loop' = [loop EXCEPT !.at = "run", !.tev = sched[1], !.last = Last(sched)]
    /\ UNCHANGED <<mode, conn, sess, dev, cq, sched, crash>>

\* tevn, read before the handler runs: an event that is not on the list is its own
\* successor.
Succ(s, e) ==
    IF e \notin Range(s) THEN e
    ELSE LET i == CHOOSE i \in DOMAIN s : s[i] = e IN IF i = Len(s) THEN None ELSE s[i + 1]

Advance(e) == IF loop.tev = loop.last \/ e = None THEN Idle ELSE [loop EXCEPT !.at = "run", !.tev = e]

sched_handler(x, e) ==
    CASE x.conn[e[1]].st = "FREED" -> Crash(x, "freed")
      [] e[2] = "buf"  -> [iser_sched_buf_alloc(x, e[1]) EXCEPT !.err = "ok"]
      [] e[2] = "rdma" -> iser_sched_rdma_rd(x, e[1])
      [] e[2] = "io"   -> iser_sched_iosubmit(x, e[1])
      [] e[2] = "tx"   -> iser_sched_tx(x, e[1])
      [] e[2] = "recv" -> iser_sched_post_recv(x, e[1])
      [] e[2] = "free" -> iser_conn_free(x, e[1])

RunEvent ==
    /\ loop.at = "run" /\ crash = "none" /\ loop.tev # <<0, "poll">>
    /\ loop' = Advance(Succ(sched, loop.tev))
    /\ Become(sched_handler(tgt_remove_sched_event(World, loop.tev), loop.tev))
    /\ UNCHANGED mode

\* iser_sched_poll_cq and iser_sched_consume_cq: more completions may come between the
\* last poll and what is done about it.
RunPoll ==
    /\ loop.at = "run" /\ crash = "none" /\ loop.tev = <<0, "poll">>
    /\ LET x == tgt_remove_sched_event(World, loop.tev) IN
       /\ Become(iser_poll_cq(x))
       /\ loop' = [Advance(Succ(sched, loop.tev)) EXCEPT !.at = IF dev.consume THEN "consume" ELSE "arm",
                                                         !.drained = Drained(x)]
    /\ UNCHANGED mode

AfterPoll ==
    /\ loop.at \in {"arm", "consume"} /\ crash = "none"
    /\ Become(IF loop.at = "arm" THEN ArmOrPoll(World, loop.drained) ELSE ConsumeMore(World, loop.drained))
    /\ loop' = [loop EXCEPT !.at = IF loop.tev = None THEN "epoll" ELSE "run", !.drained = FALSE]
    /\ UNCHANGED mode

----------------------------------------------------------------------------
(* The hardware and the initiator.                                         *)

\* A completion, and an interrupt if they are armed.
Completion(x, w) ==
    [x EXCEPT !.cq = Append(@, w), !.dev.armed = FALSE, !.dev.evt = @ \/ x.dev.armed]

Wc(c, op, t, ok, p) == [c |-> c, op |-> op, t |-> t, ok |-> ok, pdu |-> p]
NoPdu == [op |-> "none", tag |-> 0, sn |-> 0, imm |-> FALSE, rd |-> 0, wr |-> 0, data |-> 0, uns |-> 0, how |-> "none"]

\* The Data-Out PDUs that follow a command.
DataOuts(p) == [i \in 1..p.uns |-> [NoPdu EXCEPT !.op = "dout", !.tag = p.tag, !.how = IF i = p.uns THEN "final" ELSE "more"]]

Arrive(x, c, p) ==
    Handle(Completion([x EXCEPT !.conn[c].rq = Tail(@)], Wc(c, "recv", Head(x.conn[c].rq), TRUE, p)))

CanArrive(c) == crash = "none" /\ conn[c].rq # << >> /\ conn[c].qp /\ conn[c].cm \in {"accepted", "up"}

\* The next PDU of the connection is received.
Deliver(c) == /\ CanArrive(c) /\ conn[c].wire # << >>
              /\ Arrive([World EXCEPT !.conn[c].wire = Tail(@)], c, Head(conn[c].wire))

\* The PDUs of the requests the initiator has no answer to: pairs of a tag and their number.
Outstanding(c) == FoldSet(LAMBDA o, n : o[2] + n, 0, conn[c].open)

\* What the initiator sends: logins, and requests with the numbers of its session.  It has no
\* more PDUs outstanding than the target said it has buffers for.
SendLogin(c) ==
    /\ CanArrive(c) /\ conn[c].ini = "login"
    /\ \E out \in profile.logins :
         Arrive([World EXCEPT !.conn[c].ini = "wait"], c, [NoPdu EXCEPT !.op = "login", !.how = out])

SendRequest(c) ==
    /\ crash = "none" /\ conn[c].cm = "up" /\ conn[c].ini = "full" /\ conn[c].todo > 0
    /\ \E q \in profile.pdus :
         /\ Outstanding(c) + 1 + q.uns <= profile.tasks
         /\ LET s == conn[c].sid
                p == [q EXCEPT !.tag = sess[s].tag, !.sn = sess[s].sn]
            IN Handle([World EXCEPT
                         !.sess[s] = [@ EXCEPT !.tag = @ + 1, !.sn = IF p.imm THEN @ ELSE @ + 1],
                         !.conn[c] = [@ EXCEPT !.todo = @ - 1, !.wire = @ \o <<p>> \o DataOuts(p),
                                               !.open = IF p.how = "noresp" THEN @ ELSE @ \cup {<<p.tag, 1 + p.uns>>}]])

Answered(k, tags) == {o \in k.open : o[1] \notin tags}

\* What the initiator makes of a response: t is sent.
Delivered(k, t) ==
    CASE t = login_tx_task  -> [k EXCEPT !.ini = CASE k.st = "FINAL" -> "full" [] k.st = "EXIT" -> "out" [] OTHER -> "login"]
      [] t = nop_in_task -> k
      [] t = text_tx_task -> [k EXCEPT !.open = Answered(k, {k.t[r].tag : r \in {r \in RxTasks : k.t[r].op = "text"}})]
      [] OTHER      -> [k EXCEPT !.open = Answered(k, {k.t[t].tag}), !.ini = IF k.t[t].op = "logout" THEN "out" ELSE @]

\* The first work request of the send queue is done, or fails.
Complete(c) ==
    LET k == conn[c]
        w == Head(k.sq)
    IN /\ crash = "none" /\ k.sq # << >> /\ k.qp
       /\ \/ Handle(Completion([World EXCEPT !.conn[c] = [IF w[1] = "send" THEN Delivered(k, w[2]) ELSE k
                                                            EXCEPT !.sq = Tail(@)]],
                                Wc(c, w[1], w[2], TRUE, NoPdu)))
          \/ /\ "wc" \in profile.faults
             /\ Handle(Completion([World EXCEPT !.conn[c].sq = Tail(@), !.conn[c].qp = FALSE],
                                  Wc(c, w[1], w[2], FALSE, NoPdu)))

\* A queue pair in error flushes what was posted to it.
FlushSend(c) == /\ crash = "none" /\ ~conn[c].qp /\ conn[c].sq # << >>
                /\ Handle(Completion([World EXCEPT !.conn[c].sq = Tail(@)],
                                     Wc(c, Head(conn[c].sq)[1], Head(conn[c].sq)[2], FALSE, NoPdu)))
FlushRecv(c) == /\ crash = "none" /\ ~conn[c].qp /\ conn[c].rq # << >>
                /\ Handle(Completion([World EXCEPT !.conn[c].rq = Tail(@)], Wc(c, "recv", Head(conn[c].rq), FALSE, NoPdu)))

\* The initiator disconnects: at will, or when its session is over.
PeerDisconnect(c) ==
    /\ crash = "none" /\ conn[c].cm = "up" /\ ("disc" \in profile.faults \/ conn[c].ini = "out")
    /\ Handle([World EXCEPT !.conn[c] = [@ EXCEPT !.cm = "disc", !.qp = FALSE]])

----------------------------------------------------------------------------
\* A connection in the full feature phase, as iser_login_tx_complete leaves it.
full(c) == [conn_init EXCEPT !.st = "FULL", !.phase = "FF", !.ref = profile.tasks + 1, !.inlist = TRUE, !.cm = "up",
                          !.rq = [t \in Posted |-> t], !.nop = nop_in_task, !.ini = "full", !.todo = profile.requests[c]]

\* iser_device_init: the pool of buffers and the completion queue, with interrupts on.
iser_device_init == [free |-> profile.pool, lost |-> 0, wait |-> FALSE, arm |-> 0, armed |-> TRUE, evt |-> FALSE, consume |-> FALSE]

\* The connections of a behaviour are all to come, or all logged in.
Init ==
    /\ mode \in DOMAIN Profiles
    /\ conn = [c \in Conns |-> IF profile.full /\ c \in profile.conns
                               THEN [full(c) EXCEPT !.sid = IF profile.mcs THEN 1 ELSE c] ELSE conn_init]
    /\ sess = [c \in Conns |-> [exp |-> 1, pend |-> << >>, cmds |-> {}, sn |-> 1, tag |-> 1, live |-> profile.full]]
    /\ dev = iser_device_init
    /\ cq = << >> /\ sched = << >> /\ loop = Idle /\ crash = "none"

Loop     == StartSched \/ RunEvent \/ RunPoll \/ AfterPoll
Hardware == \E c \in Conns : Complete(c) \/ FlushSend(c) \/ FlushRecv(c)
CmEvent  == \E c \in Conns : ConnectRequest(c) \/ Established(c) \/ Disconnected(c) \/ TimewaitExit(c)
Peer     == \E c \in Conns : SendLogin(c) \/ SendRequest(c) \/ Deliver(c) \/ PeerDisconnect(c)
Scsi     == \E c \in Conns, t \in RxTasks : ScsiDone(c, t)
Admin    == NopTimer \/ \E c \in Conns : ForceClose(c)

Next == Loop \/ CqEvent \/ Hardware \/ CmEvent \/ Scsi \/ Peer \/ Admin

\* The walk of the events never gets past this one: its link points to itself.
Spinning == loop.at = "run" /\ loop.tev \notin Range(sched) /\ loop.tev # loop.last
Stuck    == crash # "none" \/ Spinning

\* The loop goes on, and what the hardware, the CM and the SCSI layer have begun they
\* finish.  The conditions are the guards of the actions, written out.
Fairness ==
    /\ ([]<>(loop.at = "epoll" /\ sched = << >>)) \/ ([]<><<loop' # loop>>_vars) \/ []<>Stuck
    /\ []<>(~dev.evt \/ Stuck)
    /\ \A c \in Conns :
         /\ ([]<>(conn[c].sq = << >>)) \/ ([]<><<Len(conn'[c].sq) < Len(conn[c].sq)>>_vars) \/ []<>Stuck
         /\ ([]<>(conn[c].rq = << >> \/ conn[c].qp)) \/ ([]<><<Len(conn'[c].rq) < Len(conn[c].rq)>>_vars) \/ []<>Stuck
         /\ ([]<>(conn[c].wire = << >> \/ ~CanArrive(c))) \/ ([]<><<Len(conn'[c].wire) < Len(conn[c].wire)>>_vars)
         /\ []<>(conn[c].cm # "disc" \/ Stuck) /\ []<>(conn[c].cm # "wait" \/ Stuck)
         /\ \A t \in RxTasks : []<>(~conn[c].t[t].busy \/ Stuck)

Spec == Init /\ [][Next]_vars /\ Fairness

----------------------------------------------------------------------------
(* Properties.                                                             *)

Sum(f, S)  == FoldSet(LAMBDA e, n : f[e] + n, 0, S)
Live       == {c \in Conns : conn[c].st \notin {"NONE", "FREED"}}
CqOf(c)    == SelectSeq(cq, LAMBDA w : w.c = c)
Held(c)    == Sum([t \in RxTasks |-> conn[c].t[t].inb + conn[c].t[t].outb], RxTasks)
InScsi(c)  == {t \in RxTasks : conn[c].t[t].scsi /\ conn[c].t[t].op = "cmd"}
Bit(b)     == IF b THEN 1 ELSE 0

\* No task ever waits for a buffer.
Ample      == profile.pool >= 2 * profile.tasks * Cardinality(profile.conns)

TypeOK ==
    /\ mode \in DOMAIN Profiles
    /\ \A c \in Conns : /\ conn[c].st \in {"NONE", "START", "READY", "LOGIN", "FINAL", "FULL", "EXIT", "CLOSE", "FREED"}
                        /\ conn[c].cm \in {"none", "accepted", "up", "disc", "wait", "done"}
                        /\ conn[c].nop \in {0, nop_in_task, text_tx_task}
                        /\ \A l \in Lists \cup {"sent", "rq"} : Range(conn[c][l]) \subseteq Tasks
    /\ Range(sched) \subseteq (Conns \X (Lists \cup {"free"})) \cup {<<0, "poll">>}
    /\ loop.at \in {"epoll", "run", "arm", "consume"}
    /\ dev.free \in 0..profile.pool

\* The reference count of a connection is what is posted for it or completed and not yet
\* polled, its commands in the SCSI layer and the TIMEWAIT_EXIT to come (iser_conn_get,
\* iser_conn_put): a forced close takes one away, a queued task management request keeps one.
RefcountExact ==
    \A c \in Live : crash = "none" =>
        conn[c].ref = Len(conn[c].sq) + Len(conn[c].rq) + Len(CqOf(c)) + Cardinality(InScsi(c)) + conn[c].tm
                      + Bit(conn[c].cm \notin {"none", "done"}) - conn[c].forced

\* In how many places task t of c is: posted or just received, on a list, in the SCSI layer,
\* being answered, or among the Data-Outs of another.
Places(c, t) ==
    LET k == conn[c]
        n(s) == Len(SelectSeq(s, LAMBDA e : e = t))
    IN n(k.rq) + n(k.buf) + n(k.rdma) + n(k.io) + n(k.tx) + n(k.sent) + n(k.recv)
       + Bit(k.t[t].pend) + Bit(k.t[t].busy)
       + Len(SelectSeq(k.sq, LAMBDA e : e = <<"read", t>>))
       + Len(SelectSeq(cq, LAMBDA w : w.c = c /\ w.t = t /\ w.op \in {"recv", "read"}))
       + Cardinality({u \in RxTasks : t \in Range(NewDouts(k.t[u]))})

\* The tasks that a command left on its dout_task_list when it was over.
Lost(c) == UNION {Range(SubSeq(k.douts, 1, k.stale)) : k \in Range(conn[c].t)}

\* Every RDMA buffer is free or held by a task, but for those lost to a command that was too
\* big, and a task that was answered or is posted holds none.  A connection that is freed has
\* given its buffers back, from whichever list, queue or layer its tasks were in.  The code
\* has four exceptions: a write that still awaited Data-Outs, one whose RDMA-Read ended after
\* the close, a read that was waiting for buffers, and a forced close, which frees too early
\* (iser_task_alloc_rdma_bufs, iser_complete_task, iser_conn_close, iser_conn_free).
BuffersHeld ==
    /\ dev.free + dev.lost + Sum([c \in Conns |-> Held(c)], Conns) = profile.pool
    /\ \A c \in Live : \A t \in Range(conn[c].rq) \cup Range(conn[c].recv) :
         t \in RxTasks => conn[c].t[t].inb + conn[c].t[t].outb = 0
    /\ \A c \in Conns, t \in RxTasks :
         conn[c].st = "FREED" /\ conn[c].t[t].inb + conn[c].t[t].outb > 0 =>
             \/ conn[c].t[t].outb = 1 /\ (conn[c].t[t].uns > 0 \/ conn[c].t[t].late)
             \/ t \in Range(conn[c].buf) \/ conn[c].forced > 0

\* A task of an open connection is in one place: posted, completed, waiting, in the SCSI
\* layer, being answered, or with the command whose Data-Out it received.  Only a write that
\* awaits Data-Outs is in none, and two kinds of tasks that are never posted again: the task
\* of a text request, and that of a Data-Out which was the only buffer of its write, one for
\* each such write (iser_scsi_cmd_iosubmit).
TaskOnce ==
    \A c \in Live : conn[c].st = "FULL" /\ crash = "none" =>
        /\ \A t \in Posted :
             \/ Places(c, t) = 1 /\ t \notin Lost(c)
             \/ Places(c, t) = 0 /\ (conn[c].t[t].uns > 0 \/ conn[c].t[t].op = "text" \/ t \in Lost(c))
        /\ Cardinality(Lost(c)) <= conn[c].lone

\* A write goes to the SCSI layer when its RDMA-Read and its Data-Outs are all there,
\* whichever came last (iser_rdma_rd_complete_handler, iser_data_out_rx).
WriteWhole ==
    \A c \in Live, t \in RxTasks :
        conn[c].t[t].busy \/ t \in Range(conn[c].io) => conn[c].t[t].rd = 0 /\ conn[c].t[t].uns = 0

\* A task is pending because the command before it has not come: pending tasks are ahead of
\* the expected CmdSN, in order and marked, and no delivered one is (iser_queue_task).
PendingAhead ==
    \A s \in Conns : sess[s].live /\ crash = "none" =>
        /\ \A i \in DOMAIN sess[s].pend : SnOf(World, sess[s].pend[i]) > sess[s].exp
        /\ \A i \in DOMAIN sess[s].pend : i > 1 => SnOf(World, sess[s].pend[i - 1]) < SnOf(World, sess[s].pend[i])
        /\ \A c \in Live, t \in RxTasks :
             conn[c].sid = s => (conn[c].t[t].pend <=> <<c, t>> \in Range(sess[s].pend))

\* Nothing of a freed connection is left: no command in the SCSI layer, no scheduled event
\* (iser_conn_put, iser_conn_close).
FreedClean ==
    \A c \in Conns : conn[c].st = "FREED" /\ conn[c].forced = 0 /\ Ample =>
        /\ \A t \in RxTasks : ~conn[c].t[t].busy
        /\ \A e \in Range(sched) : e[1] # c

\* Assertions hold, lists stay whole and no freed memory is used.  The code gives five
\* reasons to except: an accept that fails, a forced close, a connection that is lost with
\* others in its session or while tasks wait for buffers, text requests between pings, and
\* a task that is used again with a lost Data-Out on its list.
NoCrash ==
    crash # "none" => \/ crash = "dout" /\ \E c \in Conns : conn[c].lone > 0
                      \/ profile.accept # {"ok"}
                      \/ "force" \in profile.faults
                      \/ "disc" \in profile.faults /\ (profile.mcs \/ ~Ample)
                      \/ profile.nop /\ \E p \in profile.pdus : p.op = "text"

\* Buffers are accounted for at every exit of a task.
BuffersExact == TypeOK /\ BuffersHeld

\* A task is somewhere, once, in CmdSN order and with its data, in all the lists that the
\* completions and the scheduled events move it between.
TasksKept == TaskOnce /\ PendingAhead /\ WriteWhole

\* Memory is freed by the last reference and not before.
FreedOnce == RefcountExact /\ FreedClean /\ NoCrash

\* Tasks that wait for a buffer are started again: of one connection, and not reads.
Restarts == Ample \/ (Cardinality(profile.conns) = 1 /\ \A p \in profile.pdus : p.wr = 0)

\* A connection that is closed and not freed; a queued task management request keeps a
\* reference for ever (iser_conn_put).
Draining(c) == conn[c].st = "CLOSE" /\ conn[c].tm = 0

\* The tasks of an open connection that are never posted again.
Gone(c) == Lost(c) \cup {t \in Posted : conn[c].t[t].op = "text" /\ \A o \in conn[c].open : o[1] # conn[c].t[t].tag}

\* A connection in the full feature phase with a request that is not answered, and with tasks
\* left for all its PDUs.
Waiting(c) == /\ Restarts /\ conn[c].st = "FULL" /\ conn[c].open # {}
              /\ Outstanding(c) + Cardinality(Gone(c)) <= profile.tasks

\* The event loop gets every request and every connection to its end, unless the walk of
\* tgt_exec_scheduled never ends: a request is answered or its connection is closed, as long
\* as the receive tasks that are left suffice for it, and a closed connection is freed by its
\* last reference.  No wakeup is lost between the
\* completion queue, the scheduled events and the tasks that wait for a buffer
\* (iser_poll_cq_armable, iser_rearm_completions, iser_sched_consume_cq).
Progress ==
    (\E c \in Conns : Draining(c) \/ Waiting(c)) ~>
        (Stuck \/ \A c \in Conns : ~Draining(c) /\ ~Waiting(c))
=============================================================================
