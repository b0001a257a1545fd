---------------------------- MODULE IscsiSession ----------------------------
(***************************************************************************)
(* The full feature phase of one iSCSI session over TCP: iscsid.c from     *)
(* iscsi_rx_handler down to iscsi_tx_handler, and conn_close.              *)
(*                                                                         *)
(* PDUs of one connection arrive in order, the connections of a session    *)
(* race one another.  A request is ordered by its CmdSN (session->         *)
(* exp_cmd_sn, pending_cmd_list), a write collects its immediate,          *)
(* unsolicited and solicited data (r2t_count, unsol_count), an answer      *)
(* waits in conn->tx_clist until EPOLLOUT is armed and the socket is       *)
(* writable.  A PDU takes two steps on either side, its header and its     *)
(* end, and the connection may go away in between.                         *)
(*                                                                         *)
(* The SCSI layer is a set of commands that end in any order (its own      *)
(* queueing is module CmdQueue).  Data is counted in units: one unit is    *)
(* what one Data-In or Data-Out PDU carries.  The initiator is well        *)
(* behaved: CmdSNs in sequence over any of its connections, a request of   *)
(* a lost connection sent again with its old CmdSN, the F bit on the last  *)
(* unsolicited PDU and on the last one of each R2T.                        *)
(***************************************************************************)
EXTENDS Integers, Sequences, FiniteSets, SequencesExt

CONSTANTS Requests,    \* the most requests an initiator sends
          NConns,      \* the connections of the session are 1..NConns
          Profiles,    \* what an initiator does: [kinds, requests, conns, r2t, pings]
          SnModulus,   \* 2^32 in the code: CmdSNs count modulo this
          StartSn,     \* CmdSN of the first request (exp_cmd_sn at login)
          Units,       \* units of data of a read or a write
          MaxBurst,    \* units one R2T asks for
          None

ASSUME SessionAssumption ==
    /\ Requests \in Nat /\ Units \in Nat \ {0} /\ MaxBurst \in Nat \ {0}
    /\ SnModulus \in Nat /\ SnModulus % 2 = 0 /\ SnModulus > 2 * Requests
    /\ StartSn \in 0..(SnModulus - 1) /\ NConns \in Nat \ {0}
    /\ \A p \in Profiles : p.requests <= Requests /\ p.r2t \in BOOLEAN /\ p.pings \in BOOLEAN

VARIABLES
    profile,     \* the initiator of this behaviour; r2t is the negotiated InitialR2T
    task,        \* request -> its header and the counters of its struct iscsi_task
    live,        \* requests whose task is allocated (the conn->task_list of all)
    flagged,     \* requests whose TASK_in_scsi flag is set
    scsi,        \* requests inside the SCSI layer
    pending,     \* session->pending_cmd_list
    exp_cmd_sn,  \* session->exp_cmd_sn
    conn,        \* connection -> "SCSI", "CLOSE" (closed, references left), "GONE"
    rx_task,     \* connection -> the PDU being received, or None
    tx_task,     \* connection -> the PDU being sent, or None
    tx_clist,    \* connection -> queue of requests to answer, 0 for a NOP-In ping
    armed,       \* connection -> is EPOLLOUT armed?
    stat_sn,     \* connection -> statuses numbered so far (conn->stat_sn)
    stalled,     \* connection -> disarmed by a ping reply with answers still queued
    next_sn,     \* initiator: its next CmdSN
    chan,        \* initiator: connection -> requests sent and not yet received
    owed,        \* initiator: request -> units an R2T asks for and not yet sent
    unsent,      \* initiator: request -> unsolicited units not yet sent
    pinged,      \* initiator: connections with a ping to answer
    got,         \* history: request -> units of its data that are in the buffer
    sent,        \* history: request -> units of Data-In the initiator has
    order,       \* history: CmdSNs of the non-immediate requests, as executed
    answers,     \* history: request -> statuses the initiator has
    refused,     \* history: requests the SCSI layer would not take
    crashed      \* a task was freed or queued twice, or used after it was freed

rest == <<next_sn, chan, owed, unsent, pinged, profile>>
hist == <<got, sent, answers, stat_sn>>
vars == <<task, live, flagged, scsi, pending, exp_cmd_sn, conn, rx_task, tx_task, tx_clist,
          armed, stalled, rest, hist, order, refused, crashed>>

Reqs  == 1..Requests
Conns == 1..NConns
initial_r2t == profile.r2t

NoTask == [kind |-> "none", conn |-> None, imm |-> FALSE, sn |-> 0, first |-> 0,
           r2t_count |-> 0, unsol_count |-> FALSE, offset |-> 0, xfer |-> 0, good |-> TRUE]

Init ==
    /\ profile \in Profiles
    /\ task = [k \in Reqs |-> NoTask]
    /\ live = {} /\ flagged = {} /\ scsi = {} /\ refused = {} /\ pinged = {}
    /\ pending = << >> /\ order = << >> /\ crashed = FALSE
    /\ exp_cmd_sn = StartSn /\ next_sn = StartSn
    /\ conn = [c \in Conns |-> "SCSI"]
    /\ rx_task = [c \in Conns |-> None] /\ tx_task = [c \in Conns |-> None]
    /\ tx_clist = [c \in Conns |-> << >>] /\ chan = [c \in Conns |-> << >>]
    /\ armed = [c \in Conns |-> FALSE] /\ stalled = [c \in Conns |-> FALSE]
    /\ stat_sn = [c \in Conns |-> 0]
    /\ owed = [k \in Reqs |-> 0] /\ unsent = [k \in Reqs |-> 0]
    /\ got = [k \in Reqs |-> 0] /\ sent = [k \in Reqs |-> 0] /\ answers = [k \in Reqs |-> 0]

Reads(k)  == task[k].kind \in {"read", "bidi"}
Writes(k) == task[k].kind \in {"write", "bidi"}
IsScsi(k) == task[k].kind \in {"nodata", "read", "write", "bidi"}
Open(c)   == ~crashed /\ conn[c] = "SCSI"

----------------------------------------------------------------------------
(* The initiator.                                                          *)

\* The next request goes out on connection c with `first' units of immediate data and
\* `more' units of unsolicited data to follow.
Send(c, kind, imm, sn, first, more) ==
    LET k == Cardinality({j \in Reqs : task[j].conn # None}) + 1 IN
    /\ k <= profile.requests
    /\ c = 1 \/ \E j \in Reqs : task[j].conn = c - 1    \* connections are alike
    /\ task' = [task EXCEPT ![k] = [NoTask EXCEPT !.kind = kind, !.conn = c, !.imm = imm,
                                                  !.sn = sn, !.first = first]]
    /\ unsent' = [unsent EXCEPT ![k] = more]
    /\ chan' = [chan EXCEPT ![c] = Append(@, k)]
    /\ UNCHANGED <<live, flagged, scsi, pending, exp_cmd_sn, conn, rx_task, tx_task, tx_clist,
                   armed, stalled, owed, profile, hist, order, refused, crashed>>

Issue(c, kind, imm, first, more) ==
    /\ kind \in {"write", "bidi"} \/ first + more = 0
    /\ first + more <= Units /\ (initial_r2t => more = 0)
    /\ kind = "ping" => imm /\ c \in pinged
    /\ Send(c, kind, imm, next_sn, first, more)
    /\ next_sn' = IF imm THEN next_sn ELSE (next_sn + 1) % SnModulus
    /\ pinged' = IF kind = "ping" THEN pinged \ {c} ELSE pinged

\* A request whose connection is gone is sent again on another one.
Resend(c, j) ==
    /\ task[j].conn # None /\ conn[task[j].conn] # "SCSI"
    /\ ~task[j].imm /\ answers[j] = 0 /\ \A i \in Reqs \ {j} : task[i].sn = task[j].sn => task[i].imm
    /\ Send(c, task[j].kind, FALSE, task[j].sn, 0, 0)
    /\ UNCHANGED <<next_sn, pinged>>

----------------------------------------------------------------------------
(* Freeing tasks and connections.                                          *)

\* iscsi_free_task of every request of ks; conn_put releases a closed connection
\* with its last task.
Free(ks, closing) ==
    /\ live' = live \ ks /\ flagged' = flagged \ ks
    /\ conn' = [c \in Conns |->
                  CASE conn[c] = "GONE" -> "GONE"
                    [] conn[c] = "SCSI" /\ c \notin closing -> "SCSI"
                    [] OTHER -> IF \E k \in live \ ks : task[k].conn = c THEN "CLOSE" ELSE "GONE"]

\* The tasks of a connection that are left in task_list and not in the SCSI layer:
\* they wait for Data-Out PDUs.
Others(c) == {k \in live : task[k].conn = c} \ flagged

\* conn_close: the pending tasks of the connection, the one being sent and the
\* queued ones, the one being received (rxk), and the others that are not in the
\* SCSI layer.  A task found twice is freed twice.
conn_close(c, rxk) ==
    LET pend == {k \in ToSet(pending) : task[k].conn = c}
        txk  == (ToSet(tx_clist[c]) \cup {tx_task[c].req : x \in {tx_task[c]} \ {None}}) \ {0}
    IN  /\ pending' = SelectSeq(pending, LAMBDA k : task[k].conn # c)
        /\ crashed' = (rxk \cap (pend \cup txk \cup scsi) # {} \/ ~(rxk \subseteq live))
        /\ Free(pend \cup txk \cup rxk \cup Others(c), {c})
        /\ rx_task' = [rx_task EXCEPT ![c] = None]
        /\ tx_task' = [tx_task EXCEPT ![c] = None]
        /\ tx_clist' = [tx_clist EXCEPT ![c] = << >>]
        /\ armed' = [armed EXCEPT ![c] = FALSE]
        /\ stalled' = [stalled EXCEPT ![c] = FALSE]
        /\ chan' = [chan EXCEPT ![c] = << >>]
        /\ pinged' = pinged \ {c}
        /\ UNCHANGED <<task, scsi, exp_cmd_sn, next_sn, owed, unsent, profile, hist, order>>

\* The peer closes, a digest is wrong, the administrator or the keep-alive timer
\* gives up: STATE_CLOSE, and conn_close from the event handler.
Lost(c) ==
    /\ Open(c)
    /\ conn_close(c, {rx_task[c].req : x \in {rx_task[c]} \ {None}})
    /\ UNCHANGED refused

----------------------------------------------------------------------------
(* Receiving.                                                              *)

Before(a, b) == (a - b) % SnModulus >= SnModulus \div 2

\* iscsi_scsi_cmd_rx_start: a write starts to count what is missing.
iscsi_scsi_cmd_rx_start(k) ==
    [task EXCEPT ![k].r2t_count = IF Writes(k) THEN Units - task[k].first ELSE 0,
                 ![k].unsol_count = (unsent[k] > 0)]

\* iscsi_task_rx_start for a request: its task is allocated.
iscsi_task_rx_start(c) ==
    LET k == Head(chan[c]) IN
    /\ Open(c) /\ rx_task[c] = None /\ chan[c] # << >>
    /\ chan' = [chan EXCEPT ![c] = Tail(@)]
    /\ live' = live \cup {k}
    /\ rx_task' = [rx_task EXCEPT ![c] = [pdu |-> "request", req |-> k, final |-> TRUE]]
    /\ task' = iscsi_scsi_cmd_rx_start(k)
    /\ UNCHANGED <<flagged, scsi, pending, exp_cmd_sn, conn, tx_task, tx_clist, armed, stalled,
                   next_sn, owed, unsent, pinged, profile, hist, order, refused, crashed>>

\* iscsi_data_out_rx_start: the counters move when the header is read.
iscsi_data_out_rx_start(c, k) ==
    /\ Open(c) /\ rx_task[c] = None
    /\ k \in live /\ task[k].conn = c /\ owed[k] + unsent[k] > 0
    /\ task' = [task EXCEPT ![k].r2t_count = @ - 1]
    /\ IF unsent[k] > 0
       THEN /\ unsent' = [unsent EXCEPT ![k] = @ - 1] /\ UNCHANGED owed
            /\ rx_task' = [rx_task EXCEPT ![c] = [pdu |-> "unsolicited", req |-> k,
                                                  final |-> unsent[k] = 1]]
       ELSE /\ owed' = [owed EXCEPT ![k] = @ - 1] /\ UNCHANGED unsent
            /\ rx_task' = [rx_task EXCEPT ![c] = [pdu |-> "solicited", req |-> k,
                                                  final |-> owed[k] = 1]]
    /\ UNCHANGED <<live, flagged, scsi, pending, exp_cmd_sn, conn, tx_task, tx_clist, armed,
                   stalled, next_sn, chan, pinged, profile, hist, order, refused, crashed>>

\* What iscsi_task_execute does with a request: answer it, ask for data, wait for
\* unsolicited data, or hand it to the SCSI layer.
ToTx(k)   == \/ task[k].kind \in {"nop", "ping", "logout", "badtm"}
             \/ Writes(k) /\ task[k].r2t_count > 0 /\ ~task[k].unsol_count
\* Mutant: a write does not wait for its data.
ToScsi_eager(k) == task[k].kind = "tm" \/ IsScsi(k)

ToScsi(k) == task[k].kind = "tm" \/ (IsScsi(k) /\ ~(Writes(k) /\ task[k].r2t_count > 0))

\* iscsi_target_cmd_queue, iscsi_tm_execute: the SCSI layer takes acc of ks and
\* refuses the other commands (target not ready, no nexus, a bad extended CDB).
iscsi_target_cmd_queue(ks, acc) ==
    /\ {k \in ks : task[k].kind = "tm"} \subseteq acc /\ acc \subseteq ks
    /\ crashed' = (acc \cap flagged # {})
    /\ flagged' = flagged \cup acc
    /\ scsi' = scsi \cup acc
    /\ refused' = refused \cup (ks \ acc)

\* iscsi_task_execute of a sequence of requests, of which the SCSI layer takes acc.
iscsi_task_execute(run, acc) ==
    LET ks == ToSet(run)
        on(c) == SelectSeq(run, LAMBDA k : task[k].conn = c /\ ToTx(k))
    IN  /\ iscsi_target_cmd_queue({k \in ks : ToScsi(k)}, acc)
        /\ tx_clist' = [c \in Conns |-> tx_clist[c] \o on(c)]
        /\ armed' = [c \in Conns |-> armed[c] \/ \E k \in ks : task[k].conn = c
                                                             /\ task[k].kind # "tm"]
        /\ stalled' = [c \in Conns |-> stalled[c] /\ ~armed'[c]]

\* Mutant: the whole pending list is released.
Released_all(sn) == Len(pending)

\* How many requests at the head of the pending list follow CmdSN sn without a gap.
Released(sn) ==
    CHOOSE n \in 0..Len(pending) :
        /\ \A i \in 1..n : task[pending[i]].sn = (sn + i) % SnModulus
        /\ n < Len(pending) => task[pending[n + 1]].sn # (sn + n + 1) % SnModulus

\* Where an early request goes: before the first one that follows it.
Insert(k) ==
    LET later == {i \in DOMAIN pending : Before(task[k].sn, task[pending[i]].sn)}
    IN  IF later = {} THEN Append(pending, k)
        ELSE InsertAt(pending, CHOOSE i \in later : \A j \in later : i <= j, k)

\* exp_cmd_sn after n requests from sn on.
NextSn(sn, n) == (sn + n) % SnModulus

RxEnds(c) == rx_task' = [rx_task EXCEPT ![c] = None]

\* iscsi_task_queue: a request in sequence is executed with the pending ones it
\* releases, an early one waits, an old one closes the connection.
iscsi_task_queue(c, acc) ==
    LET k    == rx_task[c].req
        sn   == task[k].sn
        n    == Released(sn)
        batch == <<k>> \o SubSeq(pending, 1, n)
    IN  /\ Open(c) /\ rx_task[c] # None /\ rx_task[c].pdu = "request"
        /\ \/ /\ task[k].imm
              /\ iscsi_task_execute(<<k>>, acc)
              /\ UNCHANGED <<pending, exp_cmd_sn, order>>
           \/ /\ ~task[k].imm /\ sn = exp_cmd_sn
              /\ exp_cmd_sn' = NextSn(sn, n + 1)
              /\ pending' = SubSeq(pending, n + 1, Len(pending))
              /\ iscsi_task_execute(batch, acc)
              /\ order' = order \o [i \in 1..(n + 1) |-> task[batch[i]].sn]
           \/ /\ ~task[k].imm /\ sn # exp_cmd_sn /\ ~Before(sn, exp_cmd_sn) /\ acc = {}
              /\ pending' = Insert(k)
              /\ UNCHANGED <<flagged, scsi, exp_cmd_sn, tx_clist, armed, stalled, order,
                             refused, crashed>>
        /\ got' = [got EXCEPT ![k] = task[k].first]
        /\ RxEnds(c)
        /\ UNCHANGED <<task, live, conn, tx_task, rest, sent, answers, stat_sn>>

iscsi_task_queue_old(c) ==
    /\ Open(c) /\ rx_task[c] # None /\ rx_task[c].pdu = "request"
    /\ ~task[rx_task[c].req].imm /\ Before(task[rx_task[c].req].sn, exp_cmd_sn)
    /\ conn_close(c, {})
    /\ UNCHANGED refused

MoreToAsk_never(k) == FALSE     \* mutant: one R2T per write
MoreToAsk(k) == task[k].r2t_count > 0

\* iscsi_data_out_rx_done: the last PDU of a burst executes the write, unless it
\* is unsolicited data of a pending one.
iscsi_data_out_rx_done(c) ==
    LET k    == rx_task[c].req
        pdu  == rx_task[c].pdu
        last == rx_task[c].final /\ (pdu = "solicited" \/ k \notin ToSet(pending))
        ask  == last /\ MoreToAsk(k)
        run  == last /\ task[k].r2t_count = 0
    IN  /\ Open(c) /\ rx_task[c] # None /\ pdu # "request"
        /\ got' = [got EXCEPT ![k] = @ + 1]
        /\ task' = [task EXCEPT ![k].unsol_count = @ /\ ~(pdu = "unsolicited" /\ rx_task[c].final)]
        /\ tx_clist' = IF ask THEN [tx_clist EXCEPT ![c] = Append(@, k)] ELSE tx_clist
        /\ crashed' = ((run /\ k \in flagged) \/ k \notin live)
        /\ flagged' = IF run THEN flagged \cup {k} ELSE flagged
        /\ scsi' = IF run THEN scsi \cup {k} ELSE scsi
        /\ armed' = [armed EXCEPT ![c] = @ \/ last]
        /\ stalled' = [stalled EXCEPT ![c] = @ /\ ~last]
        /\ RxEnds(c)
        /\ UNCHANGED <<live, pending, exp_cmd_sn, conn, tx_task, rest, sent, answers, stat_sn,
                       order, refused>>

\* ... and an error of the SCSI layer closes the connection.
DataOutRefused(c) ==
    LET k == rx_task[c].req IN
    /\ Open(c) /\ rx_task[c] # None /\ rx_task[c].pdu # "request" /\ rx_task[c].final
    /\ k \notin ToSet(pending) /\ task[k].r2t_count = 0 /\ k \in live \ flagged
    /\ conn_close(c, {})
    /\ refused' = refused \cup {k}

----------------------------------------------------------------------------
(* Completion and sending.                                                 *)

Enqueue(c, k) ==
    /\ tx_clist' = [tx_clist EXCEPT ![c] = Append(@, k)]
    /\ armed' = [armed EXCEPT ![c] = TRUE]
    /\ stalled' = [stalled EXCEPT ![c] = FALSE]

\* iscsi_scsi_cmd_done, iscsi_tm_done: the answer is queued, or the task of a
\* closed connection freed.
iscsi_scsi_cmd_done(k, good, xfer) ==
    LET c == task[k].conn IN
    /\ ~crashed /\ k \in scsi
    /\ scsi' = scsi \ {k}
    /\ Reads(k) \/ (good /\ xfer = 0)          \* told apart for reads only
    /\ task' = [task EXCEPT ![k].good = good, ![k].xfer = xfer, ![k].offset = 0]
    /\ IF conn[c] = "SCSI"
       THEN Enqueue(c, k) /\ UNCHANGED <<live, flagged, conn>>
       ELSE Free({k}, {}) /\ UNCHANGED <<tx_clist, armed, stalled>>
    /\ UNCHANGED <<pending, exp_cmd_sn, rx_task, tx_task, rest, hist, order, refused, crashed>>

\* The queue with a ping at its end; pings that queue up are one ping here.
PingQueue(q) == IF 0 \in ToSet(q) THEN q ELSE Append(q, 0)
PingArms_empty(c) == armed[c] \/ tx_clist[c] = << >>     \* mutant: only an empty queue is armed
PingArms(c) == TRUE

\* iscsi_send_ping_nop_in, from the keep-alive timer.
iscsi_send_ping_nop_in(c) ==
    /\ Open(c) /\ profile.pings /\ c <= profile.conns
    /\ tx_clist' = [tx_clist EXCEPT ![c] = PingQueue(@)]
    /\ armed' = [armed EXCEPT ![c] = PingArms(c)]
    /\ stalled' = [stalled EXCEPT ![c] = @ /\ ~PingArms(c)]
    /\ UNCHANGED <<task, live, flagged, scsi, pending, exp_cmd_sn, conn, rx_task, tx_task,
                   rest, hist, order, refused, crashed>>

\* The PDU iscsi_task_tx_start builds for the head of the queue.
Pdu(k) ==
    CASE k = 0 -> "nopin"
      [] k # 0 /\ ~IsScsi(k) -> "answer"
      [] k # 0 /\ Writes(k) /\ task[k].r2t_count > 0 -> "r2t"
      [] k # 0 /\ Reads(k) /\ ~(Writes(k) /\ task[k].r2t_count > 0)
              /\ task[k].offset < task[k].xfer -> "datain"
      [] OTHER -> "answer"

\* Status goes with the last Data-In PDU of a good read (iscsi_data_rsp_build);
\* a bidirectional command or one with sense gets a response of its own.
Collapsed(k, offset) == task[k].good /\ offset = task[k].xfer /\ task[k].kind # "bidi"

\* The PDUs that carry a status and advance StatSN: responses to commands, NOP-Out,
\* task management and logout; not R2Ts, pings and the other Data-In PDUs.
WithStatus(pdu, k, offset) == pdu = "answer" \/ (pdu = "datain" /\ Collapsed(k, offset))

StatSnAdvances(k) == WithStatus(Pdu(k), k, IF k = 0 THEN 0 ELSE task[k].offset + 1)

\* iscsi_task_tx_start: nothing to send disarms EPOLLOUT; so does a ping reply,
\* which is consumed here, whatever is queued behind it.
iscsi_task_tx_start(c) ==
    /\ Open(c) /\ armed[c] /\ tx_task[c] = None
    /\ IF tx_clist[c] = << >>
       THEN /\ armed' = [armed EXCEPT ![c] = FALSE]
            /\ UNCHANGED <<task, live, flagged, conn, tx_task, tx_clist, stalled, stat_sn>>
       ELSE LET k == Head(tx_clist[c]) IN
            /\ tx_clist' = [tx_clist EXCEPT ![c] = Tail(@)]
            /\ IF k # 0 /\ task[k].kind = "ping"
               THEN /\ Free({k}, {})
                    /\ armed' = [armed EXCEPT ![c] = FALSE]
                    /\ stalled' = [stalled EXCEPT ![c] = (Tail(tx_clist[c]) # << >>)]
                    /\ UNCHANGED <<task, tx_task, stat_sn>>
               ELSE /\ tx_task' = [tx_task EXCEPT ![c] = [pdu |-> Pdu(k), req |-> k]]
                    /\ task' = IF Pdu(k) = "datain" THEN [task EXCEPT ![k].offset = @ + 1]
                               ELSE task
                    /\ stat_sn' = [stat_sn EXCEPT ![c] =
                                     @ + IF StatSnAdvances(k) THEN 1 ELSE 0]
                    /\ UNCHANGED <<live, flagged, conn, armed, stalled>>
    /\ UNCHANGED <<scsi, pending, exp_cmd_sn, rx_task, rest, got, sent, answers, order, refused,
                   crashed>>

\* What an R2T asks for (iscsi_r2t_build).
R2tLength(k) == IF task[k].r2t_count < MaxBurst THEN task[k].r2t_count ELSE MaxBurst

\* iscsi_task_tx_done for everything but a logout.
iscsi_task_tx_done(c) ==
    LET k == tx_task[c].req
        pdu == tx_task[c].pdu
    IN  /\ Open(c) /\ armed[c] /\ tx_task[c] # None
        /\ k # 0 => task[k].kind # "logout"
        /\ tx_task' = [tx_task EXCEPT ![c] = None]
        /\ pinged' = IF k = 0 THEN pinged \cup {c} ELSE pinged
        /\ owed' = IF pdu = "r2t"
                   THEN [owed EXCEPT ![k] = R2tLength(k)]
                   ELSE owed
        /\ sent' = IF pdu = "datain" THEN [sent EXCEPT ![k] = @ + 1] ELSE sent
        /\ tx_clist' = IF pdu = "datain" /\ ~Collapsed(k, task[k].offset)
                       THEN [tx_clist EXCEPT ![c] = <<k>> \o @] ELSE tx_clist
        /\ IF k # 0 /\ WithStatus(pdu, k, task[k].offset)
           THEN Free({k}, {}) /\ answers' = [answers EXCEPT ![k] = @ + 1]
           ELSE UNCHANGED <<live, flagged, conn, answers>>
        /\ UNCHANGED <<task, scsi, pending, exp_cmd_sn, rx_task, armed, stalled, next_sn, chan,
                       unsent, profile, got, stat_sn, order, refused, crashed>>

\* ... and for a logout, which ends the connection.
LogoutDone(c) ==
    /\ Open(c) /\ armed[c] /\ tx_task[c] # None
    /\ tx_task[c].req # 0 /\ task[tx_task[c].req].kind = "logout"
    /\ conn_close(c, {rx_task[c].req : x \in {rx_task[c]} \ {None}})
    /\ UNCHANGED refused

----------------------------------------------------------------------------
Initiator ==
    \E c \in Conns :
        /\ Open(c) /\ c <= profile.conns
        /\ \/ \E kind \in profile.kinds, imm \in BOOLEAN, first, more \in 0..1 :
                 Issue(c, kind, imm, first, more)
           \/ \E j \in Reqs : Resend(c, j)

Receive(c) ==
    \/ iscsi_task_rx_start(c)
    \/ rx_task[c] # None /\ \E acc \in SUBSET live : iscsi_task_queue(c, acc)
    \/ iscsi_task_queue_old(c)
    \/ iscsi_data_out_rx_done(c)
    \/ DataOutRefused(c)

SendAnswers(c) == iscsi_task_tx_start(c) \/ iscsi_task_tx_done(c) \/ LogoutDone(c)

Complete(k) == \E good \in BOOLEAN, xfer \in {0, Units} : iscsi_scsi_cmd_done(k, good, xfer)

Next ==
    \/ Initiator
    \/ \E c \in Conns : Receive(c) \/ SendAnswers(c) \/ iscsi_send_ping_nop_in(c) \/ Lost(c)
    \/ \E c \in Conns, k \in Reqs : iscsi_data_out_rx_start(c, k)
    \/ \E k \in Reqs : Complete(k)

\* The event loop serves a connection that has work, the SCSI layer ends what it
\* took, the initiator sends the data it owes, the keep-alive timer keeps ticking.
Fairness ==
    /\ \A c \in Conns : WF_vars(Receive(c)) /\ WF_vars(SendAnswers(c))
                        /\ WF_vars(iscsi_send_ping_nop_in(c))
    /\ WF_vars(\E c \in Conns, k \in Reqs : iscsi_data_out_rx_start(c, k))
    /\ WF_vars(\E k \in Reqs : Complete(k))

Spec == Init /\ [][Next]_vars /\ Fairness

----------------------------------------------------------------------------
(* Properties.                                                             *)

TypeOK ==
    /\ live \subseteq Reqs /\ (~crashed => scsi \subseteq flagged /\ flagged \subseteq live)
    /\ ToSet(pending) \subseteq live
    /\ exp_cmd_sn \in 0..(SnModulus - 1) /\ next_sn \in 0..(SnModulus - 1)
    /\ conn \in [Conns -> {"SCSI", "CLOSE", "GONE"}]
    /\ armed \in [Conns -> BOOLEAN] /\ stalled \in [Conns -> BOOLEAN]
    /\ \A k \in Reqs : task[k].r2t_count \in 0..Units /\ task[k].offset \in 0..Units

\* iscsi_task_queue executes the non-immediate requests in CmdSN order without a
\* gap or a repetition, over all connections and across the wrap of the counter.
InCmdSnOrder == \A i \in DOMAIN order : order[i] = (StartSn + i - 1) % SnModulus

\* The requests are spread over several connections of the session.
MultiConn == \E j, k \in Reqs : task[j].conn # None /\ task[k].conn # None
                              /\ task[j].conn # task[k].conn

\* With InitialR2T=Yes, or on a session of one connection, no task is freed or
\* queued twice or used after it was freed, by conn_close or a
\* Data-Out PDU.  (With unsolicited data and two connections both can happen: rx_task
\* may be a pending task.)
TaskOnce == crashed => ~initial_r2t /\ MultiConn

\* A write reaches the SCSI layer only when all its data is in the buffer, although
\* r2t_count is lowered when the header of a Data-Out PDU is read (same exception).
WriteWhole ==
    ~(~initial_r2t /\ MultiConn) => \A k \in scsi : Writes(k) => got[k] = Units

\* An R2T is outstanding for exactly the data that is missing: never more is asked
\* for than the buffer of the task can take.
DataWithinBuffer ==
    ~crashed => \A k \in Reqs : got[k] + owed[k] + unsent[k] <= Units

\* Every task is where somebody will find it: being received, pending, queued or
\* being sent, in the SCSI layer, or waiting for data the initiator still owes.  The
\* exception is a command the SCSI layer refused when its request arrived:
\* iscsi_task_execute drops that error, and the task waits for conn_close.
NoTaskLost ==
    ~crashed => \A k \in live \ refused :
        LET c == task[k].conn IN
        \/ k \in scsi \/ k \in ToSet(pending) \/ k \in ToSet(tx_clist[c])
        \/ rx_task[c] # None /\ rx_task[c].req = k
        \/ tx_task[c] # None /\ tx_task[c].req = k
        \/ owed[k] + unsent[k] > 0

\* After conn_close only the tasks the SCSI layer still holds keep the connection.
CloseFreesAll ==
    \A k \in live : conn[task[k].conn] # "SCSI" => k \in scsi

\* The initiator gets one status per request, and before it all the data.
AnsweredOnce ==
    \A k \in Reqs : /\ answers[k] <= 1
                    /\ answers[k] = 1 /\ Reads(k) => sent[k] = task[k].xfer

\* StatSN numbers the statuses of a connection without a gap: it counts the ones the
\* initiator has and the one on its way.
StatSnExact ==
    \A c \in Conns : conn[c] = "SCSI" =>
        stat_sn[c] = Cardinality({k \in Reqs : task[k].conn = c /\ answers[k] = 1})
                     + (IF tx_task[c] # None /\ tx_task[c].req # 0
                           /\ WithStatus(tx_task[c].pdu, tx_task[c].req, task[tx_task[c].req].offset)
                        THEN 1 ELSE 0)

\* No task is lost or used twice, from its header to its last PDU or to the
\* conn_close that frees it (iscsi_task_queue, iscsi_task_rx_done, conn_close).
TasksKept == TypeOK /\ TaskOnce /\ NoTaskLost /\ CloseFreesAll

\* Data and statuses are whole: all of a write is there before it is executed, no
\* R2T asks for more than the buffer takes, and a read's data, its one status and
\* its StatSN agree (iscsi_data_rsp_build, iscsi_r2t_build, iscsi_data_out_rx_done).
TransfersWhole == WriteWhole /\ DataWithinBuffer /\ AnsweredOnce /\ StatSnExact

\* Every request that was received is answered, if the session keeps all its
\* connections and the SCSI layer takes it: no answer stays queued for ever, and when
\* the initiator has sent its last request no task is left.
Answered ==
    ~(live \subseteq refused) ~>
        \/ live \subseteq refused \/ crashed
        \/ \E c \in Conns : conn[c] # "SCSI"
        \/ pending # << >>
=============================================================================
