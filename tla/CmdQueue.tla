------------------------------ MODULE CmdQueue ------------------------------
(***************************************************************************)
(* The task set of one logical unit: the command queue of usr/target.c     *)
(* with its SIMPLE, ORDERED and HEAD OF QUEUE rules, task management, and   *)
(* the life of an iSCSI task around it (usr/iscsi/iscsid.c, conn.c).        *)
(*                                                                         *)
(* tgtd is single threaded, but its completion path re-enters itself:      *)
(* post_cmd_done performs a queued command, a command that completes at    *)
(* once on a closed connection is freed on the spot, and freeing it runs   *)
(* __cmd_done and so post_cmd_done again, inside the first walk of the     *)
(* queue.  The variable calls is that C call stack, top first; while it is  *)
(* not empty only its top frame can move.                                   *)
(***************************************************************************)
EXTENDS Integers, Sequences, FiniteSets

CONSTANTS
    Cmds,       \* the scsi_cmd / iscsi_task objects of SCSI commands
    Mreqs,      \* the mgmt_req objects (and the iSCSI tasks that carry them)
    Nexuses,    \* I_T nexuses; each session has one connection
    Attrs,      \* task attributes the initiators use, subset of the three
    Functions,  \* task management functions the initiators use
    None        \* the NULL pointer

ASSUME AttrsAssumption == Attrs \subseteq {"SIMPLE", "ORDERED", "HEAD"}
ASSUME FunctionsAssumption ==
    Functions \subseteq {"ABORT_TASK", "ABORT_TASK_SET", "LOGICAL_UNIT_RESET"}
ASSUME NoneAssumption == None \notin Cmds \cup Mreqs \cup Nexuses
ASSUME CmdsFinite == IsFiniteSet(Cmds)
ASSUME MreqsFinite == IsFiniteSet(Mreqs)

VARIABLES
    \* iSCSI tasks and scsi_cmd objects
    alive,      \* allocated tasks
    itn,        \* cmd_itn_id of a command
    attr,       \* attribute of a command
    processed,  \* commands with the PROCESSED bit
    aborted,    \* commands whose result is TASK_ABORTED
    mreq,       \* cmd->mreq
    \* the lists a command can be on
    hlist,      \* it_nexus.cmd_list, of all nexuses
    queue,      \* tgt_cmd_queue.queue
    io,         \* commands the backing store works on
    tx,         \* iscsi_connection.tx_clist, of all connections
    \* tgt_cmd_queue
    active,     \* active_cmd
    blocked,    \* state bit TGT_QUEUE_BLOCKED
    \* task management requests, connections, nexuses
    tmState,    \* of a request's task: "free", "busy", or "tx" for on tx_clist
    tmItn,      \* the nexus of a request's task
    function,   \* mgmt_req.function
    busy,       \* mgmt_req.busy
    result,     \* mgmt_req.result
    conn,       \* connection state of a nexus
    refcount,   \* iscsi_connection.refcount
    nexus,      \* target->it_nexus_list
    \* control
    calls,      \* the call stack, top first
    daemon      \* "up", or "crashed" by an access through a NULL pointer

cmdVars  == <<alive, itn, attr, processed, aborted, mreq>>
listVars == <<hlist, queue, io, tx>>
qVars    == <<active, blocked>>
tm       == <<tmState, tmItn, function, busy, result>>
connVars == <<conn, refcount, nexus>>
vars == <<cmdVars, listVars, qVars, tm, connVars, calls, daemon>>

-----------------------------------------------------------------------------
\* A frame of the stack: the function, and the command, request, nexus or set
\* of commands that are its live locals.
Frame(fn, c, m, i, todo) ==
    [fn |-> fn, cmd |-> c, mreq |-> m, itn |-> i, todo |-> todo]

PostFrame(c) == Frame("post_cmd_done", c, None, None, {})
FreeFrame(c) == Frame("iscsi_free_task", c, None, None, {})

IoDoneFrame(c) == Frame("target_cmd_io_done", c, None, None, {})

AbortFrame(m, todo) == Frame("abort_task_set", None, m, None, todo)

FrameNames == {"post_cmd_done", "iscsi_free_task", "abort_task_set",
               "target_cmd_io_done", "conn_close"}

Frames ==
    {f \in [fn : FrameNames, cmd : Cmds \cup {None}, mreq : Mreqs \cup {None},
            itn : Nexuses \cup {None}, todo : SUBSET Cmds] :
        /\ f.fn \in {"iscsi_free_task", "target_cmd_io_done"} => f.cmd # None
        /\ f.fn = "abort_task_set" => f.mreq # None
        /\ f.fn = "conn_close" => f.itn # None}

TypeOK ==
    /\ alive \subseteq Cmds
    /\ itn \in [Cmds -> Nexuses \cup {None}]
    /\ attr \in [Cmds -> {"SIMPLE", "ORDERED", "HEAD"}]
    /\ processed \subseteq Cmds
    /\ aborted \subseteq Cmds
    /\ mreq \in [Cmds -> Mreqs \cup {None}]
    /\ hlist \subseteq Cmds
    /\ queue \in Seq(Cmds)
    /\ io \subseteq Cmds
    /\ tx \subseteq Cmds
    /\ active \in Int
    /\ blocked \in BOOLEAN
    /\ tmState \in [Mreqs -> {"free", "busy", "tx"}]
    /\ tmItn \in [Mreqs -> Nexuses \cup {None}]
    /\ function \in [Mreqs -> Functions \cup {"none"}]
    /\ busy \in [Mreqs -> Int]
    /\ result \in [Mreqs -> {"none", "COMPLETE", "NO_TASK"}]
    /\ conn \in [Nexuses -> {"none", "full", "close", "closed"}]
    /\ refcount \in [Nexuses -> Int]
    /\ nexus \subseteq Nexuses
    /\ calls \in Seq(Frames)
    /\ daemon \in {"up", "crashed"}

Init ==
    /\ alive = {} /\ processed = {} /\ aborted = {}
    /\ itn = [c \in Cmds |-> None]
    /\ attr = [c \in Cmds |-> "SIMPLE"]
    /\ mreq = [c \in Cmds |-> None]
    /\ hlist = {} /\ queue = <<>> /\ io = {} /\ tx = {}
    /\ active = 0 /\ blocked = FALSE
    /\ tmState = [m \in Mreqs |-> "free"]
    /\ tmItn = [m \in Mreqs |-> None]
    /\ function = [m \in Mreqs |-> "none"]
    /\ busy = [m \in Mreqs |-> 0]
    /\ result = [m \in Mreqs |-> "none"]
    /\ conn = [i \in Nexuses |-> "none"]
    /\ refcount = [i \in Nexuses |-> 0]
    /\ nexus = {}
    /\ calls = <<>>
    /\ daemon = "up"

\* The event loop is about to dispatch the next event.
Idle == daemon = "up" /\ calls = <<>>

\* The function fn is at the top of the stack.
Top(fn) == daemon = "up" /\ calls # <<>> /\ Head(calls).fn = fn

Return == calls' = Tail(calls)

\* A segmentation fault: the daemon is gone, the rest no longer matters.
Crash ==
    /\ daemon' = "crashed"
    /\ UNCHANGED <<cmdVars, listVars, qVars, tm, connVars, calls>>

\* list_for_each_entry_safe: the first entry of the list (None: the walk is
\* back at the list head) and the entry after the first.  A walk of q->queue
\* takes entries off in order and stops at the first it leaves, so an entry it
\* stands on is the first of the list unless another walk has removed it.
First(s) == IF s = <<>> THEN None ELSE Head(s)

Second(s) == First(Tail(s))

-----------------------------------------------------------------------------
\* Faulty variants of the definitions that follow them are named ..._forgets...,
\* ..._ignores... and so on.  They are the faults the properties must detect.

\* cmd_enabled: may a command with attribute a start now?
cmd_enabled(a) ==
    a = "HEAD" \/ (~blocked /\ (a = "ORDERED" => active = 0))

\* scsi_cmd_perform, cmd_post_perform and set_cmd_processed.  The command goes
\* to the backing store, or target_cmd_io_done is called at once.
Perform(c, a, rest) ==
    /\ active' = active + 1
    /\ blocked' = (blocked \/ a \in {"ORDERED", "HEAD"})
    /\ processed' = processed \cup {c}
    /\ \/ io' = io \cup {c} /\ calls' = rest
       \/ UNCHANGED io      /\ calls' = <<IoDoneFrame(c)>> \o rest

\* conn_put: the last reference releases the connection, its session and the
\* nexus; it_nexus_destroy refuses (-EBUSY, ignored by session_destroy) while
\* the nexus has commands.
conn_put(i) ==
    /\ refcount' = [refcount EXCEPT ![i] = @ - 1]
    /\ IF refcount[i] = 1
       THEN /\ conn' = [conn EXCEPT ![i] = "none"]
            /\ nexus' = IF \E c \in hlist : itn[c] = i
                        THEN nexus ELSE nexus \ {i}
       ELSE UNCHANGED <<conn, nexus>>

\* iscsi_free_task on the task of a request, whose mgmt_req is free already.
FreeTm(m) ==
    /\ tmState' = [tmState EXCEPT ![m] = "free"]
    /\ tmItn' = [tmItn EXCEPT ![m] = None]
    /\ function' = [function EXCEPT ![m] = "none"]
    /\ busy' = [busy EXCEPT ![m] = 0]
    /\ result' = [result EXCEPT ![m] = "none"]
    /\ conn_put(tmItn[m])

\* iscsi_tm_done that drops the answer on a closed connection and keeps the task.
mgmt_end_notify_forgets_free(m, res) ==
    /\ tmState' = [tmState EXCEPT ![m] = IF conn[tmItn[m]] = "full" THEN "tx" ELSE "free"]
    /\ tmItn' = [tmItn EXCEPT ![m] = IF conn[tmItn[m]] = "full" THEN @ ELSE None]
    /\ busy' = [busy EXCEPT ![m] = 0]
    /\ result' = [result EXCEPT ![m] = res]
    /\ UNCHANGED <<function, connVars>>

\* mgmt_end_notify (iscsi_tm_done): the response is queued, or the task freed
\* when its connection is closed; the mgmt_req is freed.
mgmt_end_notify(m, res) ==
    IF conn[tmItn[m]] = "full"
    THEN /\ tmState' = [tmState EXCEPT ![m] = "tx"]
         /\ busy' = [busy EXCEPT ![m] = 0]
         /\ result' = [result EXCEPT ![m] = res]
         /\ UNCHANGED <<tmItn, function, connVars>>
    ELSE FreeTm(m)

\* __cmd_done without post_cmd_done.
cmd_done_forgets_walk(c, rest) ==
    /\ c \in hlist
    /\ hlist' = hlist \ {c}
    /\ active' = active - 1
    /\ blocked' = (blocked /\ attr[c] \notin {"ORDERED", "HEAD"})
    /\ calls' = rest
    /\ UNCHANGED daemon

\* __cmd_done: the command leaves its nexus and the queue is walked.  The
\* second list_del of an entry goes through NULL pointers.
cmd_done(c, rest) ==
    /\ c \in hlist
    /\ hlist' = hlist \ {c}
    /\ active' = active - 1
    /\ blocked' = (blocked /\ attr[c] \notin {"ORDERED", "HEAD"})
    /\ calls' = <<PostFrame(First(queue))>> \o rest
    /\ UNCHANGED daemon

\* target_cmd_done that tests busy before it counts c down.
target_cmd_done_off_by_one(c, rest) ==
    /\ cmd_done(c, rest)
    /\ LET m == mreq[c]
       IN  IF m = None THEN UNCHANGED <<tm, connVars>>
           ELSE IF busy[m] = 0
           THEN mgmt_end_notify(m, IF function[m] = "ABORT_TASK"
                                   THEN "NO_TASK" ELSE "COMPLETE")
           ELSE /\ busy' = [busy EXCEPT ![m] = @ - 1]
                /\ UNCHANGED <<tmState, tmItn, function, result, connVars>>

\* target_cmd_done: the request that waits for c is answered when c is the last
\* command it waits for; then __cmd_done.
target_cmd_done(c, rest) ==
    /\ cmd_done(c, rest)
    /\ LET m == mreq[c]
       IN  IF m = None THEN UNCHANGED <<tm, connVars>>
           ELSE IF busy[m] = 1
           THEN mgmt_end_notify(m, IF function[m] = "ABORT_TASK"
                                   THEN "NO_TASK" ELSE "COMPLETE")
           ELSE /\ busy' = [busy EXCEPT ![m] = @ - 1]
                /\ UNCHANGED <<tmState, tmItn, function, result, connVars>>

\* iscsi_free_cmd_task: target_cmd_done, then iscsi_free_task.
iscsi_free_cmd_task(c, rest) == target_cmd_done(c, <<FreeFrame(c)>> \o rest)

-----------------------------------------------------------------------------
\* session_create: an initiator logs in and gets a fresh nexus.
SessionCreate(i) ==
    /\ Idle
    /\ i \notin nexus /\ conn[i] = "none"
    /\ nexus' = nexus \cup {i}
    /\ conn' = [conn EXCEPT ![i] = "full"]
    /\ refcount' = [refcount EXCEPT ![i] = 1]
    /\ UNCHANGED <<cmdVars, listVars, qVars, tm, calls, daemon>>

\* target_cmd_queue and target_cmd_perform: command c with attribute a arrives.
target_cmd_perform(c, i, a) ==
    /\ Idle
    /\ c \notin alive /\ i \in nexus /\ conn[i] = "full"
    /\ alive' = alive \cup {c}
    /\ itn' = [itn EXCEPT ![c] = i]
    /\ attr' = [attr EXCEPT ![c] = a]
    /\ hlist' = hlist \cup {c}
    /\ refcount' = [refcount EXCEPT ![i] = @ + 1]
    /\ IF cmd_enabled(a)
       THEN /\ Perform(c, a, <<>>)
            /\ UNCHANGED queue
       ELSE /\ queue' = Append(queue, c)
            /\ UNCHANGED <<processed, io, qVars, calls>>
    /\ UNCHANGED <<aborted, mreq, tx, tm, conn, nexus, daemon>>

\* The backing store finishes c and calls target_cmd_io_done.
IoComplete(c) ==
    /\ Idle
    /\ c \in io
    /\ io' = io \ {c}
    /\ calls' = <<IoDoneFrame(c)>>
    /\ UNCHANGED <<cmdVars, hlist, queue, tx, qVars, tm, connVars, daemon>>

\* target_cmd_io_done and iscsi_scsi_cmd_done: the response is queued for
\* transmission, or the task is freed when its connection is closed.
target_cmd_io_done ==
    /\ Top("target_cmd_io_done")
    /\ LET c == Head(calls).cmd
       IN  \/ /\ conn[itn[c]] = "full"
              /\ tx' = tx \cup {c}
              /\ Return
              /\ UNCHANGED <<cmdVars, hlist, queue, io, qVars, tm, connVars, daemon>>
           \/ /\ conn[itn[c]] # "full" /\ c \in hlist
              /\ iscsi_free_cmd_task(c, Tail(calls))
              /\ UNCHANGED <<cmdVars, queue, io, tx>>
           \/ conn[itn[c]] # "full" /\ c \notin hlist /\ Crash

\* One turn of the loop of post_cmd_done.  nxt is the entry saved by
\* list_for_each_entry_safe in the turn before.
PostCmdDoneReturn ==
    /\ Top("post_cmd_done")
    /\ LET nxt == Head(calls).cmd
       IN  \/ nxt = None
           \/ nxt # None /\ nxt \in alive /\ ~cmd_enabled(attr[nxt])
    /\ Return
    /\ UNCHANGED <<cmdVars, listVars, qVars, tm, connVars, daemon>>

\* post_cmd_done that walks with list_for_each_entry: the next entry is read
\* from the one that list_del has cleared.
PostCmdDonePerform_unsafe_walk ==
    /\ Top("post_cmd_done")
    /\ LET c == Head(calls).cmd
       IN  /\ c # None /\ c = First(queue)
           /\ cmd_enabled(attr[c])
           /\ itn[c] \in nexus
           /\ queue' = Tail(queue)
           /\ Perform(c, attr[c], <<PostFrame(c)>> \o Tail(calls))
    /\ UNCHANGED <<alive, itn, attr, aborted, mreq, hlist, tx, tm, connVars, daemon>>

PostCmdDonePerform ==
    /\ Top("post_cmd_done")
    /\ LET c == Head(calls).cmd
       IN  /\ c # None /\ c = First(queue)
           /\ cmd_enabled(attr[c])
           /\ itn[c] \in nexus
           /\ queue' = Tail(queue)
           /\ Perform(c, attr[c], <<PostFrame(Second(queue))>> \o Tail(calls))
    /\ UNCHANGED <<alive, itn, attr, aborted, mreq, hlist, tx, tm, connVars, daemon>>

\* The saved entry was taken off the queue by a nested walk: list_del goes
\* through its NULL pointers.  When it was freed too, its attribute is garbage
\* and the walk may as well stop.  Or its nexus is gone ("BUG" message), and
\* nexus->host_no is read through NULL.
PostCmdDoneStale ==
    /\ Top("post_cmd_done")
    /\ LET c == Head(calls).cmd
       IN  /\ c # None
           /\ \/ /\ c # First(queue) \/ itn[c] \notin nexus
                 /\ c \in alive => cmd_enabled(attr[c])
                 /\ Crash
              \/ /\ c \notin alive
                 /\ Return
                 /\ UNCHANGED <<cmdVars, listVars, qVars, tm, connVars, daemon>>

\* iscsi_free_task: the task and its reference on the connection go.  (Fields
\* of freed commands return to their initial values to merge states.)
iscsi_free_task ==
    /\ Top("iscsi_free_task")
    /\ LET c == Head(calls).cmd
       IN  /\ alive' = alive \ {c}
           /\ processed' = processed \ {c}
           /\ itn' = [itn EXCEPT ![c] = None]
           /\ attr' = [attr EXCEPT ![c] = "SIMPLE"]
           /\ mreq' = [mreq EXCEPT ![c] = None]
           /\ conn_put(itn[c])
    /\ Return
    /\ UNCHANGED <<aborted, listVars, qVars, tm, daemon>>

\* iscsi_task_tx_done: the response to c has been sent.
CmdTxDone(c) ==
    /\ Idle
    /\ c \in tx /\ conn[itn[c]] = "full"
    /\ \/ /\ c \in hlist
          /\ tx' = tx \ {c}
          /\ iscsi_free_cmd_task(c, <<>>)
          /\ UNCHANGED <<cmdVars, queue, io>>
       \/ c \notin hlist /\ Crash

\* iscsi_task_tx_done: the task management response m has been sent.
TmTxDone(m) ==
    /\ Idle
    /\ tmState[m] = "tx" /\ conn[tmItn[m]] = "full"
    /\ FreeTm(m)
    /\ UNCHANGED <<cmdVars, listVars, qVars, calls, daemon>>

-----------------------------------------------------------------------------
\* conn_close_admin, iscsi_tcp_conn_force_close: tgtadm marks the connection.
ForceClose(i) ==
    /\ Idle
    /\ conn[i] = "full"
    /\ conn' = [conn EXCEPT ![i] = "close"]
    /\ UNCHANGED <<cmdVars, listVars, qVars, tm, refcount, nexus, calls, daemon>>

\* conn_close: on a transport error, logout, NOP timeout or a forced close.
ConnClose(i) ==
    /\ Idle
    /\ conn[i] \in {"full", "close"}
    /\ conn' = [conn EXCEPT ![i] = "closed"]
    /\ calls' = <<Frame("conn_close", None, None, i, {})>>
    /\ UNCHANGED <<cmdVars, listVars, qVars, tm, refcount, nexus, daemon>>

\* The walk of tx_clist in conn_close, one task per step, and the final
\* conn_put.  Tasks in SCSI are left to complete.
ConnCloseStep ==
    /\ Top("conn_close")
    /\ LET i == Head(calls).itn
           cmdTasks == {c \in tx : itn[c] = i}
           tmTasks  == {m \in Mreqs : tmState[m] = "tx" /\ tmItn[m] = i}
       IN  \/ \E c \in cmdTasks :
                 \/ /\ c \in hlist
                    /\ tx' = tx \ {c}
                    /\ iscsi_free_cmd_task(c, calls)
                    /\ UNCHANGED <<cmdVars, queue, io>>
                 \/ c \notin hlist /\ Crash
           \/ \E m \in tmTasks :
                 /\ FreeTm(m)
                 /\ UNCHANGED <<cmdVars, listVars, qVars, calls, daemon>>
           \/ /\ cmdTasks = {} /\ tmTasks = {}
              /\ conn_put(i)
              /\ Return
              /\ UNCHANGED <<cmdVars, listVars, qVars, tm, daemon>>

-----------------------------------------------------------------------------
\* The commands that abort_task_set selects for function f of nexus i (tag is
\* the one that ABORT_TASK names).
Selected(i, f, tag) ==
    {c \in hlist : /\ f \in {"ABORT_TASK", "ABORT_TASK_SET"} => itn[c] = i
                   /\ f = "ABORT_TASK" => c = tag}

\* iscsi_tm_execute, target_mgmt_request: the walk of abort_task_set starts.
target_mgmt_request(i, m, f, tag) ==
    LET todo == Selected(i, f, tag)
    IN  /\ Idle
        /\ conn[i] = "full" /\ tmState[m] = "free"
        /\ tmState' = [tmState EXCEPT ![m] = "busy"]
        /\ tmItn' = [tmItn EXCEPT ![m] = i]
        /\ function' = [function EXCEPT ![m] = f]
        /\ result' = [result EXCEPT ![m] = IF f = "ABORT_TASK" /\ todo = {}
                                           THEN "NO_TASK" ELSE "COMPLETE"]
        /\ refcount' = [refcount EXCEPT ![i] = @ + 1]
        /\ calls' = <<AbortFrame(m, todo)>>
        /\ UNCHANGED <<busy, cmdVars, listVars, qVars, conn, nexus, daemon>>

\* abort_cmd on a command that was performed: wait for it.
AbortProcessed ==
    /\ Top("abort_task_set")
    /\ LET f == Head(calls)
       IN  \E c \in f.todo \cap hlist \cap processed :
              /\ mreq' = [mreq EXCEPT ![c] = f.mreq]
              /\ busy' = [busy EXCEPT ![f.mreq] = @ + 1]
              /\ calls' = <<AbortFrame(f.mreq, f.todo \ {c})>> \o Tail(calls)
    /\ UNCHANGED <<alive, itn, attr, processed, aborted, listVars, qVars, tmState,
                   tmItn, function, result, connVars, daemon>>

\* abort_cmd on a command still in the queue: complete it with TASK_ABORTED.
AbortQueued ==
    /\ Top("abort_task_set")
    /\ LET f == Head(calls)
       IN  \E c \in (f.todo \cap hlist) \ processed :
              /\ aborted' = aborted \cup {c}
              /\ cmd_done(c, <<IoDoneFrame(c)>> \o
                               (<<AbortFrame(f.mreq, f.todo \ {c})>> \o Tail(calls)))
    /\ UNCHANGED <<alive, itn, attr, processed, mreq, queue, io, tx, tm, connVars>>

\* A command of the walk left the list under it: harmless, or fatal when it
\* was the saved next entry.
AbortStale ==
    /\ Top("abort_task_set")
    /\ \E c \in Head(calls).todo \ hlist :
          \/ Crash
          \/ /\ calls' = <<AbortFrame(Head(calls).mreq, Head(calls).todo \ {c})>>
                         \o Tail(calls)
             /\ UNCHANGED <<cmdVars, listVars, qVars, tm, connVars, daemon>>

\* The end of target_mgmt_request: answer unless commands are waited for.
AbortReturn ==
    /\ Top("abort_task_set")
    /\ Head(calls).todo = {}
    /\ LET m == Head(calls).mreq
       IN  IF busy[m] = 0 THEN mgmt_end_notify(m, result[m])
           ELSE UNCHANGED <<tm, connVars>>
    /\ Return
    /\ UNCHANGED <<cmdVars, listVars, qVars, daemon>>

-----------------------------------------------------------------------------
Arrive == \E c \in Cmds, i \in Nexuses, a \in Attrs : target_cmd_perform(c, i, a)

\* What other parties send or decide.
Environment ==
    \/ \E i \in Nexuses : SessionCreate(i) \/ ForceClose(i) \/ ConnClose(i)
    \/ Arrive
    \/ \E i \in Nexuses, m \in Mreqs, f \in Functions, tag \in Cmds :
          target_mgmt_request(i, m, f, tag)

\* The rest of the handler that runs.
Handler ==
    \/ target_cmd_io_done \/ iscsi_free_task \/ ConnCloseStep
    \/ PostCmdDoneReturn \/ PostCmdDonePerform \/ PostCmdDoneStale
    \/ AbortProcessed \/ AbortQueued \/ AbortStale \/ AbortReturn

\* Completions: of the backing store and of transmissions.
Completion ==
    \/ \E c \in Cmds : IoComplete(c) \/ CmdTxDone(c)
    \/ \E m \in Mreqs : TmTxDone(m)

Next == Environment \/ Handler \/ Completion

Spec == Init /\ [][Next]_vars

\* A handler runs to its end.  The event loop dispatches every ready event, but
\* only between handlers, hence strong fairness: an I/O completes, a response
\* on an open connection is sent, a marked connection is closed.
Fairness ==
    /\ WF_vars(Handler)
    /\ \A c \in Cmds : SF_vars(IoComplete(c)) /\ SF_vars(CmdTxDone(c))
    /\ \A m \in Mreqs : SF_vars(TmTxDone(m))
    /\ \A i \in Nexuses : SF_vars(conn[i] = "close" /\ ConnClose(i))

FairSpec == Spec /\ Fairness

-----------------------------------------------------------------------------
\* The commands that were started and are not done.
Started == hlist \cap processed

\* active_cmd counts the commands that were started and are not done, through
\* every nesting of completions, as long as no command was aborted while it
\* waited in the queue (__cmd_done, cmd_post_perform).
ActiveCount == aborted = {} => active = Cardinality(Started)

\* The queue is blocked only while some ORDERED or HEAD OF QUEUE command is
\* started and not done: clear_queue_blocked is never forgotten.
BlockedHasOwner ==
    aborted = {} /\ blocked => \E c \in Started : attr[c] \in {"ORDERED", "HEAD"}

\* Between events the command at the head of the queue may not start: every
\* change that could enable it is followed by post_cmd_done.
NoLostWakeup ==
    Idle /\ aborted = {} /\ queue # <<>> => ~cmd_enabled(attr[Head(queue)])

\* The books of the task set are right through every nesting of completions: the
\* count, the blocked bit and the queue (cmd_post_perform, __cmd_done,
\* post_cmd_done), as long as no command was aborted while it was queued.
TaskSetExact == ActiveCount /\ BlockedHasOwner /\ NoLostWakeup

\* A nexus lives exactly as long as its connection: session_destroy, which
\* ignores the result of it_nexus_destroy, never meets -EBUSY, and the "BUG"
\* branch of post_cmd_done is dead.
NexusLivesWithConn ==
    /\ \A i \in Nexuses : i \in nexus <=> conn[i] # "none"
    /\ \A c \in hlist : itn[c] \in nexus

\* The connection's refcount is the number of its tasks, plus one until
\* conn_close has dropped the initial reference.
RefcountExact ==
    \A i \in Nexuses :
        refcount[i] = Cardinality({c \in alive : itn[c] = i})
                      + Cardinality({m \in Mreqs : tmItn[m] = i})
                      + Cardinality({x \in {i} :
                            \/ conn[i] \in {"full", "close"}
                            \/ \E k \in DOMAIN calls :
                                  calls[k].fn = "conn_close" /\ calls[k].itn = i})

\* A task management response is not sent while a command that carries the
\* request is not done, so cmd->mreq never points to a freed request.
TmNotEarly == \A c \in hlist : mreq[c] # None => tmState[mreq[c]] = "busy"

\* Nobody is freed under a pointer to it: a connection lives as long as its tasks
\* (conn_get, conn_put), a nexus as long as its connection, and a task management
\* request as long as the commands it waits for.
NothingDangles == RefcountExact /\ NexusLivesWithConn /\ TmNotEarly

\* Once commands stop arriving every command is completed and freed, unless the
\* daemon crashed.
DrainsWhenQuiet ==
    <>[][~Arrive]_vars =>
        \A c \in Cmds : c \in alive ~> (c \notin alive \/ daemon = "crashed")

\* Every task management request is answered.
TmAnswered ==
    \A m \in Mreqs : tmState[m] = "busy" ~> (tmState[m] # "busy" \/ daemon = "crashed")

\* The daemon follows a NULL list pointer only after it has aborted a command
\* that waited in the queue, or beside a connection that is not open: without
\* either, no nesting of completions meets a stale list entry.
CrashHasCause ==
    daemon = "crashed" => aborted # {} \/ \E i \in Nexuses : conn[i] # "full"

\* The daemon does not follow a NULL list pointer.
NoCrash == daemon = "up"
=============================================================================
