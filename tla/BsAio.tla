-------------------------------- MODULE BsAio --------------------------------
(***************************************************************************)
(* The Linux AIO backing store (usr/bs_aio.c): commands wait on a list for  *)
(* each logical unit, go to the kernel in batches of at most iodepth, and   *)
(* come back as events that an eventfd announces.  io_submit may take fewer *)
(* commands than it is given, none (EAGAIN), or fail.                       *)
(*                                                                         *)
(* The store runs in the event loop.  Its functions are split into steps    *)
(* where they loop over devices or over events, because a completed command *)
(* may start queued ones and so enter bs_aio_cmd_submit again.              *)
(***************************************************************************)
EXTENDS BackingStore

VARIABLES
    \* commands
    cmd,        \* where a command is
    dev,        \* cmd->dev
    \* bs_aio_info
    wait_list,  \* cmd_wait_list
    nwaiting,
    npending,
    evt_fd,     \* the counter of the eventfd
    unsignalled,\* events in the ring for which the kernel has yet to raise it
    dev_list,   \* bs_aio_dev_list; its order only says who is submitted first
    \* control
    open,       \* LUs with an open store
    batch,      \* iser_sched_iosubmit has more commands of this batch to come
    walk,       \* devices that the running submission still has to visit
    submitter,  \* the command whose submission runs
    reap,       \* the LU whose bs_aio_get_completions runs
    loop,       \* where it is: "idle", "getevents", "complete" or "post"
    ncomplete,  \* its local: events announced and not yet fetched
    \* history
    excused,    \* LUs left with waiting commands and none pending by a fault
    missed      \* events that were announced and not fetched, for each LU

cmdVars  == <<cmd, dev>>
infoVars == <<wait_list, nwaiting, npending, dev_list>>
fdVars   == <<evt_fd, unsignalled>>
ctlVars  == <<batch, walk, submitter>>
reapVars == <<reap, loop, ncomplete>>
vars == <<cmdVars, infoVars, fdVars, open, ctlVars, reapVars, excused, missed>>

-----------------------------------------------------------------------------
\* "skipped" commands were answered without I/O; "failed" ones got a hardware
\* error from sbc_rw; a "lost" one is on no list and nobody will answer it.
States == {"new", "waiting", "kernel", "event", "reaped",
           "done", "skipped", "failed", "lost"}

TypeOK ==
    /\ cmd \in [Cmds -> States]
    /\ dev \in [Cmds -> Lus \cup {None}]
    /\ wait_list \in [Lus -> Seq(Cmds)]
    /\ nwaiting \in [Lus -> Int] /\ npending \in [Lus -> Int]
    /\ evt_fd \in [Lus -> Nat] /\ unsignalled \in [Lus -> Nat]
    /\ dev_list \subseteq Lus /\ open \subseteq Lus /\ walk \subseteq Lus
    /\ batch \in BOOLEAN
    /\ submitter \in Cmds \cup {None}
    /\ reap \in Lus \cup {None}
    /\ loop \in {"idle", "getevents", "complete", "post"}
    /\ ncomplete \in Nat
    /\ excused \subseteq Lus
    /\ missed \in [Lus -> Nat]

Init ==
    /\ cmd = [c \in Cmds |-> "new"] /\ dev = [c \in Cmds |-> None]
    /\ wait_list = [l \in Lus |-> <<>>]
    /\ nwaiting = [l \in Lus |-> 0] /\ npending = [l \in Lus |-> 0]
    /\ evt_fd = [l \in Lus |-> 0] /\ unsignalled = [l \in Lus |-> 0]
    /\ dev_list = {} /\ open = {}
    /\ batch = FALSE /\ walk = {} /\ submitter = None
    /\ reap = None /\ loop = "idle" /\ ncomplete = 0
    /\ excused = {} /\ missed = [l \in Lus |-> 0]

\* The event loop is about to dispatch the next event.
Idle == loop = "idle" /\ walk = {} /\ ~batch

\* Commands of l in a state of S.
In(l, S) == {c \in Cmds : dev[c] = l /\ cmd[c] \in S}

\* LUs with waiting commands and no completion to come that would submit them.
Idlers == {l \in Lus : nwaiting[l] > 0 /\ npending[l] = 0}

\* History: the step may leave the LUs of S among them, and no other.
Excuse(S) == excused' = (excused \cup S) \cap Idlers'

-----------------------------------------------------------------------------
\* tgt_device_create with bs_aio_init and bs_aio_open; an open that fails
\* undoes what it did.
bs_aio_open(l) ==
    /\ Idle
    /\ l \notin open
    /\ open' = open \cup {l}
    /\ wait_list' = [wait_list EXCEPT ![l] = <<>>]
    /\ nwaiting' = [nwaiting EXCEPT ![l] = 0]
    /\ npending' = [npending EXCEPT ![l] = 0]
    /\ evt_fd' = [evt_fd EXCEPT ![l] = 0]
    /\ unsignalled' = [unsignalled EXCEPT ![l] = 0]
    /\ missed' = [missed EXCEPT ![l] = 0]
    /\ UNCHANGED <<cmdVars, dev_list, ctlVars, reapVars>>
    /\ Excuse({})

\* tgt_device_destroy, which refuses while commands are active, with
\* bs_aio_close and bs_aio_exit.
bs_aio_exit(l) ==
    /\ Idle
    /\ l \in open
    /\ In(l, {"waiting", "kernel", "event", "reaped", "lost"}) = {}
    /\ open' = open \ {l}
    /\ UNCHANGED <<cmdVars, infoVars, fdVars, ctlVars, reapVars, excused, missed>>

-----------------------------------------------------------------------------
(* Submission.                                                             *)

\* What io_submit answers for n commands: how many it took, where 0 stands
\* for EAGAIN, or -1 for another error.
io_submit(n) == -1..n

\* The number of commands a batch of l takes.
nsubmit(l) ==
    LET room == IoDepth - npending[l]
    IN IF room > nwaiting[l] THEN nwaiting[l] ELSE room

\* The first n commands of the wait list.
taken(l, n) == {wait_list[l][k] : k \in 1..n}

\* io_submit took r of n: the others go back to the head of the list.
accepted(l, n, r) ==
    /\ cmd' = [c \in Cmds |-> IF c \in taken(l, r) THEN "kernel" ELSE cmd[c]]
    /\ wait_list' = [wait_list EXCEPT ![l] = SubSeq(@, r + 1, Len(@))]
    /\ npending' = [npending EXCEPT ![l] = @ + r]
    /\ nwaiting' = [nwaiting EXCEPT ![l] = @ - r]
    /\ dev_list' = IF nwaiting[l] = r THEN dev_list \ {l} ELSE dev_list

\* io_submit failed: the n commands are no longer asynchronous.  The one whose
\* submission runs is answered by sbc_rw with a hardware error; of the others
\* nobody hears again.
refused(l, n) ==
    /\ cmd' = [c \in Cmds |-> IF c \notin taken(l, n) THEN cmd[c]
                              ELSE IF c = submitter THEN "failed" ELSE "lost"]
    /\ wait_list' = [wait_list EXCEPT ![l] = SubSeq(@, n + 1, Len(@))]
    /\ nwaiting' = [nwaiting EXCEPT ![l] = @ - n]
    /\ dev_list' = IF nwaiting[l] = n THEN dev_list \ {l} ELSE dev_list
    /\ UNCHANGED npending

\* bs_aio_submit_dev_batch with the answer r of io_submit, which an empty
\* batch does not ask for.
bs_aio_submit_dev_batch(l, r) ==
    LET n == nsubmit(l)
    IN /\ r \in io_submit(n) /\ (n = 0 => r = 0)
       /\ IF r = -1 THEN refused(l, n) ELSE accepted(l, n, r)

\* The next command to be submitted.
IsNext(c) == cmd[c] = "new" /\ \A d \in Cmds : d < c => cmd[d] # "new"

\* A command for l may come: from the event loop, or from post_cmd_done below
\* bs_aio_complete_one, which starts commands of the same LU.
MayCome(l) ==
    /\ walk = {} /\ l \in open
    /\ loop = "idle" \/ (loop = "post" /\ l = reap)

\* bs_aio_cmd_submit for a READ or WRITE: the last command of a batch submits
\* all devices, another one its own device when the depth is reached.
bs_aio_cmd_submit(l, c, last) ==
    /\ MayCome(l) /\ IsNext(c)
    /\ cmd' = [cmd EXCEPT ![c] = "waiting"] /\ dev' = [dev EXCEPT ![c] = l]
    /\ wait_list' = [wait_list EXCEPT ![l] = Append(@, c)]
    /\ nwaiting' = [nwaiting EXCEPT ![l] = @ + 1]
    /\ dev_list' = dev_list \cup {l}
    /\ walk' = IF last THEN dev_list'
               ELSE IF nwaiting[l] + 1 = IoDepth - npending[l] THEN {l} ELSE {}
    /\ submitter' = IF walk' = {} THEN None ELSE c
    /\ batch' = (loop = "idle" /\ ~last)
    /\ UNCHANGED <<npending, fdVars, open, reapVars, missed>>
    /\ Excuse({})

\* bs_aio_cmd_submit for any other command: answered at once, also when it is
\* the last command of the batch.
SkipOther(l, c, last) ==
    /\ MayCome(l) /\ IsNext(c)
    /\ cmd' = [cmd EXCEPT ![c] = "skipped"] /\ dev' = [dev EXCEPT ![c] = l]
    /\ batch' = (loop = "idle" /\ ~last)
    /\ UNCHANGED <<infoVars, fdVars, open, walk, submitter, reapVars, missed>>
    /\ Excuse(IF batch /\ last THEN Lus ELSE {})

\* The last command of a batch does not come to the store: sbc_rw refuses it,
\* or the task set of its LU holds it back.
BatchCut ==
    /\ batch /\ walk = {}
    /\ batch' = FALSE
    /\ UNCHANGED <<cmdVars, infoVars, fdVars, open, walk, submitter, reapVars, missed>>
    /\ Excuse(Lus)

\* One device of bs_aio_submit_all_devs, or the only one of a full batch.  An
\* error ends the walk.
SubmitNext(l) ==
    /\ l \in walk
    /\ \E r \in io_submit(IoDepth) :
          /\ bs_aio_submit_dev_batch(l, r)
          /\ walk' = IF r = -1 THEN {} ELSE walk \ {l}
          /\ Excuse(IF r = -1 THEN walk ELSE IF r = 0 THEN {l} ELSE {})
    /\ submitter' = IF walk' = {} THEN None ELSE submitter
    /\ UNCHANGED <<dev, fdVars, open, batch, reapVars, missed>>

-----------------------------------------------------------------------------
(* Completion.                                                             *)

\* The kernel finishes an I/O: the event is in the ring, and then the eventfd
\* is raised, perhaps in another order than that of the ring.
IoDone(c) ==
    /\ cmd[c] = "kernel"
    /\ cmd' = [cmd EXCEPT ![c] = "event"]
    /\ unsignalled' = [unsignalled EXCEPT ![dev[c]] = @ + 1]
    /\ UNCHANGED <<dev, infoVars, evt_fd, open, ctlVars, reapVars, excused, missed>>

eventfd_signal(l) ==
    /\ unsignalled[l] > 0
    /\ unsignalled' = [unsignalled EXCEPT ![l] = @ - 1]
    /\ evt_fd' = [evt_fd EXCEPT ![l] = @ + 1]
    /\ UNCHANGED <<cmdVars, infoVars, open, ctlVars, reapVars, excused, missed>>

\* bs_aio_get_completions: the read returns the counter and clears it.
bs_aio_get_completions(l) ==
    /\ Idle
    /\ l \in open /\ evt_fd[l] > 0
    /\ reap' = l /\ loop' = "getevents" /\ ncomplete' = evt_fd[l]
    /\ evt_fd' = [evt_fd EXCEPT ![l] = 0]
    /\ UNCHANGED <<cmdVars, infoVars, unsignalled, open, ctlVars, excused, missed>>

\* Between two calls of io_getevents, or before the first.
Fetching == walk = {} /\ loop \in {"getevents", "post"} /\ In(reap, {"reaped"}) = {}

\* io_getevents returns between one event and as many as it was asked for.
io_getevents ==
    /\ Fetching /\ ncomplete > 0
    /\ \E S \in SUBSET In(reap, {"event"}) :
          /\ Cardinality(S) \in 1..ncomplete /\ Cardinality(S) <= IoDepth
          /\ cmd' = [c \in Cmds |-> IF c \in S THEN "reaped" ELSE cmd[c]]
          /\ npending' = [npending EXCEPT ![reap] = @ - Cardinality(S)]
          /\ ncomplete' = ncomplete - Cardinality(S)
    /\ loop' = "complete"
    /\ UNCHANGED <<dev, wait_list, nwaiting, dev_list, fdVars, open, ctlVars, reap, missed>>
    /\ Excuse({})

\* io_getevents fails: the function returns.
GetEventsFails ==
    /\ Fetching /\ ncomplete > 0
    /\ missed' = [missed EXCEPT ![reap] = @ + ncomplete]
    /\ reap' = None /\ loop' = "idle" /\ ncomplete' = 0
    /\ UNCHANGED <<cmdVars, infoVars, fdVars, open, ctlVars>>
    /\ Excuse({reap})

\* bs_aio_complete_one and target_cmd_io_done.
bs_aio_complete_one(c) ==
    /\ walk = {} /\ loop \in {"complete", "post"}
    /\ cmd[c] = "reaped"
    /\ cmd' = [cmd EXCEPT ![c] = "done"]
    /\ loop' = "post"
    /\ UNCHANGED <<dev, infoVars, fdVars, open, ctlVars, reap, ncomplete, excused, missed>>

\* Mutant: one call of io_getevents for each read.
GetCompletionsEnd_one_call ==
    /\ Fetching /\ loop = "post"
    /\ \/ /\ nwaiting[reap] > 0
          /\ \E r \in io_submit(IoDepth) :
                /\ bs_aio_submit_dev_batch(reap, r)
                /\ Excuse(IF r < 1 THEN {reap} ELSE {})
       \/ /\ nwaiting[reap] = 0
          /\ UNCHANGED <<cmd, infoVars>>
          /\ Excuse({})
    /\ reap' = None /\ loop' = "idle" /\ ncomplete' = 0
    /\ UNCHANGED <<dev, fdVars, open, ctlVars, missed>>

\* All events are fetched: submit what waits.  The result is ignored.
GetCompletionsEnd ==
    /\ Fetching /\ ncomplete = 0
    /\ \/ /\ nwaiting[reap] > 0
          /\ \E r \in io_submit(IoDepth) :
                /\ bs_aio_submit_dev_batch(reap, r)
                /\ Excuse(IF r < 1 THEN {reap} ELSE {})
       \/ /\ nwaiting[reap] = 0
          /\ UNCHANGED <<cmd, infoVars>>
          /\ Excuse({})
    /\ reap' = None /\ loop' = "idle"
    /\ UNCHANGED <<dev, ncomplete, fdVars, open, ctlVars, missed>>

-----------------------------------------------------------------------------
\* The rest of the handler that runs.
Handler ==
    \/ \E l \in Lus : SubmitNext(l)
    \/ io_getevents \/ GetEventsFails \/ GetCompletionsEnd
    \/ \E c \in Cmds : bs_aio_complete_one(c)

Next ==
    \/ \E l \in Lus : bs_aio_open(l) \/ bs_aio_exit(l) \/ bs_aio_get_completions(l)
    \/ \E l \in Lus, c \in Cmds, last \in BOOLEAN :
          bs_aio_cmd_submit(l, c, last) \/ SkipOther(l, c, last)
    \/ BatchCut
    \/ Handler
    \/ \E c \in Cmds : IoDone(c)
    \/ \E l \in Lus : eventfd_signal(l)

Spec == Init /\ [][Next]_vars

\* A handler runs to its end, the kernel finishes every I/O, and the event loop
\* serves every eventfd, between other handlers.
Fairness ==
    /\ WF_vars(Handler) /\ WF_vars(BatchCut)
    /\ \A c \in Cmds : WF_vars(IoDone(c))
    /\ \A l \in Lus : WF_vars(eventfd_signal(l)) /\ SF_vars(bs_aio_get_completions(l))

FairSpec == Spec /\ Fairness
-----------------------------------------------------------------------------
\* The counters agree with the list and with the kernel, whatever io_submit
\* and io_getevents return, and the kernel never has more than iodepth
\* commands, for which io_setup and iocb_arr are sized.
CountsExact ==
    \A l \in Lus :
        /\ nwaiting[l] = Len(wait_list[l])
        /\ npending[l] = Cardinality(In(l, {"kernel", "event"}))
        /\ npending[l] <= IoDepth

\* A device is on bs_aio_dev_list exactly while commands wait for it: list_add
\* and list_del never meet an entry that is on the list already, or not.
DevListExact == dev_list = {l \in Lus : wait_list[l] # <<>>}

\* The commands of an LU go to the kernel in the order they came, also when
\* io_submit takes a part of a batch and the rest returns to the wait list.
InOrder ==
    \A c, d \in Cmds :
        /\ c < d /\ dev[c] = dev[d]
        /\ cmd[d] \in {"kernel", "event", "reaped", "done", "failed", "lost"}
        => cmd[c] # "waiting"

\* bs_aio_exit leaves no device on the list and no I/O in a context that
\* io_destroy takes away.
ExitClean ==
    \A l \in Lus \ open :
        npending[l] = 0 /\ l \notin dev_list /\ evt_fd[l] = 0 /\ reap # l

\* Every event in the ring is counted by the eventfd, by the kernel on its way
\* there or by the handler, unless io_getevents failed.  So io_getevents, which
\* has no timeout, finds an event whenever it is called and never blocks the
\* event loop.
EventsCounted ==
    \A l \in Lus :
        Cardinality(In(l, {"event"})) =
            evt_fd[l] + unsignalled[l] + missed[l] + (IF reap = l THEN ncomplete ELSE 0)

\* Between events no LU has waiting commands and nothing pending, whose
\* completion would submit them, except after io_submit refused everything or
\* failed, after a failed io_getevents, or after a batch whose last command
\* did not come to bs_aio_submit_all_devs.
NoStranded == Idle => Idlers \subseteq excused

\* The lists, the counters and the events are right, whatever part of a batch
\* the kernel takes: commands go in order, wait only while a completion is to
\* come that will submit them, and a closed store has none.
AioExact ==
    /\ TypeOK /\ CountsExact /\ DevListExact /\ EventsCounted
    /\ InOrder /\ NoStranded /\ ExitClean

\* Nothing is left to do, except in those cases.
Quiet ==
    \A c \in Cmds : \/ cmd[c] \in {"new", "done", "skipped", "failed", "lost"}
                    \/ \E l \in excused : dev[c] = l
                    \/ \E l \in Lus : dev[c] = l /\ missed[l] > 0
=============================================================================
