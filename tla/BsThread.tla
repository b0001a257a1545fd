------------------------------ MODULE BsThread ------------------------------
(***************************************************************************)
(* The worker threads of the backing stores (usr/bs.c): the event loop     *)
(* hands a command to the pending list of a logical unit (LU), a worker    *)
(* runs it and puts it on the global finished list, and the event loop is  *)
(* told by SIGUSR2 through a signalfd or, where there is none, by an ack   *)
(* thread and two pipes.                                                   *)
(*                                                                         *)
(* What a thread does under one mutex is one step.  The wakeups that the   *)
(* code sends after it unlocks (pthread_cond_signal, kill, write) are      *)
(* steps of their own.                                                     *)
(***************************************************************************)
EXTENDS BackingStore

CONSTANT NrThreads  \* nr_worker_threads of each LU

ASSUME ThreadConstants ==
    /\ NrThreads \in [Lus -> Nat \ {0}]
    /\ None \notin Lus \X Nat

Workers == UNION {{lu} \X (1..NrThreads[lu]) : lu \in Lus}

VARIABLES
    \* commands
    cmd,            \* how far each command is
    dev,            \* its LU
    \* shared lists
    pending_list,   \* info->pending_list of each LU
    finished_list,
    ack_list,       \* ack_list, or the local list of bs_sig_request_done
    \* threads
    worker,         \* where each worker thread is
    current,        \* the command a worker has taken
    cancelled,      \* workers with a cancellation request
    ack_thread,     \* where the ack thread is; "none": there is a signalfd
    \* notification
    sigusr2,        \* SIGUSR2 is pending
    command_fd,     \* messages in the pipe to the ack thread
    done_fd,        \* messages in the pipe to the event loop
    \* the event loop
    open,           \* LUs whose bs_thread_info exists
    loop,           \* what the event loop does
    signal,         \* the LU whose pending_cond is about to be signalled
    joins           \* workers to cancel and join before loop goes on

cmdVars  == <<cmd, dev>>
fdVars   == <<sigusr2, command_fd, done_fd>>
loopVars == <<open, loop, signal, joins>>
vars == <<cmdVars, pending_list, finished_list, ack_list, worker, current,
          cancelled, ack_thread, fdVars, loopVars>>

\* sig_fd >= 0: bs_init has found a signalfd and created no ack thread.
HasSigFd == ack_thread = "none"

TypeOK ==
    /\ cmd \in [Cmds -> {"new", "pending", "running", "finished", "done", "lost"}]
    /\ dev \in [Cmds -> Lus \cup {None}]
    /\ pending_list \in [Lus -> Seq(Cmds)]
    /\ finished_list \in Seq(Cmds)
    /\ ack_list \in Seq(Cmds)
    /\ worker \in [Workers -> {"none", "lock", "wait", "run", "notify"}]
    /\ current \in [Workers -> Cmds \cup {None}]
    /\ cancelled \subseteq Workers
    /\ ack_thread \in {"none", "read", "collect", "wait", "write"}
    /\ sigusr2 \in BOOLEAN
    /\ command_fd \in 0..1 /\ done_fd \in 0..1
    /\ open \subseteq Lus
    /\ loop \in {"idle", "splice", "drain", "join"}
    /\ signal \in Lus \cup {None}
    /\ joins \in Seq(Workers)

\* bs_init: the signalfd, or the ack thread with one message in its pipe.
Init ==
    /\ cmd = [c \in Cmds |-> "new"]
    /\ dev = [c \in Cmds |-> None]
    /\ pending_list = [lu \in Lus |-> <<>>]
    /\ finished_list = <<>>
    /\ ack_list = <<>>
    /\ worker = [w \in Workers |-> "none"]
    /\ current = [w \in Workers |-> None]
    /\ cancelled = {}
    /\ ack_thread \in {"none", "read"}
    /\ sigusr2 = FALSE
    /\ command_fd = IF ack_thread = "read" THEN 1 ELSE 0
    /\ done_fd = 0
    /\ open = {}
    /\ loop = "idle"
    /\ signal = None
    /\ joins = <<>>

-----------------------------------------------------------------------------
(* The event loop: logical units come and go.                              *)

\* bs_thread_open creates the workers; when pthread_create fails after n of
\* them, these are cancelled and joined, the last one first.
bs_thread_open(lu, n) ==
    /\ loop = "idle" /\ signal = None
    /\ lu \notin open
    /\ worker' = [w \in Workers |-> IF w[1] = lu /\ w[2] <= n THEN "lock"
                                    ELSE worker[w]]
    /\ IF n = NrThreads[lu]
       THEN open' = open \cup {lu} /\ UNCHANGED <<loop, joins>>
       ELSE /\ joins' = [k \in 1..n |-> <<lu, n + 1 - k>>]
            /\ loop' = IF n = 0 THEN "idle" ELSE "join"
            /\ UNCHANGED open
    /\ UNCHANGED <<cmdVars, pending_list, finished_list, ack_list, current,
                   cancelled, ack_thread, fdVars, signal>>

\* Mutant: only the commands that no worker has taken count.
tgt_device_destroy_ignores_active(lu) ==
    /\ loop = "idle" /\ signal = None
    /\ lu \in open
    /\ pending_list[lu] = <<>>
    /\ joins' = [k \in 1..NrThreads[lu] |-> <<lu, k>>]
    /\ open' = open \ {lu}
    /\ loop' = "join"
    /\ UNCHANGED <<cmdVars, pending_list, finished_list, ack_list, worker,
                   current, cancelled, ack_thread, fdVars, signal>>

\* tgt_device_destroy goes ahead when the LU has no command; bs_thread_close
\* cancels and joins its workers one after the other.
tgt_device_destroy(lu) ==
    /\ loop = "idle" /\ signal = None
    /\ lu \in open
    /\ \A c \in Cmds : dev[c] = lu => cmd[c] \in {"done", "lost"}
    /\ joins' = [k \in 1..NrThreads[lu] |-> <<lu, k>>]
    /\ open' = open \ {lu}
    /\ loop' = "join"
    /\ UNCHANGED <<cmdVars, pending_list, finished_list, ack_list, worker,
                   current, cancelled, ack_thread, fdVars, signal>>

pthread_cancel ==
    /\ loop = "join"
    /\ Head(joins) \notin cancelled
    /\ cancelled' = cancelled \cup {Head(joins)}
    /\ UNCHANGED <<cmdVars, pending_list, finished_list, ack_list, worker,
                   current, ack_thread, fdVars, loopVars>>

pthread_join ==
    /\ loop = "join"
    /\ Head(joins) \in cancelled
    /\ worker[Head(joins)] = "none"
    /\ cancelled' = cancelled \ {Head(joins)}
    /\ joins' = Tail(joins)
    /\ loop' = IF Len(joins) = 1 THEN "idle" ELSE "join"
    /\ UNCHANGED <<cmdVars, pending_list, finished_list, ack_list, worker,
                   current, ack_thread, fdVars, open, signal>>

-----------------------------------------------------------------------------
(* The event loop: submission.                                             *)

\* The next command to be submitted.
IsNext(c) == cmd[c] = "new" /\ \A d \in 1..(c - 1) : cmd[d] # "new"

\* Mutant: list_add instead of list_add_tail.
bs_thread_cmd_submit_head(lu, c) ==
    /\ loop \in {"idle", "drain"} /\ signal = None
    /\ lu \in open
    /\ IsNext(c)
    /\ cmd' = [cmd EXCEPT ![c] = "pending"]
    /\ dev' = [dev EXCEPT ![c] = lu]
    /\ pending_list' = [pending_list EXCEPT ![lu] = <<c>> \o @]
    /\ signal' = lu
    /\ UNCHANGED <<finished_list, ack_list, worker, current, cancelled,
                   ack_thread, fdVars, open, loop, joins>>

\* A command arrives, or the completion of another one starts it.
bs_thread_cmd_submit(lu, c) ==
    /\ loop \in {"idle", "drain"} /\ signal = None
    /\ lu \in open
    /\ IsNext(c)
    /\ cmd' = [cmd EXCEPT ![c] = "pending"]
    /\ dev' = [dev EXCEPT ![c] = lu]
    /\ pending_list' = [pending_list EXCEPT ![lu] = Append(@, c)]
    /\ signal' = lu
    /\ UNCHANGED <<finished_list, ack_list, worker, current, cancelled,
                   ack_thread, fdVars, open, loop, joins>>

Waiting(lu) == {w \in Workers : w[1] = lu /\ worker[w] = "wait"}

\* pthread_cond_signal on pending_cond.
SignalPending ==
    /\ signal # None
    /\ IF Waiting(signal) = {} THEN worker' = worker
       ELSE \E w \in Waiting(signal) : worker' = [worker EXCEPT ![w] = "lock"]
    /\ signal' = None
    /\ UNCHANGED <<cmdVars, pending_list, finished_list, ack_list, current,
                   cancelled, ack_thread, fdVars, open, loop, joins>>

-----------------------------------------------------------------------------
(* A worker thread: bs_thread_worker_fn.                                   *)

\* Under pending_lock: take the first command, or wait.
worker_take(w) ==
    LET lu == w[1]
    IN /\ worker[w] = "lock"
       /\ IF pending_list[lu] = <<>>
          THEN /\ worker' = [worker EXCEPT ![w] = "wait"]
               /\ UNCHANGED <<cmd, pending_list, current>>
          ELSE /\ worker' = [worker EXCEPT ![w] = "run"]
               /\ current' = [current EXCEPT ![w] = Head(pending_list[lu])]
               /\ cmd' = [cmd EXCEPT ![Head(pending_list[lu])] = "running"]
               /\ pending_list' = [pending_list EXCEPT ![lu] = Tail(@)]
       /\ UNCHANGED <<dev, finished_list, ack_list, cancelled, ack_thread,
                      fdVars, loopVars>>

\* pthread_cond_wait may return without a signal.
worker_spurious_wakeup(w) ==
    /\ worker[w] = "wait"
    /\ worker' = [worker EXCEPT ![w] = "lock"]
    /\ UNCHANGED <<cmdVars, pending_list, finished_list, ack_list, current,
                   cancelled, ack_thread, fdVars, loopVars>>

\* A cancellation takes effect in pthread_cond_wait, whose cleanup handler
\* unlocks, or in the system calls of request_fn.
worker_cancelled(w) ==
    /\ w \in cancelled
    /\ worker[w] \in {"wait", "run"}
    /\ worker' = [worker EXCEPT ![w] = "none"]
    /\ current' = [current EXCEPT ![w] = None]
    /\ cmd' = IF worker[w] = "run" THEN [cmd EXCEPT ![current[w]] = "lost"] ELSE cmd
    /\ UNCHANGED <<dev, pending_list, finished_list, ack_list, cancelled,
                   ack_thread, fdVars, loopVars>>

\* request_fn returns; the command goes on the finished list.
worker_finish(w) ==
    /\ worker[w] = "run"
    /\ worker' = [worker EXCEPT ![w] = "notify"]
    /\ current' = [current EXCEPT ![w] = None]
    /\ cmd' = [cmd EXCEPT ![current[w]] = "finished"]
    /\ finished_list' = Append(finished_list, current[w])
    /\ UNCHANGED <<dev, pending_list, ack_list, cancelled, ack_thread, fdVars,
                   loopVars>>

\* Mutant: the worker waits for a signal before it looks at the list again.
worker_notify_waits(w) ==
    /\ worker[w] = "notify"
    /\ worker' = [worker EXCEPT ![w] = "wait"]
    /\ IF HasSigFd
       THEN sigusr2' = TRUE /\ UNCHANGED ack_thread
       ELSE /\ ack_thread' = IF ack_thread = "wait" THEN "collect" ELSE ack_thread
            /\ UNCHANGED sigusr2
    /\ UNCHANGED <<cmdVars, pending_list, finished_list, ack_list, current,
                   cancelled, command_fd, done_fd, loopVars>>

\* kill(getpid(), SIGUSR2), or pthread_cond_signal on finished_cond.
worker_notify(w) ==
    /\ worker[w] = "notify"
    /\ worker' = [worker EXCEPT ![w] = "lock"]
    /\ IF HasSigFd
       THEN sigusr2' = TRUE /\ UNCHANGED ack_thread
       ELSE /\ ack_thread' = IF ack_thread = "wait" THEN "collect" ELSE ack_thread
            /\ UNCHANGED sigusr2
    /\ UNCHANGED <<cmdVars, pending_list, finished_list, ack_list, current,
                   cancelled, command_fd, done_fd, loopVars>>

-----------------------------------------------------------------------------
(* The ack thread: bs_thread_ack_fn.                                       *)

ack_read ==
    /\ ack_thread = "read"
    /\ command_fd > 0
    /\ command_fd' = command_fd - 1
    /\ ack_thread' = "collect"
    /\ UNCHANGED <<cmdVars, pending_list, finished_list, ack_list, worker,
                   current, cancelled, sigusr2, done_fd, loopVars>>

\* Under finished_lock: wait, or move everything to ack_list.
ack_collect ==
    /\ ack_thread = "collect"
    /\ IF finished_list = <<>>
       THEN ack_thread' = "wait" /\ UNCHANGED <<finished_list, ack_list>>
       ELSE /\ ack_thread' = "write"
            /\ ack_list' = ack_list \o finished_list
            /\ finished_list' = <<>>
    /\ UNCHANGED <<cmdVars, pending_list, worker, current, cancelled, fdVars,
                   loopVars>>

ack_spurious_wakeup ==
    /\ ack_thread = "wait"
    /\ ack_thread' = "collect"
    /\ UNCHANGED <<cmdVars, pending_list, finished_list, ack_list, worker,
                   current, cancelled, fdVars, loopVars>>

ack_write ==
    /\ ack_thread = "write"
    /\ done_fd' = done_fd + 1
    /\ ack_thread' = "read"
    /\ UNCHANGED <<cmdVars, pending_list, finished_list, ack_list, worker,
                   current, cancelled, sigusr2, command_fd, loopVars>>

-----------------------------------------------------------------------------
(* The event loop: completion.                                             *)

\* Mutant: the descriptor is armed for one event and never again.
sig_read_oneshot ==
    /\ loop = "idle" /\ signal = None
    /\ sigusr2 /\ \A c \in Cmds : cmd[c] # "done"
    /\ sigusr2' = FALSE
    /\ loop' = "splice"
    /\ UNCHANGED <<cmdVars, pending_list, finished_list, ack_list, worker,
                   current, cancelled, ack_thread, command_fd, done_fd, open,
                   signal, joins>>

\* bs_sig_request_done: the read takes the signal, however often it was sent.
sig_read ==
    /\ loop = "idle" /\ signal = None
    /\ sigusr2
    /\ sigusr2' = FALSE
    /\ loop' = "splice"
    /\ UNCHANGED <<cmdVars, pending_list, finished_list, ack_list, worker,
                   current, cancelled, ack_thread, command_fd, done_fd, open,
                   signal, joins>>

sig_splice ==
    /\ loop = "splice"
    /\ ack_list' = finished_list
    /\ finished_list' = <<>>
    /\ loop' = "drain"
    /\ UNCHANGED <<cmdVars, pending_list, worker, current, cancelled,
                   ack_thread, fdVars, open, signal, joins>>

\* bs_thread_request_done: the read takes one message.
done_read ==
    /\ loop = "idle" /\ signal = None
    /\ done_fd > 0
    /\ done_fd' = done_fd - 1
    /\ loop' = "drain"
    /\ UNCHANGED <<cmdVars, pending_list, finished_list, ack_list, worker,
                   current, cancelled, ack_thread, sigusr2, command_fd, open,
                   signal, joins>>

\* The first command of the list goes to target_cmd_io_done.
complete_first ==
    /\ loop = "drain" /\ signal = None
    /\ ack_list # <<>>
    /\ cmd' = [cmd EXCEPT ![Head(ack_list)] = "done"]
    /\ ack_list' = Tail(ack_list)
    /\ UNCHANGED <<dev, pending_list, finished_list, worker, current,
                   cancelled, ack_thread, fdVars, loopVars>>

\* The list is empty: back to the event loop; the ack thread may go on.
drained ==
    /\ loop = "drain" /\ signal = None
    /\ ack_list = <<>>
    /\ loop' = "idle"
    /\ command_fd' = IF HasSigFd THEN command_fd ELSE command_fd + 1
    /\ UNCHANGED <<cmdVars, pending_list, finished_list, ack_list, worker,
                   current, cancelled, ack_thread, sigusr2, done_fd, open,
                   signal, joins>>

-----------------------------------------------------------------------------
LoopStep == SignalPending \/ pthread_cancel \/ pthread_join \/ sig_splice
               \/ complete_first \/ drained
WorkerStep(w) == worker_take(w) \/ worker_finish(w) \/ worker_notify(w)
AckStep == ack_read \/ ack_collect \/ ack_write

Next ==
    \/ \E lu \in Lus :
          \/ \E n \in 0..NrThreads[lu] : bs_thread_open(lu, n)
          \/ tgt_device_destroy(lu)
          \/ \E c \in Cmds : bs_thread_cmd_submit(lu, c)
    \/ LoopStep
    \/ sig_read
    \/ done_read
    \/ AckStep
    \/ ack_spurious_wakeup
    \/ \E w \in Workers :
          WorkerStep(w) \/ worker_spurious_wakeup(w) \/ worker_cancelled(w)

Spec == Init /\ [][Next]_vars

\* The kernel runs every thread that can run; epoll_wait reports every ready
\* descriptor in its turn, also when other handlers keep running; a thread
\* that comes to a cancellation point again and again is cancelled.
Fairness ==
    /\ WF_vars(LoopStep)
    /\ SF_vars(sig_read) /\ SF_vars(done_read)
    /\ WF_vars(AckStep)
    /\ \A w \in Workers : WF_vars(WorkerStep(w)) /\ SF_vars(worker_cancelled(w))

FairSpec == Spec /\ Fairness

-----------------------------------------------------------------------------
\* ack_list has one user at a time although no lock guards it: "protected by
\* pipe" in usr/bs.c.  One message circulates, and who has it owns the list.
AckProtected ==
    ~HasSigFd =>
        command_fd + done_fd + (IF ack_thread = "read" THEN 0 ELSE 1)
                             + (IF loop = "drain" THEN 1 ELSE 0) = 1

\* No completion is stranded: while finished commands wait, a worker is about
\* to tell the event loop, or SIGUSR2 is pending or just taken, or the ack
\* thread is not waiting for the worker (worker_fn, sig_request_done, ack_fn).
NoLostCompletion ==
    finished_list # <<>> =>
        \/ \E w \in Workers : worker[w] = "notify"
        \/ HasSigFd /\ (sigusr2 \/ loop = "splice")
        \/ ~HasSigFd /\ ack_thread # "wait"

\* No submission is stranded: while commands are pending on an LU, one of its
\* workers is on its way to the list, or the signal for one is.
NoLostSubmission ==
    \A lu \in Lus : pending_list[lu] # <<>> =>
        \/ signal = lu
        \/ \E w \in Workers : w[1] = lu /\ worker[w] \in {"lock", "run", "notify"}

\* No command waits for nobody, and no completion is lost on the way to the
\* event loop: the three hand-overs between the event loop, the workers and the
\* ack thread together.
NothingStranded == AckProtected /\ NoLostCompletion /\ NoLostSubmission

\* The list s holds every command of S once, and nothing else.
Holds(s, S) ==
    /\ \A c \in S : \E k \in 1..Len(s) : s[k] = c
    /\ \A k \in 1..Len(s) : s[k] \in S
    /\ \A j, k \in 1..Len(s) : s[j] = s[k] => j = k

\* A command is on one list or with one worker, so it is run and completed
\* once (list_del before every list_add of bs_list).
InOnePlace ==
    /\ \A lu \in Lus : Holds(pending_list[lu], {c \in Cmds : cmd[c] = "pending" /\ dev[c] = lu})
    /\ Holds(ack_list \o finished_list, {c \in Cmds : cmd[c] = "finished"})
    /\ \A w \in Workers : current[w] # None => cmd[current[w]] = "running"
    /\ \A v, w \in Workers : current[v] = current[w] /\ current[v] # None => v = w
    /\ \A c \in Cmds : cmd[c] = "running" => \E w \in Workers : current[w] = c

\* Closing a backing store never kills a worker in the middle of a command,
\* and no worker outlives its bs_thread_info (tgt_device_destroy refuses
\* while commands are active; bs_thread_close joins).
CloseLosesNothing ==
    /\ \A c \in Cmds : cmd[c] # "lost"
    /\ loop # "join" => \A w \in Workers : worker[w] # "none" => w[1] \in open

\* With one worker the commands of an LU run in the order of submission: the
\* tape backing store (bs_ssc) keeps its position between commands.
InOrder ==
    \A c, d \in Cmds :
        (/\ c < d /\ dev[c] = dev[d]
         /\ dev[c] # None /\ NrThreads[dev[c]] = 1
         /\ cmd[d] \in {"running", "finished", "done"})
            => cmd[c] \in {"finished", "done"}

\* Every command is run and completed once, and those of a tape in order.
OnceInOrder == InOnePlace /\ InOrder

\* Every command that was submitted is completed and no worker is to be joined.
Quiet == loop # "join" /\ \A c \in Cmds : cmd[c] \in {"new", "done"}
=============================================================================
