# tgt in TLA+

A verification development kept beside tgtd, the user-space SCSI target daemon.
Modules translate the C code under `src/usr`; TLC checks them on small
instances, and TLAPS proves the central invariants for every value of the
constants. `PROJECT.json` lists the parts of the system, the runs, the source
lines behind every definition, the hazards, the findings and the theorems.

## The system

tgtd is one process with one event loop (`tgtd.c`): epoll descriptors, scheduled
events and a work timer (`work.c`). Handlers run one at a time and to their end.
Threads exist only in the backing stores (`bs.c`), which hand finished commands
back to the loop.

| Part | Source | Module |
|---|---|---|
| Command queue, task management | `target.c` | `CmdQueue` |
| Life of connections, sessions and tasks | `iscsi/iscsid.c`, `conn.c`, `session.c` | `CmdQueue`, `IscsiSession` |
| iSCSI PDUs: CmdSN, R2T, Data-In, StatSN | `iscsid.c`, `iscsi_tcp.c` | `IscsiSession` (in part) |
| iSCSI login, discovery, CHAP, accounts | `iscsid.c`, `param.c`, `chap.c`, `session.c` | `IscsiLogin` |
| iSER | `iser.c`, `iser_text.c` | `Iser` (in part) |
| iSNS | `isns.c` | `Isns` (in part) |
| Timed work, NOP keep-alive | `work.c`, `iscsi_tcp.c` | `Work`, `Isns` |
| Event loop, scheduled events | `tgtd.c` | `Mgmt`, `Iser` |
| tgtadm interface | `mgmt.c` | `Mgmt` (in part) |
| Targets, LUs, ACLs, bindings | `target.c`, `iscsi/target.c` | `Mgmt`, `IscsiLogin` (in part) |
| Reservations, unit attentions | `spc.c`, `target.c`, `sbc.c` | `LuAccess`, `ReservationSpec` |
| Backing store threads | `bs.c` | `BsThread` |
| AIO backing store | `bs_aio.c` | `BsAio` |
| Sheepdog backing store | `bs_sheepdog.c` | `Sheepdog` (in part) |
| Tape | `bs_ssc.c`, `libssc.c`, `ssc.c` | `Tape` (in part) |
| Media changer | `smc.c` | `Library` (in part) |
| Block commands, mode pages, MMC, OSD, SCC, log, tools | `sbc.c`, `spc.c`, `mmc.c` and others | see "Not modelled" |

How they interact: a transport turns PDUs into a `scsi_cmd` and calls
`target_cmd_queue`; the queue of the LU decides when the command starts;
`scsi_cmd_perform` checks reservations and unit attentions and calls the device
type; reads and writes go to the backing store, at once or through a worker;
the completion comes back through `target_cmd_io_done` to the transport, which
sends the response and frees the task, and that ends in `target_cmd_done`,
which starts the next queued command. tgtadm changes targets, LUs, accounts and
connections between any two of these steps.

## Modules

A component with several environments (kinds of initiators, of faults, of
administrators) has a constant `Profiles`, or a menu in its MC module. A
behaviour has one of them, chosen in its initial state, so one run checks all
of them with the same properties.

### CmdQueue

The task set of one LU. A command is on the list of its nexus (`hlist`), in the
queue, with the backing store (`io`) or on the transmit list (`tx`); `active`
and `blocked` are the fields of `tgt_cmd_queue`. The completion path of the
code calls itself: `post_cmd_done` performs a queued command, which may complete
and be freed inside that call and so run `post_cmd_done` again. The C stack is
therefore a variable, `calls`. Its frames hold the live locals, such as the
saved next entry of `list_for_each_entry_safe`, and while it is not empty only
its top frame moves.

| Action | Code |
|---|---|
| `SessionCreate` | `session_create`, `it_nexus_create` |
| `target_cmd_perform` | `target_cmd_queue`, `target_cmd_perform` |
| `IoComplete`, `target_cmd_io_done` | `target_cmd_io_done`, `iscsi_scsi_cmd_done` |
| `PostCmdDoneReturn/Perform/Stale` | one iteration of `post_cmd_done` |
| `iscsi_free_task`, `CmdTxDone`, `TmTxDone` | release of tasks, responses sent |
| `ForceClose`, `ConnClose`, `ConnCloseStep` | `conn_close` and its walk of tasks |
| `target_mgmt_request`, `Abort*` | `target_mgmt_request`, `abort_task_set`, `abort_cmd` |

### LuAccess and ReservationSpec

Who may use an LU: the classic reservation (`reserve_id`), the registrations
with keys and types, the pointer `pr_holder`, and the unit attentions pending
for each nexus. Each command runs to completion in the event loop and is one
action. A step through a NULL or freed `pr_holder` ends the behaviour
(`daemon = "crashed"`, or no further step), because what the C code does there
is undefined.

`ReservationSpec` says what initiators are promised, with no list and no
pointer: a key per nexus, at most one reservation, and the answer each medium
access gets. `LuAccess` implements it under a refinement mapping (`Promise`),
with two exceptions (`PromiseKept`):
- `Unsettles`: commands after which the code keeps another reservation than it
  promises, REGISTER AND MOVE and a PREEMPT with a type that does not exist or of
  the registration that stands for all registrants;
- `Slips`: writes that the `pr_conflict_bits` of the sbc table do not cover, so
  that they are carried out under a reservation of another nexus. WRITE AND
  VERIFY and ORWRITE have the bits of a READ, WRITE SAME, FORMAT UNIT and UNMAP none.

The medium accesses are five classes (`ConflictBits`): READ, WRITE, WRITE AND VERIFY with
ORWRITE, WRITE SAME with FORMAT UNIT, and UNMAP. VERIFY and PRE-FETCH are not among
them: they have the bits of a READ and change nothing.
`MCLuAccess` has five menus: two initiators with every service
action; two with every medium access and scope; two and three initiators with
types that have one owner; three that
hold a reservation together. A key that a command presents is only compared
with the one of its sender, so one wrong key stands for all.

### BsThread

The pending list of each LU, the finished list, the ack list, and the workers,
each with a program counter. What happens under one mutex is one step;
`pthread_cond_signal`, `kill` and `write`, which the code issues after the
unlock, are steps of their own. Condition variables may wake up spuriously, a
signal that is already pending is merged, and cancellation takes effect at the
cancellation points (`pthread_cond_wait`, the system calls of `request_fn`).
`HasSigFd` says whether `bs_init` got its signalfd or started the ack thread with its
two pipes. Opening may fail after any number of threads; `tgt_device_destroy`
closes the store only when the LU has no command. `NrThreads` gives each LU its
number of workers: several for `bs_rdwr`, one for `bs_ssc`.

### BsAio

The wait list, counters and eventfd of each LU and the list of devices with
waiting commands. `io_submit` may take all of a batch, a part, none (EAGAIN) or
fail; `io_getevents` may return fewer events than announced, or fail; the kernel
raises the eventfd after the event is in the ring. `bs_aio_submit_all_devs`
(`SubmitNext`) and the loops of `bs_aio_get_completions` are split into steps,
because a completed command may start queued ones of its LU, which enter
`bs_aio_cmd_submit` inside the loop. `batch` stands for
`iser_sched_iosubmit`, the one caller that marks commands as not the last.

The store has ways to leave a command waiting with nothing pending that would
submit it later: EAGAIN when nothing is pending, an error on another device of
the same walk, a failed `io_getevents`, and a batch whose last command never
comes to `bs_aio_submit_all_devs` (SYNCHRONIZE CACHE returns before it, `sbc_rw` may
refuse the command, the task set may hold it back). The history variable
`excused` records them, and `NoStranded` says that there are no others. After
an error of `io_submit` the commands of the batch but the submitting one are
"lost": on no list, and never answered.

`BackingStore` has the constants of both stores. `MCStores` runs both: a behaviour
has one of them, and the variables of the other keep their initial values.

### IscsiSession

The full feature phase over TCP, from `iscsi_rx_handler` to `iscsi_tx_handler`
and `conn_close`. PDUs of one connection arrive in order, the connections of a
session race. A PDU takes two steps on either side, its header and its end, and
the connection may be lost in between. `task` has the counters of
`struct iscsi_task` (`r2t_count`, `unsol_count`, `offset`), `pending` is
`session->pending_cmd_list`, `tx_clist` the answers that wait for EPOLLOUT.
The SCSI layer is a set of commands that end in any order, or are refused. The
initiator is well behaved and sends the requests of a lost connection again
with their old CmdSN. It sees an R2T when the target has sent it.

### IscsiLogin

A connection from `accept_connection` to the full feature phase: the stages of
`cmnd_exec_login`, the keys of `param.c` by their kind (minimum, maximum, or,
and, list of digests, local), CHAP, `session_create`, reinstatement, discovery
and text answers that take several PDUs. Other connections and the
administrator run between a request (`Receive`) and the end of its answer (`Send`).
A C function on a connection is an operator from the connection to the
connection it leaves. A CHAP response is right, wrong or an echo of the target's own
challenge; no hash is computed.

### Iser

Connections over RDMA from the connect request to the last reference, the
tasks and their lists, the RDMA buffers, the completion queue with polling and
interrupts, and the scheduled events of `tgtd.c` that call the handlers. A handler
is an operator on the state record `[conn, sess, dev, cq, sched, crash, err]`,
where `err` is its return value; `RunEvent` and `NextEvent` are
`tgt_exec_scheduled` with its saved next entry. Queue pairs, work completions
and CM events are external. `crash` records an assertion, a freed connection or
a broken list. `iser_login_exec` of `iser_text.c` is modelled by its outcomes;
the negotiation it repeats from `iscsid.c` is in `IscsiLogin`.

### Tape and Library

`Tape` has a cartridge as a function from offsets to cells. A header takes one
cell and names the offsets of its neighbours, so `append_blk`, `skip_next_header`
and the others work on the list as it is on disk. The worker of `bs_ssc` takes
one step per write, and the event loop may eject or swap the medium between them.
`rec` and `pos` are the history: the blocks that were acknowledged and the block
the drive stands at. `Library` composes it with the changer `smc.c`: elements
with their media, MOVE MEDIUM, prevention of removal, and their configuration by
tgtadm.

### Sheepdog

Worker threads that share the cached inode of a disk. A disk has three objects
of two halves, a half holds the number of a write. The step of a thread ends
where the code takes or releases a lock, waits, or sends a request. The read
and write lock of the inode, the mutex and version of `reload_inode`, and the
list of commands in progress with its condition variable are variables. The
cluster is external, as the code uses it: it executes one request at a time,
answers READONLY for a disk that became a snapshot and INODE_INVALIDATED after
another client's change until the whole inode is read.

### Work and Isns

`Work` is the timed work list of `work.c`. `Isns` has its two users: the iSNS
client, which registers targets, asks for initiators, reacts to notifications
and keeps the registration alive, and the NOP-In keep-alive of TCP connections.
A tick is ten seconds of the first and one second of the second. It passes only
when nothing can happen at once (maximal progress): the code's periods are long
beside its round trips. The iSNS server and the peers are external.

### Mgmt

The event loop with its batches (`epoll_wait` returns a set, handlers are called in
any order, a handler deletes events of the batch, `event_need_refresh`), and
the task of a tgtadm connection in all its states, with requests and answers in
pieces. Requests create, delete and bind targets and LUs, open and close lists of
portals, start and stop drivers, close connections and set the system offline, each
with its failures on the way. `connection delete` does not close: it marks the
connection (`conns[x]` is `marked`, or `markedBusy` with a command in the SCSI layer)
and the connection's own handler closes it in a later batch. An administrative
client may go away at any piece, and a body may be too large.

What a refused request may leave behind is said exactly, by `Half`: the address
without the name of a `bind`, the first portal of a list of two, the inactive LUs of
a target, an iSER driver that failed to start. `RefusedKeeps` admits that and nothing else.

## Runs

Model values stand for commands, nexuses, keys and threads. `cmdqueue_safety` and
`luaccess` use symmetry: no action names a particular command, nexus or key.

| Run | Shows |
|---|---|
| `cmdqueue_safety` | accounting and wakeups of the task set (`TaskSetExact`), references, nexus lifetime, no early answer (`NothingDangles`), causes of a crash (`CrashHasCause`) |
| `cmdqueue_live` | every command completes once arrivals stop, every request is answered |
| `cmdqueue_abort_twice` | finding, see below |
| `luaccess` | no reservation outlives its owner (`HolderKept`), refinement of `ReservationSpec` (`PromiseKept`), who loses something is told (`LossIsTold`) |
| `stores` | no hand-over strands a command (`NothingStranded`), order and single execution (`OnceInOrder`), closing (`CloseLosesNothing`), counters, order and events of AIO and its closing (`AioExact`), every command completes |
| `iscsi_session` | execution in CmdSN order across the wrap (`InCmdSnOrder`), no task lost or used twice (`TasksKept`), data and statuses whole (`TransfersWhole`), every request answered |
| `iscsi_login` | the full feature phase only after the authentication that was asked for (`Authenticated`), both sides hold the negotiated parameters (`ToldTrue`), sessions and connections fit (`ListsFit`), a login ends |
| `iser` | buffers accounted for (`BuffersExact`), a task is in one place with its data (`TasksKept`), freed by the last reference (`FreedOnce`), requests answered and connections drained (`Progress`) |
| `library` | block list and position right between commands (`TapeWhole`), acknowledged blocks kept through failures (`PrefixKept`), changer, drive and tgtadm agree (`ChangerAgrees`), every command ends |
| `sheepdog` | no two commands on one object, cached inode right (`InodeShared`), acknowledged writes reachable and read (`DataKept`), every command ends |
| `isns` | server and daemon agree (`TargetsKnown`), answers reach their query (`AnswersApplied`), the registration does not expire (`KeptAlive`), dead connections are closed and no others (`DeadClosed`) |
| `mgmt` | no handler for a deleted event (`EventsFit`), requests and answers whole (`MessagesWhole`), nothing half done (`NothingHalf`), every client served and the daemon ends (`Progress`) |

A property that names several things is a conjunction of named invariants, each
with its own comment in the module. The exceptions a property makes (a history
variable such as `aborted`, `excused`, `late`, `cut`, `bad`, `raced` in its premise) are the
places where the code does not do what one would expect; they are listed under
"Findings".

### Bounds

- `CmdQueue`: three commands are needed for one walk of the queue inside another
  (one completing, one freed in the walk, one saved); two nexuses for a reset that
  crosses nexuses. The liveness run has two commands, one that blocks the queue
  and one that waits.
- `LuAccess`: two nexuses reach every pair of service actions; a third adds a
  bystander to PREEMPT and two registrants to the departure of a holder. Two
  keys include equal keys. `MaxUa` and the menus stop actions that add unit
  attentions while a nexus has more than that pending. `GenMod` is the wrap of the
  generation counter; 3 keeps two consecutive increments apart from none.
- Stores: with two workers and three commands a worker finds the list empty
  while another is signalled, and a submission arrives while both are between two
  commands. A second LU with one worker shares the finished list; while both are
  open there is a command less (`Bounded`). AIO has depth 2 and two
  LUs: three commands make a batch that is cut by the depth and by the kernel,
  and that spans both LUs.
- `IscsiSession`: CmdSNs count modulo 8 from 7, so the second request wraps.
  Three requests over two connections arrive in every order. Three units of data
  with a burst of two need two R2Ts. Four profiles.
- `IscsiLogin`: TSIHs count modulo 3 with three connections, so they wrap; one
  account slot, so `in_aids` grows; two units of text per PDU, so a list takes
  several. Four profiles.
- `Iser`: two connections with two tasks each, or one with three so that three
  writes with Data-Outs use each task again; a pool of one buffer or ample, polls of
  two completions, so budget, arming and waiting all happen. Ten profiles.
- `Library`: five commands on a tape of thirteen cells; no block begins where it
  would not fit (`MaxOffset`). Two cartridges, two descriptors so that one is used
  again, one drive, up to four elements. Seven profiles.
- `Sheepdog`: two threads, two or three requests, one fault of each of the
  profile's kinds, at most `MaxVersion` reloads; in the profile `queue` four threads, so
  that several wait at once and the one that is woken may still be blocked. Seven
  profiles.
- `Isns`: two targets, one initiator, two failures; transaction numbers modulo 8
  or 64, the clock modulo 16; in the profiles `keep` and `nop` time goes on for
  ever. Five profiles.
- `Mgmt`: two or three clients, a header of two pieces and a body of three, lists of two
  portals, two connections. Twelve profiles.

### Fairness

No arrival, fault or administrative request is assumed fair.

- `CmdQueue`: a handler that runs goes on (weak fairness of the top frame); I/O
  completes, responses are sent on open connections and marked connections are
  closed (strong fairness, because the event loop serves them only between
  handlers).
- `BsThread`: the kernel runs every thread (weak fairness of each worker and of the
  ack thread); the loop serves its descriptors in turn (strong fairness of the
  reads, because other handlers run in between); a worker that comes to a
  cancellation point again and again is cancelled (strong fairness).
- `BsAio`: handlers go on, a batch ends, the kernel finishes I/O and raises the
  eventfd (weak fairness); the loop serves each eventfd (strong fairness).
- `IscsiSession`: the loop serves each readable and writable connection, the SCSI
  layer ends commands, an initiator sends the data it owes (weak fairness).
- `IscsiLogin`: a connection that has something to do is served, and an honest
  initiator goes on. It is written as "infinitely often not ready, or infinitely
  often a step", which is weak fairness without ENABLED of a large action. Only
  the profile with an honest initiator uses it for `LoginEnds`.
- `Iser`: the same form: the event loop goes on, hardware completes posted work,
  messages arrive, the CM reports the end of a connection, the SCSI layer ends
  commands. `Stuck` (a walk of scheduled events that never ends, or a crash)
  frees all of them.
- `Library`: the worker takes its steps. `Sheepdog`: the kernel runs every thread, and
  a snapshot that has begun is finished.
- `Isns`: time passes, the loop serves its descriptors, the server answers while it
  is up, a peer that is alive answers.
- `Mgmt`: the loop goes on while there is something to do, and the first client
  sends the rest of a request it began. `First` stands for any client: the
  profiles give it different requests.

### Deadlock

The deadlock check is off in all runs, because behaviours are bounded: every
session may have ended, all commands of a behaviour may be done, or the daemon
has ended or crashed. That nothing stops too early is what the liveness
properties say.

## Findings

`cmdqueue_abort_twice` shows that `abort_cmd` on a queued command leads to a second
`__cmd_done`. What else the models met is recorded here. Each point is a
premise, a profile or an exception in the module, so the properties hold beside
it.

Command queue and reservations:
- `abort_cmd` overwrites `cmd->mreq` (`target.c:1333`): of two requests on one
  command only the last is answered. The runs have one request at a time.
- On a closed connection a command that completes at once is freed inside the
  walk of `post_cmd_done`, and the nested walk removes the entry the outer one has
  saved. `CrashHasCause` says that this and the double abort are the only causes.
- RELEASE tells the initiator that sent it, not the others (`spc.c:1464`).
- PREEMPT of an all-registrants reservation leaves `pr_holder` on a freed
  registration (`spc.c:1598`), and does not check the type and the scope it is given.
- WRITE AND VERIFY and ORWRITE pass a Write Exclusive reservation, WRITE SAME, FORMAT
  UNIT and UNMAP every persistent one (`sbc.c:799`, `848`, `872`, `924`, `965`).
- UNMAP answers CHECK CONDITION although it was carried out (`sbc.c:234`).
- REGISTER AND MOVE moves `pr_holder` and leaves the type behind, and with no
  reservation it reads through the NULL `pr_holder`.

iSCSI:
- With InitialR2T=No and several connections, `rx_task` may be a pending write,
  which is freed or queued twice, or executed before its data.
- A command that `target_cmd_queue` refuses is never answered; the task waits for
  `conn_close`.
- The answer to a ping (`goto nodata`) disarms EPOLLOUT with other answers queued.
- One session per port is not guaranteed: `login_security_done`, which closes the
  old one, is skipped when a login begins in the operational stage, and two
  logins can pass it side by side. `login_finish` also runs when it failed on
  the way from the security to the full feature stage.
- `account_lookup` (`target.c:1520`) counts bound accounts but walks slots, so behind a
  hole a bound account is not found.

iSER:
- `tgt_exec_scheduled` (`tgtd.c:398`) walks for ever when a handler removes the saved
  next event.
- An RDMA-Read that completes after the connection left the full feature phase
  leaks its buffer (`iser.c:2940`), and so does a write that still awaits Data-Outs
  when its connection closes, and a bidirectional command whose read part is too big
  (`iser.c:747`). `iser_sched_buf_alloc` links a read that waited
  into the submission list without taking it off its own, and the read is
  never submitted. A buffer freed by one connection does not wake another's tasks.
- The task of a Data-Out that is the only buffer of its write is never received into
  again: `iser_scsi_cmd_iosubmit` frees Data-Out tasks when there is more than one
  buffer, and the call in `iser_complete_task` is commented out (`iser.c:840`). The
  receive queue shrinks by one task for each such write (`lone`), and `Progress` holds
  while the tasks that are left suffice. The lost task also stays on the list of the
  task of its command. When that one carries a write with several buffers,
  `iser_task_free_dout_tasks` unlinks a buffer that is on no list (`crash = "dout"`).
  Several unsolicited buffers without an RDMA-Read are gathered in the last Data-Out,
  which is posted again while the command reads it; the contents of buffers are not
  modelled.
- A forced close puts a reference that TIMEWAIT_EXIT puts again (`iser.c:1303`); a
  queued task management request keeps one for ever; with a second connection
  in the session, lists keep tasks of a freed connection.
- The answer to a text request uses up the task of the NOP-In. A NOP-Out without
  answer and an unsupported task management function close the connection.
- A failed accept meets an assertion, a failed queue pair leaves the freed
  connection on its list.

Tape and changer:
- A command in the worker goes on with its old descriptor after the medium is
  swapped, on a closed one or one used again for the other medium (`raced`).
  `doc/README.mmc` says of a disc that it may be swapped while the device is offline.
- After a failed append, blocks acknowledged later may be unreachable (`bad`);
  WRITE FILEMARKS ignores errors of the append.
- Spacing back over filemarks goes one block too far and stops at a filemark that
  is the first block; spacing back over blocks never reports the beginning;
  spacing forward to the last block reports END OF DATA; a read of length zero
  skips a filemark.
- `add_slt` raises the count of the mode page before it refuses.
- LOAD looks only at the descriptor: a file that is no cartridge is loaded, and the
  drive goes on from the position of the medium before it. tgtadm's path update refuses
  such a file and leaves its descriptor open. A drive that is put online without a
  medium passes commands to the worker, which writes to descriptor 0 or -1.

Sheepdog:
- Two writers after a snapshot and a failover: a reload inside `update_inode` of
  one (`late`, `bs_sheepdog.c:1010`) loses the other's entry, and the command that met
  the snapshot writes to the old inode for ever.
- A write that fails after it created an object leaves the entry in memory only,
  and one whose reload fails records an object that was never created (`cut`). A read that runs into an object never written clears what it has
  read before (`spoilt`). `need_reload_inode` may be read before it is assigned
  (`stray`).

iSNS and timers:
- A failed connect leaves `num_targets` out of step, down to -1. Switching iSNS off
  then deletes a work item that may never have been added, through links that are
  NULL (`crash`, `isns.c:1066`). Unanswered queries
  stay on their list. A registration period of ten seconds makes the timer
  run without end and a shorter one wraps; more than thirty is assumed.
- A peer slower than the NOP interval times the count is closed though alive.

Management:
- The loop goes on without looking at `system_active` after a refresh, and a client
  that dies after the first bytes of a "system delete" ends the daemon. A target
  can be created between the check of "system delete" and the end
  (`mgmt.c:714`; `scripts/deb/init:78` relies on the order).
- When a client goes away while errno is EAGAIN, its task is never freed and its
  event fires for ever.
- Binding by address and name in one request, opening or closing a list of portals,
  and destroying a target with an active unit, stop halfway and report an error.
  A request that names no driver reaches a stopped one; starting a driver empties
  its list of targets, and a start that fails leaves it in error with the list empty.
- A request whose body is too large gets no answer (`mgmt.c:642`), and one that is a
  "system delete" ends the daemon without having been executed.

## Proofs

Every safety property that the passing runs of `CmdQueue`, `LuAccess`, the two
stores and `Mgmt` check is a theorem, for every number of commands, nexuses, keys,
LUs, threads, clients and requests.

| Theorem | States |
|---|---|
| `CmdQueueProofs!TypeCorrect` | `TypeOK` |
| `CmdQueueProofs!ActiveCountCorrect` | `ActiveCount` |
| `CmdQueueProofs!BlockedHasOwnerCorrect` | `BlockedHasOwner` |
| `CmdQueueProofs!NoLostWakeupCorrect` | `NoLostWakeup` |
| `CmdQueueProofs!TaskSetCorrect` | `TaskSetExact`, the three together |
| `CmdQueueProofs!LinksCorrect` | `NothingDangles` |
| `CmdQueueProofs!CauseCorrect` | `CrashHasCause` |
| `LuAccessProofs!TypeCorrect` | `TypeOK` |
| `LuAccessProofs!ReserverCorrect` | `ReserverLoggedIn` |
| `LuAccessProofs!LossCorrect` | `LossIsTold` |
| `LuAccessProofs!HolderKeptCorrect` | `HolderKept` |
| `LuAccessProofs!HolderCorrect` | `HolderRegistered`, without the commands of `Unsettles` |
| `LuAccessProofs!PromiseCorrect` | `PromiseKept` |
| `LuAccessProofs!PromiseImplemented` | `ReservationSpec`, without the commands of `Unsettles` and `Slips` |
| `BsThreadProofs!TypeCorrect` | `TypeOK`, so each pipe holds at most one message |
| `BsThreadProofs!AckCorrect` | `AckProtected` |
| `BsThreadProofs!CompletionCorrect` | `NoLostCompletion` |
| `BsThreadProofs!SubmissionCorrect` | `NoLostSubmission` |
| `BsThreadProofs!StrandedCorrect` | `NothingStranded`, the three together |
| `BsThreadProofs!CloseCorrect` | `CloseLosesNothing` |
| `BsThreadProofs!OnceInOrderCorrect` | `OnceInOrder` |
| `BsAioProofs!AioCorrect` | `AioExact` |
| `MgmtProofs!EventsCorrect` | `EventsFit` |
| `MgmtProofs!MessagesCorrect` | `MessagesWhole` |
| `MgmtProofs!RequestsCorrect` | `NothingHalf` |

The assumptions are the named `ASSUME`s of the modules: finite sets of commands,
requests and nexuses, `None` outside them, at least one thread per LU, a queue
depth of at least one, a generation counter that does not wrap after two
increments, and the ranges of attributes, functions and types. For `Mgmt`
(`ProfilesAssumption`) each profile starts in a state of the daemon: descriptors
are distinct, drivers with targets run and list them, backing stores are those of
the units. Requests may ask for anything.

**CmdQueue, the task set** (`CmdQueueProofs`, its invariant in `CmdQueueCause`). `active = Cardinality(Started)`
alone is not inductive: a decrement has to know that the completed command is
still counted, and that it is completed once. `IInv` adds where every command
can be (`ListsOK`, `QueueOK`), that a frame that frees a task has taken it off its
nexus and that only the top frame can be completing a command (`StackOK`), and
that either the head of the queue may not start or a walk of the queue stands at
its head (`Settled \/ WalkAtHead`), which is what makes `NoLostWakeup` hold
again when the stack is empty. The proof has one lemma per step of the stack.
`IInv` holds until a queued command is aborted.

**CmdQueue, references** (`CmdQueueLinks`, `CmdQueueCause`). `NothingDangles` has no
such premise, so its invariant `Links` is a second one that survives aborts and
the double completion. It says that the reference count of a connection is the
number of its commands and requests, and one more while it is open or
`conn_close` walks its tasks (`RefOK`); that a request counts at least the commands that
carry it (`TmOK`); and what a stack may look like (`FramesOK`): which commands, nexuses and
requests its frames work on, that a command is freed by one frame only, that one
still on the list of its nexus is completed by one frame only, and that
`conn_close` and `abort_task_set` are the last frame. `Stack` has the sets as
parameters, so that its lemmas (a call, a return, a smaller set) serve the state
before and after a step.

**CmdQueue, crashes** (`CmdQueueCause`). `Cause` adds to `CrashHasCause` that without
an aborted command `abort_task_set` calls nothing and finds its commands on their
lists, and that with every connection open besides there is at most one walk of
the queue, which stands at its head. Then no saved entry is stale. A closed
connection breaks it because commands on it are freed inside the walk.

The lemmas of the three modules take the facts about cardinality they use as a
hypothesis, `Counting`; `CountingHolds` at the end of `CmdQueueProofs` derives
it from the library's theorems on finite sets, and no theorem assumes it.

**LuAccess.** `LossIsTold`, and that a sound reservation stays sound (`SoundOf`), follow
from the types, command by command. The refinement also needs that the nexuses
in the list are those with a key (`RegsKeyed`). From the two, `is_pr_holder` decides who
owns the reservation (`ResvOwns`), and the conflict bits who is let through
(`AccessPermitted`); each command then is a step of `ReservationSpec` or none.
`HolderCorrect` and `PromiseImplemented` assume of the constants that initiators
do not use MOVE, nor PREEMPT together with all-registrants or unknown types; then the
type of the reservation is one of `Types`, and no command is one of `Unsettles`.
`PromiseImplemented` assumes besides that the medium is accessed by READ and WRITE only,
so that none is one of `Slips`.

**BsThread.** `IInv` adds to the two wakeup properties who has the message of
the pipes and what each mode never uses (`MessageOK`), that the workers that
exist are those of open LUs and those still to join (`ThreadsOK`), and that every
command is where its state says (`CommandsOK`). The last two give that a worker
that is cancelled has no command, which is `CloseLosesNothing`, and that an LU
with pending commands has a worker to wake, which `NoLostSubmission` needs when
the signal meets nobody asleep. For the order, `OrderInv` adds that
the lists have no duplicates and hold the commands of their state (`PlacesOK`), that
commands come in the order of their numbers (`Numbered`), and that a pending list is
sorted and what an LU with one worker has taken precedes it (`Sorted`, `InOrder`).

**BsAio.** `IInv` adds to the conjuncts of `AioExact` that the wait list of an LU
has its waiting commands in order (`WaitExact`, `Numbered`), that
`bs_aio_get_completions` runs for one LU and never inside a batch (`ControlOK`), and that an
LU with waiting commands and none pending is excused or still to be served by the
walk, the end of the completions or the batch (`Covered`). That a batch keeps
lists and counters is shown once for everything `io_submit` may answer (`Takes`).

**Mgmt.** `EventsFit` needs to know what each descriptor of the loop stands for:
`EvOK` says that a client's descriptor is watched exactly while its task receives or
sends (`On`), a connection's exactly while it is not closing, that listed portals
are watched, and that a batch holds no deleted event once a handler returned,
which is what `event_need_refresh` is for. `TaskOK` ties the state of a task to
the pieces it has read and written (`TaskInv`), and says that a task which is still in the
batch finds input or the end of it (`HasInput`): a handler that reads nothing would
otherwise close a client that waits. `SysOK` is the state requests work on:
units have their backing stores and no others (`Stores`), targets are on the list of
a running driver (`Listed`). What one request may do is said once (`Effect`) and
shown request by request, with the failures on the way, up to `ExecuteEffect`:
a request that fails leaves the state as it was or as `Half` says. The steps of
the loop use only that. TLC checked `IInv` on the `mgmt` instance.

Only model-checked: liveness (every property under "Fairness") is out of the
prover's reach. So is what a walk of a list computes, which needs induction
over data: the block chains of `Tape`, the sorted list of `Work`. `IscsiSession`,
`IscsiLogin`, `Iser`, `Tape`, `Library`, `Sheepdog` and `Isns` have no proofs.

## Not modelled

- Data and its layout: INQUIRY, VPD, mode and log pages, READ ELEMENT STATUS, sense
  data, byte order, the texts of "show" requests.
- Block commands (`sbc.c`, `scsi.c`) but for their access check: each computes
  offsets and sense data of one command. MMC keeps the profile of its disc and the
  length of a reserved track, which only commands of the unit itself change. OSD
  and SCC answer with constants.
- The rdwr, null, glfs, rbd and sg stores: library calls without state between
  commands; their threads are those of `BsThread`.
- The hash functions of CHAP, header and data digests, partial reads and writes of
  a socket within a PDU, RDMA verbs.
- `IscsiSession`: the negotiation during the full feature phase. `CmdQueue`: a
  session has one connection (the default of `MaxConnections` is 1).
- `IscsiLogin`: address masks of the ACL; one target.
- `Iser`: failures of malloc, memory registration and posting after the accept,
  extended CDBs, discovery sessions, CM errors without a TIMEWAIT event.
- `Tape`: one command at a time, a unit that is writable, of the files that are no
  cartridge only those too short for a header, and the block number in a header (it is only counted on and printed).
- `Sheepdog`: `sd_open` and its name parsing, the table of descriptors, a
  response lost in the middle of its header, `sd_sync`. Another client writes only
  while no command runs; `doc/README.sheepdog` excludes multipath.
- `Isns`: `isns_show`, the access control options, addresses of portals; the two
  clocks are one.
- `Mgmt`: account and session requests (accounts are in `IscsiLogin`), binding a SCSI
  host (a `bind` without a body), portals of the command line, stopping and
  starting the iSCSI driver's own timer, `ua_sense_add` failing for lack of memory.
- `log.c`, `parser.c`, option parsing and the command line tools, but for
  `ssc_new` of `tgtimg.c`, the blank cartridge of `Tape`.
- In `LuAccess` the order of the registration list only decides which registration
  is found first, and the list is a set.
