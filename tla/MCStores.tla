------------------------------ MODULE MCStores ------------------------------
(* The backing stores with worker threads and the one with Linux AIO, for  *)
(* TLC.  A behaviour has one of the two, and the variables of the other    *)
(* keep their initial values.                                              *)
EXTENDS BsThread, TLC

VARIABLES
    store,          \* "thread" or "aio"
    \* the variables of BsAio
    acmd, adev, wait_list, nwaiting, npending, evt_fd, unsignalled, dev_list,
    aopen, batch, walk, submitter, reap, aloop, ncomplete, excused, missed

Aio == INSTANCE BsAio WITH cmd <- acmd, dev <- adev, open <- aopen, loop <- aloop

aioVars == <<acmd, adev, wait_list, nwaiting, npending, evt_fd, unsignalled, dev_list,
             aopen, batch, walk, submitter, reap, aloop, ncomplete, excused, missed>>
all == <<vars, aioVars, store>>

\* bs_rdwr has nr_iothreads workers for each LU, bs_ssc has one.
Threads == [lu \in Lus |-> IF lu = "l1" THEN 2 ELSE 1]

\* A with the workers, B with AIO.
InThread(A) == store = "thread" /\ A /\ UNCHANGED <<aioVars, store>>
InAio(B) == store = "aio" /\ B /\ UNCHANGED <<vars, store>>

\* Fairness of BsThread and of BsAio, for the store of the behaviour.
MCFairness ==
    /\ WF_all(InThread(LoopStep))
    /\ SF_all(InThread(sig_read)) /\ SF_all(InThread(done_read))
    /\ WF_all(InThread(AckStep))
    /\ \A w \in Workers : /\ WF_all(InThread(WorkerStep(w)))
                          /\ SF_all(InThread(worker_cancelled(w)))
    /\ WF_all(InAio(Aio!Handler)) /\ WF_all(InAio(Aio!BatchCut))
    /\ \A c \in Cmds : WF_all(InAio(Aio!IoDone(c)))
    /\ \A l \in Lus : /\ WF_all(InAio(Aio!eventfd_signal(l)))
                      /\ SF_all(InAio(Aio!bs_aio_get_completions(l)))

MCInit ==
    /\ Init /\ Aio!Init /\ store \in {"thread", "aio"}
    /\ store = "aio" => HasSigFd

\* Two LUs at a time have a command less.
Bounded == Cardinality(open') <= 1 \/ cmd'[NrCmds] = "new"

MCSpec ==
    /\ MCInit
    /\ [][InThread(Next /\ Bounded) \/ InAio(Aio!Next)]_all
    /\ MCFairness

-----------------------------------------------------------------------------
(* The lists, the counters and the events of AIO are right (AioExact of    *)
(* BsAio: bs_aio_submit_dev_batch, bs_aio_get_completions, bs_aio_exit).   *)
AioExact == Aio!AioExact

(* Every command handed to a store is completed, and joining the workers   *)
(* of a closed LU ends (Quiet of BsThread and of BsAio).  A behaviour has  *)
(* at most NrCmds commands, so that none is left at some later time.       *)
EveryCommandCompletes == []<>(IF store = "aio" THEN Aio!Quiet ELSE Quiet)
=============================================================================
