--------------------------- MODULE BsThreadProofs ---------------------------
(***************************************************************************)
(* The hand-over between the event loop, the workers and the ack thread,   *)
(* that closing an LU loses nothing and that commands are run once and in  *)
(* order, proved for every number of commands, logical units and threads.  *)
(***************************************************************************)
EXTENDS BsThread, SequenceTheorems, TLAPS

-----------------------------------------------------------------------------
(* The inductive invariant.                                                *)

\* Who has the message of the two pipes, and what each mode never uses.
MessageOK ==
    /\ AckProtected
    /\ ~HasSigFd => ~sigusr2 /\ loop # "splice"
    /\ HasSigFd => command_fd = 0 /\ done_fd = 0

\* The workers that exist are those of the open LUs and those still to join.
ThreadsOK ==
    /\ loop = "join" <=> joins # <<>>
    /\ \A w \in Workers : w[1] \in open => worker[w] # "none"
    /\ \A w \in Workers : worker[w] # "none" =>
          w[1] \in open \/ \E k \in 1..Len(joins) : joins[k] = w
    /\ \A k \in 1..Len(joins) : joins[k][1] \notin open
    /\ \A w \in cancelled : joins # <<>> /\ w = Head(joins)

\* No command is lost, and one that is not finished belongs to an open LU.
OwnedOK ==
    \A c \in Cmds : /\ cmd[c] # "lost"
                    /\ cmd[c] \in {"pending", "running"} => dev[c] \in open

\* The pending lists hold the pending commands of their LU, each one once.
PendingOK ==
    \A lu \in Lus : \A k \in 1..Len(pending_list[lu]) :
        cmd[pending_list[lu][k]] = "pending" /\ dev[pending_list[lu][k]] = lu

PendingOnce ==
    \A lu \in Lus : \A j, k \in 1..Len(pending_list[lu]) :
        pending_list[lu][j] = pending_list[lu][k] => j = k

\* A worker that runs has a running command of its LU for itself.
RunningOK ==
    \A w \in Workers : worker[w] = "run" =>
        /\ current[w] \in Cmds
        /\ cmd[current[w]] = "running"
        /\ dev[current[w]] = w[1]

RunningOnce ==
    \A v, w \in Workers :
        worker[v] = "run" /\ worker[w] = "run" /\ current[v] = current[w] => v = w

\* The lists behind the workers hold commands that have been run.
FinishedOK ==
    \A k \in 1..Len(finished_list) : cmd[finished_list[k]] \in {"finished", "done"}

AckOK ==
    \A k \in 1..Len(ack_list) : cmd[ack_list[k]] \in {"finished", "done"}

\* Every command is where its state says.
CommandsOK ==
    /\ OwnedOK /\ PendingOK /\ PendingOnce /\ RunningOK /\ RunningOnce
    /\ FinishedOK /\ AckOK

IInv ==
    /\ TypeOK /\ MessageOK /\ ThreadsOK /\ CommandsOK
    /\ NoLostCompletion /\ NoLostSubmission

-----------------------------------------------------------------------------
(* Facts about sequences.                                                  *)

\* The first element and the rest of a list.
LEMMA TailProps ==
    ASSUME NEW S, NEW s \in Seq(S), s # <<>>
    PROVE  /\ Head(s) \in S
           /\ Head(s) = s[1]
           /\ Tail(s) \in Seq(S)
           /\ Len(s) \in Nat \ {0}
           /\ Len(Tail(s)) = Len(s) - 1
           /\ Tail(s) = <<>> <=> Len(s) = 1
           /\ \A k \in 1..Len(Tail(s)) : Tail(s)[k] = s[k + 1]
  <1>1. /\ Head(s) \in S /\ Head(s) = s[1] /\ Tail(s) \in Seq(S)
        /\ Len(s) \in Nat \ {0} /\ Len(Tail(s)) = Len(s) - 1
    OBVIOUS
  <1>2. \A k \in 1..Len(Tail(s)) : Tail(s)[k] = s[k + 1]
    OBVIOUS
  <1>3. Tail(s) = <<>> <=> Len(Tail(s)) = 0
    BY <1>1, EmptySeq, Zenon
  <1> QED BY <1>1, <1>2, <1>3

\* The workers of an LU in a row, as bs_thread_close and bs_thread_open join
\* them.
LEMMA JoinsType ==
    ASSUME NEW lu \in Lus, NEW n \in 0..NrThreads[lu]
    PROVE  /\ [k \in 1..n |-> <<lu, n + 1 - k>>] \in Seq(Workers)
           /\ Len([k \in 1..n |-> <<lu, n + 1 - k>>]) = n
           /\ [k \in 1..n |-> <<lu, k>>] \in Seq(Workers)
           /\ Len([k \in 1..n |-> <<lu, k>>]) = n
  <1>1. n \in Nat /\ \A k \in 1..n : k \in 1..NrThreads[lu] /\ n + 1 - k \in 1..NrThreads[lu]
    BY ThreadConstants
  <1>2. \A k \in 1..n : <<lu, n + 1 - k>> \in Workers /\ <<lu, k>> \in Workers
    BY <1>1 DEF Workers
  <1>3. \A f : f \in [1..n -> Workers] => f \in Seq(Workers) /\ Len(f) = n
    BY <1>1
  <1>4. /\ [k \in 1..n |-> <<lu, n + 1 - k>>] \in [1..n -> Workers]
        /\ [k \in 1..n |-> <<lu, k>>] \in [1..n -> Workers]
    BY <1>2, Zenon
  <1> QED BY Zenon, <1>3, <1>4

-----------------------------------------------------------------------------
(* Typing.                                                                 *)

\* The steps of the event loop that open and close LUs.
LEMMA TypeLus ==
    ASSUME TypeOK, ThreadsOK,
           \/ \E lu \in Lus : \E n \in 0..NrThreads[lu] : bs_thread_open(lu, n)
           \/ \E lu \in Lus : tgt_device_destroy(lu)
           \/ pthread_cancel \/ pthread_join
    PROVE  TypeOK'
  <1>1. ASSUME NEW lu \in Lus, NEW n \in 0..NrThreads[lu], bs_thread_open(lu, n)
        PROVE  TypeOK'
    <2>1. worker' \in [Workers -> {"none", "lock", "wait", "run", "notify"}]
      BY Zenon, <1>1 DEF bs_thread_open, TypeOK
    <2>2. joins' \in Seq(Workers)
      BY Zenon, <1>1, JoinsType DEF bs_thread_open, TypeOK
    <2> QED BY ZenonT(30), <1>1, <2>1, <2>2 DEF bs_thread_open, TypeOK, cmdVars, fdVars
  <1>2. ASSUME NEW lu \in Lus, tgt_device_destroy(lu) PROVE TypeOK'
    <2>1. NrThreads[lu] \in 0..NrThreads[lu]
      BY ThreadConstants
    <2>2. joins' \in Seq(Workers)
      BY <1>2, <2>1, JoinsType, Zenon DEF tgt_device_destroy
    <2> QED BY Zenon, <1>2, <2>2 DEF tgt_device_destroy, TypeOK, cmdVars, fdVars
  <1>3. CASE pthread_cancel
    <2>1. Head(joins) \in Workers
      BY Zenon, <1>3, TailProps DEF pthread_cancel, ThreadsOK, TypeOK
    <2> QED BY Zenon, <1>3, <2>1 DEF pthread_cancel, TypeOK, cmdVars, fdVars, loopVars
  <1>4. CASE pthread_join
    <2>1. Tail(joins) \in Seq(Workers)
      BY Zenon, <1>4, TailProps DEF pthread_join, ThreadsOK, TypeOK
    <2> QED BY Zenon, <1>4, <2>1 DEF pthread_join, TypeOK, cmdVars, fdVars
  <1> QED BY Zenon, <1>1, <1>2, <1>3, <1>4

\* The steps of the event loop that submit and complete commands.
LEMMA TypeLoop ==
    ASSUME TypeOK, MessageOK,
           \/ \E lu \in Lus, c \in Cmds : bs_thread_cmd_submit(lu, c)
           \/ SignalPending \/ sig_read
           \/ sig_splice \/ done_read \/ complete_first \/ drained
    PROVE  TypeOK'
  <1>1. ASSUME NEW lu \in Lus, NEW c \in Cmds, bs_thread_cmd_submit(lu, c)
        PROVE  TypeOK'
    <2>1. Append(pending_list[lu], c) \in Seq(Cmds)
      BY ZenonT(30), AppendProperties DEF TypeOK
    <2>2. pending_list' \in [Lus -> Seq(Cmds)]
      BY Zenon, <1>1, <2>1 DEF bs_thread_cmd_submit, TypeOK
    <2> QED BY Zenon, <1>1, <2>2 DEF bs_thread_cmd_submit, TypeOK, fdVars
  <1>2. CASE SignalPending
    BY Zenon, <1>2 DEF SignalPending, TypeOK, cmdVars, fdVars
  <1>3. CASE sig_read
    BY <1>3, Zenon DEF sig_read, TypeOK, cmdVars
  <1>4. CASE sig_splice
    <2>1. <<>> \in Seq(Cmds)
      OBVIOUS
    <2> QED BY Zenon, <1>4, <2>1 DEF sig_splice, TypeOK, cmdVars, fdVars
  <1>5. CASE done_read
    <2>1. done_fd' \in 0..1
      BY <1>5 DEF done_read, TypeOK
    <2> QED BY Zenon, <1>5, <2>1 DEF done_read, TypeOK, cmdVars
  <1>6. CASE complete_first
    <2>1. Head(ack_list) \in Cmds /\ Tail(ack_list) \in Seq(Cmds)
      BY Zenon, <1>6, TailProps DEF complete_first, TypeOK
    <2> QED BY Zenon, <1>6, <2>1 DEF complete_first, TypeOK, fdVars, loopVars
  <1>7. CASE drained
    <2>1. command_fd' \in 0..1
      BY <1>7 DEF drained, TypeOK, MessageOK, AckProtected
    <2> QED BY Zenon, <1>7, <2>1 DEF drained, TypeOK, cmdVars
  <1> QED BY Zenon, <1>1, <1>2, <1>3, <1>4, <1>5, <1>6, <1>7

\* The steps of the workers.
LEMMA TypeWorker ==
    ASSUME TypeOK, CommandsOK, NEW w \in Workers,
           \/ worker_take(w) \/ worker_spurious_wakeup(w) \/ worker_cancelled(w)
           \/ worker_finish(w) \/ worker_notify(w)
    PROVE  TypeOK'
  <1>1. CASE worker_take(w)
    <2>1. w[1] \in Lus
      BY DEF Workers
    <2>2. CASE pending_list[w[1]] = <<>>
      BY Zenon, <1>1, <2>2 DEF worker_take, TypeOK, cmdVars, fdVars, loopVars
    <2>3. CASE pending_list[w[1]] # <<>>
      <3>1. Head(pending_list[w[1]]) \in Cmds /\ Tail(pending_list[w[1]]) \in Seq(Cmds)
        BY Zenon, <2>1, <2>3, TailProps DEF TypeOK
      <3>2. pending_list' \in [Lus -> Seq(Cmds)]
        BY <1>1, <2>1, <2>3, <3>1, Zenon DEF worker_take, TypeOK
      <3>3. current' \in [Workers -> Cmds \cup {None}]
        BY <1>1, <2>3, <3>1, Zenon DEF worker_take, TypeOK
      <3> QED BY <1>1, <2>3, <3>1, <3>2, <3>3, Zenon
           DEF worker_take, TypeOK, fdVars, loopVars
    <2> QED BY Zenon, <2>2, <2>3
  <1>2. CASE worker_spurious_wakeup(w)
    BY Zenon, <1>2 DEF worker_spurious_wakeup, TypeOK, cmdVars, fdVars, loopVars
  <1>3. CASE worker_cancelled(w)
    BY <1>3, Zenon DEF worker_cancelled, TypeOK, fdVars, loopVars
  <1>4. CASE worker_finish(w)
    <2>1. current[w] \in Cmds
      BY Zenon, <1>4 DEF worker_finish, CommandsOK, RunningOK
    <2>2. finished_list' \in Seq(Cmds)
      BY Zenon, <1>4, <2>1, AppendProperties DEF worker_finish, TypeOK
    <2> QED BY Zenon, <1>4, <2>1, <2>2 DEF worker_finish, TypeOK, fdVars, loopVars
  <1>5. CASE worker_notify(w)
    BY <1>5, Zenon DEF worker_notify, TypeOK, cmdVars, loopVars
  <1> QED BY Zenon, <1>1, <1>2, <1>3, <1>4, <1>5

\* The steps of the ack thread.
LEMMA TypeAck ==
    ASSUME TypeOK, MessageOK,
           ack_read \/ ack_collect \/ ack_spurious_wakeup \/ ack_write
    PROVE  TypeOK'
  <1>1. CASE ack_read
    <2>1. command_fd' \in 0..1
      BY <1>1 DEF ack_read, TypeOK
    <2> QED BY Zenon, <1>1, <2>1 DEF ack_read, TypeOK, cmdVars, loopVars
  <1>2. CASE ack_collect
    <2>1. ack_list \o finished_list \in Seq(Cmds) /\ <<>> \in Seq(Cmds)
      BY DEF TypeOK
    <2> QED BY <1>2, <2>1, Zenon DEF ack_collect, TypeOK, cmdVars, fdVars, loopVars
  <1>3. CASE ack_spurious_wakeup
    BY Zenon, <1>3 DEF ack_spurious_wakeup, TypeOK, cmdVars, fdVars, loopVars
  <1>4. CASE ack_write
    <2>2. /\ command_fd \in 0..1 /\ done_fd \in 0..1 /\ ack_thread = "write"
          /\ done_fd' = done_fd + 1 /\ (HasSigFd => done_fd = 0)
      BY Zenon, <1>4 DEF ack_write, TypeOK, MessageOK
    <2>3. AckProtected
      BY Zenon DEF MessageOK
    <2>1. done_fd' \in 0..1
      BY SMT, <2>2, <2>3 DEF AckProtected
    <2> QED BY Zenon, <1>4, <2>1 DEF ack_write, TypeOK, cmdVars, loopVars
  <1> QED BY Zenon, <1>1, <1>2, <1>3, <1>4

\* Every step keeps the types.
LEMMA TypeStep == IInv /\ [Next]_vars => TypeOK'
  <1> SUFFICES ASSUME IInv, [Next]_vars PROVE TypeOK'
    BY Zenon
  <1>1. CASE Next
    BY Zenon, <1>1, TypeLus, TypeLoop, TypeWorker, TypeAck
       DEF Next, IInv, LoopStep, WorkerStep, AckStep
  <1>2. CASE UNCHANGED vars
    BY Zenon, <1>2 DEF IInv, TypeOK, vars, cmdVars, fdVars, loopVars
  <1> QED BY Zenon, <1>1, <1>2

-----------------------------------------------------------------------------
(* The message of the two pipes.                                           *)

\* One message circulates between the ack thread and the event loop.
LEMMA MessageStep == IInv /\ [Next]_vars => MessageOK'
  <1> SUFFICES ASSUME TypeOK, MessageOK, ThreadsOK, [Next]_vars PROVE MessageOK'
    BY Zenon DEF IInv
  <1> USE DEF MessageOK, AckProtected, TypeOK, HasSigFd
  <1>1. ASSUME NEW lu \in Lus, NEW n \in 0..NrThreads[lu], bs_thread_open(lu, n)
        PROVE  MessageOK'
    BY Zenon, <1>1 DEF bs_thread_open, fdVars
  <1>2. ASSUME NEW lu \in Lus, tgt_device_destroy(lu) PROVE MessageOK'
    BY Zenon, <1>2 DEF tgt_device_destroy, fdVars
  <1>3. ASSUME NEW lu \in Lus, NEW c \in Cmds, bs_thread_cmd_submit(lu, c)
        PROVE  MessageOK'
    BY Zenon, <1>3 DEF bs_thread_cmd_submit, fdVars
  <1>4. CASE SignalPending
    BY Zenon, <1>4 DEF SignalPending, fdVars
  <1>5. CASE pthread_cancel
    BY Zenon, <1>5 DEF pthread_cancel, fdVars, loopVars
  <1>6. CASE pthread_join
    BY Zenon, <1>6 DEF pthread_join, fdVars
  <1>7. CASE sig_read
    BY Zenon, <1>7, ThreadConstants DEF sig_read
  <1>8. CASE sig_splice
    BY Zenon, <1>8, ThreadConstants DEF sig_splice, fdVars
  <1>9. CASE done_read
    BY <1>9, ThreadConstants DEF done_read
  <1>10. CASE complete_first
    BY Zenon, <1>10 DEF complete_first, fdVars, loopVars
  <1>11. CASE drained
    BY <1>11, ThreadConstants DEF drained
  <1>12. CASE ack_read
    BY <1>12, ThreadConstants DEF ack_read, loopVars
  <1>13. CASE ack_collect
    BY Zenon, <1>13 DEF ack_collect, fdVars, loopVars
  <1>14. CASE ack_spurious_wakeup
    BY Zenon, <1>14 DEF ack_spurious_wakeup, fdVars, loopVars
  <1>15. CASE ack_write
    BY SMTT(30), <1>15, ThreadConstants DEF ack_write, loopVars
  <1>16. ASSUME NEW w \in Workers,
                \/ worker_take(w) \/ worker_spurious_wakeup(w)
                \/ worker_cancelled(w) \/ worker_finish(w)
         PROVE  MessageOK'
    BY SMTT(30), <1>16 DEF worker_take, worker_spurious_wakeup, worker_cancelled,
                 worker_finish, fdVars, loopVars
  <1>17. ASSUME NEW w \in Workers, worker_notify(w) PROVE MessageOK'
    BY Zenon, <1>17, ThreadConstants DEF worker_notify, loopVars
  <1>18. CASE UNCHANGED vars
    BY Zenon, <1>18 DEF vars, fdVars, loopVars
  <1> QED BY Zenon, <1>1, <1>2, <1>3, <1>4, <1>5, <1>6, <1>7, <1>8, <1>9, <1>10,
             <1>11, <1>12, <1>13, <1>14, <1>15, <1>16, <1>17, <1>18
          DEF Next, LoopStep, WorkerStep, AckStep

-----------------------------------------------------------------------------
(* The threads.                                                            *)

\* bs_thread_open and bs_thread_close create and join whole sets of workers.
LEMMA ThreadsLus ==
    ASSUME TypeOK, ThreadsOK,
           \/ \E lu \in Lus : \E n \in 0..NrThreads[lu] : bs_thread_open(lu, n)
           \/ \E lu \in Lus : tgt_device_destroy(lu)
           \/ pthread_cancel \/ pthread_join
    PROVE  ThreadsOK'
  <1>1. ASSUME NEW lu \in Lus, NEW n \in 0..NrThreads[lu], bs_thread_open(lu, n)
        PROVE  ThreadsOK'
    <2>1. joins = <<>> /\ cancelled = {} /\ Len(joins) = 0
      BY Zenon, <1>1 DEF bs_thread_open, ThreadsOK
    <2>2. CASE n = NrThreads[lu]
      <3>1. \A w \in Workers : w[1] = lu => w[2] <= n
        BY SMTT(30), <2>2, ThreadConstants DEF Workers
      <3> QED BY <1>1, <2>1, <2>2, <3>1 DEF bs_thread_open, ThreadsOK, TypeOK
    <2>3. CASE n # NrThreads[lu]
      <3>1. joins' = [k \in 1..n |-> <<lu, n + 1 - k>>] /\ Len(joins') = n /\ n \in Nat
        BY SMTT(30), <1>1, <2>3, JoinsType DEF bs_thread_open
      <3>2. loop' = "join" <=> joins' # <<>>
        <4>1. joins' = <<>> <=> n = 0
          BY <3>1, JoinsType, EmptySeq, Zenon
        <4> QED BY Zenon, <1>1, <2>1, <2>3, <4>1 DEF bs_thread_open
      <3>3. ASSUME NEW w \in Workers, worker'[w] # "none"
            PROVE  w[1] \in open' \/ \E k \in 1..Len(joins') : joins'[k] = w
        <4>1. CASE w[1] = lu /\ w[2] <= n
          <5>1. w[2] \in Nat \ {0} /\ w = <<lu, w[2]>>
            BY <4>1 DEF Workers
          <5>2. n + 1 - w[2] \in 1..n /\ n + 1 - (n + 1 - w[2]) = w[2]
            BY SMTT(30), <3>1, <4>1, <5>1
          <5> QED BY Zenon, <3>1, <5>1, <5>2
        <4>2. CASE ~(w[1] = lu /\ w[2] <= n)
          BY SMTT(30), <1>1, <2>1, <2>3, <3>3, <4>2 DEF bs_thread_open, ThreadsOK
        <4> QED BY Zenon, <4>1, <4>2
      <3>4. \A k \in 1..Len(joins') : joins'[k][1] \notin open'
        BY Zenon, <1>1, <2>3, <3>1 DEF bs_thread_open
      <3>5. \A w \in Workers : w[1] \in open' => worker'[w] # "none"
        BY Zenon, <1>1, <2>3 DEF bs_thread_open, ThreadsOK, TypeOK
      <3> QED BY Zenon, <1>1, <2>1, <3>2, <3>3, <3>4, <3>5 DEF bs_thread_open, ThreadsOK
    <2> QED BY Zenon, <2>2, <2>3
  <1>2. ASSUME NEW lu \in Lus, tgt_device_destroy(lu) PROVE ThreadsOK'
    <2>1. joins = <<>> /\ cancelled = {} /\ Len(joins) = 0
      BY Zenon, <1>2 DEF tgt_device_destroy, ThreadsOK
    <2>2. /\ joins' = [k \in 1..NrThreads[lu] |-> <<lu, k>>] /\ Len(joins') = NrThreads[lu]
          /\ NrThreads[lu] \in Nat \ {0}
      BY <1>2, JoinsType, ThreadConstants DEF tgt_device_destroy
    <2>3. joins' # <<>>
      BY <2>2, Zenon
    <2>4. ASSUME NEW w \in Workers, worker'[w] # "none"
          PROVE  w[1] \in open' \/ \E k \in 1..Len(joins') : joins'[k] = w
      <3>1. CASE w[1] = lu
        <4>1. w[2] \in 1..NrThreads[lu] /\ w = <<lu, w[2]>>
          BY SMTT(30), <3>1 DEF Workers
        <4> QED BY Zenon, <2>2, <4>1
      <3>2. CASE w[1] # lu
        BY SMTT(30), <1>2, <2>1, <2>4, <3>2 DEF tgt_device_destroy, ThreadsOK
      <3> QED BY Zenon, <3>1, <3>2
    <2>5. \A k \in 1..Len(joins') : joins'[k][1] \notin open'
      BY SMTT(30), <1>2, <2>2 DEF tgt_device_destroy
    <2>6. \A w \in Workers : w[1] \in open' => worker'[w] # "none"
      BY Zenon, <1>2 DEF tgt_device_destroy, ThreadsOK
    <2>7. loop' = "join" /\ cancelled' = {}
      BY ZenonT(30), <1>2, <2>1 DEF tgt_device_destroy
    <2> QED BY ZenonT(30), <2>3, <2>4, <2>5, <2>6, <2>7 DEF ThreadsOK
  <1>3. CASE pthread_cancel
    BY Zenon, <1>3 DEF pthread_cancel, ThreadsOK, loopVars
  <1>4. CASE pthread_join
    <2>1. /\ joins # <<>> /\ joins' = Tail(joins) /\ Head(joins) = joins[1]
          /\ Len(joins) \in Nat \ {0} /\ Len(joins') = Len(joins) - 1
          /\ joins' = <<>> <=> Len(joins) = 1
          /\ \A k \in 1..Len(joins') : joins'[k] = joins[k + 1]
      BY SMTT(30), <1>4, TailProps DEF pthread_join, ThreadsOK, TypeOK
    <2>2. cancelled' = {}
      BY Zenon, <1>4 DEF pthread_join, ThreadsOK
    <2>3. ASSUME NEW w \in Workers, worker'[w] # "none"
          PROVE  w[1] \in open' \/ \E k \in 1..Len(joins') : joins'[k] = w
      <3>1. worker[w] # "none" /\ w # joins[1]
        BY Zenon, <1>4, <2>1, <2>3 DEF pthread_join
      <3>2. CASE w[1] \in open
        BY ZenonT(30), <1>4, <3>2 DEF pthread_join
      <3>3. ASSUME NEW k \in 1..Len(joins), joins[k] = w
            PROVE  \E l \in 1..Len(joins') : joins'[l] = w
        <4>1. k - 1 \in 1..Len(joins') /\ (k - 1) + 1 = k
          BY <2>1, <3>1, <3>3
        <4> QED BY ZenonT(30), <2>1, <3>3, <4>1
      <3> QED BY Zenon, <3>1, <3>2, <3>3 DEF ThreadsOK
    <2>4. \A k \in 1..Len(joins') : joins'[k][1] \notin open'
      <3>1. \A k \in 1..Len(joins') : k + 1 \in 1..Len(joins)
        BY <2>1
      <3> QED BY <1>4, <2>1, <3>1 DEF pthread_join, ThreadsOK
    <2>5. loop' = "join" <=> joins' # <<>>
      BY Zenon, <1>4, <2>1 DEF pthread_join
    <2> QED BY ZenonT(30), <1>4, <2>2, <2>3, <2>4, <2>5 DEF pthread_join, ThreadsOK
  <1> QED BY Zenon, <1>1, <1>2, <1>3, <1>4

\* Every step keeps the threads in step with the LUs.
LEMMA ThreadsStep == IInv /\ [Next]_vars => ThreadsOK'
  <1> SUFFICES ASSUME TypeOK, MessageOK, ThreadsOK, [Next]_vars PROVE ThreadsOK'
    BY Zenon DEF IInv
  <1>1. CASE \/ \E lu \in Lus : \E n \in 0..NrThreads[lu] : bs_thread_open(lu, n)
             \/ \E lu \in Lus : tgt_device_destroy(lu)
             \/ pthread_cancel \/ pthread_join
    BY ZenonT(30), <1>1, ThreadsLus
  <1>2. ASSUME NEW lu \in Lus, NEW c \in Cmds, bs_thread_cmd_submit(lu, c)
        PROVE  ThreadsOK'
    BY ZenonT(30), <1>2 DEF bs_thread_cmd_submit, ThreadsOK
  <1>3. CASE SignalPending
    BY SMTT(30), <1>3 DEF SignalPending, ThreadsOK, TypeOK, Waiting
  <1>4. CASE sig_read \/ sig_splice \/ done_read \/ complete_first \/ drained
    BY ZenonT(30), <1>4 DEF sig_read, sig_splice, done_read, complete_first, drained,
                loopVars, ThreadsOK
  <1>5. CASE ack_read \/ ack_collect \/ ack_spurious_wakeup \/ ack_write
    BY Zenon, <1>5 DEF ack_read, ack_collect, ack_spurious_wakeup, ack_write,
                loopVars, ThreadsOK
  <1>6. ASSUME NEW w \in Workers,
               worker_take(w) \/ worker_spurious_wakeup(w)
                 \/ worker_finish(w) \/ worker_notify(w)
        PROVE  ThreadsOK'
    <2>1. /\ UNCHANGED <<loopVars, cancelled>>
          /\ \A v \in Workers : worker'[v] # "none" <=> worker[v] # "none"
      BY SMTT(30), <1>6 DEF worker_take, worker_spurious_wakeup, worker_finish,
                  worker_notify, TypeOK
    <2> QED BY ZenonT(30), <2>1 DEF ThreadsOK, loopVars
  <1>7. ASSUME NEW w \in Workers, worker_cancelled(w) PROVE ThreadsOK'
    <2>1. joins # <<>> /\ w = Head(joins)
      BY ZenonT(30), <1>7 DEF worker_cancelled, ThreadsOK
    <2>2. w[1] \notin open
      <3>1. Head(joins) = joins[1] /\ 1 \in 1..Len(joins)
        BY SMTT(30), <2>1, TailProps DEF TypeOK
      <3> QED BY ZenonT(30), <2>1, <3>1 DEF ThreadsOK
    <2> QED BY SMTT(30), <1>7, <2>2 DEF worker_cancelled, ThreadsOK, TypeOK, loopVars
  <1>8. CASE UNCHANGED vars
    BY Zenon, <1>8 DEF vars, loopVars, ThreadsOK
  <1> QED BY Zenon, <1>1, <1>2, <1>3, <1>4, <1>5, <1>6, <1>7, <1>8
          DEF Next, LoopStep, WorkerStep, AckStep

-----------------------------------------------------------------------------
(* The commands.                                                           *)

\* bs_thread_cmd_submit adds a new command at the end of the list.
LEMMA SubmitCommands ==
    ASSUME TypeOK, CommandsOK, NEW lu \in Lus, NEW c \in Cmds,
           bs_thread_cmd_submit(lu, c)
    PROVE  CommandsOK'
  <1>1. /\ cmd[c] = "new" /\ cmd' = [cmd EXCEPT ![c] = "pending"]
        /\ dev' = [dev EXCEPT ![c] = lu]
        /\ pending_list' = [pending_list EXCEPT ![lu] = Append(pending_list[lu], c)]
        /\ UNCHANGED <<open, worker, current, finished_list, ack_list>>
        /\ lu \in open
    BY Zenon DEF bs_thread_cmd_submit, IsNext
  <1>2. /\ \A d \in Cmds : d # c => cmd'[d] = cmd[d] /\ dev'[d] = dev[d]
        /\ cmd'[c] = "pending" /\ dev'[c] = lu
    BY ZenonT(30), <1>1 DEF TypeOK
  <1> DEFINE p == pending_list[lu]
  <1>3. /\ p \in Seq(Cmds) /\ Len(p) \in Nat /\ pending_list'[lu] = Append(p, c)
        /\ Len(Append(p, c)) = Len(p) + 1 /\ Append(p, c)[Len(p) + 1] = c
        /\ \A k \in 1..Len(p) : Append(p, c)[k] = p[k] /\ p[k] \in Cmds
        /\ \A l \in Lus : l # lu => pending_list'[l] = pending_list[l]
    BY <1>1, AppendProperties DEF TypeOK
  <1>4. /\ \A k \in 1..Len(p) : cmd[p[k]] = "pending" /\ dev[p[k]] = lu /\ p[k] # c
        /\ \A j, k \in 1..Len(p) : p[j] = p[k] => j = k
    BY <1>1 DEF CommandsOK, PendingOK, PendingOnce
  <1> HIDE DEF p
  <1>5. PendingOK'
    <2>1. ASSUME NEW k \in 1..(Len(p) + 1)
          PROVE  cmd'[Append(p, c)[k]] = "pending" /\ dev'[Append(p, c)[k]] = lu
      <3>1. CASE k \in 1..Len(p)
        BY <1>2, <1>3, <1>4, <3>1
      <3>2. CASE k = Len(p) + 1
        BY Zenon, <1>2, <1>3, <3>2
      <3> QED BY <1>3, <3>1, <3>2
    <2>2. ASSUME NEW l \in Lus, l # lu, NEW k \in 1..Len(pending_list[l])
          PROVE  cmd'[pending_list[l][k]] = "pending" /\ dev'[pending_list[l][k]] = l
      <3>1. pending_list[l][k] \in Cmds
        BY DEF TypeOK
      <3> QED BY <1>1, <1>2, <3>1 DEF CommandsOK, PendingOK
    <2> QED BY SMTT(30), <1>3, <2>1, <2>2 DEF PendingOK
  <1>6. PendingOnce'
    <2>1. \A j, k \in 1..(Len(p) + 1) : Append(p, c)[j] = Append(p, c)[k] => j = k
      BY <1>3, <1>4
    <2> QED BY <1>3, <2>1, ZenonT(40) DEF CommandsOK, PendingOnce
  <1>7. RunningOK' /\ RunningOnce'
    BY <1>1, <1>2 DEF CommandsOK, RunningOK, RunningOnce
  <1>8. FinishedOK' /\ AckOK'
    <2>1. /\ \A k \in 1..Len(finished_list) : finished_list[k] \in Cmds
          /\ \A k \in 1..Len(ack_list) : ack_list[k] \in Cmds
      BY SMTT(30) DEF TypeOK
    <2> QED BY SMTT(30), <1>1, <1>2, <2>1 DEF CommandsOK, FinishedOK, AckOK
  <1>9. OwnedOK'
    BY SMTT(30), <1>1, <1>2 DEF CommandsOK, OwnedOK
  <1> QED BY Zenon, <1>5, <1>6, <1>7, <1>8, <1>9 DEF CommandsOK

\* A worker takes the first command, which nobody else has.
LEMMA TakeCommands ==
    ASSUME TypeOK, CommandsOK, NEW w \in Workers, worker_take(w),
           pending_list[w[1]] # <<>>
    PROVE  CommandsOK'
  <1> DEFINE lu == w[1]
             p == pending_list[lu]
             c == p[1]
  <1>1. lu \in Lus /\ p \in Seq(Cmds)
    BY DEF Workers, TypeOK
  <1>2. /\ Head(p) = c /\ c \in Cmds /\ Tail(p) \in Seq(Cmds)
        /\ Len(p) \in Nat \ {0} /\ Len(Tail(p)) = Len(p) - 1
        /\ \A k \in 1..Len(Tail(p)) : Tail(p)[k] = p[k + 1]
    BY <1>1, TailProps
  <1>3. /\ worker' = [worker EXCEPT ![w] = "run"]
        /\ current' = [current EXCEPT ![w] = c]
        /\ cmd' = [cmd EXCEPT ![c] = "running"]
        /\ pending_list' = [pending_list EXCEPT ![lu] = Tail(p)]
        /\ UNCHANGED <<dev, open, finished_list, ack_list>>
    BY ZenonT(30), <1>2 DEF worker_take, loopVars
  <1>4. /\ \A d \in Cmds : d # c => cmd'[d] = cmd[d]
        /\ cmd'[c] = "running" /\ worker'[w] = "run" /\ current'[w] = c
        /\ \A v \in Workers : v # w => worker'[v] = worker[v] /\ current'[v] = current[v]
        /\ pending_list'[lu] = Tail(p)
        /\ \A l \in Lus : l # lu => pending_list'[l] = pending_list[l]
    BY SMTT(30), <1>1, <1>2, <1>3 DEF TypeOK
  <1>5. /\ \A k \in 1..Len(p) : p[k] \in Cmds /\ cmd[p[k]] = "pending" /\ dev[p[k]] = lu
        /\ \A j, k \in 1..Len(p) : p[j] = p[k] => j = k
        /\ cmd[c] = "pending" /\ dev[c] = lu
    BY SMTT(30), <1>1, <1>2 DEF CommandsOK, PendingOK, PendingOnce
  <1>6. \A k \in 1..Len(p) : p[k] = c => k = 1
    BY <1>2, <1>5
  <1> HIDE DEF c, p, lu
  <1>7. PendingOK'
    <2>1. ASSUME NEW k \in 1..Len(Tail(p))
          PROVE  cmd'[Tail(p)[k]] = "pending" /\ dev'[Tail(p)[k]] = lu
      <3>1. k + 1 # 1 /\ k + 1 \in 1..Len(p) /\ Tail(p)[k] = p[k + 1]
        BY <1>2
      <3>2. p[k + 1] \in Cmds /\ p[k + 1] # c
        BY Zenon, <1>5, <1>6, <3>1
      <3> QED BY <1>3, <1>4, <1>5, <3>1, <3>2
    <2>2. ASSUME NEW l \in Lus, l # lu, NEW k \in 1..Len(pending_list[l])
          PROVE  cmd'[pending_list[l][k]] = "pending" /\ dev'[pending_list[l][k]] = l
      <3>1. pending_list[l][k] \in Cmds
        BY DEF TypeOK
      <3>2. cmd[pending_list[l][k]] = "pending" /\ dev[pending_list[l][k]] = l
        BY Zenon DEF CommandsOK, PendingOK
      <3> QED BY ZenonT(30), <1>3, <1>4, <1>5, <2>2, <3>1, <3>2
    <2>3. \A k \in 1..Len(pending_list'[lu]) :
             cmd'[pending_list'[lu][k]] = "pending" /\ dev'[pending_list'[lu][k]] = lu
      BY <1>4, <2>1
    <2>4. ASSUME NEW l \in Lus, l # lu
          PROVE  \A k \in 1..Len(pending_list'[l]) :
                    cmd'[pending_list'[l][k]] = "pending" /\ dev'[pending_list'[l][k]] = l
      BY <1>4, <2>2, <2>4
    <2> QED BY ZenonT(30), <2>3, <2>4 DEF PendingOK
  <1>8. PendingOnce'
    <2>1. ASSUME NEW j \in 1..Len(Tail(p)), NEW k \in 1..Len(Tail(p)),
                 Tail(p)[j] = Tail(p)[k]
          PROVE  j = k
      <3>1. /\ p[j + 1] = p[k + 1] /\ j + 1 \in 1..Len(p) /\ k + 1 \in 1..Len(p)
            /\ j \in Int /\ k \in Int
        BY <1>2, <2>1
      <3>2. j + 1 = k + 1
        BY Zenon, <1>5, <3>1
      <3> QED BY <3>1, <3>2
    <2>2. \A j, k \in 1..Len(pending_list'[lu]) :
             pending_list'[lu][j] = pending_list'[lu][k] => j = k
      BY <1>4, <2>1
    <2>3. ASSUME NEW l \in Lus, l # lu
          PROVE  \A j, k \in 1..Len(pending_list'[l]) :
                    pending_list'[l][j] = pending_list'[l][k] => j = k
      BY SMTT(30), <1>4, <2>3 DEF CommandsOK, PendingOnce
    <2> QED BY ZenonT(30), <2>2, <2>3 DEF PendingOnce
  <1>9. RunningOK' /\ RunningOnce'
    <2>1. \A v \in Workers : v # w /\ worker[v] = "run" => current[v] \in Cmds \ {c}
      BY ZenonT(30), <1>5 DEF CommandsOK, RunningOK
    <2> QED BY SMTT(30), <1>2, <1>3, <1>4, <1>5, <2>1 DEF CommandsOK, RunningOK, RunningOnce, lu
  <1>10. FinishedOK' /\ AckOK'
    <2>1. /\ \A k \in 1..Len(finished_list) : finished_list[k] \in Cmds
          /\ \A k \in 1..Len(ack_list) : ack_list[k] \in Cmds
      BY DEF TypeOK
    <2> QED BY SMTT(30), <1>3, <1>4, <1>5, <2>1 DEF CommandsOK, FinishedOK, AckOK
  <1>11. OwnedOK'
    BY ZenonT(30), <1>2, <1>3, <1>4, <1>5 DEF CommandsOK, OwnedOK
  <1> QED BY Zenon, <1>7, <1>8, <1>9, <1>10, <1>11 DEF CommandsOK

\* A pending list is empty unless the LU is open.
LEMMA PendingOpen ==
    ASSUME TypeOK, CommandsOK, NEW lu \in Lus, pending_list[lu] # <<>>
    PROVE  lu \in open
  <1>1. 1 \in 1..Len(pending_list[lu]) /\ pending_list[lu][1] \in Cmds
    BY SMTT(30), TailProps DEF TypeOK
  <1> QED BY <1>1 DEF CommandsOK, PendingOK, OwnedOK

\* A worker is cancelled only while its LU is closed, so it has no command.
LEMMA CancelledIdle ==
    ASSUME TypeOK, ThreadsOK, CommandsOK, NEW w \in Workers, worker_cancelled(w)
    PROVE  w[1] \notin open /\ worker[w] = "wait"
  <1>1. joins # <<>> /\ w = Head(joins)
    BY Zenon DEF worker_cancelled, ThreadsOK
  <1>2. Head(joins) = joins[1] /\ 1 \in 1..Len(joins)
    BY <1>1, TailProps DEF TypeOK
  <1>3. w[1] \notin open
    BY Zenon, <1>1, <1>2 DEF ThreadsOK
  <1> QED BY <1>3 DEF CommandsOK, RunningOK, OwnedOK, worker_cancelled

\* A worker that finishes moves its command to the finished list.
LEMMA FinishCommands ==
    ASSUME TypeOK, CommandsOK, NEW w \in Workers, worker_finish(w)
    PROVE  CommandsOK'
  <1> DEFINE c == current[w]
  <1>1. /\ c \in Cmds /\ cmd[c] = "running"
        /\ \A v \in Workers : v # w /\ worker[v] = "run" => current[v] # c
    BY DEF worker_finish, CommandsOK, RunningOK, RunningOnce
  <1>2. /\ worker'[w] = "notify"
        /\ \A v \in Workers : v # w => worker'[v] = worker[v] /\ current'[v] = current[v]
        /\ \A d \in Cmds : d # c => cmd'[d] = cmd[d]
        /\ cmd'[c] = "finished"
        /\ UNCHANGED <<dev, pending_list, ack_list, open>>
    BY ZenonT(30), <1>1 DEF worker_finish, TypeOK, loopVars
  <1>3. /\ Len(finished_list') = Len(finished_list) + 1
        /\ \A k \in 1..Len(finished_list) : finished_list'[k] = finished_list[k]
        /\ finished_list'[Len(finished_list) + 1] = c
        /\ Len(finished_list) \in Nat
    BY SMTT(30), <1>1, AppendProperties DEF worker_finish, TypeOK
  <1>4. /\ \A k \in 1..Len(finished_list) : finished_list[k] \in Cmds
        /\ \A k \in 1..Len(ack_list) : ack_list[k] \in Cmds
        /\ \A lu \in Lus : \A k \in 1..Len(pending_list[lu]) :
              pending_list[lu][k] \in Cmds
    BY DEF TypeOK
  <1> HIDE DEF c
  <1>5. FinishedOK' /\ AckOK'
    <2>1. AckOK'
      BY <1>2, <1>4 DEF CommandsOK, AckOK
    <2>2. FinishedOK'
      BY SMTT(30), <1>2, <1>3, <1>4 DEF CommandsOK, FinishedOK
    <2> QED BY <2>1, <2>2
  <1>6. PendingOK' /\ PendingOnce'
    BY SMTT(30), <1>1, <1>2, <1>4 DEF CommandsOK, PendingOK, PendingOnce
  <1>7. RunningOK' /\ RunningOnce'
    BY <1>1, <1>2 DEF CommandsOK, RunningOK, RunningOnce
  <1>8. OwnedOK'
    BY ZenonT(30), <1>1, <1>2 DEF CommandsOK, OwnedOK
  <1> QED BY Zenon, <1>5, <1>6, <1>7, <1>8 DEF CommandsOK

\* The event loop completes a command that has been run.
LEMMA CompleteCommands ==
    ASSUME TypeOK, CommandsOK, complete_first
    PROVE  CommandsOK'
  <1> DEFINE c == ack_list[1]
  <1>1. /\ c \in Cmds /\ 1 \in 1..Len(ack_list) /\ Head(ack_list) = c
        /\ \A k \in 1..Len(ack_list') :
              ack_list'[k] = ack_list[k + 1] /\ k + 1 \in 1..Len(ack_list)
    BY TailProps DEF complete_first, TypeOK
  <1>2. cmd[c] \in {"finished", "done"}
    BY Zenon, <1>1 DEF CommandsOK, AckOK
  <1>3. /\ \A d \in Cmds : d # c => cmd'[d] = cmd[d]
        /\ cmd'[c] = "done"
        /\ UNCHANGED <<dev, pending_list, finished_list, worker, current, open>>
    BY ZenonT(30), <1>1 DEF complete_first, TypeOK, loopVars
  <1>4. /\ \A k \in 1..Len(finished_list) : finished_list[k] \in Cmds
        /\ \A k \in 1..Len(ack_list) : ack_list[k] \in Cmds
        /\ \A lu \in Lus : \A k \in 1..Len(pending_list[lu]) :
              pending_list[lu][k] \in Cmds
    BY DEF TypeOK
  <1> HIDE DEF c
  <1>5. FinishedOK' /\ AckOK'
    <2>1. ASSUME NEW k \in 1..Len(finished_list)
          PROVE  cmd'[finished_list[k]] \in {"finished", "done"}
      BY Zenon, <1>3, <1>4 DEF CommandsOK, FinishedOK
    <2>2. ASSUME NEW k \in 1..Len(ack_list)
          PROVE  cmd'[ack_list[k]] \in {"finished", "done"}
      BY Zenon, <1>3, <1>4 DEF CommandsOK, AckOK
    <2>3. ASSUME NEW k \in 1..Len(ack_list')
          PROVE  cmd'[ack_list'[k]] \in {"finished", "done"}
      BY Zenon, <1>1, <2>2
    <2> QED BY Zenon, <1>3, <2>1, <2>3 DEF FinishedOK, AckOK
  <1>7. PendingOK'
    <2>1. ASSUME NEW lu \in Lus, NEW k \in 1..Len(pending_list[lu])
          PROVE  /\ cmd[pending_list[lu][k]] = "pending" /\ dev[pending_list[lu][k]] = lu
                 /\ pending_list[lu][k] \in Cmds
      BY Zenon, <1>4 DEF CommandsOK, PendingOK
    <2>2. ASSUME NEW lu \in Lus, NEW k \in 1..Len(pending_list[lu])
          PROVE  pending_list[lu][k] # c
      BY Zenon, <1>2, <2>1
    <2>3. ASSUME NEW lu \in Lus, NEW k \in 1..Len(pending_list[lu])
          PROVE  cmd'[pending_list[lu][k]] = "pending" /\ dev[pending_list[lu][k]] = lu
      BY Zenon, <1>3, <2>1, <2>2
    <2>4. pending_list' = pending_list /\ dev' = dev
      BY Zenon, <1>3
    <2> QED BY SMT, <2>3, <2>4 DEF PendingOK
  <1>6. PendingOK' /\ PendingOnce'
    BY Zenon, <1>3, <1>7 DEF CommandsOK, PendingOnce
  <1>8. RunningOK' /\ RunningOnce'
    BY ZenonT(30), <1>2, <1>3 DEF CommandsOK, RunningOK, RunningOnce
  <1>9. OwnedOK'
    BY <1>2, <1>3 DEF CommandsOK, OwnedOK
  <1> QED BY ZenonT(30), <1>5, <1>6, <1>8, <1>9 DEF CommandsOK

\* The ack thread moves what is finished to the end of ack_list.
LEMMA CollectCommands ==
    ASSUME TypeOK, CommandsOK, ack_collect
    PROVE  FinishedOK' /\ AckOK'
  <1>1. CASE finished_list = <<>>
    BY ZenonT(30), <1>1 DEF ack_collect, CommandsOK, FinishedOK, AckOK, cmdVars
  <1>2. CASE finished_list # <<>>
    <2>1. /\ Len(ack_list') = Len(ack_list) + Len(finished_list)
          /\ Len(ack_list) \in Nat /\ Len(finished_list) \in Nat
          /\ \A k \in 1..Len(ack_list') :
                ack_list'[k] = IF k <= Len(ack_list) THEN ack_list[k]
                               ELSE finished_list[k - Len(ack_list)]
      BY <1>2, ConcatProperties DEF ack_collect, TypeOK
    <2>2. ASSUME NEW k \in 1..Len(ack_list')
          PROVE  cmd[ack_list'[k]] \in {"finished", "done"}
      <3>1. CASE k <= Len(ack_list)
        <4>1. k \in 1..Len(ack_list) /\ ack_list'[k] = ack_list[k]
          BY <2>1, <3>1
        <4> QED BY ZenonT(30), <4>1 DEF CommandsOK, AckOK
      <3>2. CASE ~(k <= Len(ack_list))
        <4>1. /\ k - Len(ack_list) \in 1..Len(finished_list)
              /\ ack_list'[k] = finished_list[k - Len(ack_list)]
          BY <2>1, <3>2
        <4> QED BY ZenonT(30), <4>1 DEF CommandsOK, FinishedOK
      <3> QED BY ZenonT(30), <3>1, <3>2
    <2>3. cmd' = cmd /\ Len(finished_list') = 0
      BY <1>2 DEF ack_collect, cmdVars
    <2> QED BY SMTT(30), <2>2, <2>3 DEF FinishedOK, AckOK
  <1> QED BY ZenonT(30), <1>1, <1>2

\* Every step keeps the commands where their states say.
LEMMA CommandsStep == IInv /\ [Next]_vars => CommandsOK'
  <1> SUFFICES ASSUME TypeOK, ThreadsOK, CommandsOK, [Next]_vars
               PROVE  CommandsOK'
    BY ZenonT(30) DEF IInv
  <1> DEFINE FrontOK == OwnedOK /\ PendingOK /\ PendingOnce /\ RunningOK /\ RunningOnce
  <1>a. ASSUME UNCHANGED <<cmd, dev, pending_list>>, open \subseteq open',
               \A w \in Workers : worker'[w] = "run" =>
                  worker[w] = "run" /\ current'[w] = current[w]
        PROVE  FrontOK'
    <2>1. OwnedOK'
      BY ZenonT(30), <1>a DEF CommandsOK, OwnedOK
    <2>2. PendingOK' /\ PendingOnce'
      BY <1>a DEF CommandsOK, PendingOK, PendingOnce
    <2>3. RunningOK'
      BY <1>a DEF CommandsOK, RunningOK
    <2>4. RunningOnce'
      BY ZenonT(30), <1>a DEF CommandsOK, RunningOnce
    <2> QED BY ZenonT(30), <2>1, <2>2, <2>3, <2>4
  <1>b. ASSUME UNCHANGED <<cmd, finished_list, ack_list>> PROVE FinishedOK' /\ AckOK'
    BY ZenonT(30), <1>b DEF CommandsOK, FinishedOK, AckOK
  <1>c. FrontOK' /\ FinishedOK' /\ AckOK' => CommandsOK'
    BY ZenonT(30) DEF CommandsOK
  <1> HIDE DEF FrontOK
  <1>0. ASSUME UNCHANGED <<cmd, dev, pending_list, finished_list, ack_list>>,
               open \subseteq open',
               \A w \in Workers : worker'[w] = "run" =>
                  worker[w] = "run" /\ current'[w] = current[w]
        PROVE  CommandsOK'
    BY ZenonT(30), <1>0, <1>a, <1>b, <1>c
  <1>1. ASSUME NEW lu \in Lus, NEW n \in 0..NrThreads[lu], bs_thread_open(lu, n)
        PROVE  CommandsOK'
    BY ZenonT(30), <1>0, <1>1 DEF bs_thread_open, cmdVars
  <1>2. ASSUME NEW lu \in Lus, tgt_device_destroy(lu) PROVE CommandsOK'
    <2>1. /\ open' = open \ {lu}
          /\ \A c \in Cmds : dev[c] = lu => cmd[c] \in {"done", "lost"}
          /\ UNCHANGED <<cmd, dev, pending_list, worker, current, finished_list, ack_list>>
      BY ZenonT(30), <1>2 DEF tgt_device_destroy, cmdVars
    <2>2. OwnedOK'
      BY ZenonT(30), <2>1 DEF CommandsOK, OwnedOK
    <2>3. PendingOK' /\ PendingOnce'
      BY SMTT(30), <2>1 DEF CommandsOK, PendingOK, PendingOnce
    <2>4. RunningOK' /\ RunningOnce' /\ FinishedOK' /\ AckOK'
      BY <2>1 DEF CommandsOK, RunningOK, RunningOnce, FinishedOK, AckOK
    <2> QED BY <2>2, <2>3, <2>4 DEF CommandsOK
  <1>3. ASSUME NEW lu \in Lus, NEW c \in Cmds, bs_thread_cmd_submit(lu, c)
        PROVE  CommandsOK'
    BY <1>3, SubmitCommands
  <1>4. CASE \/ SignalPending
             \/ \E w \in Workers : worker_spurious_wakeup(w) \/ worker_notify(w)
    <2>1. /\ \A w \in Workers : worker'[w] = "run" => worker[w] = "run"
          /\ UNCHANGED <<cmd, dev, pending_list, current, open, finished_list, ack_list>>
      BY SMTT(30), <1>4 DEF SignalPending, Waiting, worker_spurious_wakeup, worker_notify,
                  TypeOK, cmdVars, loopVars
    <2> QED BY ZenonT(30), <1>0, <2>1
  <1>5. CASE \/ pthread_cancel \/ pthread_join \/ sig_read \/ done_read \/ drained
             \/ ack_read \/ ack_spurious_wakeup \/ ack_write \/ UNCHANGED vars
    <2>1. UNCHANGED <<cmd, dev, pending_list, worker, current, open, finished_list,
                      ack_list>>
      BY <1>5 DEF pthread_cancel, pthread_join, sig_read, done_read, drained,
                  ack_read, ack_spurious_wakeup, ack_write, vars, cmdVars, loopVars
    <2> QED BY Zenon, <1>0, <2>1
  <1>6. CASE sig_splice \/ ack_collect
    <2>1. UNCHANGED <<cmd, dev, pending_list, worker, current, open>>
      BY ZenonT(30), <1>6 DEF sig_splice, ack_collect, cmdVars, loopVars
    <2>2. CASE sig_splice
      <3>1. cmd' = cmd /\ ack_list' = finished_list /\ Len(finished_list') = 0
        BY ZenonT(30), <2>2 DEF sig_splice, cmdVars
      <3>2. FrontOK'
        BY ZenonT(30), <1>a, <2>1
      <3>3. FinishedOK'
        BY SMTT(30), <3>1 DEF FinishedOK
      <3>4. AckOK'
        BY ZenonT(30), <3>1 DEF CommandsOK, FinishedOK, AckOK
      <3> QED BY ZenonT(30), <1>c, <3>2, <3>3, <3>4
    <2>3. CASE ack_collect
      <3>1. FrontOK'
        BY Zenon, <1>a, <2>1
      <3> QED BY <1>c, <2>3, <3>1, CollectCommands
    <2> QED BY ZenonT(30), <1>6, <2>2, <2>3
  <1>7. ASSUME NEW w \in Workers, worker_take(w) PROVE CommandsOK'
    <2>1. CASE pending_list[w[1]] = <<>>
      <3>1. /\ \A v \in Workers : worker'[v] = "run" => worker[v] = "run"
            /\ UNCHANGED <<cmd, dev, pending_list, current, open, finished_list, ack_list>>
        BY ZenonT(30), <1>7, <2>1 DEF worker_take, TypeOK, loopVars
      <3> QED BY ZenonT(30), <1>0, <3>1
    <2> QED BY ZenonT(30), <1>7, <2>1, TakeCommands
  <1>8. ASSUME NEW w \in Workers, worker_cancelled(w) PROVE CommandsOK'
    <2>1. worker[w] = "wait"
      BY ZenonT(30), <1>8, CancelledIdle
    <2>2. /\ \A v \in Workers : worker'[v] = "run" =>
                worker[v] = "run" /\ current'[v] = current[v]
          /\ UNCHANGED <<cmd, dev, pending_list, open, finished_list, ack_list>>
      BY Zenon, <1>8, <2>1 DEF worker_cancelled, TypeOK, loopVars
    <2> QED BY ZenonT(30), <1>0, <2>2
  <1>9. CASE (\E w \in Workers : worker_finish(w)) \/ complete_first
    BY Zenon, <1>9, FinishCommands, CompleteCommands
  <1> QED BY ZenonT(30), <1>1, <1>2, <1>3, <1>4, <1>5, <1>6, <1>7, <1>8, <1>9
          DEF Next, LoopStep, WorkerStep, AckStep

-----------------------------------------------------------------------------
(* No wakeup is lost.                                                      *)

\* Finished commands never wait for a worker that has told the event loop
\* already.
LEMMA CompletionStep == IInv /\ [Next]_vars => NoLostCompletion'
  <1> SUFFICES ASSUME TypeOK, MessageOK, ThreadsOK, CommandsOK, NoLostCompletion,
                      [Next]_vars
               PROVE  NoLostCompletion'
    BY Zenon DEF IInv
  <1> USE DEF HasSigFd
  <1>1. ASSUME NEW lu \in Lus, NEW n \in 0..NrThreads[lu], bs_thread_open(lu, n)
        PROVE  NoLostCompletion'
    <2>1. joins = <<>> /\ Len(joins) = 0
      BY Zenon, <1>1 DEF bs_thread_open, ThreadsOK
    <2>2. \A w \in Workers : worker[w] = "notify" => worker'[w] = "notify"
      <3>1. \A w \in Workers : worker[w] = "notify" => w[1] # lu
        BY SMTT(30), <1>1, <2>1 DEF bs_thread_open, ThreadsOK
      <3> QED BY Zenon, <1>1, <3>1 DEF bs_thread_open
    <2>3. /\ UNCHANGED <<finished_list, sigusr2, ack_thread>>
          /\ loop = "splice" => loop' = "splice"
      BY Zenon, <1>1 DEF bs_thread_open, fdVars
    <2> QED BY Zenon, <2>2, <2>3 DEF NoLostCompletion
  <1>2. ASSUME NEW lu \in Lus,
               tgt_device_destroy(lu) \/ \E c \in Cmds : bs_thread_cmd_submit(lu, c)
        PROVE  NoLostCompletion'
    BY Zenon, <1>2 DEF tgt_device_destroy, bs_thread_cmd_submit, fdVars, NoLostCompletion
  <1>3. CASE \/ pthread_cancel \/ pthread_join \/ done_read \/ drained
             \/ complete_first \/ ack_read \/ ack_spurious_wakeup \/ ack_write
             \/ UNCHANGED vars
    BY Zenon, <1>3 DEF pthread_cancel, pthread_join, done_read, drained, complete_first,
                ack_read, ack_spurious_wakeup, ack_write, vars, fdVars, loopVars,
                NoLostCompletion
  <1>4. ASSUME \A w \in Workers : worker[w] = "notify" => worker'[w] = "notify",
               UNCHANGED <<finished_list, sigusr2, ack_thread, loop>>
        PROVE  NoLostCompletion'
    BY Zenon, <1>4 DEF NoLostCompletion
  <1>10. CASE SignalPending
    BY ZenonT(40), <1>4, <1>10 DEF SignalPending, Waiting, TypeOK, fdVars
  <1>11. ASSUME NEW w \in Workers, worker_take(w) PROVE NoLostCompletion'
    BY ZenonT(30), <1>4, <1>11 DEF worker_take, TypeOK, fdVars, loopVars
  <1>12. ASSUME NEW w \in Workers, worker_spurious_wakeup(w) \/ worker_cancelled(w)
         PROVE  NoLostCompletion'
    BY Zenon, <1>4, <1>12 DEF worker_spurious_wakeup, worker_cancelled, TypeOK, fdVars,
                       loopVars
  <1>5. ASSUME NEW w \in Workers, worker_finish(w) PROVE NoLostCompletion'
    BY Zenon, <1>5 DEF worker_finish, TypeOK, NoLostCompletion
  <1>6. ASSUME NEW w \in Workers, worker_notify(w) PROVE NoLostCompletion'
    BY Zenon, <1>6, ThreadConstants DEF worker_notify, NoLostCompletion
  <1>7. CASE sig_read
    BY Zenon, <1>7, ThreadConstants DEF sig_read, NoLostCompletion, MessageOK
  <1>8. CASE sig_splice
    BY Zenon, <1>8 DEF sig_splice, NoLostCompletion
  <1>9. CASE ack_collect
    BY Zenon, <1>9, ThreadConstants DEF ack_collect, NoLostCompletion
  <1> QED BY Zenon, <1>1, <1>2, <1>3, <1>10, <1>11, <1>12, <1>5, <1>6, <1>7, <1>8, <1>9
          DEF Next, LoopStep, WorkerStep, AckStep

\* Pending commands never wait for a worker that is asleep.
LEMMA SubmissionStep == IInv /\ [Next]_vars => NoLostSubmission'
  <1> SUFFICES ASSUME TypeOK, MessageOK, ThreadsOK, CommandsOK, NoLostSubmission,
                      [Next]_vars
               PROVE  NoLostSubmission'
    BY Zenon DEF IInv
  <1> DEFINE Up == {"lock", "run", "notify"}
  <1>1. ASSUME NEW lu \in Lus, NEW n \in 0..NrThreads[lu], bs_thread_open(lu, n)
        PROVE  NoLostSubmission'
    <2>1. /\ \A w \in Workers : worker[w] \in Up => worker'[w] \in Up
          /\ UNCHANGED <<pending_list, signal>>
      BY Zenon, <1>1 DEF bs_thread_open
    <2> QED BY Zenon, <2>1 DEF NoLostSubmission
  <1>2. ASSUME NEW lu \in Lus, NEW c \in Cmds, bs_thread_cmd_submit(lu, c)
        PROVE  NoLostSubmission'
    <2>1. /\ signal = None /\ None \notin Lus /\ signal' = lu /\ worker' = worker
          /\ \A l \in Lus : l # lu => pending_list'[l] = pending_list[l]
      BY Zenon, <1>2, StoreConstants DEF bs_thread_cmd_submit, TypeOK
    <2> QED BY ZenonT(30), <2>1 DEF NoLostSubmission
  <1>3. CASE SignalPending
    <2>1. ASSUME NEW lu \in Lus, pending_list'[lu] # <<>>
          PROVE  \E w \in Workers : w[1] = lu /\ worker'[w] \in Up
      <3>1. pending_list[lu] # <<>> /\ lu \in open
        <4>1. pending_list' = pending_list
          BY Zenon, <1>3 DEF SignalPending
        <4>2. pending_list[lu] # <<>>
          BY Zenon, <2>1, <4>1
        <4> QED BY Zenon, <4>2, PendingOpen
      <3>2. \A w \in Workers : worker[w] \in Up => worker'[w] \in Up
        BY Zenon, <1>3 DEF SignalPending, Waiting, TypeOK
      <3>3. CASE signal # lu
        BY Zenon, <3>1, <3>2, <3>3 DEF NoLostSubmission
      <3>4. CASE signal = lu /\ Waiting(lu) # {}
        <4>1. PICK w \in Waiting(lu) : worker' = [worker EXCEPT ![w] = "lock"]
          BY Zenon, <1>3, <3>4 DEF SignalPending
        <4> QED BY Zenon, <4>1 DEF Waiting, TypeOK
      <3>5. CASE signal = lu /\ Waiting(lu) = {}
        <4>1. <<lu, 1>> \in Workers /\ <<lu, 1>>[1] = lu
          BY SMTT(30), ThreadConstants DEF Workers
        <4>2. worker[<<lu, 1>>] # "none" /\ worker[<<lu, 1>>] # "wait"
          BY Zenon, <3>1, <3>5, <4>1 DEF ThreadsOK, Waiting
        <4>3. worker[<<lu, 1>>] \in Up
          BY Zenon, <4>1, <4>2 DEF TypeOK
        <4> QED BY Zenon, <3>2, <4>1, <4>3
      <3> QED BY Zenon, <3>3, <3>4, <3>5
    <2> QED BY Zenon, <2>1 DEF NoLostSubmission
  <1>4. ASSUME NEW w \in Workers, worker_take(w) PROVE NoLostSubmission'
    <2>1. w[1] \in Lus /\ signal' = signal
      BY <1>4 DEF Workers, worker_take, loopVars
    <2>2. CASE pending_list[w[1]] = <<>>
      <3>1. /\ pending_list' = pending_list
            /\ \A v \in Workers : v[1] # w[1] => worker'[v] = worker[v]
        BY Zenon, <1>4, <2>2 DEF worker_take, TypeOK
      <3> QED BY SMTT(30), <2>1, <2>2, <3>1 DEF NoLostSubmission
    <2>3. CASE pending_list[w[1]] # <<>>
      <3>1. /\ worker'[w] = "run"
            /\ \A v \in Workers : v # w => worker'[v] = worker[v]
            /\ \A l \in Lus : l # w[1] => pending_list'[l] = pending_list[l]
        BY ZenonT(30), <1>4, <2>1, <2>3 DEF worker_take, TypeOK
      <3> QED BY SMTT(30), <2>1, <3>1 DEF NoLostSubmission
    <2> QED BY Zenon, <2>2, <2>3
  <1>5. ASSUME NEW w \in Workers,
               worker_spurious_wakeup(w) \/ worker_finish(w) \/ worker_notify(w)
        PROVE  NoLostSubmission'
    <2>1. /\ \A v \in Workers : worker[v] \in Up => worker'[v] \in Up
          /\ UNCHANGED <<pending_list, signal>>
      BY ZenonT(30), <1>5 DEF worker_spurious_wakeup, worker_finish, worker_notify, TypeOK, loopVars
    <2> QED BY Zenon, <2>1 DEF NoLostSubmission
  <1>6. ASSUME NEW w \in Workers, worker_cancelled(w) PROVE NoLostSubmission'
    <2>1. worker[w] = "wait"
      BY Zenon, <1>6, CancelledIdle
    <2>2. /\ \A v \in Workers : worker[v] \in Up => worker'[v] \in Up
          /\ UNCHANGED <<pending_list, signal>>
      BY Zenon, <1>6, <2>1 DEF worker_cancelled, TypeOK, loopVars
    <2> QED BY Zenon, <2>2 DEF NoLostSubmission
  <1>7. ASSUME NEW lu \in Lus, tgt_device_destroy(lu) PROVE NoLostSubmission'
    <2>1. UNCHANGED <<pending_list, signal, worker>>
      BY ZenonT(40), <1>7 DEF tgt_device_destroy
    <2> QED BY Zenon, <2>1 DEF NoLostSubmission
  <1>8. CASE \/ pthread_cancel \/ pthread_join \/ sig_read \/ sig_splice \/ done_read
             \/ drained \/ complete_first \/ ack_read \/ ack_collect
             \/ ack_spurious_wakeup \/ ack_write \/ UNCHANGED vars
    <2>1. UNCHANGED <<pending_list, signal, worker>>
      BY ZenonT(40), <1>8 DEF pthread_cancel, pthread_join, sig_read, sig_splice, done_read,
                  drained, complete_first, ack_read, ack_collect,
                  ack_spurious_wakeup, ack_write, vars, loopVars
    <2> QED BY Zenon, <2>1 DEF NoLostSubmission
  <1> QED BY Zenon, <1>1, <1>2, <1>3, <1>4, <1>5, <1>6, <1>7, <1>8
          DEF Next, LoopStep, WorkerStep, AckStep

-----------------------------------------------------------------------------
(* The theorems.                                                           *)

\* IInv is an invariant: bs_init establishes it and every step keeps it.
LEMMA Inductive == Spec => []IInv
  <1>1. Init => IInv
    <2> SUFFICES ASSUME Init PROVE IInv
      BY Zenon
    <2>1. /\ \A lu \in Lus : pending_list[lu] = <<>> /\ Len(pending_list[lu]) = 0
          /\ Len(finished_list) = 0 /\ Len(ack_list) = 0 /\ Len(joins) = 0
      BY Zenon DEF Init
    <2>2. TypeOK
      <3>1. /\ pending_list \in [Lus -> Seq(Cmds)] /\ finished_list \in Seq(Cmds)
            /\ ack_list \in Seq(Cmds) /\ joins \in Seq(Workers)
        BY Zenon, EmptySeq DEF Init
      <3>2. sigusr2 \in BOOLEAN
        BY Zenon DEF Init
      <3>3. command_fd \in 0..1 /\ done_fd \in 0..1
        BY DEF Init
      <3> QED BY Zenon, <3>1, <3>2, <3>3 DEF Init, TypeOK
    <2>3. MessageOK
      BY SMTT(30) DEF Init, MessageOK, AckProtected, HasSigFd
    <2>4. ThreadsOK
      BY Zenon, <2>1 DEF Init, ThreadsOK
    <2>5. CommandsOK
      BY <2>1 DEF Init, CommandsOK, OwnedOK, PendingOK, PendingOnce, RunningOK,
                  RunningOnce, FinishedOK, AckOK
    <2>6. NoLostCompletion /\ NoLostSubmission
      BY Zenon DEF Init, NoLostCompletion, NoLostSubmission
    <2> QED BY Zenon, <2>2, <2>3, <2>4, <2>5, <2>6 DEF IInv
  <1>2. IInv /\ [Next]_vars => IInv'
    BY Zenon, TypeStep, MessageStep, ThreadsStep, CommandsStep, CompletionStep,
       SubmissionStep DEF IInv
  <1> QED BY <1>1, <1>2, PTL DEF Spec

\* Every variable keeps its type; the pipes of bs.c never hold more than one
\* message, so a write to them cannot block the event loop.
THEOREM TypeCorrect == Spec => []TypeOK
  <1>1. IInv => TypeOK
    BY Zenon DEF IInv
  <1> QED BY <1>1, Inductive, PTL

\* ack_list is protected by the pipes: the ack thread and the event loop
\* never use it at the same time.
THEOREM AckCorrect == Spec => []AckProtected
  <1>1. IInv => AckProtected
    BY Zenon DEF IInv, MessageOK
  <1> QED BY <1>1, Inductive, PTL

\* No finished command is left without somebody on the way to the event loop.
THEOREM CompletionCorrect == Spec => []NoLostCompletion
  <1>1. IInv => NoLostCompletion
    BY Zenon DEF IInv
  <1> QED BY <1>1, Inductive, PTL

\* No pending command is left with all workers of its LU asleep.
THEOREM SubmissionCorrect == Spec => []NoLostSubmission
  <1>1. IInv => NoLostSubmission
    BY Zenon DEF IInv
  <1> QED BY <1>1, Inductive, PTL

\* Closing an LU loses no command and leaves no worker behind.
THEOREM CloseCorrect == Spec => []CloseLosesNothing
  <1>1. IInv => CloseLosesNothing
    <2> SUFFICES ASSUME IInv PROVE CloseLosesNothing
      BY Zenon
    <2>1. \A c \in Cmds : cmd[c] # "lost"
      BY Zenon DEF IInv, CommandsOK, OwnedOK
    <2>2. loop # "join" => Len(joins) = 0
      BY DEF IInv, ThreadsOK
    <2>3. loop # "join" => \A w \in Workers : worker[w] # "none" => w[1] \in open
      BY <2>2 DEF IInv, ThreadsOK
    <2> QED BY Zenon, <2>1, <2>3 DEF CloseLosesNothing
  <1> QED BY <1>1, Inductive, PTL

\* The hand-overs between the event loop, the workers and the ack thread lose no
\* wakeup, for any number of LUs, workers and commands.
THEOREM StrandedCorrect == Spec => []NothingStranded
  <1>1. AckProtected /\ NoLostCompletion /\ NoLostSubmission => NothingStranded
    BY Zenon DEF NothingStranded
  <1> QED BY <1>1, AckCorrect, CompletionCorrect, SubmissionCorrect, PTL

-----------------------------------------------------------------------------
(* Every command is in one place at a time and is run once, in order where *)
(* an LU has one worker: the invariant, on top of IInv.                    *)

\* The commands that the pending list of an LU, and the lists behind the
\* workers, have to hold.
PendingOf(lu) == {c \in Cmds : cmd[c] = "pending" /\ dev[c] = lu}
Finished == {c \in Cmds : cmd[c] = "finished"}

\* With a signalfd the local list of bs_sig_request_done is empty outside of
\* it; a worker has a command exactly while it runs one.
PlacesOK ==
    /\ \A lu \in Lus : Holds(pending_list[lu], PendingOf(lu))
    /\ Holds(ack_list \o finished_list, Finished)
    /\ HasSigFd /\ loop # "drain" => ack_list = <<>>
    /\ \A w \in Workers : current[w] # None <=> worker[w] = "run"
    /\ \A c \in Cmds : cmd[c] = "running" => \E w \in Workers : current[w] = c

\* Commands are submitted in the order of their numbers, and wait in it.
Numbered ==
    /\ \A c \in Cmds : cmd[c] = "new" <=> dev[c] = None
    /\ \A c, d \in Cmds : c < d /\ cmd[c] = "new" => cmd[d] = "new"

Sorted ==
    \A lu \in Lus : \A j, k \in 1..Len(pending_list[lu]) :
        j < k => pending_list[lu][j] < pending_list[lu][k]

OrderInv == PlacesOK /\ Numbered /\ Sorted /\ InOrder

\* list_add_tail of an element that is not on the list.
LEMMA HoldsAppend ==
    ASSUME NEW T, NEW s \in Seq(T), NEW S, NEW c \in T, c \notin S, Holds(s, S)
    PROVE  Holds(Append(s, c), S \cup {c})
  <1>1. /\ Len(s) \in Nat /\ Len(Append(s, c)) = Len(s) + 1
        /\ Append(s, c)[Len(s) + 1] = c
        /\ \A k \in 1..Len(s) : Append(s, c)[k] = s[k]
    BY AppendProperties
  <1>2. /\ \A d \in S : \E k \in 1..Len(s) : s[k] = d
        /\ \A k \in 1..Len(s) : s[k] \in S
        /\ \A j, k \in 1..Len(s) : s[j] = s[k] => j = k
    BY Zenon DEF Holds
  <1> DEFINE t == Append(s, c)
             n == Len(s)
  <1>3. \A k \in 1..(n + 1) : k \in 1..n \/ k = n + 1
    BY <1>1
  <1>4. 1..n \subseteq 1..(n + 1) /\ n + 1 \in 1..(n + 1)
    BY <1>1
  <1>5. ASSUME NEW d \in S \cup {c} PROVE \E k \in 1..(n + 1) : t[k] = d
    BY Zenon, <1>1, <1>2, <1>4
  <1>6. ASSUME NEW k \in 1..(n + 1) PROVE t[k] \in S \cup {c}
    BY Zenon, <1>1, <1>2, <1>3
  <1>7. ASSUME NEW j \in 1..(n + 1), NEW k \in 1..(n + 1), t[j] = t[k] PROVE j = k
    BY <1>1, <1>2, <1>3, <1>7
  <1>8. Len(t) = n + 1
    BY Zenon, <1>1
  <1> HIDE DEF t, n
  <1>9. Holds(t, S \cup {c})
    BY Zenon, <1>5, <1>6, <1>7, <1>8 DEF Holds
  <1> QED BY Zenon, <1>9 DEF t

\* list_del of the first element.
LEMMA HoldsTail ==
    ASSUME NEW T, NEW s \in Seq(T), s # <<>>, NEW S, Holds(s, S)
    PROVE  Holds(Tail(s), S \ {s[1]})
  <1>1. /\ Len(s) \in Nat \ {0} /\ Len(Tail(s)) = Len(s) - 1
        /\ \A k \in 1..Len(Tail(s)) : Tail(s)[k] = s[k + 1] /\ k + 1 \in 1..Len(s)
    BY TailProps
  <1>2. /\ \A d \in S : \E k \in 1..Len(s) : s[k] = d
        /\ \A k \in 1..Len(s) : s[k] \in S
        /\ \A j, k \in 1..Len(s) : s[j] = s[k] => j = k
    BY Zenon DEF Holds
  <1>3. ASSUME NEW d \in S \ {s[1]} PROVE \E k \in 1..Len(Tail(s)) : Tail(s)[k] = d
    <2>1. PICK k \in 1..Len(s) : s[k] = d
      BY Zenon, <1>2
    <2>2. k - 1 \in 1..Len(Tail(s)) /\ (k - 1) + 1 = k
      BY <1>1, <2>1
    <2> QED BY Zenon, <1>1, <2>1, <2>2
  <1>4. ASSUME NEW k \in 1..Len(Tail(s)) PROVE Tail(s)[k] \in S \ {s[1]}
    <2>1. k + 1 # 1 /\ k + 1 \in 1..Len(s) /\ 1 \in 1..Len(s) /\ Tail(s)[k] = s[k + 1]
      BY <1>1
    <2> QED BY Zenon, <1>2, <2>1
  <1>5. ASSUME NEW j \in 1..Len(Tail(s)), NEW k \in 1..Len(Tail(s)), Tail(s)[j] = Tail(s)[k]
        PROVE  j = k
    <2>1. j + 1 \in 1..Len(s) /\ k + 1 \in 1..Len(s) /\ s[j + 1] = s[k + 1]
      BY Zenon, <1>1, <1>5
    <2>2. j + 1 = k + 1
      BY Zenon, <1>2, <2>1
    <2> QED BY <1>1, <2>2
  <1> QED BY Zenon, <1>3, <1>4, <1>5 DEF Holds

\* A command that moves from the head of one list to the end of another.
LEMMA ConcatMoves ==
    ASSUME NEW T, NEW s \in Seq(T), NEW t \in Seq(T)
    PROVE  /\ \A c \in T : s \o Append(t, c) = Append(s \o t, c)
           /\ s # <<>> => Tail(s) \o t = Tail(s \o t) /\ (s \o t)[1] = s[1] /\ s \o t # <<>>
  <1>1. ASSUME NEW c \in T PROVE s \o Append(t, c) = Append(s \o t, c)
    <2>1. <<c>> \in Seq(T) /\ s \o t \in Seq(T)
      OBVIOUS
    <2>2. Append(t, c) = t \o <<c>> /\ Append(s \o t, c) = (s \o t) \o <<c>>
      BY Zenon, <2>1, AppendIsConcat
    <2>3. (s \o t) \o <<c>> = s \o (t \o <<c>>)
      BY <2>1, ConcatAssociative
    <2> QED BY Zenon, <2>2, <2>3
  <1>2. ASSUME s # <<>>
        PROVE  Tail(s) \o t = Tail(s \o t) /\ (s \o t)[1] = s[1] /\ s \o t # <<>>
    <2>1. /\ s \o t \in Seq(T) /\ Len(s \o t) = Len(s) + Len(t)
          /\ Len(s) \in Nat \ {0} /\ Len(t) \in Nat
          /\ \A k \in 1..(Len(s) + Len(t)) :
                (s \o t)[k] = IF k <= Len(s) THEN s[k] ELSE t[k - Len(s)]
      BY <1>2, ConcatProperties, TailProps
    <2>2. s \o t # <<>> /\ (s \o t)[1] = s[1]
      BY <2>1
    <2>3. /\ Tail(s \o t) \in Seq(T) /\ Len(Tail(s \o t)) = Len(s) + Len(t) - 1
          /\ \A k \in 1..(Len(s) + Len(t) - 1) : Tail(s \o t)[k] = (s \o t)[k + 1]
      BY <2>1, <2>2, TailProps
    <2>4. /\ Tail(s) \in Seq(T) /\ Len(Tail(s)) = Len(s) - 1
          /\ \A k \in 1..(Len(s) - 1) : Tail(s)[k] = s[k + 1]
      BY ZenonT(30), <1>2, TailProps
    <2>5. /\ Tail(s) \o t \in Seq(T) /\ Len(Tail(s) \o t) = Len(s) - 1 + Len(t)
          /\ \A k \in 1..(Len(s) - 1 + Len(t)) :
                (Tail(s) \o t)[k] = IF k <= Len(s) - 1 THEN Tail(s)[k]
                                    ELSE t[k - (Len(s) - 1)]
      BY <2>4, ConcatProperties
    <2>6. ASSUME NEW k \in 1..(Len(s) + Len(t) - 1)
          PROVE  (Tail(s) \o t)[k] = Tail(s \o t)[k]
      <3>1. k + 1 \in 1..(Len(s) + Len(t)) /\ k \in 1..(Len(s) - 1 + Len(t))
        BY <2>1
      <3>2. CASE k <= Len(s) - 1
        BY <2>1, <2>3, <2>4, <2>5, <3>1, <3>2
      <3>3. CASE ~(k <= Len(s) - 1)
        <4>1. k - (Len(s) - 1) = (k + 1) - Len(s) /\ ~(k + 1 <= Len(s))
          BY <2>1, <3>3
        <4> QED BY SMTT(30), <2>1, <2>3, <2>5, <3>1, <3>3, <4>1
      <3> QED BY Zenon, <3>2, <3>3
    <2>7. Len(Tail(s) \o t) = Len(Tail(s \o t))
      BY <2>1, <2>3, <2>5
    <2>8. Tail(s) \o t = Tail(s \o t)
      BY ZenonT(30), <2>3, <2>5, <2>6, <2>7, SeqEqual
    <2> QED BY Zenon, <2>2, <2>8
  <1> QED BY Zenon, <1>1, <1>2

\* A command is submitted: it is at the end of its LU's list.
LEMMA SubmitPlaces ==
    ASSUME TypeOK, PlacesOK, NEW lu \in Lus, NEW c \in Cmds, bs_thread_cmd_submit(lu, c)
    PROVE  PlacesOK'
  <1>1. /\ cmd[c] = "new" /\ cmd' = [cmd EXCEPT ![c] = "pending"]
        /\ dev' = [dev EXCEPT ![c] = lu]
        /\ pending_list' = [pending_list EXCEPT ![lu] = Append(pending_list[lu], c)]
        /\ UNCHANGED <<worker, current, finished_list, ack_list, loop, ack_thread>>
    BY Zenon DEF bs_thread_cmd_submit, IsNext
  <1>2. /\ \A d \in Cmds : d # c => cmd'[d] = cmd[d] /\ dev'[d] = dev[d]
        /\ cmd'[c] = "pending" /\ dev'[c] = lu
        /\ pending_list'[lu] = Append(pending_list[lu], c)
        /\ \A l \in Lus : l # lu => pending_list'[l] = pending_list[l]
    BY Zenon, <1>1 DEF TypeOK
  <1>3. /\ PendingOf(lu)' = PendingOf(lu) \cup {c} /\ c \notin PendingOf(lu)
        /\ \A l \in Lus : l # lu => PendingOf(l)' = PendingOf(l)
        /\ Finished' = Finished
    BY SMTT(30), <1>1, <1>2 DEF PendingOf, Finished
  <1>4. Holds(pending_list'[lu], PendingOf(lu)')
    <2>1. pending_list[lu] \in Seq(Cmds) /\ Holds(pending_list[lu], PendingOf(lu))
      BY Zenon DEF TypeOK, PlacesOK
    <2> QED BY <1>2, <1>3, <2>1, HoldsAppend
  <1>5. ASSUME NEW l \in Lus PROVE Holds(pending_list'[l], PendingOf(l)')
    <2>1. CASE l # lu
      BY Zenon, <1>2, <1>3, <2>1 DEF PlacesOK
    <2> QED BY Zenon, <1>4, <2>1
  <1>6. Holds(ack_list' \o finished_list', Finished')
    BY Zenon, <1>1, <1>3 DEF PlacesOK
  <1>7. \A d \in Cmds : cmd'[d] = "running" => \E w \in Workers : current'[w] = d
    BY ZenonT(30), <1>1, <1>2 DEF PlacesOK
  <1>8. \A w \in Workers : current'[w] # None <=> worker'[w] = "run"
    BY Zenon, <1>1 DEF PlacesOK
  <1>9. (HasSigFd /\ loop # "drain" => ack_list = <<>>)'
    BY Zenon, <1>1 DEF PlacesOK, HasSigFd
  <1> QED BY ZenonT(30), <1>5, <1>6, <1>7, <1>8, <1>9 DEF PlacesOK

\* A worker takes a command off the list of its LU.
LEMMA TakePlaces ==
    ASSUME TypeOK, PlacesOK, NEW w \in Workers, worker_take(w), pending_list[w[1]] # <<>>
    PROVE  PlacesOK'
  <1> DEFINE lu == w[1]
             p == pending_list[lu]
             c == p[1]
  <1>1. lu \in Lus /\ p \in Seq(Cmds) /\ Holds(p, PendingOf(lu))
    BY DEF Workers, TypeOK, PlacesOK
  <1>2. Head(p) = c /\ c \in Cmds /\ 1 \in 1..Len(p)
    BY <1>1, TailProps
  <1>3. /\ worker[w] = "lock" /\ worker' = [worker EXCEPT ![w] = "run"]
        /\ current' = [current EXCEPT ![w] = c]
        /\ cmd' = [cmd EXCEPT ![c] = "running"]
        /\ pending_list' = [pending_list EXCEPT ![lu] = Tail(p)]
        /\ UNCHANGED <<dev, finished_list, ack_list, loop, ack_thread>>
    BY Zenon, <1>2 DEF worker_take, loopVars
  <1>4. c \in PendingOf(lu)
    BY Zenon, <1>1, <1>2 DEF Holds
  <1>5. Holds(Tail(p), PendingOf(lu) \ {c})
    BY Zenon, <1>1, HoldsTail
  <1> HIDE DEF c, p, lu
  <1>6. /\ \A d \in Cmds : d # c => cmd'[d] = cmd[d]
        /\ cmd'[c] = "running" /\ worker'[w] = "run" /\ current'[w] = c
        /\ \A v \in Workers : v # w => worker'[v] = worker[v] /\ current'[v] = current[v]
        /\ pending_list'[lu] = Tail(p)
        /\ \A l \in Lus : l # lu => pending_list'[l] = pending_list[l]
    BY Zenon, <1>1, <1>2, <1>3 DEF TypeOK
  <1>7. /\ PendingOf(lu)' = PendingOf(lu) \ {c}
        /\ \A l \in Lus : l # lu => PendingOf(l)' = PendingOf(l)
        /\ Finished' = Finished
    <2>1. cmd[c] = "pending" /\ dev[c] = lu
      BY Zenon, <1>4 DEF PendingOf
    <2>2. PendingOf(lu)' = PendingOf(lu) \ {c}
      BY ZenonT(30), <1>3, <1>6 DEF PendingOf
    <2>3. \A l \in Lus : l # lu => PendingOf(l)' = PendingOf(l)
      BY <1>3, <1>6, <2>1 DEF PendingOf
    <2>4. Finished' = Finished
      BY Zenon, <1>6, <2>1 DEF Finished
    <2> QED BY Zenon, <2>2, <2>3, <2>4
  <1>8. ASSUME NEW l \in Lus PROVE Holds(pending_list'[l], PendingOf(l)')
    <2>1. CASE l # lu
      BY <1>6, <1>7, <2>1 DEF PlacesOK
    <2> QED BY ZenonT(30), <1>5, <1>6, <1>7, <2>1
  <1>9. Holds(ack_list' \o finished_list', Finished')
    BY Zenon, <1>3, <1>7 DEF PlacesOK
  <1>10. ASSUME NEW d \in Cmds, cmd'[d] = "running" PROVE \E v \in Workers : current'[v] = d
    <2>1. CASE d # c
      <3>1. PICK v \in Workers : current[v] = d
        BY ZenonT(30), <1>6, <1>10, <2>1 DEF PlacesOK
      <3>2. worker[v] = "run"
        BY Zenon, <3>1, StoreConstants DEF PlacesOK, Cmds
      <3> QED BY Zenon, <1>3, <1>6, <3>1, <3>2
    <2> QED BY Zenon, <1>6, <2>1
  <1>11. \A v \in Workers : current'[v] # None <=> worker'[v] = "run"
    BY <1>2, <1>6, StoreConstants DEF PlacesOK, Cmds
  <1>12. (HasSigFd /\ loop # "drain" => ack_list = <<>>)'
    BY Zenon, <1>3 DEF PlacesOK, HasSigFd
  <1> QED BY Zenon, <1>8, <1>9, <1>10, <1>11, <1>12 DEF PlacesOK

\* A command that was run is at the end of the finished list.
LEMMA FinishPlaces ==
    ASSUME TypeOK, CommandsOK, PlacesOK, NEW w \in Workers, worker_finish(w)
    PROVE  PlacesOK'
  <1> DEFINE c == current[w]
  <1>1. /\ c \in Cmds /\ cmd[c] = "running"
        /\ \A v \in Workers : v # w /\ worker[v] = "run" => current[v] # c
    BY Zenon DEF worker_finish, CommandsOK, RunningOK, RunningOnce
  <1>2. /\ worker'[w] = "notify" /\ current'[w] = None
        /\ \A v \in Workers : v # w => worker'[v] = worker[v] /\ current'[v] = current[v]
        /\ \A d \in Cmds : d # c => cmd'[d] = cmd[d]
        /\ cmd'[c] = "finished"
        /\ UNCHANGED <<dev, pending_list, ack_list, loop, ack_thread>>
        /\ finished_list' = Append(finished_list, c)
    BY Zenon, <1>1 DEF worker_finish, TypeOK, loopVars
  <1> HIDE DEF c
  <1>3. ack_list' \o finished_list' = Append(ack_list \o finished_list, c)
    BY <1>1, <1>2, ConcatMoves DEF TypeOK
  <1>4. Finished' = Finished \cup {c} /\ c \notin Finished
    BY Zenon, <1>1, <1>2 DEF Finished
  <1>5. Holds(ack_list' \o finished_list', Finished')
    <2>1. ack_list \o finished_list \in Seq(Cmds) /\ Holds(ack_list \o finished_list, Finished)
      BY DEF TypeOK, PlacesOK
    <2>2. Holds(Append(ack_list \o finished_list, c), Finished \cup {c})
      BY ZenonT(30), <1>1, <1>4, <2>1, HoldsAppend
    <2> QED BY Zenon, <1>3, <1>4, <2>2
  <1>6. \A l \in Lus : PendingOf(l)' = PendingOf(l)
    BY Zenon, <1>1, <1>2 DEF PendingOf
  <1>7. \A l \in Lus : Holds(pending_list'[l], PendingOf(l)')
    BY Zenon, <1>2, <1>6 DEF PlacesOK
  <1>8. ASSUME NEW d \in Cmds, cmd'[d] = "running" PROVE \E v \in Workers : current'[v] = d
    <2>1. d # c /\ cmd[d] = "running"
      BY Zenon, <1>2, <1>8
    <2>2. PICK v \in Workers : current[v] = d
      BY Zenon, <2>1 DEF PlacesOK
    <2> QED BY Zenon, <1>2, <2>1, <2>2 DEF c
  <1>9. ASSUME NEW v \in Workers PROVE current'[v] # None <=> worker'[v] = "run"
    <2>1. CASE v = w
      BY Zenon, <1>2, <2>1
    <2>2. CASE v # w
      BY Zenon, <1>2, <2>2 DEF PlacesOK
    <2> QED BY Zenon, <2>1, <2>2
  <1>10. (HasSigFd /\ loop # "drain" => ack_list = <<>>)'
    BY Zenon, <1>2 DEF PlacesOK, HasSigFd
  <1> QED BY Zenon, <1>5, <1>7, <1>8, <1>9, <1>10 DEF PlacesOK

\* A command that is completed leaves the last list.
LEMMA CompletePlaces ==
    ASSUME TypeOK, PlacesOK, complete_first
    PROVE  PlacesOK'
  <1> DEFINE c == ack_list[1]
             q == ack_list \o finished_list
  <1>1. /\ q \in Seq(Cmds) /\ q # <<>> /\ q[1] = c
        /\ Tail(ack_list) \o finished_list = Tail(q)
        /\ Head(ack_list) = c /\ c \in Cmds
    BY SMTT(30), ConcatMoves, TailProps DEF complete_first, TypeOK
  <1>2. /\ cmd' = [cmd EXCEPT ![c] = "done"] /\ ack_list' = Tail(ack_list) /\ loop = "drain"
        /\ UNCHANGED <<dev, pending_list, finished_list, worker, current, loop, ack_thread>>
    BY Zenon, <1>1 DEF complete_first, loopVars
  <1>3. c \in Finished /\ Holds(Tail(q), Finished \ {c})
    <2>1. Holds(q, Finished) /\ 1 \in 1..Len(q)
      BY <1>1, TailProps DEF PlacesOK
    <2>2. c \in Finished
      BY Zenon, <1>1, <2>1 DEF Holds
    <2> QED BY ZenonT(30), <1>1, <2>1, <2>2, HoldsTail
  <1>4. Holds(ack_list' \o finished_list', Finished \ {c})
    BY ZenonT(30), <1>1, <1>2, <1>3
  <1> HIDE DEF c, q
  <1>5. /\ \A d \in Cmds : d # c => cmd'[d] = cmd[d]
        /\ cmd'[c] = "done" /\ cmd[c] = "finished"
    BY Zenon, <1>1, <1>2, <1>3 DEF TypeOK, Finished
  <1>6. Finished' = Finished \ {c} /\ \A l \in Lus : PendingOf(l)' = PendingOf(l)
    BY Zenon, <1>2, <1>5 DEF Finished, PendingOf
  <1>7. \A l \in Lus : Holds(pending_list'[l], PendingOf(l)')
    BY Zenon, <1>2, <1>6 DEF PlacesOK
  <1>8. \A d \in Cmds : cmd'[d] = "running" => \E v \in Workers : current'[v] = d
    BY ZenonT(30), <1>2, <1>5 DEF PlacesOK
  <1>9. \A v \in Workers : current'[v] # None <=> worker'[v] = "run"
    BY Zenon, <1>2 DEF PlacesOK
  <1>10. (HasSigFd /\ loop # "drain" => ack_list = <<>>)'
    BY Zenon, <1>2
  <1> QED BY Zenon, <1>4, <1>6, <1>7, <1>8, <1>9, <1>10 DEF PlacesOK

\* Every step keeps every command in the place that its state names.
LEMMA PlacesStep == IInv /\ PlacesOK /\ [Next]_vars => PlacesOK'
  <1> SUFFICES ASSUME TypeOK, MessageOK, ThreadsOK, CommandsOK, PlacesOK, [Next]_vars
               PROVE  PlacesOK'
    BY Zenon DEF IInv
  <1>a. ASSUME UNCHANGED <<cmd, dev, pending_list, current>>,
               ack_list' \o finished_list' = ack_list \o finished_list,
               \A w \in Workers : worker'[w] = "run" <=> worker[w] = "run",
               (HasSigFd /\ loop # "drain" => ack_list = <<>>)'
        PROVE  PlacesOK'
    <2>1. Finished' = Finished /\ \A l \in Lus : PendingOf(l)' = PendingOf(l)
      BY Zenon, <1>a DEF Finished, PendingOf
    <2>2. \A l \in Lus : Holds(pending_list'[l], PendingOf(l)')
      BY Zenon, <1>a, <2>1 DEF PlacesOK
    <2>3. Holds(ack_list' \o finished_list', Finished')
      BY Zenon, <1>a, <2>1 DEF PlacesOK
    <2> QED BY Zenon, <1>a, <2>2, <2>3 DEF PlacesOK
  <1>0. ASSUME UNCHANGED <<cmd, dev, pending_list, current, ack_list, finished_list>>,
               \A w \in Workers : worker'[w] = "run" <=> worker[w] = "run",
               HasSigFd' /\ loop' # "drain" => HasSigFd /\ loop # "drain"
        PROVE  PlacesOK'
    BY Zenon, <1>0, <1>a DEF PlacesOK
  <1>1. ASSUME NEW lu \in Lus, NEW n \in 0..NrThreads[lu], bs_thread_open(lu, n)
        PROVE  PlacesOK'
    <2>1. UNCHANGED <<cmd, dev, pending_list, current, ack_list, finished_list, ack_thread>>
      BY Zenon, <1>1 DEF bs_thread_open, cmdVars
    <2>2. loop = "idle"
      BY Zenon, <1>1 DEF bs_thread_open
    <2>3. ASSUME NEW w \in Workers PROVE worker'[w] = "run" <=> worker[w] = "run"
      <3>1. CASE w[1] = lu
        <4>1. worker[w] # "run"
          BY Zenon, <1>1, <3>1 DEF CommandsOK, RunningOK, OwnedOK, bs_thread_open
        <4> QED BY Zenon, <1>1, <3>1, <4>1 DEF bs_thread_open
      <3>2. CASE w[1] # lu
        BY Zenon, <1>1, <3>2 DEF bs_thread_open
      <3> QED BY Zenon, <3>1, <3>2
    <2> QED BY Zenon, <1>0, <2>1, <2>2, <2>3 DEF HasSigFd
  <1>2. ASSUME NEW lu \in Lus, tgt_device_destroy(lu) PROVE PlacesOK'
    BY Zenon, <1>0, <1>2 DEF tgt_device_destroy, cmdVars, HasSigFd
  <1>3. ASSUME NEW lu \in Lus, NEW c \in Cmds, bs_thread_cmd_submit(lu, c)
        PROVE  PlacesOK'
    BY Zenon, <1>3, SubmitPlaces
  <1>4. CASE SignalPending
    <2>1. \A w \in Workers : worker'[w] = "run" <=> worker[w] = "run"
      BY Zenon, <1>4 DEF SignalPending, Waiting, TypeOK
    <2>2. /\ UNCHANGED <<cmd, dev, pending_list, current, ack_list, finished_list>>
          /\ UNCHANGED <<ack_thread, loop>>
      BY Zenon, <1>4 DEF SignalPending, cmdVars
    <2> QED BY Zenon, <1>0, <2>1, <2>2 DEF HasSigFd
  <1>5. ASSUME NEW w \in Workers, worker_spurious_wakeup(w) \/ worker_notify(w)
        PROVE  PlacesOK'
    <2>1. \A v \in Workers : worker'[v] = "run" <=> worker[v] = "run"
      BY Zenon, <1>5 DEF worker_spurious_wakeup, worker_notify, TypeOK
    <2>2. /\ UNCHANGED <<cmd, dev, pending_list, current, ack_list, finished_list, loop>>
          /\ HasSigFd' = HasSigFd
      BY Zenon, <1>5 DEF worker_spurious_wakeup, worker_notify, cmdVars, loopVars, HasSigFd
    <2> QED BY Zenon, <1>0, <2>1, <2>2
  <1>6. CASE pthread_cancel \/ pthread_join \/ sig_read \/ done_read
    <2>1. /\ UNCHANGED <<cmd, dev, pending_list, current, ack_list, finished_list, worker>>
          /\ UNCHANGED ack_thread
          /\ loop # "drain"
      BY Zenon, <1>6 DEF pthread_cancel, pthread_join, sig_read, done_read, cmdVars, loopVars
    <2> QED BY Zenon, <1>0, <2>1 DEF HasSigFd
  <1>7. CASE drained
    BY Zenon, <1>7, <1>a DEF drained, cmdVars
  <1>8. CASE ack_read \/ ack_spurious_wakeup \/ ack_write \/ UNCHANGED vars
    <2>1. /\ UNCHANGED <<cmd, dev, pending_list, current, ack_list, finished_list, worker>>
          /\ UNCHANGED loop /\ HasSigFd' = HasSigFd
      BY Zenon, <1>8 DEF ack_read, ack_spurious_wakeup, ack_write, vars, cmdVars, loopVars, HasSigFd
    <2> QED BY Zenon, <1>0, <2>1
  <1>9. CASE sig_splice
    <2>1. ack_list = <<>>
      BY Zenon, <1>9 DEF sig_splice, MessageOK, PlacesOK
    <2>2. ack_list' \o finished_list' = ack_list \o finished_list
      BY Zenon, <1>9, <2>1, ConcatEmptySeq DEF sig_splice, TypeOK
    <2> QED BY Zenon, <1>9, <1>a, <2>2 DEF sig_splice, cmdVars
  <1>10. CASE ack_collect
    <2>1. ack_list' \o finished_list' = ack_list \o finished_list
      <3>1. CASE finished_list # <<>>
        <4>1. ack_list \o finished_list \in Seq(Cmds)
          BY DEF TypeOK
        <4> QED BY Zenon, <1>10, <3>1, <4>1, ConcatEmptySeq DEF ack_collect
      <3> QED BY Zenon, <1>10, <3>1 DEF ack_collect
    <2>2. UNCHANGED <<cmd, dev, pending_list, current, worker>> /\ ~HasSigFd'
      BY Zenon, <1>10 DEF ack_collect, cmdVars, HasSigFd
    <2> QED BY Zenon, <1>a, <2>1, <2>2
  <1>11. ASSUME NEW w \in Workers, worker_take(w) PROVE PlacesOK'
    <2>1. CASE pending_list[w[1]] = <<>>
      <3>1. \A v \in Workers : worker'[v] = "run" <=> worker[v] = "run"
        BY Zenon, <1>11, <2>1 DEF worker_take, TypeOK
      <3>2. /\ UNCHANGED <<cmd, dev, pending_list, current, ack_list, finished_list>>
            /\ UNCHANGED <<ack_thread, loop>>
        BY Zenon, <1>11, <2>1 DEF worker_take, loopVars
      <3> QED BY Zenon, <1>0, <3>1, <3>2 DEF HasSigFd
    <2> QED BY Zenon, <1>11, <2>1, TakePlaces
  <1>12. ASSUME NEW w \in Workers, worker_finish(w) PROVE PlacesOK'
    BY Zenon, <1>12, FinishPlaces
  <1>13. ASSUME NEW w \in Workers, worker_cancelled(w) PROVE PlacesOK'
    <2>1. worker[w] = "wait"
      BY Zenon, <1>13, CancelledIdle
    <2>2. current[w] = None
      BY Zenon, <2>1 DEF PlacesOK
    <2>3. current' = current
      BY Zenon, <1>13, <2>2 DEF worker_cancelled, TypeOK
    <2>4. /\ UNCHANGED <<cmd, dev, pending_list, ack_list, finished_list, ack_thread, loop>>
          /\ \A v \in Workers : worker'[v] = "run" <=> worker[v] = "run"
      BY Zenon, <1>13, <2>1 DEF worker_cancelled, TypeOK, loopVars
    <2> QED BY Zenon, <1>0, <2>3, <2>4 DEF HasSigFd
  <1>14. CASE complete_first
    BY Zenon, <1>14, CompletePlaces
  <1> QED BY Zenon, <1>1, <1>2, <1>3, <1>4, <1>5, <1>6, <1>7, <1>8, <1>9, <1>10, <1>11, <1>12,
             <1>13, <1>14 DEF Next, LoopStep, AckStep, WorkerStep

\* Commands start in the order of their numbers.
LEMMA NumberedStep == IInv /\ Numbered /\ [Next]_vars => Numbered'
  <1> SUFFICES ASSUME TypeOK, ThreadsOK, CommandsOK, Numbered, [Next]_vars
               PROVE  Numbered'
    BY Zenon DEF IInv
  <1>0. ASSUME dev' = dev, \A c \in Cmds : cmd'[c] = "new" <=> cmd[c] = "new"
        PROVE  Numbered'
    BY Zenon, <1>0 DEF Numbered
  <1>1. ASSUME NEW lu \in Lus, NEW c \in Cmds, bs_thread_cmd_submit(lu, c)
        PROVE  Numbered'
    <2>1. /\ \A d \in Cmds : d # c => cmd'[d] = cmd[d] /\ dev'[d] = dev[d]
          /\ cmd'[c] = "pending" /\ dev'[c] = lu
      BY Zenon, <1>1 DEF bs_thread_cmd_submit, TypeOK
    <2>2. \A d \in Cmds : d < c => cmd[d] # "new"
      BY <1>1, StoreConstants DEF bs_thread_cmd_submit, IsNext, Cmds
    <2>3. lu # None
      BY Zenon, StoreConstants
    <2> QED BY ZenonT(30), <2>1, <2>2, <2>3 DEF Numbered
  <1>2. ASSUME NEW w \in Workers, worker_take(w) PROVE Numbered'
    <2>1. CASE pending_list[w[1]] = <<>>
      BY Zenon, <1>0, <1>2, <2>1 DEF worker_take
    <2>2. CASE pending_list[w[1]] # <<>>
      <3>1. w[1] \in Lus
        BY DEF Workers
      <3>2. /\ Head(pending_list[w[1]]) = pending_list[w[1]][1]
            /\ 1 \in 1..Len(pending_list[w[1]]) /\ pending_list[w[1]][1] \in Cmds
        BY <2>2, <3>1, TailProps DEF TypeOK
      <3>3. cmd[Head(pending_list[w[1]])] = "pending"
        BY <3>1, <3>2 DEF CommandsOK, PendingOK
      <3> QED BY Zenon, <1>0, <1>2, <2>2, <3>2, <3>3 DEF worker_take, TypeOK
    <2> QED BY Zenon, <2>1, <2>2
  <1>3. ASSUME NEW w \in Workers, worker_finish(w) PROVE Numbered'
    <2>1. current[w] \in Cmds /\ cmd[current[w]] = "running"
      BY Zenon, <1>3 DEF worker_finish, CommandsOK, RunningOK
    <2> QED BY Zenon, <1>0, <1>3, <2>1 DEF worker_finish, TypeOK
  <1>4. ASSUME NEW w \in Workers, worker_cancelled(w) PROVE Numbered'
    <2>1. worker[w] = "wait"
      BY Zenon, <1>4, CancelledIdle
    <2> QED BY Zenon, <1>0, <1>4, <2>1 DEF worker_cancelled
  <1>5. CASE complete_first
    <2>1. /\ Head(ack_list) = ack_list[1] /\ 1 \in 1..Len(ack_list)
          /\ ack_list[1] \in Cmds
      BY <1>5, TailProps DEF complete_first, TypeOK
    <2>2. cmd[Head(ack_list)] # "new"
      BY Zenon, <2>1 DEF CommandsOK, AckOK
    <2> QED BY ZenonT(30), <1>0, <1>5, <2>1, <2>2 DEF complete_first, TypeOK
  <1>6. ASSUME UNCHANGED cmdVars PROVE Numbered'
    BY Zenon, <1>0, <1>6 DEF cmdVars
  <1>7. CASE \/ \E lu \in Lus : \E n \in 0..NrThreads[lu] : bs_thread_open(lu, n)
             \/ \E lu \in Lus : tgt_device_destroy(lu)
             \/ SignalPending \/ pthread_cancel \/ pthread_join \/ sig_read \/ done_read
    BY Zenon, <1>6, <1>7 DEF bs_thread_open, tgt_device_destroy, SignalPending, pthread_cancel,
                      pthread_join, sig_read, done_read
  <1>8. CASE \/ sig_splice \/ drained \/ ack_read \/ ack_collect \/ ack_write
             \/ ack_spurious_wakeup \/ UNCHANGED vars
             \/ \E w \in Workers : worker_spurious_wakeup(w) \/ worker_notify(w)
    BY Zenon, <1>6, <1>8 DEF sig_splice, drained, ack_read, ack_collect, ack_write,
                      ack_spurious_wakeup, vars, worker_spurious_wakeup, worker_notify
  <1> QED BY Zenon, <1>1, <1>2, <1>3, <1>4, <1>5, <1>7, <1>8
          DEF Next, LoopStep, AckStep, WorkerStep

\* A new command is behind the others, and taking the first one leaves the rest
\* in order.
LEMMA SortedStep == IInv /\ Numbered /\ Sorted /\ [Next]_vars => Sorted'
  <1> SUFFICES ASSUME TypeOK, CommandsOK, Numbered, Sorted, [Next]_vars
               PROVE  Sorted'
    BY Zenon DEF IInv
  <1>1. ASSUME NEW lu \in Lus, NEW c \in Cmds, bs_thread_cmd_submit(lu, c)
        PROVE  Sorted'
    <2> DEFINE p == pending_list[lu]
    <2>1. /\ pending_list'[lu] = Append(p, c) /\ cmd[c] = "new" /\ p \in Seq(Cmds)
          /\ \A l \in Lus : l # lu => pending_list'[l] = pending_list[l]
      BY Zenon, <1>1 DEF bs_thread_cmd_submit, IsNext, TypeOK
    <2>2. /\ Len(p) \in Nat /\ Len(Append(p, c)) = Len(p) + 1
          /\ Append(p, c)[Len(p) + 1] = c
          /\ \A k \in 1..Len(p) : Append(p, c)[k] = p[k] /\ p[k] \in Cmds
      BY <2>1, AppendProperties
    <2>3. \A k \in 1..Len(p) : cmd[p[k]] = "pending"
      BY Zenon DEF CommandsOK, PendingOK
    <2>4. \A k \in 1..Len(p) : p[k] < c
      <3>1. \A d \in Cmds : d \in Int
        BY StoreConstants DEF Cmds
      <3>2. ASSUME NEW k \in 1..Len(p) PROVE ~(c < p[k]) /\ p[k] # c /\ p[k] \in Cmds
        BY Zenon, <2>1, <2>2, <2>3 DEF Numbered
      <3> QED BY <3>1, <3>2
    <2>5. \A j, k \in 1..Len(p) : j < k => p[j] < p[k]
      BY Zenon DEF Sorted
    <2> HIDE DEF p
    <2>6. \A j, k \in 1..(Len(p) + 1) : j < k => Append(p, c)[j] < Append(p, c)[k]
      <3> SUFFICES ASSUME NEW j \in 1..(Len(p) + 1), NEW k \in 1..(Len(p) + 1), j < k
                   PROVE  Append(p, c)[j] < Append(p, c)[k]
        BY Zenon
      <3>1. j \in 1..Len(p) /\ (k \in 1..Len(p) \/ k = Len(p) + 1)
        BY <2>2
      <3> QED BY Zenon, <2>2, <2>4, <2>5, <3>1
    <2>7. \A j, k \in 1..Len(pending_list'[lu]) :
             j < k => pending_list'[lu][j] < pending_list'[lu][k]
      BY Zenon, <2>1, <2>2, <2>6
    <2> QED BY ZenonT(30), <2>1, <2>7 DEF Sorted
  <1>2. ASSUME NEW w \in Workers, worker_take(w), pending_list[w[1]] # <<>> PROVE Sorted'
    <2> DEFINE lu == w[1]
               p == pending_list[lu]
    <2>1. lu \in Lus /\ p \in Seq(Cmds)
      BY SMTT(30) DEF Workers, TypeOK
    <2>2. /\ pending_list'[lu] = Tail(p)
          /\ \A l \in Lus : l # lu => pending_list'[l] = pending_list[l]
      BY Zenon, <1>2, <2>1 DEF worker_take, TypeOK
    <2>3. \A k \in 1..Len(Tail(p)) : Tail(p)[k] = p[k + 1] /\ k + 1 \in 1..Len(p)
      BY <1>2, <2>1, TailProps
    <2>4. \A j, k \in 1..Len(p) : j < k => p[j] < p[k]
      BY Zenon, <2>1 DEF Sorted
    <2> HIDE DEF p, lu
    <2>5. ASSUME NEW j \in 1..Len(Tail(p)), NEW k \in 1..Len(Tail(p)), j < k
          PROVE  Tail(p)[j] < Tail(p)[k]
      <3>1. j + 1 < k + 1
        BY <2>5
      <3> QED BY Zenon, <2>3, <2>4, <3>1
    <2> QED BY ZenonT(30), <2>2, <2>5 DEF Sorted
  <1>3. ASSUME UNCHANGED pending_list PROVE Sorted'
    BY Zenon, <1>3 DEF Sorted
  <1>4. ASSUME NEW w \in Workers, worker_take(w), pending_list[w[1]] = <<>> PROVE Sorted'
    BY Zenon, <1>3, <1>4 DEF worker_take
  <1>5. CASE \/ \E lu \in Lus : \E n \in 0..NrThreads[lu] : bs_thread_open(lu, n)
             \/ \E lu \in Lus : tgt_device_destroy(lu)
             \/ SignalPending \/ pthread_cancel \/ pthread_join \/ sig_read \/ done_read
    BY Zenon, <1>3, <1>5 DEF bs_thread_open, tgt_device_destroy, SignalPending, pthread_cancel,
                      pthread_join, sig_read, done_read
  <1>6. CASE \/ sig_splice \/ drained \/ ack_read \/ ack_collect \/ ack_write
             \/ ack_spurious_wakeup \/ complete_first \/ UNCHANGED vars
    BY Zenon, <1>3, <1>6 DEF sig_splice, drained, ack_read, ack_collect, ack_write,
                      ack_spurious_wakeup, complete_first, vars
  <1>7. CASE \E w \in Workers : \/ worker_spurious_wakeup(w) \/ worker_notify(w)
                                \/ worker_finish(w) \/ worker_cancelled(w)
    BY Zenon, <1>3, <1>7 DEF worker_spurious_wakeup, worker_notify, worker_finish,
                      worker_cancelled
  <1> QED BY ZenonT(30), <1>1, <1>2, <1>4, <1>5, <1>6, <1>7 DEF Next, LoopStep, AckStep, WorkerStep

\* The only worker of an LU takes the oldest command, and only when the one
\* before it is finished.
LEMMA InOrderStep ==
    IInv /\ PlacesOK /\ Numbered /\ Sorted /\ InOrder /\ [Next]_vars => InOrder'
  <1> SUFFICES ASSUME TypeOK, ThreadsOK, CommandsOK, PlacesOK, Numbered, Sorted, InOrder,
                      [Next]_vars
               PROVE  InOrder'
    BY Zenon DEF IInv
  <1> DEFINE Run == {"running", "finished", "done"}
             Over == {"finished", "done"}
  <1>0. ASSUME dev' = dev, \A c \in Cmds : cmd'[c] \in Run => cmd[c] \in Run,
               \A c \in Cmds : cmd[c] \in Over => cmd'[c] \in Over
        PROVE  InOrder'
    BY Zenon, <1>0 DEF InOrder
  <1>1. ASSUME NEW lu \in Lus, NEW c \in Cmds, bs_thread_cmd_submit(lu, c)
        PROVE  InOrder'
    <2>1. /\ \A d \in Cmds : d # c => cmd'[d] = cmd[d] /\ dev'[d] = dev[d]
          /\ cmd'[c] = "pending" /\ cmd[c] = "new"
      BY Zenon, <1>1 DEF bs_thread_cmd_submit, IsNext, TypeOK
    <2>2. \A d \in Cmds : c < d => cmd'[d] = "new"
      <3>1. \A d \in Cmds : c < d => d # c
        BY StoreConstants DEF Cmds
      <3> QED BY Zenon, <2>1, <3>1 DEF Numbered
    <2> QED BY ZenonT(30), <2>1, <2>2 DEF InOrder
  <1>2. ASSUME NEW w \in Workers, worker_take(w), pending_list[w[1]] # <<>> PROVE InOrder'
    <2> DEFINE lu == w[1]
               p == pending_list[lu]
               d == p[1]
    <2>1. lu \in Lus /\ p \in Seq(Cmds) /\ Head(p) = d /\ d \in Cmds
          /\ 1 \in 1..Len(p) /\ Len(p) \in Nat
      BY <1>2, TailProps DEF Workers, TypeOK
    <2>2. cmd[d] = "pending" /\ dev[d] = lu
      BY Zenon, <2>1 DEF CommandsOK, PendingOK
    <2>3. /\ dev' = dev /\ cmd'[d] = "running" /\ worker[w] = "lock"
          /\ \A c \in Cmds : c # d => cmd'[c] = cmd[c]
      BY ZenonT(30), <1>2, <2>1 DEF worker_take, TypeOK
    <2>4. ASSUME NEW c \in Cmds, c < d, dev[c] = lu, NrThreads[lu] = 1
          PROVE  cmd[c] \in Over
      <3>1. cmd[c] # "new" /\ cmd[c] # "lost"
        BY Zenon, <2>1, <2>2, <2>4 DEF Numbered, CommandsOK, OwnedOK
      <3>2. cmd[c] # "pending"
        <4> SUFFICES ASSUME cmd[c] = "pending" PROVE FALSE
          BY Zenon
        <4>1. c \in PendingOf(lu) /\ Holds(p, PendingOf(lu))
          BY ZenonT(30), <2>1, <2>4 DEF PendingOf, PlacesOK
        <4>2. PICK k \in 1..Len(p) : p[k] = c
          BY Zenon, <4>1 DEF Holds
        <4>3. k = 1 \/ p[1] < p[k]
          BY <2>1 DEF Sorted
        <4>4. c \in Int /\ d \in Int
          BY <2>1, StoreConstants DEF Cmds
        <4> QED BY <2>4, <4>2, <4>3, <4>4
      <3>3. cmd[c] # "running"
        <4> SUFFICES ASSUME cmd[c] = "running" PROVE FALSE
          BY Zenon
        <4>1. PICK v \in Workers : current[v] = c
          BY Zenon DEF PlacesOK
        <4>2. worker[v] = "run"
          BY Zenon, <4>1, StoreConstants DEF PlacesOK, Cmds
        <4>3. v[1] = lu
          BY Zenon, <2>4, <4>1, <4>2 DEF CommandsOK, RunningOK
        <4>4. v[2] = 1 /\ w[2] = 1 /\ v = <<v[1], v[2]>> /\ w = <<w[1], w[2]>>
          BY <2>1, <2>4, <4>3 DEF Workers
        <4>5. v = w
          BY Zenon, <4>3, <4>4
        <4> QED BY Zenon, <2>3, <4>2, <4>5
      <3> QED BY Zenon, <3>1, <3>2, <3>3 DEF TypeOK
    <2>5. \A c \in Cmds : c < d => c # d
      BY StoreConstants DEF Cmds
    <2> HIDE DEF d, p, lu
    <2> SUFFICES ASSUME NEW c \in Cmds, NEW e \in Cmds, c < e, dev'[c] = dev'[e],
                        dev'[c] # None, NrThreads[dev'[c]] = 1, cmd'[e] \in Run
                 PROVE  cmd'[c] \in Over
      BY Zenon DEF InOrder
    <2>6. CASE e = d
      BY Zenon, <2>2, <2>3, <2>4, <2>5, <2>6
    <2>7. CASE e # d
      <3>1. cmd[c] \in Over
        BY Zenon, <2>3, <2>7 DEF InOrder
      <3> QED BY Zenon, <2>2, <2>3, <3>1
    <2> QED BY Zenon, <2>6, <2>7
  <1>3. ASSUME NEW w \in Workers, worker_finish(w) PROVE InOrder'
    <2>1. current[w] \in Cmds /\ cmd[current[w]] = "running"
      BY Zenon, <1>3 DEF worker_finish, CommandsOK, RunningOK
    <2>2. dev' = dev /\ cmd' = [cmd EXCEPT ![current[w]] = "finished"]
      BY Zenon, <1>3 DEF worker_finish
    <2> QED BY Zenon, <1>0, <2>1, <2>2 DEF TypeOK
  <1>4. ASSUME NEW w \in Workers, worker_cancelled(w) PROVE InOrder'
    <2>1. worker[w] = "wait"
      BY Zenon, <1>4, CancelledIdle
    <2> QED BY Zenon, <1>0, <1>4, <2>1 DEF worker_cancelled
  <1>5. CASE complete_first
    <2>1. /\ Head(ack_list) = ack_list[1] /\ 1 \in 1..Len(ack_list)
          /\ ack_list[1] \in Cmds
      BY <1>5, TailProps DEF complete_first, TypeOK
    <2>2. cmd[Head(ack_list)] \in Over
      BY Zenon, <2>1 DEF CommandsOK, AckOK
    <2> QED BY Zenon, <1>0, <1>5, <2>1, <2>2 DEF complete_first, TypeOK
  <1>6. ASSUME UNCHANGED cmdVars PROVE InOrder'
    BY Zenon, <1>0, <1>6 DEF cmdVars
  <1>7. CASE \/ \E lu \in Lus : \E n \in 0..NrThreads[lu] : bs_thread_open(lu, n)
             \/ \E lu \in Lus : tgt_device_destroy(lu)
             \/ SignalPending \/ pthread_cancel \/ pthread_join \/ sig_read \/ done_read
    BY Zenon, <1>6, <1>7 DEF bs_thread_open, tgt_device_destroy, SignalPending, pthread_cancel,
                      pthread_join, sig_read, done_read
  <1>8. CASE \/ sig_splice \/ drained \/ ack_read \/ ack_collect \/ ack_write
             \/ ack_spurious_wakeup \/ UNCHANGED vars
             \/ \E w \in Workers : worker_spurious_wakeup(w) \/ worker_notify(w)
    BY Zenon, <1>6, <1>8 DEF sig_splice, drained, ack_read, ack_collect, ack_write,
                      ack_spurious_wakeup, vars, worker_spurious_wakeup, worker_notify
  <1>9. ASSUME NEW w \in Workers, worker_take(w), pending_list[w[1]] = <<>> PROVE InOrder'
    BY Zenon, <1>0, <1>9 DEF worker_take
  <1> QED BY Zenon, <1>1, <1>2, <1>3, <1>4, <1>5, <1>7, <1>8, <1>9
          DEF Next, LoopStep, AckStep, WorkerStep

\* Every command is on one list or with one worker, which runs it once, and an
\* LU with one worker (a tape) runs its commands in the order of submission: for
\* any number of LUs, workers and commands, with a signalfd and without.
THEOREM OnceInOrderCorrect == Spec => []OnceInOrder
  <1>1. Init => OrderInv
    <2> SUFFICES ASSUME Init PROVE OrderInv
      BY Zenon
    <2>1. /\ \A lu \in Lus : pending_list[lu] = <<>> /\ Len(pending_list[lu]) = 0
          /\ ack_list \o finished_list = <<>> /\ Len(ack_list \o finished_list) = 0
      BY DEF Init
    <2>2. /\ \A lu \in Lus : PendingOf(lu) = {}
          /\ Finished = {}
      BY Zenon DEF Init, PendingOf, Finished
    <2>3. PlacesOK
      BY <2>1, <2>2 DEF Init, PlacesOK, Holds
    <2>4. Numbered /\ Sorted /\ InOrder
      BY <2>1 DEF Init, Numbered, Sorted, InOrder
    <2> QED BY Zenon, <2>3, <2>4 DEF OrderInv
  <1>2. IInv /\ OrderInv /\ [Next]_vars => OrderInv'
    BY Zenon, PlacesStep, NumberedStep, SortedStep, InOrderStep DEF OrderInv
  <1>3. IInv /\ OrderInv => OnceInOrder
    <2> SUFFICES ASSUME TypeOK, CommandsOK, PlacesOK, InOrder PROVE OnceInOrder
      BY Zenon DEF IInv, OrderInv
    <2>1. InOnePlace
      BY ZenonT(30) DEF InOnePlace, PlacesOK, PendingOf, Finished, CommandsOK, RunningOK, RunningOnce
    <2> QED BY Zenon, <2>1 DEF OnceInOrder
  <1> QED BY <1>1, <1>2, <1>3, Inductive, PTL DEF Spec
=============================================================================
