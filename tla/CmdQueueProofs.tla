--------------------------- MODULE CmdQueueProofs ---------------------------
(***************************************************************************)
(* The theorems about CmdQueue, for every number of commands, nexuses and  *)
(* task management requests.  First type correctness and the accounting of *)
(* the task set; the references and the causes of a crash are those of     *)
(* CmdQueueLinks and CmdQueueCause.                                        *)
(***************************************************************************)
EXTENDS CmdQueueCause
-----------------------------------------------------------------------------
\* Typing of the variables that the helpers of the actions write.
ConnTypeOK ==
    /\ conn \in [Nexuses -> {"none", "full", "close", "closed"}]
    /\ refcount \in [Nexuses -> Int]
    /\ nexus \subseteq Nexuses

TmTypeOK ==
    /\ tmState \in [Mreqs -> {"free", "busy", "tx"}]
    /\ tmItn \in [Mreqs -> Nexuses \cup {None}]
    /\ function \in [Mreqs -> Functions \cup {"none"}]
    /\ busy \in [Mreqs -> Int]
    /\ result \in [Mreqs -> {"none", "COMPLETE", "NO_TASK"}]

QueueTypeOK ==
    /\ hlist \subseteq Cmds
    /\ active \in Int
    /\ blocked \in BOOLEAN
    /\ calls \in Seq(Frames)
    /\ daemon \in {"up", "crashed"}

\* conn_put keeps the types of the connection variables.
LEMMA ConnPutType ==
    ASSUME TypeOK, NEW i, conn_put(i)
    PROVE  ConnTypeOK'
  <1>1. refcount' \in [Nexuses -> Int]
    <2>1. refcount' = [j \in Nexuses |-> IF j = i THEN refcount[i] - 1 ELSE refcount[j]]
      BY Zenon DEF conn_put, TypeOK
    <2>2. \A j \in Nexuses : (IF j = i THEN refcount[i] - 1 ELSE refcount[j]) \in Int
      BY DEF TypeOK
    <2> QED BY Zenon, <2>1, <2>2
  <1>2. conn' \in [Nexuses -> {"none", "full", "close", "closed"}]
    BY Zenon DEF conn_put, TypeOK
  <1>3. nexus' \subseteq Nexuses
    BY ZenonT(30) DEF conn_put, TypeOK
  <1> QED BY Zenon, <1>1, <1>2, <1>3 DEF ConnTypeOK

\* Freeing a task management request keeps the types.
LEMMA FreeTmType ==
    ASSUME TypeOK, NEW m, FreeTm(m)
    PROVE  TmTypeOK' /\ ConnTypeOK'
  <1>1. ConnTypeOK'
    BY Zenon, ConnPutType DEF FreeTm
  <1>2. /\ tmState' \in [Mreqs -> {"free", "busy", "tx"}]
        /\ tmItn' \in [Mreqs -> Nexuses \cup {None}]
        /\ function' \in [Mreqs -> Functions \cup {"none"}]
        /\ result' \in [Mreqs -> {"none", "COMPLETE", "NO_TASK"}]
    BY Zenon DEF FreeTm, TypeOK
  <1>3. busy' \in [Mreqs -> Int]
    <2>1. busy' = [n \in Mreqs |-> IF n = m THEN 0 ELSE busy[n]]
      BY Zenon DEF FreeTm, TypeOK
    <2>2. \A n \in Mreqs : (IF n = m THEN 0 ELSE busy[n]) \in Int
      BY DEF TypeOK
    <2> QED BY Zenon, <2>1, <2>2
  <1> QED BY Zenon, <1>1, <1>2, <1>3 DEF TmTypeOK

\* mgmt_end_notify keeps the types.
LEMMA NotifyType ==
    ASSUME TypeOK, NEW m, NEW r \in {"none", "COMPLETE", "NO_TASK"},
           mgmt_end_notify(m, r)
    PROVE  TmTypeOK' /\ ConnTypeOK'
  <1>1. CASE conn[tmItn[m]] = "full"
    <2>1. ConnTypeOK'
      BY <1>1 DEF mgmt_end_notify, TypeOK, ConnTypeOK, connVars
    <2>2. /\ tmState' \in [Mreqs -> {"free", "busy", "tx"}]
          /\ tmItn' \in [Mreqs -> Nexuses \cup {None}]
          /\ function' \in [Mreqs -> Functions \cup {"none"}]
      <3>1. tmState' = [tmState EXCEPT ![m] = "tx"]
        BY Zenon, <1>1 DEF mgmt_end_notify
      <3>2. tmItn' = tmItn /\ function' = function
        BY Zenon, <1>1 DEF mgmt_end_notify
      <3> QED BY <3>1, <3>2, Zenon DEF TypeOK
    <2>4. result' \in [Mreqs -> {"none", "COMPLETE", "NO_TASK"}]
      <3>1. result' = [n \in Mreqs |-> IF n = m THEN r ELSE result[n]]
        BY <1>1 DEF mgmt_end_notify, TypeOK
      <3>2. \A n \in Mreqs : (IF n = m THEN r ELSE result[n])
                                 \in {"none", "COMPLETE", "NO_TASK"}
        BY Zenon DEF TypeOK
      <3> QED BY Zenon, <3>1, <3>2
    <2>3. busy' \in [Mreqs -> Int]
      <3>1. busy' = [n \in Mreqs |-> IF n = m THEN 0 ELSE busy[n]]
        BY <1>1 DEF mgmt_end_notify, TypeOK
      <3>2. \A n \in Mreqs : (IF n = m THEN 0 ELSE busy[n]) \in Int
        BY DEF TypeOK
      <3> QED BY Zenon, <3>1, <3>2
    <2> QED BY Zenon, <2>1, <2>2, <2>3, <2>4 DEF TmTypeOK
  <1>2. CASE conn[tmItn[m]] # "full"
    BY Zenon, <1>2, FreeTmType DEF mgmt_end_notify
  <1> QED BY Zenon, <1>1, <1>2

\* cmd_done keeps the types of the queue and of the call stack.
LEMMA CmdDoneType ==
    ASSUME TypeOK, NEW c, NEW rest \in Seq(Frames), cmd_done(c, rest)
    PROVE  QueueTypeOK' /\ c \in Cmds
  <1>1. First(queue) \in Cmds \cup {None}
    BY Zenon, FirstType DEF TypeOK
  <1>2. calls' \in Seq(Frames)
    BY Zenon, <1>1, FrameTypes, PushProps DEF cmd_done
  <1> QED BY <1>2 DEF cmd_done, TypeOK, QueueTypeOK

\* iscsi_free_cmd_task keeps the types.
LEMMA FreeCmdTaskType ==
    ASSUME TypeOK, NEW c, NEW rest \in Seq(Frames), iscsi_free_cmd_task(c, rest)
    PROVE  QueueTypeOK' /\ TmTypeOK' /\ ConnTypeOK' /\ c \in Cmds
  <1> DEFINE stack == <<FreeFrame(c)>> \o rest
             m == mreq[c]
             r == IF function[m] = "ABORT_TASK" THEN "NO_TASK" ELSE "COMPLETE"
  <1>1. cmd_done(c, stack) /\ c \in Cmds
    BY Zenon DEF iscsi_free_cmd_task, target_cmd_done, cmd_done, TypeOK
  <1>2. stack \in Seq(Frames)
    BY Zenon, <1>1, FrameTypes, PushProps
  <1>3. QueueTypeOK'
    BY <1>1, <1>2, CmdDoneType, Zenon
  <1>4. TmTypeOK' /\ ConnTypeOK'
    <2>1. CASE m = None
      BY ZenonT(30), <2>1 DEF iscsi_free_cmd_task, target_cmd_done, TypeOK, TmTypeOK,
                  ConnTypeOK, connVars, tm
    <2>2. CASE m # None /\ busy[m] = 1
      <3>1. mgmt_end_notify(m, r)
        BY Zenon, <2>2 DEF iscsi_free_cmd_task, target_cmd_done
      <3> HIDE DEF m
      <3> QED BY Zenon, <3>1, NotifyType
    <2>3. CASE m # None /\ busy[m] # 1
      BY <2>3 DEF iscsi_free_cmd_task, target_cmd_done, TypeOK, TmTypeOK,
                  ConnTypeOK, connVars
    <2> QED BY Zenon, <2>1, <2>2, <2>3
  <1> QED BY Zenon, <1>1, <1>3, <1>4

\* Starting a command keeps the types.
LEMMA PerformType ==
    ASSUME TypeOK, NEW c \in Cmds, NEW a, NEW rest \in Seq(Frames),
           Perform(c, a, rest)
    PROVE  /\ active' \in Int
           /\ blocked' \in BOOLEAN
           /\ processed' \subseteq Cmds
           /\ io' \subseteq Cmds
           /\ calls' \in Seq(Frames)
  <1>1. IoDoneFrame(c) \in Frames
    BY Zenon, FrameTypes
  <1>2. <<IoDoneFrame(c)>> \o rest \in Seq(Frames)
    BY Zenon, <1>1, PushProps
  <1>3. calls' \in Seq(Frames)
    BY <1>2, Zenon DEF Perform
  <1> QED BY <1>3 DEF Perform, TypeOK

\* The type invariant across conn_close entered.
LEMMA TypeConnClose ==
    ASSUME TypeOK,
           NEW i \in Nexuses, ConnClose(i)
    PROVE  TypeOK'
  <1> USE DEF cmdVars, listVars, qVars, tm, connVars
  <1>1. calls' \in Seq(Frames)
    BY NoneAssumption DEF ConnClose, Frame, Frames, FrameNames
  <1> QED BY Zenon, <1>1 DEF ConnClose, TypeOK

\* The type invariant across a command arriving.
LEMMA TypeCmdPerform ==
    ASSUME TypeOK,
           NEW c \in Cmds, NEW i \in Nexuses, NEW a \in Attrs, target_cmd_perform(c, i, a)
    PROVE  TypeOK'
  <1> USE DEF cmdVars, listVars, qVars, tm, connVars
  <1>1. /\ alive' \subseteq Cmds
        /\ itn' \in [Cmds -> Nexuses \cup {None}]
        /\ attr' \in [Cmds -> {"SIMPLE", "ORDERED", "HEAD"}]
        /\ hlist' \subseteq Cmds
        /\ refcount' \in [Nexuses -> Int]
    BY AttrsAssumption DEF target_cmd_perform, TypeOK
  <1>2. CASE cmd_enabled(a)
    <2>1. Perform(c, a, <<>>) /\ UNCHANGED queue
      BY Zenon, <1>2 DEF target_cmd_perform
    <2>2. <<>> \in Seq(Frames)
      OBVIOUS
    <2>3. /\ active' \in Int /\ blocked' \in BOOLEAN /\ processed' \subseteq Cmds
          /\ io' \subseteq Cmds /\ calls' \in Seq(Frames)
      BY <2>1, <2>2, PerformType, Zenon
    <2> QED BY Zenon, <1>1, <2>1, <2>3 DEF target_cmd_perform, TypeOK
  <1>3. CASE ~cmd_enabled(a)
    <2>1. UNCHANGED <<processed, io, qVars, calls>> /\ queue' = Append(queue, c)
      BY Zenon, <1>3 DEF target_cmd_perform
    <2>2. queue' \in Seq(Cmds)
      BY <2>1 DEF TypeOK
    <2> QED BY Zenon, <1>1, <2>1, <2>2 DEF target_cmd_perform, TypeOK
  <1> QED BY Zenon, <1>2, <1>3

\* The type invariant across a task management request arriving.
LEMMA TypeMgmtRequest ==
    ASSUME TypeOK,
           NEW i \in Nexuses, NEW m \in Mreqs, NEW f \in Functions, NEW tag \in Cmds,
           target_mgmt_request(i, m, f, tag)
    PROVE  TypeOK'
  <1> USE DEF cmdVars, listVars, qVars, tm, connVars
  <1>1. AbortFrame(m, Selected(i, f, tag)) \in Frames
    BY Zenon, FrameTypes DEF Selected, TypeOK
  <1>2. calls' \in Seq(Frames)
    BY SMTT(30), <1>1 DEF target_mgmt_request
  <1>3. /\ tmState' \in [Mreqs -> {"free", "busy", "tx"}]
        /\ tmItn' \in [Mreqs -> Nexuses \cup {None}]
        /\ function' \in [Mreqs -> Functions \cup {"none"}]
        /\ result' \in [Mreqs -> {"none", "COMPLETE", "NO_TASK"}]
    BY Zenon DEF target_mgmt_request, TypeOK
  <1>4. refcount' \in [Nexuses -> Int]
    BY SMTT(30) DEF target_mgmt_request, TypeOK
  <1> QED BY Zenon, <1>2, <1>3, <1>4 DEF target_mgmt_request, TypeOK

\* The type invariant across target_cmd_io_done.
LEMMA TypeIoDone ==
    ASSUME TypeOK,
           target_cmd_io_done
    PROVE  TypeOK'
  <1> USE DEF cmdVars, listVars, qVars, tm, connVars
  <1> DEFINE c == Head(calls).cmd
  <1>1. c \in Cmds /\ Tail(calls) \in Seq(Frames)
    BY Zenon, TailProps, FrameFields DEF target_cmd_io_done, Top, TypeOK
  <1>2. CASE /\ tx' = tx \cup {c} /\ Return
             /\ UNCHANGED <<cmdVars, hlist, queue, io, qVars, tm, connVars, daemon>>
    BY Zenon, <1>1, <1>2 DEF Return, TypeOK
  <1>3. CASE iscsi_free_cmd_task(c, Tail(calls)) /\ UNCHANGED <<cmdVars, queue, io, tx>>
    BY <1>1, <1>3, FreeCmdTaskType, Zenon DEF TypeOK, QueueTypeOK, TmTypeOK, ConnTypeOK
  <1>4. CASE Crash
    BY Zenon, <1>4 DEF Crash, TypeOK
  <1> QED BY Zenon, <1>2, <1>3, <1>4 DEF target_cmd_io_done

\* The type invariant across post_cmd_done starting the next command.
LEMMA TypePostPerform ==
    ASSUME TypeOK,
           PostCmdDonePerform
    PROVE  TypeOK'
  <1> USE DEF cmdVars, listVars, qVars, tm, connVars
  <1> DEFINE c == Head(calls).cmd
             rest == <<PostFrame(Second(queue))>> \o Tail(calls)
  <1>1. c \in Cmds /\ Tail(calls) \in Seq(Frames) /\ queue # <<>>
    BY Zenon, TailProps, FrameFields DEF PostCmdDonePerform, Top, First, TypeOK
  <1>2. rest \in Seq(Frames)
    BY Zenon, <1>1, FirstType, FrameTypes, PushProps DEF TypeOK
  <1>3. Perform(c, attr[c], rest) /\ queue' = Tail(queue)
    BY ZenonT(40) DEF PostCmdDonePerform
  <1>4. queue' \in Seq(Cmds)
    BY ZenonT(30), <1>1, <1>3, TailProps DEF TypeOK
  <1> HIDE DEF c, rest
  <1> QED BY Zenon, <1>1, <1>2, <1>3, <1>4, PerformType DEF PostCmdDonePerform, TypeOK

\* The type invariant across post_cmd_done on a removed entry.
LEMMA TypePostStale ==
    ASSUME TypeOK,
           PostCmdDoneStale
    PROVE  TypeOK'
  <1> USE DEF cmdVars, listVars, qVars, tm, connVars
  <1>1. CASE Crash
    BY Zenon, <1>1 DEF Crash, TypeOK
  <1>2. CASE Return /\ UNCHANGED <<cmdVars, listVars, qVars, tm, connVars, daemon>>
    BY Zenon, <1>2, TailProps DEF PostCmdDoneStale, Top, Return, TypeOK
  <1> QED BY Zenon, <1>1, <1>2 DEF PostCmdDoneStale

\* The type invariant across iscsi_free_task.
LEMMA TypeFreeTask ==
    ASSUME TypeOK,
           iscsi_free_task
    PROVE  TypeOK'
  <1> USE DEF cmdVars, listVars, qVars, tm, connVars
  <1>1. calls' \in Seq(Frames)
    BY Zenon, TailProps DEF iscsi_free_task, Top, Return, TypeOK
  <1>2. ConnTypeOK'
    BY ZenonT(30), ConnPutType DEF iscsi_free_task
  <1> QED BY <1>1, <1>2, ZenonT(40) DEF iscsi_free_task, TypeOK, ConnTypeOK

\* The type invariant across a completion.
LEMMA TypeIoComplete ==
    ASSUME TypeOK,
           NEW c \in Cmds, IoComplete(c)
    PROVE  TypeOK'
  BY SMTT(30), FrameTypes DEF IoComplete, TypeOK, cmdVars, listVars, qVars, tm, connVars

\* The type invariant across a response sent.
LEMMA TypeCmdTxDone ==
    ASSUME TypeOK,
           NEW c \in Cmds, CmdTxDone(c)
    PROVE  TypeOK'
  <1> USE DEF cmdVars, listVars, qVars, tm, connVars
  <1>1. CASE tx' = tx \ {c} /\ iscsi_free_cmd_task(c, <<>>)
             /\ UNCHANGED <<cmdVars, queue, io>>
    <2>1. <<>> \in Seq(Frames)
      BY SMTT(30)
    <2> QED BY <1>1, <2>1, FreeCmdTaskType, Zenon DEF TypeOK, QueueTypeOK, TmTypeOK, ConnTypeOK
  <1> QED BY <1>1 DEF CmdTxDone, Crash, TypeOK

\* The type invariant across a task management response sent.
LEMMA TypeTmTxDone ==
    ASSUME TypeOK,
           NEW m \in Mreqs, TmTxDone(m)
    PROVE  TypeOK'
  BY Zenon, FreeTmType DEF TmTxDone, TypeOK, TmTypeOK, ConnTypeOK, cmdVars, listVars, qVars, tm, connVars

\* The type invariant across conn_close walking the tasks.
LEMMA TypeConnCloseStep ==
    ASSUME TypeOK,
           ConnCloseStep
    PROVE  TypeOK'
  <1> USE DEF cmdVars, listVars, qVars, tm, connVars
  <1> DEFINE i == Head(calls).itn
  <1>1. ASSUME NEW c \in tx, tx' = tx \ {c}, iscsi_free_cmd_task(c, calls),
               UNCHANGED <<cmdVars, queue, io>>
        PROVE  TypeOK'
    BY Zenon, <1>1, FreeCmdTaskType DEF TypeOK, QueueTypeOK, TmTypeOK, ConnTypeOK
  <1>2. ASSUME NEW m \in Mreqs, FreeTm(m),
               UNCHANGED <<cmdVars, listVars, qVars, calls, daemon>>
        PROVE  TypeOK'
    BY ZenonT(30), <1>2, FreeTmType DEF TypeOK, TmTypeOK, ConnTypeOK
  <1>3. CASE conn_put(i) /\ Return
             /\ UNCHANGED <<cmdVars, listVars, qVars, tm, daemon>>
    <2>1. calls' \in Seq(Frames)
      BY ZenonT(30), <1>3, TailProps DEF ConnCloseStep, Top, Return, TypeOK
    <2> QED BY ZenonT(30), <1>3, <2>1, ConnPutType DEF TypeOK, ConnTypeOK
  <1>4. CASE Crash
    BY Zenon, <1>4 DEF Crash, TypeOK
  <1> QED BY <1>1, <1>2, <1>3, <1>4, Zenon DEF ConnCloseStep

\* The type invariant across the abort of a started command.
LEMMA TypeAbortProcessed ==
    ASSUME TypeOK,
           AbortProcessed
    PROVE  TypeOK'
  <1> USE DEF cmdVars, listVars, qVars, tm, connVars
  <1>1. Head(calls) \in Frames /\ Tail(calls) \in Seq(Frames) /\ Head(calls).mreq \in Mreqs
    BY Zenon, TailProps, FrameFields DEF AbortProcessed, Top, TypeOK
  <1>2. PICK c \in Cmds :
           /\ mreq' = [mreq EXCEPT ![c] = Head(calls).mreq]
           /\ busy' = [busy EXCEPT ![Head(calls).mreq] = @ + 1]
           /\ calls' = <<AbortFrame(Head(calls).mreq, Head(calls).todo \ {c})>>
                       \o Tail(calls)
    BY Zenon DEF AbortProcessed, TypeOK
  <1>3. calls' \in Seq(Frames)
    BY Zenon, <1>1, <1>2, FrameFields, FrameTypes, PushProps
  <1> QED BY SMTT(30), <1>1, <1>2, <1>3 DEF AbortProcessed, TypeOK

\* The type invariant across the abort of a queued command.
LEMMA TypeAbortQueued ==
    ASSUME TypeOK,
           AbortQueued
    PROVE  TypeOK'
  <1> USE DEF cmdVars, listVars, qVars, tm, connVars
  <1> DEFINE rest(c) == <<AbortFrame(Head(calls).mreq, Head(calls).todo \ {c})>>
                        \o Tail(calls)
  <1>1. Head(calls) \in Frames /\ Tail(calls) \in Seq(Frames) /\ Head(calls).mreq \in Mreqs
    BY ZenonT(30), TailProps, FrameFields DEF AbortQueued, Top, TypeOK
  <1>2. PICK c \in Cmds : aborted' = aborted \cup {c}
                          /\ cmd_done(c, <<IoDoneFrame(c)>> \o rest(c))
    BY Zenon DEF AbortQueued, TypeOK
  <1>3. rest(c) \in Seq(Frames)
    BY Zenon, <1>1, FrameFields, FrameTypes, PushProps
  <1>4. <<IoDoneFrame(c)>> \o rest(c) \in Seq(Frames)
    BY ZenonT(30), <1>3, FrameTypes, PushProps
  <1> HIDE DEF rest
  <1> QED BY <1>2, <1>4, CmdDoneType, Zenon DEF AbortQueued, TypeOK, QueueTypeOK

\* The type invariant across the abort of a freed command.
LEMMA TypeAbortStale ==
    ASSUME TypeOK,
           AbortStale
    PROVE  TypeOK'
  <1> USE DEF cmdVars, listVars, qVars, tm, connVars
  <1>1. Head(calls) \in Frames /\ Tail(calls) \in Seq(Frames) /\ Head(calls).mreq \in Mreqs
    BY Zenon, TailProps, FrameFields DEF AbortStale, Top, TypeOK
  <1>2. ASSUME NEW c,
               calls' = <<AbortFrame(Head(calls).mreq, Head(calls).todo \ {c})>>
                        \o Tail(calls),
               UNCHANGED <<cmdVars, listVars, qVars, tm, connVars, daemon>>
        PROVE  TypeOK'
    <2>1. calls' \in Seq(Frames)
      BY ZenonT(30), <1>1, <1>2, FrameFields, FrameTypes, PushProps
    <2> QED BY Zenon, <1>2, <2>1 DEF TypeOK
  <1>3. CASE Crash
    BY Zenon, <1>3 DEF Crash, TypeOK
  <1> QED BY <1>2, <1>3, Zenon DEF AbortStale

\* The type invariant across the end of the abort walk.
LEMMA TypeAbortReturn ==
    ASSUME TypeOK,
           AbortReturn
    PROVE  TypeOK'
  <1> USE DEF cmdVars, listVars, qVars, tm, connVars
  <1> DEFINE m == Head(calls).mreq
  <1>1. Tail(calls) \in Seq(Frames) /\ m \in Mreqs /\ calls' = Tail(calls)
    BY ZenonT(30), TailProps, FrameFields DEF AbortReturn, Top, Return, TypeOK
  <1>2. CASE mgmt_end_notify(m, result[m])
    <2>1. result[m] \in {"none", "COMPLETE", "NO_TASK"}
      BY Zenon, <1>1 DEF TypeOK
    <2>2. TmTypeOK' /\ ConnTypeOK'
      BY Zenon, <1>2, <2>1, NotifyType
    <2> QED BY <1>1, <2>2, Zenon DEF AbortReturn, TypeOK, TmTypeOK, ConnTypeOK
  <1>3. CASE UNCHANGED <<tm, connVars>>
    BY Zenon, <1>1, <1>3 DEF AbortReturn, TypeOK
  <1> QED BY Zenon, <1>2, <1>3 DEF AbortReturn

\* One step per action: the type invariant.
LEMMA TypeStep ==
    ASSUME TypeOK, [Next]_vars
    PROVE  TypeOK'
  <1> USE DEF vars, cmdVars, listVars, qVars, tm, connVars
  <1>1. CASE UNCHANGED vars
    BY Zenon, <1>1 DEF TypeOK
  <1>2. ASSUME NEW i \in Nexuses, SessionCreate(i) PROVE TypeOK'
    BY SMTT(30), <1>2 DEF SessionCreate, TypeOK
  <1>3. ASSUME NEW i \in Nexuses, ForceClose(i) PROVE TypeOK'
    BY Zenon, <1>3 DEF ForceClose, TypeOK
  <1>4. ASSUME NEW i \in Nexuses, ConnClose(i) PROVE TypeOK'
    BY Zenon, <1>4, TypeConnClose
  <1>5. ASSUME NEW c \in Cmds, NEW i \in Nexuses, NEW a \in Attrs,
               target_cmd_perform(c, i, a)
        PROVE  TypeOK'
    BY Zenon, <1>5, TypeCmdPerform
  <1>6. ASSUME NEW i \in Nexuses, NEW m \in Mreqs, NEW f \in Functions, NEW tag \in Cmds,
               target_mgmt_request(i, m, f, tag)
        PROVE  TypeOK'
    BY Zenon, <1>6, TypeMgmtRequest
  <1>7. ASSUME target_cmd_io_done PROVE TypeOK'
    BY Zenon, <1>7, TypeIoDone
  <1>8. ASSUME PostCmdDoneReturn PROVE TypeOK'
    BY ZenonT(30), <1>8, TailProps DEF PostCmdDoneReturn, Top, Return, TypeOK
  <1>9. ASSUME PostCmdDonePerform PROVE TypeOK'
    BY Zenon, <1>9, TypePostPerform
  <1>10. ASSUME PostCmdDoneStale PROVE TypeOK'
    BY Zenon, <1>10, TypePostStale
  <1>11. ASSUME iscsi_free_task PROVE TypeOK'
    BY Zenon, <1>11, TypeFreeTask
  <1>12. ASSUME NEW c \in Cmds, IoComplete(c) PROVE TypeOK'
    BY Zenon, <1>12, TypeIoComplete
  <1>13. ASSUME NEW c \in Cmds, CmdTxDone(c) PROVE TypeOK'
    BY Zenon, <1>13, TypeCmdTxDone
  <1>14. ASSUME NEW m \in Mreqs, TmTxDone(m) PROVE TypeOK'
    BY Zenon, <1>14, TypeTmTxDone
  <1>15. ASSUME ConnCloseStep PROVE TypeOK'
    BY Zenon, <1>15, TypeConnCloseStep
  <1>16. ASSUME AbortProcessed PROVE TypeOK'
    BY Zenon, <1>16, TypeAbortProcessed
  <1>17. ASSUME AbortQueued PROVE TypeOK'
    BY Zenon, <1>17, TypeAbortQueued
  <1>18. ASSUME AbortStale PROVE TypeOK'
    BY Zenon, <1>18, TypeAbortStale
  <1>19. ASSUME AbortReturn PROVE TypeOK'
    BY Zenon, <1>19, TypeAbortReturn
  <1> QED
    BY ZenonT(30), <1>1, <1>2, <1>3, <1>4, <1>5, <1>6, <1>7, <1>8, <1>9, <1>10, <1>11, <1>12,
       <1>13, <1>14, <1>15, <1>16, <1>17, <1>18, <1>19
    DEF Next, Environment, Arrive, Handler, Completion

\* The initial state is well typed.
LEMMA TypeInit ==
    ASSUME Init
    PROVE  TypeOK
  <1>1. queue \in Seq(Cmds) /\ calls \in Seq(Frames)
    BY DEF Init
  <1>2. /\ itn \in [Cmds -> Nexuses \cup {None}]
        /\ attr \in [Cmds -> {"SIMPLE", "ORDERED", "HEAD"}]
        /\ mreq \in [Cmds -> Mreqs \cup {None}]
        /\ tmState \in [Mreqs -> {"free", "busy", "tx"}]
        /\ tmItn \in [Mreqs -> Nexuses \cup {None}]
        /\ function \in [Mreqs -> Functions \cup {"none"}]
        /\ busy \in [Mreqs -> Int]
        /\ result \in [Mreqs -> {"none", "COMPLETE", "NO_TASK"}]
        /\ conn \in [Nexuses -> {"none", "full", "close", "closed"}]
        /\ refcount \in [Nexuses -> Int]
    BY DEF Init
  <1>3. /\ alive \subseteq Cmds /\ processed \subseteq Cmds /\ aborted \subseteq Cmds
        /\ hlist \subseteq Cmds /\ io \subseteq Cmds /\ tx \subseteq Cmds
        /\ nexus \subseteq Nexuses
    BY Zenon DEF Init
  <1>4. active \in Int /\ daemon \in {"up", "crashed"}
    BY DEF Init
  <1>5. blocked \in BOOLEAN
    BY Zenon DEF Init
  <1> QED BY ZenonT(30), <1>1, <1>2, <1>3, <1>4, <1>5 DEF TypeOK

\* The state of the task set stays typed, for all constants.
THEOREM TypeCorrect == Spec => []TypeOK
  <1>1. Init => TypeOK
    BY Zenon, TypeInit
  <1>2. TypeOK /\ [Next]_vars => TypeOK'
    BY Zenon, TypeStep
  <1> QED BY <1>1, <1>2, PTL DEF Spec

-----------------------------------------------------------------------------
\* active_cmd follows the set of started commands.
LEMMA StartedFinite ==
    ASSUME Counting, TypeOK
    PROVE  IsFiniteSet(Started) /\ Cardinality(Started) \in Nat
  <1>1. Started \subseteq Cmds
    BY Zenon DEF TypeOK, Started
  <1> QED BY Zenon, <1>1, CmdsFinite, CountSubset, CountType

\* One command more is started.
LEMMA StartedAdd ==
    ASSUME Counting, TypeOK, NEW c, c \notin Started, Started' = Started \cup {c}
    PROVE  Cardinality(Started') = Cardinality(Started) + 1
  BY Zenon, StartedFinite, CountAdd

\* One started command less.
LEMMA StartedRemove ==
    ASSUME Counting, TypeOK, NEW c \in Started, Started' = Started \ {c}
    PROVE  Cardinality(Started') = Cardinality(Started) - 1
  BY Zenon, StartedFinite, CountRemove

\* The frames under the top one.
LEMMA CallersOfTop ==
    ASSUME TypeOK, StackOK, calls # <<>>
    PROVE  /\ Callers(Tail(calls))
           /\ calls[1].fn # "target_cmd_io_done" => Callers(calls)
  BY TailProps DEF TypeOK, StackOK, Callers

\* A frame that neither frees nor completes, on top of such frames.
LEMMA PushCallers ==
    ASSUME NEW s \in Seq(Frames), Callers(s), NEW f \in Frames,
           f.fn # "target_cmd_io_done",
           f.fn = "iscsi_free_task" => f.cmd \notin hlist
    PROVE  Callers(<<f>> \o s)
  <1> DEFINE t == <<f>> \o s
  <1>1. /\ Len(t) = Len(s) + 1 /\ t[1] = f /\ Len(s) \in Nat
        /\ \A k \in 2..Len(s) + 1 : t[k] = s[k - 1]
    BY PushProps
  <1> SUFFICES ASSUME NEW k \in 1..Len(t)
               PROVE  /\ t[k].fn # "target_cmd_io_done"
                      /\ t[k].fn = "iscsi_free_task" => t[k].cmd \notin hlist
    BY Zenon DEF Callers
  <1> HIDE DEF t
  <1>2. CASE k = 1
    BY Zenon, <1>1, <1>2
  <1>3. CASE k # 1
    BY <1>1, <1>3 DEF Callers
  <1> QED BY Zenon, <1>2, <1>3

\* What is left of the call stack after a return is a stack again.
LEMMA CallersStack ==
    ASSUME Callers(calls'), hlist' \subseteq hlist
    PROVE  StackOK'
  BY Zenon DEF Callers, StackOK

\* The commands, the lists and the queue stay as they are.
LEMMA SameLists ==
    ASSUME ListsOK, QueueOK, active = Cardinality(Started),
           blocked => \E c \in Started : attr[c] \in {"ORDERED", "HEAD"},
           UNCHANGED <<alive, processed, attr, hlist, queue, io, tx, active, blocked>>
    PROVE  /\ ListsOK' /\ QueueOK' /\ active' = Cardinality(Started')
           /\ blocked' => \E c \in Started' : attr'[c] \in {"ORDERED", "HEAD"}
           /\ Settled' <=> Settled
  <1>1. Started' = Started
    BY Zenon DEF Started
  <1>2. ListsOK' /\ QueueOK'
    BY Zenon, <1>1 DEF ListsOK, QueueOK
  <1>3. Settled' <=> Settled
    BY Zenon DEF Settled, cmd_enabled
  <1> QED BY Zenon, <1>1, <1>2, <1>3

\* A step that changes only the stack, leaves no walk behind and has settled.
LEMMA SettledStep ==
    ASSUME Places, Accounts, Settled, Callers(calls'),
           UNCHANGED <<alive, processed, attr, hlist, queue, io, tx, active, blocked>>
    PROVE  Places' /\ Accounts'
  <1>1. StackOK'
    BY Zenon, CallersStack
  <1> QED BY Zenon, <1>1, SameLists DEF Places, Accounts

\* A frame that is not a walk of the queue, nor on top of one: settled.
LEMMA OtherTop ==
    ASSUME Accounts,
           calls # <<>> => calls[1].fn \notin {"post_cmd_done", "target_cmd_io_done"}
    PROVE  Settled
  BY Zenon DEF Accounts, WalkAtHead

\* __cmd_done of a started command.
LEMMA CmdDoneStep ==
    ASSUME Counting, TypeOK, Places, Accounts,
           NEW c \in Started, NEW rest \in Seq(Frames),
           Callers(rest),
           cmd_done(c, <<FreeFrame(c)>> \o rest),
           c \notin io, tx' = tx \ {c},
           UNCHANGED <<alive, processed, attr, queue, io>>
    PROVE  Places' /\ Accounts'
  <1> DEFINE free == <<FreeFrame(c)>> \o rest
             post == PostFrame(First(queue))
  <1>1. /\ c \in Cmds /\ c \in hlist /\ c \in processed
        /\ FreeFrame(c) \in Frames /\ post \in Frames
    BY ZenonT(30), FrameTypes, FirstType DEF TypeOK, Started
  <1>2. Started' = Started \ {c} /\ hlist' = hlist \ {c}
    BY Zenon DEF cmd_done, Started
  <1>3. ListsOK'
    BY Zenon, <1>2 DEF Places, ListsOK
  <1>4. QueueOK'
    BY ZenonT(30), <1>1, <1>2 DEF Places, QueueOK
  <1>5. free \in Seq(Frames) /\ calls' = <<post>> \o free
    BY Zenon, <1>1, PushProps DEF cmd_done
  <1>6. StackOK'
    <2> SUFFICES ASSUME NEW k \in 1..Len(calls')
                 PROVE  /\ calls'[k].fn = "iscsi_free_task" => calls'[k].cmd \notin hlist'
                        /\ calls'[k].fn # "target_cmd_io_done"
      BY Zenon DEF StackOK
    <2>1. /\ Len(calls') = Len(free) + 1 /\ calls'[1] = post /\ Len(free) \in Nat
          /\ \A j \in 2..Len(free) + 1 : calls'[j] = free[j - 1]
      BY SMTT(30), <1>1, <1>5, PushProps
    <2>2. /\ Len(free) = Len(rest) + 1 /\ free[1] = FreeFrame(c) /\ Len(rest) \in Nat
          /\ \A j \in 2..Len(rest) + 1 : free[j] = rest[j - 1]
      BY SMTT(30), <1>1, PushProps
    <2> HIDE DEF free
    <2>3. CASE k = 1
      BY SMTT(30), <2>1, <2>3 DEF PostFrame, Frame
    <2>4. CASE k = 2
      <3>1. calls'[k] = FreeFrame(c)
        BY SMTT(30), <2>1, <2>2, <2>4
      <3>2. FreeFrame(c).fn = "iscsi_free_task" /\ FreeFrame(c).cmd = c
        BY Zenon DEF FreeFrame, Frame
      <3> QED BY Zenon, <1>2, <3>1, <3>2
    <2>5. CASE k > 2
      <3>1. k - 2 \in 1..Len(rest) /\ calls'[k] = rest[k - 2]
        BY <2>1, <2>2, <2>5
      <3> QED BY Zenon, <1>2, <3>1 DEF Callers
    <2> QED BY SMTT(30), <2>1, <2>3, <2>4, <2>5
  <1>7. active' = Cardinality(Started')
    BY <1>2, StartedRemove, Zenon DEF Accounts, cmd_done
  <1>8. blocked' => \E d \in Started' : attr'[d] \in {"ORDERED", "HEAD"}
    BY <1>2, Zenon DEF Accounts, cmd_done
  <1>9. WalkAtHead'
    BY <1>1, <1>5, PushProps DEF WalkAtHead, PostFrame, Frame
  <1> QED BY ZenonT(30), <1>3, <1>4, <1>6, <1>7, <1>8, <1>9 DEF Places, Accounts

\* Starting a command: c was not started and is on no list of started commands.
LEMMA PerformStep ==
    ASSUME Counting, TypeOK, ListsOK, Accounts,
           NEW c \in Cmds, NEW a, NEW rest \in Seq(Frames), Callers(rest),
           c \notin Started, c \in hlist', hlist' = hlist \cup {c},
           alive' = alive \cup {c}, attr'[c] = a, \A d \in Started : attr'[d] = attr[d],
           \A k \in 1..Len(rest) : rest[k].fn = "iscsi_free_task" => rest[k].cmd # c,
           Perform(c, a, rest), UNCHANGED tx
    PROVE  /\ ListsOK' /\ StackOK' /\ active' = Cardinality(Started')
           /\ active' \in Nat \ {0}
           /\ blocked' => \E d \in Started' : attr'[d] \in {"ORDERED", "HEAD"}
           /\ blocked => blocked'
           /\ calls' = rest \/ calls' = <<IoDoneFrame(c)>> \o rest
  <1>1. Started' = Started \cup {c}
    BY Zenon DEF Started, Perform
  <1>2. c \notin io /\ c \notin tx
    BY Zenon DEF ListsOK
  <1>3. ListsOK'
    <2>1. hlist' \subseteq alive' /\ processed' \subseteq alive'
      BY Zenon DEF ListsOK, Perform
    <2>2. io' = io \/ io' = io \cup {c}
      BY Zenon DEF Perform
    <2>3. io' \cap tx' = {} /\ io' \cup tx' \subseteq Started'
      BY ZenonT(30), <1>1, <1>2, <2>2 DEF ListsOK
    <2> QED BY ZenonT(30), <2>1, <2>3 DEF ListsOK
  <1>4. active' = Cardinality(Started') /\ active' \in Nat \ {0}
    <2>1. Cardinality(Started') = Cardinality(Started) + 1
      BY <1>1, StartedAdd, Zenon
    <2>2. active = Cardinality(Started) /\ active' = active + 1
      BY ZenonT(30) DEF Accounts, Perform
    <2> QED BY <2>1, <2>2, StartedFinite
  <1>5. blocked' => \E d \in Started' : attr'[d] \in {"ORDERED", "HEAD"}
    <2>1. CASE a \in {"ORDERED", "HEAD"}
      BY Zenon, <1>1, <2>1
    <2>2. CASE a \notin {"ORDERED", "HEAD"}
      BY <1>1, <2>2, Zenon DEF Accounts, Perform
    <2> QED BY ZenonT(30), <2>1, <2>2
  <1>6. StackOK'
    <2>1. CASE calls' = rest
      BY Zenon, <2>1 DEF StackOK, Callers
    <2>2. CASE calls' = <<IoDoneFrame(c)>> \o rest /\ UNCHANGED io
      <3>1. /\ Len(calls') = Len(rest) + 1 /\ calls'[1] = IoDoneFrame(c) /\ Len(rest) \in Nat
            /\ \A j \in 2..Len(rest) + 1 : calls'[j] = rest[j - 1]
        BY <2>2, FrameTypes, PushProps
      <3>2. IoDoneFrame(c).fn = "target_cmd_io_done" /\ IoDoneFrame(c).cmd = c
        BY ZenonT(30) DEF IoDoneFrame, Frame
      <3> SUFFICES ASSUME NEW k \in 1..Len(calls')
                   PROVE  /\ calls'[k].fn = "iscsi_free_task" => calls'[k].cmd \notin hlist'
                          /\ calls'[k].fn = "target_cmd_io_done" =>
                                k = 1 /\ calls'[k].cmd \in Started' \ (io' \cup tx')
        BY ZenonT(30) DEF StackOK
      <3>3. CASE k = 1
        BY ZenonT(30), <1>1, <1>2, <2>2, <3>1, <3>2, <3>3
      <3>4. CASE k # 1
        <4>1. k - 1 \in 1..Len(rest) /\ calls'[k] = rest[k - 1]
          BY <3>1, <3>4
        <4> QED BY ZenonT(30), <4>1 DEF Callers
      <3> QED BY ZenonT(30), <3>3, <3>4
    <2> QED BY ZenonT(30), <2>1, <2>2 DEF Perform
  <1> QED BY <1>3, <1>4, <1>5, <1>6, Zenon DEF Perform

-----------------------------------------------------------------------------
\* The task set across a step that leaves the task set alone.
LEMMA SafeSame ==
    ASSUME TypeOK, Places, Accounts, aborted' = {},
           UNCHANGED <<alive, processed, attr, hlist, queue, io, tx, active, blocked, calls>>
    PROVE  Places' /\ Accounts'
  <1> USE DEF cmdVars, listVars, qVars
  <1>1. StackOK'
    BY Zenon DEF Places, StackOK, Started
  <1>2. WalkAtHead' <=> WalkAtHead
    BY Zenon DEF WalkAtHead
  <1> QED BY Zenon, <1>1, <1>2, SameLists DEF Places, Accounts

\* The task set across a crash.
LEMMA SafeCrash ==
    ASSUME TypeOK, Places, Accounts, aborted' = {},
           Crash
    PROVE  Places' /\ Accounts'
  BY Zenon, SafeSame DEF Crash, cmdVars, listVars, qVars

\* The task set across a session created or shut down.
LEMMA SafeSession ==
    ASSUME TypeOK, Places, Accounts, aborted' = {},
           NEW i \in Nexuses, SessionCreate(i) \/ ForceClose(i)
    PROVE  Places' /\ Accounts'
  BY ZenonT(30), SafeSame DEF SessionCreate, ForceClose, cmdVars, listVars, qVars

\* The task set across a task management response sent.
LEMMA SafeTmTxDone ==
    ASSUME TypeOK, Places, Accounts, aborted' = {},
           NEW m \in Mreqs, TmTxDone(m)
    PROVE  Places' /\ Accounts'
  BY ZenonT(30), SafeSame DEF TmTxDone, cmdVars, listVars, qVars

\* The task set across conn_close entered.
LEMMA SafeConnClose ==
    ASSUME TypeOK, Places, Accounts, aborted' = {},
           NEW i \in Nexuses, ConnClose(i)
    PROVE  Places' /\ Accounts'
  <1> USE DEF cmdVars, listVars, qVars
  <1>1. Settled /\ Callers(calls')
    BY OtherTop DEF ConnClose, Idle, Callers, Frame
  <1> QED BY ZenonT(30), <1>1, SettledStep DEF ConnClose

\* The task set across a task management request arriving.
LEMMA SafeMgmtRequest ==
    ASSUME TypeOK, Places, Accounts, aborted' = {},
           NEW i \in Nexuses, NEW m \in Mreqs, NEW f \in Functions, NEW tag \in Cmds,
           target_mgmt_request(i, m, f, tag)
    PROVE  Places' /\ Accounts'
  <1> USE DEF cmdVars, listVars, qVars
  <1>1. Settled
    BY ZenonT(30), OtherTop DEF target_mgmt_request, Idle
  <1>2. Callers(calls')
    BY DEF target_mgmt_request, Callers, AbortFrame, Frame
  <1> QED BY ZenonT(30), <1>1, <1>2, SettledStep DEF target_mgmt_request

\* The task set across the end of the abort walk.
LEMMA SafeAbortReturn ==
    ASSUME TypeOK, Places, Accounts, aborted' = {},
           AbortReturn
    PROVE  Places' /\ Accounts'
  <1> USE DEF cmdVars, listVars, qVars
  <1>1. Settled
    BY ZenonT(30), OtherTop, TailProps DEF AbortReturn, Top, TypeOK
  <1>2. Callers(calls')
    BY ZenonT(30), CallersOfTop DEF AbortReturn, Top, Return, Places
  <1> QED BY ZenonT(30), <1>1, <1>2, SettledStep DEF AbortReturn

\* The task set across a step of the abort walk.
LEMMA SafeAbortFrame ==
    ASSUME TypeOK, Places, Accounts, aborted' = {},
           Top("abort_task_set"), NEW m \in Mreqs, NEW todo \in SUBSET Cmds,
           calls' = <<AbortFrame(m, todo)>> \o Tail(calls),
           UNCHANGED <<alive, processed, attr, listVars, qVars>>
    PROVE  Places' /\ Accounts'
  <1> USE DEF cmdVars, listVars, qVars
  <1>1. Settled
    BY ZenonT(30), OtherTop, TailProps DEF Top, TypeOK
  <1>2. AbortFrame(m, todo) \in Frames /\ AbortFrame(m, todo).fn = "abort_task_set"
    BY ZenonT(30), FrameTypes DEF AbortFrame, Frame
  <1>3. Callers(Tail(calls)) /\ Tail(calls) \in Seq(Frames)
    BY ZenonT(30), CallersOfTop, TailProps DEF Top, Places, TypeOK
  <1>4. Callers(calls')
    BY <1>2, <1>3, PushCallers, Zenon
  <1> QED BY ZenonT(30), <1>1, <1>4, SettledStep

\* The task set across an abort that does not touch the queue.
LEMMA SafeAbort ==
    ASSUME TypeOK, Places, Accounts, aborted' = {},
           AbortProcessed \/ AbortStale
    PROVE  Places' /\ Accounts'
  <1> USE DEF cmdVars, listVars, qVars
  <1>1. /\ Top("abort_task_set")
        /\ Head(calls).mreq \in Mreqs /\ Head(calls).todo \in SUBSET Cmds
    BY ZenonT(30), TailProps, FrameFields DEF AbortProcessed, AbortStale, Top, TypeOK
  <1>2. CASE AbortProcessed
    BY SMTT(30), SafeAbortFrame, <1>1, <1>2 DEF AbortProcessed
  <1>3. CASE AbortStale
    BY ZenonT(30), SafeCrash, SafeAbortFrame, <1>1, <1>3 DEF AbortStale
  <1> QED BY ZenonT(30), <1>2, <1>3

\* The task set across a completion.
LEMMA SafeIoComplete ==
    ASSUME TypeOK, Places, Accounts, aborted' = {},
           NEW c \in Cmds, IoComplete(c)
    PROVE  Places' /\ Accounts'
  <1> USE DEF cmdVars, listVars, qVars
  <1>1. /\ calls = <<>> /\ calls' = <<IoDoneFrame(c)>> /\ c \in io /\ io' = io \ {c}
        /\ UNCHANGED <<alive, processed, attr, hlist, queue, tx, active, blocked>>
    BY Zenon DEF IoComplete, Idle
  <1>2. Settled' /\ Started' = Started
    BY Zenon, <1>1 DEF Accounts, WalkAtHead, Settled, cmd_enabled, Started
  <1>3. ListsOK' /\ QueueOK'
    BY ZenonT(30), <1>1, <1>2 DEF Places, ListsOK, QueueOK
  <1>4. IoDoneFrame(c).fn = "target_cmd_io_done" /\ IoDoneFrame(c).cmd = c
    BY Zenon DEF IoDoneFrame, Frame
  <1>5. c \in Started' \ (io' \cup tx')
    BY Zenon, <1>1, <1>2 DEF Places, ListsOK
  <1>6. StackOK'
    BY <1>1, <1>4, <1>5 DEF StackOK
  <1> QED BY ZenonT(30), <1>1, <1>2, <1>3, <1>6 DEF Places, Accounts

\* The task set across post_cmd_done returning.
LEMMA SafePostReturn ==
    ASSUME TypeOK, Places, Accounts, aborted' = {},
           PostCmdDoneReturn \/ PostCmdDoneStale
    PROVE  Places' /\ Accounts'
  <1> USE DEF cmdVars, listVars, qVars
  <1>1. CASE Crash
    BY Zenon, SafeCrash, <1>1
  <1>2. CASE ~Crash
    <2> DEFINE c == Head(calls).cmd
    <2>1. /\ Top("post_cmd_done") /\ Return
          /\ UNCHANGED <<cmdVars, listVars, qVars>>
          /\ c = None \/ c \notin alive \/ ~cmd_enabled(attr[c])
      BY ZenonT(30), <1>2 DEF PostCmdDoneReturn, PostCmdDoneStale
    <2>2. Callers(calls')
      BY Zenon, <2>1, CallersOfTop DEF Places, Top, Return
    <2>3. CASE WalkAtHead
      <3>1. c = First(queue)
        BY SMTT(30), <2>1, <2>3, TailProps DEF WalkAtHead, Top, TypeOK
      <3>2. queue # <<>> => c = queue[1] /\ c \in Cmds /\ c \in alive
        BY SMTT(30), <3>1, TailProps DEF First, TypeOK, Places, QueueOK, ListsOK
      <3> QED BY ZenonT(30), <2>1, <2>2, <3>1, <3>2, SettledStep, NoneAssumption DEF Settled, First
    <2>4. CASE ~WalkAtHead
      BY ZenonT(30), <2>1, <2>2, <2>4, SettledStep DEF Accounts
    <2> QED BY Zenon, <2>3, <2>4
  <1> QED BY Zenon, <1>1, <1>2

\* The task set across iscsi_free_task.
LEMMA SafeFreeTask ==
    ASSUME TypeOK, Places, Accounts, aborted' = {},
           iscsi_free_task
    PROVE  Places' /\ Accounts'
  <1> USE DEF cmdVars, listVars, qVars
  <1> DEFINE c == Head(calls).cmd
  <1>1. /\ Head(calls) = calls[1] /\ calls # <<>> /\ 1 \in 1..Len(calls)
        /\ calls[1].fn = "iscsi_free_task" /\ c \in Cmds
    BY TailProps, FrameFields DEF iscsi_free_task, Top, TypeOK
  <1>2. c \notin hlist
    BY Zenon, <1>1 DEF Places, StackOK
  <1>3. /\ alive' = alive \ {c} /\ processed' = processed \ {c}
        /\ attr' = [attr EXCEPT ![c] = "SIMPLE"] /\ calls' = Tail(calls)
        /\ UNCHANGED <<hlist, queue, io, tx, active, blocked>>
    BY ZenonT(30) DEF iscsi_free_task, Return
  <1> HIDE DEF c
  <1>4. Started' = Started
    BY ZenonT(30), <1>2, <1>3 DEF Started
  <1>5. \A d \in hlist : attr'[d] = attr[d]
    BY ZenonT(30), <1>2, <1>3 DEF TypeOK
  <1>6. ListsOK' /\ QueueOK'
    BY ZenonT(30), <1>2, <1>3, <1>4 DEF Places, ListsOK, QueueOK
  <1>7. StackOK'
    BY ZenonT(30), <1>1, <1>3, CallersOfTop, CallersStack DEF Places
  <1>8. Settled'
    <2>1. queue # <<>> => Head(queue) \in hlist
      BY TailProps DEF Places, QueueOK, TypeOK
    <2>2. Settled
      BY Zenon, <1>1, OtherTop
    <2> QED BY ZenonT(30), <1>3, <1>5, <2>1, <2>2 DEF Settled, cmd_enabled
  <1>9. blocked' => \E d \in Started' : attr'[d] \in {"ORDERED", "HEAD"}
    BY Zenon, <1>3, <1>4, <1>5 DEF Accounts, Started
  <1> QED BY ZenonT(30), <1>3, <1>4, <1>6, <1>7, <1>8, <1>9 DEF Places, Accounts

\* The task set across target_cmd_io_done.
LEMMA SafeIoDone ==
    ASSUME Counting, TypeOK, Places, Accounts, aborted' = {},
           target_cmd_io_done
    PROVE  Places' /\ Accounts'
  <1> USE DEF cmdVars, listVars, qVars
  <1> DEFINE c == Head(calls).cmd
  <1>1. /\ Head(calls) = calls[1] /\ calls # <<>> /\ 1 \in 1..Len(calls)
        /\ calls[1].fn = "target_cmd_io_done" /\ Tail(calls) \in Seq(Frames)
    BY SMTT(30), TailProps DEF target_cmd_io_done, Top, TypeOK
  <1>2. c \in Started /\ c \notin io /\ c \notin tx
    BY Zenon, <1>1 DEF Places, StackOK
  <1>3. Callers(Tail(calls))
    BY Zenon, <1>1, CallersOfTop DEF Places
  <1>4. CASE /\ tx' = tx \cup {c} /\ Return
             /\ UNCHANGED <<cmdVars, hlist, queue, io, qVars>>
    <2>1. ListsOK' /\ QueueOK' /\ Started' = Started
      BY ZenonT(30), <1>2, <1>4 DEF Places, ListsOK, QueueOK, Started
    <2>2. StackOK'
      BY Zenon, <1>3, <1>4, CallersStack DEF Return
    <2>3. Settled' <=> Settled
      BY Zenon, <1>4 DEF Settled, cmd_enabled
    <2>4. WalkAtHead => WalkAtHead'
      <3> SUFFICES ASSUME WalkAtHead PROVE WalkAtHead'
        BY Zenon
      <3>1. Len(calls) > 1 /\ calls[2].fn = "post_cmd_done" /\ calls[2].cmd = First(queue)
        BY ZenonT(30), <1>1 DEF WalkAtHead
      <3>2. /\ Len(calls') = Len(calls) - 1 /\ calls' \in Seq(Frames)
            /\ \A k \in 1..Len(calls') : calls'[k] = calls[k + 1]
        BY SMTT(30), <1>1, <1>4, TailProps DEF Return, TypeOK
      <3>3. calls' # <<>> /\ calls'[1] = calls[2]
        BY <3>1, <3>2
      <3> QED BY ZenonT(30), <1>4, <3>1, <3>3 DEF WalkAtHead, First
    <2> QED BY ZenonT(30), <1>4, <2>1, <2>2, <2>3, <2>4 DEF Places, Accounts
  <1>5. CASE iscsi_free_cmd_task(c, Tail(calls)) /\ UNCHANGED <<cmdVars, queue, io, tx>>
    <2>1. cmd_done(c, <<FreeFrame(c)>> \o Tail(calls)) /\ tx' = tx \ {c}
      BY ZenonT(30), <1>2, <1>5 DEF iscsi_free_cmd_task, target_cmd_done
    <2> HIDE DEF c
    <2> QED BY <1>1, <1>2, <1>3, <1>5, <2>1, CmdDoneStep, ZenonT(40)
  <1> QED BY Zenon, SafeCrash, <1>4, <1>5 DEF target_cmd_io_done

-----------------------------------------------------------------------------
(* Every step keeps it.                                                    *)

\* The task set across a response task freed.
LEMMA SafeFreeCmdTask ==
    ASSUME Counting, TypeOK, Places, Accounts, aborted' = {},
           NEW c \in tx, c \in hlist, tx' = tx \ {c},
           NEW rest \in Seq(Frames), Callers(rest),
           iscsi_free_cmd_task(c, rest), UNCHANGED <<cmdVars, queue, io>>
    PROVE  Places' /\ Accounts'
  <1> USE DEF cmdVars, listVars, qVars
  <1>1. c \in Started /\ c \notin io
    BY Zenon DEF Places, ListsOK
  <1>2. cmd_done(c, <<FreeFrame(c)>> \o rest)
    BY ZenonT(30) DEF iscsi_free_cmd_task, target_cmd_done
  <1> QED BY ZenonT(30), <1>1, <1>2, CmdDoneStep

\* The task set across a response sent.
LEMMA SafeCmdTxDone ==
    ASSUME Counting, TypeOK, Places, Accounts, aborted' = {},
           NEW c \in Cmds, CmdTxDone(c)
    PROVE  Places' /\ Accounts'
  <1> USE DEF cmdVars, listVars, qVars
  <1>1. <<>> \in Seq(Frames) /\ Callers(<<>>)
    BY DEF Callers
  <1> QED BY SafeCrash, SafeFreeCmdTask, <1>1, Zenon DEF CmdTxDone

\* The task set across conn_close walking the tasks.
LEMMA SafeConnCloseStep ==
    ASSUME Counting, TypeOK, Places, Accounts, aborted' = {},
           ConnCloseStep
    PROVE  Places' /\ Accounts'
  <1> USE DEF cmdVars, listVars, qVars
  <1>1. /\ calls # <<>> /\ calls \in Seq(Frames) /\ calls[1].fn = "conn_close"
    BY ZenonT(30), TailProps DEF ConnCloseStep, Top, TypeOK
  <1>2. Callers(calls) /\ Callers(Tail(calls))
    BY ZenonT(30), <1>1, CallersOfTop DEF Places
  <1>3. ASSUME NEW c \in tx, c \in hlist, tx' = tx \ {c},
               iscsi_free_cmd_task(c, calls), UNCHANGED <<cmdVars, queue, io>>
        PROVE  Places' /\ Accounts'
    BY ZenonT(30), SafeFreeCmdTask, <1>1, <1>2, <1>3
  <1>4. CASE Return /\ UNCHANGED <<cmdVars, listVars, qVars>>
    BY ZenonT(30), <1>1, <1>2, <1>4, OtherTop, SettledStep DEF Return
  <1>5. CASE UNCHANGED <<cmdVars, listVars, qVars, calls>>
    BY ZenonT(30), SafeSame, <1>5
  <1> QED BY ZenonT(30), SafeCrash, <1>3, <1>4, <1>5 DEF ConnCloseStep

\* The task set across post_cmd_done starting the next command.
LEMMA SafePostPerform ==
    ASSUME Counting, TypeOK, Places, Accounts, aborted' = {},
           PostCmdDonePerform
    PROVE  Places' /\ Accounts'
  <1> USE DEF cmdVars, listVars, qVars
  <1> DEFINE c == Head(calls).cmd
             post == PostFrame(Second(queue))
             rest == <<post>> \o Tail(calls)
  <1>1. /\ calls # <<>> /\ Tail(calls) \in Seq(Frames) /\ Callers(Tail(calls))
        /\ queue # <<>> /\ c = queue[1] /\ 1 \in 1..Len(queue) /\ c \in Cmds
    BY TailProps, CallersOfTop
    DEF PostCmdDonePerform, Top, First, TypeOK, Places
  <1>2. /\ queue' = Tail(queue) /\ Perform(c, attr[c], rest)
        /\ UNCHANGED <<alive, attr, hlist, tx>>
    BY ZenonT(30) DEF PostCmdDonePerform
  <1>3. c \in hlist /\ c \notin processed /\ c \in alive
    BY Zenon, <1>1 DEF Places, QueueOK, ListsOK
  <1>4. post \in Frames /\ post.fn = "post_cmd_done" /\ post.cmd = First(queue')
    BY ZenonT(30), <1>1, <1>2, FirstType, FrameTypes DEF TypeOK, PostFrame, Frame, Second
  <1>5. rest \in Seq(Frames) /\ Callers(rest)
    BY <1>1, <1>4, PushProps, PushCallers, Zenon
  <1>6. rest # <<>> /\ rest[1] = post /\ Len(rest) \in Nat \ {0}
    BY <1>1, <1>4, PushProps
  <1> HIDE DEF c, post, rest
  <1>7. /\ ListsOK' /\ StackOK' /\ active' = Cardinality(Started')
        /\ blocked' => \E d \in Started' : attr'[d] \in {"ORDERED", "HEAD"}
        /\ calls' = rest \/ calls' = <<IoDoneFrame(c)>> \o rest
    <2>1. \A k \in 1..Len(rest) : rest[k].fn = "iscsi_free_task" => rest[k].cmd # c
      BY ZenonT(30), <1>3, <1>5 DEF Callers
    <2>2. c \notin Started /\ hlist' = hlist \cup {c} /\ alive' = alive \cup {c}
      BY ZenonT(30), <1>2, <1>3 DEF Started
    <2> QED BY <1>1, <1>2, <1>3, <1>5, <2>1, <2>2, PerformStep, ZenonT(40) DEF Places
  <1>8. QueueOK'
    <2>1. processed' = processed \cup {c}
      BY ZenonT(30), <1>2 DEF Perform
    <2>2. /\ Len(queue') = Len(queue) - 1 /\ Len(queue) \in Nat
          /\ \A k \in 1..Len(queue') : queue'[k] = queue[k + 1]
      BY SMTT(30), <1>1, <1>2, TailProps DEF TypeOK
    <2>3. \A k \in 1..Len(queue') : k + 1 \in 1..Len(queue) /\ k + 1 # 1
      BY SMTT(30), <2>2
    <2>4. \A k \in 1..Len(queue') : queue'[k] \in hlist /\ queue'[k] \notin processed'
      BY ZenonT(30), <1>1, <2>1, <2>2, <2>3 DEF Places, QueueOK
    <2>5. \A k, l \in 1..Len(queue') : queue'[k] = queue'[l] => k = l
      BY SMTT(30), <2>2, <2>3 DEF Places, QueueOK
    <2> QED BY ZenonT(30), <1>2, <2>4, <2>5 DEF QueueOK
  <1>9. WalkAtHead'
    <2>1. CASE calls' = rest
      BY Zenon, <1>4, <1>6, <2>1 DEF WalkAtHead, First
    <2>2. CASE calls' = <<IoDoneFrame(c)>> \o rest
      <3>1. /\ calls' # <<>> /\ Len(calls') > 1
            /\ calls'[1] = IoDoneFrame(c) /\ calls'[2] = post
        BY SMTT(30), <1>1, <1>5, <1>6, <2>2, FrameTypes, PushProps
      <3> QED BY <1>4, <3>1 DEF WalkAtHead, First, IoDoneFrame, Frame
    <2> QED BY Zenon, <1>7, <2>1, <2>2
  <1> QED BY ZenonT(30), <1>7, <1>8, <1>9 DEF Places, Accounts

\* The task set across a command arriving.
LEMMA SafeCmdPerform ==
    ASSUME Counting, TypeOK, Places, Accounts, aborted' = {},
           NEW c \in Cmds, NEW i \in Nexuses, NEW a \in Attrs, target_cmd_perform(c, i, a)
    PROVE  Places' /\ Accounts'
  <1> USE DEF cmdVars, listVars, qVars
  <1>1. /\ calls = <<>> /\ c \notin alive
        /\ alive' = alive \cup {c} /\ hlist' = hlist \cup {c}
        /\ attr' = [attr EXCEPT ![c] = a] /\ UNCHANGED tx
    BY Zenon DEF target_cmd_perform, Idle
  <1>2. /\ c \notin hlist /\ c \notin processed /\ c \notin Started
        /\ \A d \in hlist : attr'[d] = attr[d]
        /\ attr'[c] = a
    BY ZenonT(30), <1>1 DEF Places, ListsOK, Started, TypeOK
  <1>3. Settled /\ Callers(<<>>) /\ <<>> \in Seq(Frames)
    BY SMTT(30), <1>1, OtherTop DEF Callers
  <1>4. queue # <<>> => Head(queue) \in hlist /\ Head(queue) = queue[1]
    BY TailProps DEF Places, QueueOK, TypeOK
  <1>5. CASE cmd_enabled(a)
    <2>1. Perform(c, a, <<>>) /\ queue' = queue
      BY Zenon, <1>5 DEF target_cmd_perform
    <2>2. /\ ListsOK' /\ StackOK' /\ active' = Cardinality(Started')
          /\ active' \in Nat \ {0}
          /\ blocked' => \E d \in Started' : attr'[d] \in {"ORDERED", "HEAD"}
          /\ blocked => blocked'
      <3>1. /\ c \in hlist' /\ \A d \in Started : attr'[d] = attr[d]
            /\ \A k \in 1..Len(<<>>) : <<>>[k].fn = "iscsi_free_task" => <<>>[k].cmd # c
        BY SMTT(30), <1>1, <1>2 DEF Started
      <3> QED BY <1>1, <1>2, <1>3, <2>1, <3>1, PerformStep, ZenonT(40) DEF Places
    <2>3. QueueOK'
      BY ZenonT(30), <1>1, <1>2, <2>1 DEF Places, QueueOK, Perform
    <2>4. Settled'
      <3> SUFFICES ASSUME queue # <<>> PROVE ~cmd_enabled(attr[Head(queue)])'
        BY Zenon, <2>1 DEF Settled
      <3> DEFINE h == attr[Head(queue)]
      <3>1. ~cmd_enabled(h) /\ attr'[Head(queue')] = h
        BY ZenonT(30), <1>2, <1>3, <1>4, <2>1 DEF Settled
      <3>2. h # "HEAD" /\ (blocked \/ (h = "ORDERED" /\ active # 0))
        BY Zenon, <3>1 DEF cmd_enabled
      <3>3. h # "HEAD" /\ (blocked' \/ (h = "ORDERED" /\ active' # 0))
        BY ZenonT(30), <2>2, <3>2
      <3> QED BY Zenon, <3>1, <3>3 DEF cmd_enabled
    <2> QED BY ZenonT(30), <2>2, <2>3, <2>4 DEF Places, Accounts
  <1>6. CASE ~cmd_enabled(a)
    <2>1. queue' = Append(queue, c) /\ UNCHANGED <<processed, io, active, blocked, calls>>
      BY Zenon, <1>6 DEF target_cmd_perform
    <2>2. Started' = Started
      BY ZenonT(30), <1>1, <1>2, <2>1 DEF Started
    <2>3. ListsOK' /\ StackOK'
      BY SMTT(30), <1>1, <2>1, <2>2 DEF Places, ListsOK, StackOK
    <2>4. /\ Len(queue') = Len(queue) + 1 /\ Len(queue) \in Nat
          /\ \A k \in 1..Len(queue) : queue'[k] = queue[k]
          /\ queue'[Len(queue) + 1] = c
      BY <2>1 DEF TypeOK
    <2>5. QueueOK'
      <3>1. \A k \in 1..Len(queue) : queue[k] # c
        BY ZenonT(30), <1>2 DEF Places, QueueOK
      <3> QED BY SMTT(30), <1>1, <1>2, <2>1, <2>4, <3>1 DEF Places, QueueOK
    <2>6. Settled'
      <3>1. CASE queue = <<>>
        <4>1. Head(queue') = c
          BY <2>1, <3>1
        <4> QED BY ZenonT(30), <1>2, <1>6, <2>1, <4>1 DEF Settled, cmd_enabled
      <3>2. CASE queue # <<>>
        <4>1. Head(queue') = Head(queue)
          BY SMTT(30), <2>1, <3>2 DEF TypeOK
        <4> QED BY ZenonT(30), <1>2, <1>3, <1>4, <2>1, <3>2, <4>1 DEF Settled, cmd_enabled
      <3> QED BY Zenon, <3>1, <3>2
    <2>7. blocked' => \E d \in Started' : attr'[d] \in {"ORDERED", "HEAD"}
      BY Zenon, <1>2, <2>1, <2>2 DEF Accounts, Started
    <2> QED BY ZenonT(30), <2>1, <2>2, <2>3, <2>5, <2>6, <2>7 DEF Places, Accounts
  <1> QED BY Zenon, <1>5, <1>6

\* One step per action: the task set, as long as no queued command is aborted.
LEMMA SafeStep ==
    ASSUME Counting, TypeOK, Places, Accounts, [Next]_vars, aborted' = {}
    PROVE  Places' /\ Accounts'
  <1> USE DEF vars, cmdVars, listVars, qVars
  <1>1. ASSUME UNCHANGED <<alive, processed, attr, hlist, queue, io, tx, active,
                           blocked, calls>>
        PROVE  Places' /\ Accounts'
    BY ZenonT(30), <1>1, SafeSame
  <1>2. CASE Crash
    BY ZenonT(30), <1>2, SafeCrash
  <1>3. ASSUME NEW i \in Nexuses, SessionCreate(i) \/ ForceClose(i)
        PROVE  Places' /\ Accounts'
    BY ZenonT(30), <1>3, SafeSession
  <1>4. ASSUME NEW m \in Mreqs, TmTxDone(m) PROVE Places' /\ Accounts'
    BY ZenonT(30), <1>4, SafeTmTxDone
  <1>5. ASSUME NEW i \in Nexuses, ConnClose(i) PROVE Places' /\ Accounts'
    BY ZenonT(30), <1>5, SafeConnClose
  <1>6. ASSUME NEW i \in Nexuses, NEW m \in Mreqs, NEW f \in Functions, NEW tag \in Cmds,
               target_mgmt_request(i, m, f, tag)
        PROVE  Places' /\ Accounts'
    BY ZenonT(30), <1>6, SafeMgmtRequest
  <1>7. ASSUME AbortReturn PROVE Places' /\ Accounts'
    BY Zenon, <1>7, SafeAbortReturn
  <1>8. ASSUME Top("abort_task_set"), NEW m \in Mreqs, NEW todo \in SUBSET Cmds,
               calls' = <<AbortFrame(m, todo)>> \o Tail(calls),
               UNCHANGED <<alive, processed, attr, listVars, qVars>>
        PROVE  Places' /\ Accounts'
    BY Zenon, <1>8, SafeAbortFrame
  <1>9. ASSUME AbortProcessed \/ AbortStale PROVE Places' /\ Accounts'
    BY ZenonT(30), <1>9, SafeAbort
  <1>10. ASSUME AbortQueued PROVE FALSE
    BY ZenonT(30), <1>10 DEF AbortQueued
  <1>11. ASSUME NEW c \in Cmds, IoComplete(c) PROVE Places' /\ Accounts'
    BY Zenon, <1>11, SafeIoComplete
  <1>12. ASSUME PostCmdDoneReturn \/ PostCmdDoneStale PROVE Places' /\ Accounts'
    BY Zenon, <1>12, SafePostReturn
  <1>13. ASSUME iscsi_free_task PROVE Places' /\ Accounts'
    BY Zenon, <1>13, SafeFreeTask
  <1>14. ASSUME target_cmd_io_done PROVE Places' /\ Accounts'
    BY ZenonT(30), <1>14, SafeIoDone
  <1>15. ASSUME NEW c \in tx, c \in hlist, tx' = tx \ {c}, NEW rest \in Seq(Frames),
                Callers(rest), iscsi_free_cmd_task(c, rest),
                UNCHANGED <<cmdVars, queue, io>>
         PROVE  Places' /\ Accounts'
    BY Zenon, <1>15, SafeFreeCmdTask
  <1>16. ASSUME NEW c \in Cmds, CmdTxDone(c) PROVE Places' /\ Accounts'
    BY ZenonT(30), <1>16, SafeCmdTxDone
  <1>17. ASSUME ConnCloseStep PROVE Places' /\ Accounts'
    BY Zenon, <1>17, SafeConnCloseStep
  <1>18. ASSUME PostCmdDonePerform PROVE Places' /\ Accounts'
    BY Zenon, <1>18, SafePostPerform
  <1>19. ASSUME NEW c \in Cmds, NEW i \in Nexuses, NEW a \in Attrs,
                target_cmd_perform(c, i, a)
         PROVE  Places' /\ Accounts'
    BY ZenonT(30), <1>19, SafeCmdPerform
  <1>20. CASE UNCHANGED vars
    BY Zenon, <1>1, <1>20
  <1> QED
    BY ZenonT(30), <1>3, <1>4, <1>5, <1>6, <1>7, <1>9, <1>10, <1>11, <1>12, <1>13, <1>14, <1>16,
       <1>17, <1>18, <1>19, <1>20
    DEF Next, Environment, Arrive, Handler, Completion

-----------------------------------------------------------------------------
(* The theorems.                                                           *)

INSTANCE FiniteSetTheorems

\* The facts of Cardinality that the proofs use.
LEMMA CountingHolds == Counting
  <1>1. ASSUME NEW S, IsFiniteSet(S), NEW x
        PROVE  /\ IsFiniteSet(S \cup {x})
               /\ IsFiniteSet(S \ {x})
               /\ x \notin S => Cardinality(S \cup {x}) = Cardinality(S) + 1
               /\ x \in S => Cardinality(S \ {x}) = Cardinality(S) - 1
    BY ZenonT(30), <1>1, FS_AddElement, FS_RemoveElement
  <1>2. ASSUME NEW S, IsFiniteSet(S)
        PROVE  /\ Cardinality(S) \in Nat
               /\ Cardinality(S) = 0 <=> S = {}
               /\ \A T \in SUBSET S : IsFiniteSet(T) /\ Cardinality(T) <= Cardinality(S)
    BY ZenonT(30), <1>2, FS_CardinalityType, FS_EmptySet, FS_Subset
  <1> QED BY Zenon, <1>1, <1>2, FS_EmptySet, FS_Singleton DEF Counting

\* The inductive invariant holds initially and is kept: an aborted command stays
\* recorded in aborted.
THEOREM Inductive == Spec => []IInv
  <1>1. Init => IInv
    <2> SUFFICES ASSUME Init PROVE IInv
      BY Zenon
    <2>1. TypeOK
      BY ZenonT(30), TypeInit
    <2>2. Started = {} /\ Cardinality(Started) = 0
      BY ZenonT(30), FS_EmptySet DEF Init, Started
    <2>3. Places
      BY SMTT(30), <2>2 DEF Init, Places, ListsOK, QueueOK, StackOK
    <2> QED BY ZenonT(30), <2>1, <2>2, <2>3 DEF Init, IInv, Accounts, Settled
  <1>2. IInv /\ [Next]_vars => IInv'
    <2> SUFFICES ASSUME IInv, [Next]_vars PROVE IInv'
      BY Zenon
    <2>1. TypeOK'
      BY ZenonT(30), TypeStep DEF IInv
    <2>2. aborted' = {} => aborted = {}
      BY ZenonT(40) DEF Next, Environment, Arrive, Handler, Completion, SessionCreate, ForceClose,
             ConnClose, target_cmd_perform, target_mgmt_request, target_cmd_io_done,
             iscsi_free_task, ConnCloseStep, PostCmdDoneReturn, PostCmdDonePerform,
             PostCmdDoneStale, AbortProcessed, AbortQueued, AbortStale, AbortReturn,
             IoComplete, CmdTxDone, TmTxDone, Crash, vars, cmdVars
    <2> QED BY ZenonT(30), <2>1, <2>2, CountingHolds, SafeStep DEF IInv
  <1> QED BY <1>1, <1>2, PTL DEF Spec

\* active_cmd is the number of started commands through all the re-entries of
\* post_cmd_done.
THEOREM ActiveCountCorrect == Spec => []ActiveCount
  <1>1. IInv => ActiveCount
    BY Zenon DEF IInv, Accounts, ActiveCount
  <1> QED BY <1>1, Inductive, PTL

\* The blocked bit always has a started ORDERED or HEAD command behind it.
THEOREM BlockedHasOwnerCorrect == Spec => []BlockedHasOwner
  <1>1. IInv => BlockedHasOwner
    BY ZenonT(30) DEF IInv, Accounts, BlockedHasOwner
  <1> QED BY <1>1, Inductive, PTL

\* Between events no command that could start waits at the head of the queue.
THEOREM NoLostWakeupCorrect == Spec => []NoLostWakeup
  <1>1. IInv => NoLostWakeup
    BY ZenonT(30) DEF IInv, Accounts, Settled, WalkAtHead, NoLostWakeup, Idle
  <1> QED BY <1>1, Inductive, PTL

\* The count, the blocked bit and the queue agree with the commands in every
\* state, for any number of commands, nexuses and requests.
THEOREM TaskSetCorrect == Spec => []TaskSetExact
  <1>1. ActiveCount /\ BlockedHasOwner /\ NoLostWakeup => TaskSetExact
    BY Zenon DEF TaskSetExact
  <1> QED BY <1>1, ActiveCountCorrect, BlockedHasOwnerCorrect, NoLostWakeupCorrect, PTL

\* The invariant of the references and the call stack holds, whatever is
\* aborted and closed.
THEOREM LinksInvariant == Spec => []Links
  <1>1. Init => Links
    BY ZenonT(30), CountingHolds, LinksInit
  <1>2. TypeOK /\ TypeOK' /\ Links /\ [Next]_vars => Links'
    BY ZenonT(30), CountingHolds, LinksStep
  <1> QED BY <1>1, <1>2, TypeCorrect, PTL DEF Spec

\* Nobody is freed under a pointer to it, whatever is aborted and closed: the
\* reference counts of connections are exact (conn_get, conn_put), a nexus lives
\* as long as its connection (session_destroy) and a task management request as
\* long as the commands that carry it (target_cmd_done).
THEOREM LinksCorrect == Spec => []NothingDangles
  <1>1. TypeOK /\ Links => NothingDangles
    BY ZenonT(30), CountingHolds, LinksDangle
  <1> QED BY <1>1, TypeCorrect, LinksInvariant, PTL

\* The daemon follows a NULL list pointer only after it has aborted a command
\* that waited in the queue, or beside a connection that is not open: without
\* either no nesting of completions meets a stale list entry (post_cmd_done,
\* abort_task_set, iscsi_free_cmd_task).
THEOREM CauseCorrect == Spec => []CrashHasCause
  <1>1. Init => Cause
    <2> SUFFICES ASSUME Init PROVE Cause
      BY Zenon
    <2>1. calls = <<>> /\ daemon = "up"
      BY Zenon DEF Init
    <2>2. WalksAt(<<>>, First(queue)) /\ AbortFirst(<<>>, hlist)
      BY ZenonT(30), CauseEmpty, CauseAbsent
    <2> QED BY ZenonT(30), <2>1, <2>2 DEF Cause, CrashHasCause
  <1>2. IInv /\ IInv' /\ Links /\ Cause /\ [Next]_vars => Cause'
    BY ZenonT(30), CountingHolds, CauseNext
  <1>3. Cause => CrashHasCause
    BY Zenon DEF Cause
  <1>4. Spec => []Links
    BY Zenon, LinksInvariant
  <1> QED BY <1>1, <1>2, <1>3, <1>4, Inductive, PTL DEF Spec
=============================================================================
