--------------------------- MODULE CmdQueueCause ----------------------------
(***************************************************************************)
(* The events and abort_task_set keep the invariant of CmdQueueLinks, so   *)
(* that nothing dangles (NothingDangles); and with the invariant of the    *)
(* task set every crash has a cause (CrashHasCause).                       *)
(***************************************************************************)
EXTENDS CmdQueueLinks

-----------------------------------------------------------------------------
(* The events and the other handlers.                                      *)

\* What a step that leaves commands and requests alone keeps.
LEMMA SameTasks ==
    ASSUME CommandsOK, TmOK,
           UNCHANGED <<alive, itn, processed, mreq, hlist, queue, io, tx>>,
           UNCHANGED <<tmState, tmItn, busy>>
    PROVE  CommandsOK' /\ TmOK'
  <1>1. CommandsOK'
    BY Zenon DEF CommandsOK
  <1>2. \A m : Waiters(m)' = Waiters(m)
    BY Zenon DEF Waiters
  <1>3. TmOK'
    BY Zenon, <1>2 DEF TmOK, TmNotEarly
  <1> QED BY Zenon, <1>1, <1>3

\* conn_close on a stack of one frame or none.
LEMMA ClosingSmall ==
    ASSUME NEW i
    PROVE  /\ ~Closing(<<>>, i)
           /\ \A f \in Frames : Closing(<<f>>, i) <=> f.fn = "conn_close" /\ f.itn = i
  <1>1. ~Closing(<<>>, i)
    BY DEF Closing
  <1>2. ASSUME NEW f \in Frames
        PROVE  Closing(<<f>>, i) <=> f.fn = "conn_close" /\ f.itn = i
    <2>1. /\ 1 \in 1..Len(<<f>>)
          /\ \A k \in 1..Len(<<f>>) : k = 1 /\ <<f>>[k] = f
      OBVIOUS
    <2> QED BY Zenon, <2>1 DEF Closing
  <1> QED BY Zenon, <1>1, <1>2

\* session_create, tgtadm's forced close and the start of conn_close.
LEMMA LinksConn ==
    ASSUME Counting, TypeOK, TypeOK', Links, NEW i \in Nexuses,
           SessionCreate(i) \/ ForceClose(i) \/ ConnClose(i)
    PROVE  Links'
  <1> DEFINE f == Frame("conn_close", None, None, i, {})
  <1>1. /\ UNCHANGED <<alive, itn, processed, mreq, hlist, queue, io, tx>>
        /\ UNCHANGED <<tmState, tmItn, busy>> /\ calls = <<>>
    BY Zenon DEF SessionCreate, ForceClose, ConnClose, cmdVars, listVars, tm, Idle
  <1>2. CommandsOK' /\ TmOK'
    BY Zenon, <1>1, SameTasks DEF Links
  <1>3. f \in Frames /\ f.fn = "conn_close" /\ f.itn = i
    BY Zenon, NoneAssumption DEF Frame, Frames, FrameNames
  <1>4. \A j \in Nexuses : CmdsOf(j)' = CmdsOf(j) /\ TmsOf(j)' = TmsOf(j) /\ ~Closing(calls, j)
    BY Zenon, <1>1, ClosingSmall DEF CmdsOf, TmsOf
  <1>5. /\ refcount \in [Nexuses -> Int]
        /\ conn \in [Nexuses -> {"none", "full", "close", "closed"}]
    BY Zenon DEF TypeOK
  <1>6. ASSUME NEW j \in Nexuses
        PROVE  /\ refcount[j] = Cardinality(CmdsOf(j)) + Cardinality(TmsOf(j)) + InitRef(j)
               /\ refcount[j] = 0 <=> conn[j] = "none"
               /\ j \in nexus <=> conn[j] # "none"
               /\ Cardinality(CmdsOf(j)) \in Nat /\ Cardinality(TmsOf(j)) \in Nat
    BY Zenon, RefsFinite DEF Links, RefOK
  <1>7. CASE SessionCreate(i)
    <2>1. /\ conn[i] = "none" /\ nexus' = nexus \cup {i} /\ calls' = <<>>
          /\ conn' = [conn EXCEPT ![i] = "full"] /\ refcount' = [refcount EXCEPT ![i] = 1]
      BY Zenon, <1>1, <1>7 DEF SessionCreate
    <2>2. \A j \in Nexuses : ~Closing(calls', j)
      BY Zenon, <2>1, ClosingSmall
    <2>3. /\ refcount'[i] = 1 /\ conn'[i] = "full" /\ InitRef(i)' = 1 /\ i \in nexus'
      BY Zenon, <1>5, <2>1 DEF InitRef, Open
    <2>4. Cardinality(CmdsOf(i)) = 0 /\ Cardinality(TmsOf(i)) = 0
      <3>1. InitRef(i) \in {0, 1} /\ refcount[i] = 0
        BY Zenon, <1>6, <2>1 DEF InitRef
      <3> QED BY <1>6, <3>1
    <2>5. Cardinality(CmdsOf(i)') = 0 /\ Cardinality(TmsOf(i)') = 0
      BY Zenon, <1>4, <2>4
    <2>6. ASSUME NEW j \in Nexuses, j # i
          PROVE  /\ refcount'[j] = refcount[j] /\ conn'[j] = conn[j] /\ InitRef(j)' = InitRef(j)
                 /\ j \in nexus' <=> j \in nexus
      <3>1. /\ refcount'[j] = refcount[j] /\ conn'[j] = conn[j]
            /\ j \in nexus' <=> j \in nexus
        BY Zenon, <1>5, <2>1, <2>6
      <3>2. ~Closing(calls', j) /\ ~Closing(calls, j)
        BY Zenon, <1>4, <2>2
      <3>3. InitRef(j)' = InitRef(j)
        BY Zenon, <3>1, <3>2 DEF InitRef, Open
      <3> QED BY Zenon, <3>1, <3>3
    <2>7. ASSUME NEW j \in Nexuses
          PROVE  /\ refcount'[j] = Cardinality(CmdsOf(j)') + Cardinality(TmsOf(j)') + InitRef(j)'
                 /\ refcount'[j] = 0 <=> conn'[j] = "none"
                 /\ j \in nexus' <=> conn'[j] # "none"
      <3>1. CASE j = i
        BY <2>3, <2>5, <3>1
      <3>2. CASE j # i
        BY <1>4, <1>6, <2>6, <3>2
      <3> QED BY Zenon, <3>1, <3>2
    <2>8. RefOK'
      BY Zenon, <2>7 DEF RefOK
    <2>9. FramesOK'
      BY ZenonT(30), <2>1, StackSmall DEF FramesOK
    <2> QED BY Zenon, <1>2, <2>8, <2>9 DEF Links
  <1>8. CASE ForceClose(i) \/ ConnClose(i)
    <2>1. /\ conn[i] \in {"full", "close"} /\ UNCHANGED <<nexus, refcount>>
          /\ \/ conn' = [conn EXCEPT ![i] = "close"] /\ calls' = <<>>
             \/ conn' = [conn EXCEPT ![i] = "closed"] /\ calls' = <<f>>
      BY Zenon, <1>1, <1>8 DEF ForceClose, ConnClose
    <2>2. \A j \in Nexuses : j # i => conn'[j] = conn[j] /\ ~Closing(calls', j)
      <3> HIDE DEF f
      <3> QED BY ZenonT(30), <1>3, <1>5, <2>1, ClosingSmall
    <2>3. InitRef(i)' = InitRef(i) /\ conn'[i] # "none" /\ conn[i] # "none"
      <3>1. Open(i) /\ conn[i] # "none"
        BY Zenon, <2>1 DEF Open
      <3>2. CASE conn' = [conn EXCEPT ![i] = "close"] /\ calls' = <<>>
        BY Zenon, <1>5, <3>1, <3>2 DEF InitRef, Open
      <3>3. CASE conn' = [conn EXCEPT ![i] = "closed"] /\ calls' = <<f>>
        <4> HIDE DEF f
        <4>1. Closing(<<f>>, i)
          BY Zenon, <1>3, ClosingSmall
        <4>2. Closing(calls', i) /\ conn'[i] = "closed"
          BY Zenon, <1>5, <3>3, <4>1
        <4> QED BY Zenon, <3>1, <4>2 DEF InitRef, Open
      <3> QED BY Zenon, <2>1, <3>2, <3>3
    <2>4. ASSUME NEW j \in Nexuses
          PROVE  InitRef(j)' = InitRef(j) /\ (conn'[j] = "none" <=> conn[j] = "none")
      <3>1. CASE j # i
        BY Zenon, <1>4, <2>2, <3>1 DEF InitRef, Open
      <3> QED BY Zenon, <2>3, <3>1
    <2>5. RefOK'
      BY Zenon, <1>4, <1>6, <2>1, <2>4 DEF RefOK
    <2>6. FramesOK'
      <3>1. CASE calls' = <<>>
        BY Zenon, <3>1, StackSmall DEF FramesOK
      <3>2. CASE conn' = [conn EXCEPT ![i] = "closed"] /\ calls' = <<f>>
        <4>1. i \in Closed'
          BY Zenon, <1>5, <3>2 DEF Closed
        <4>2. FrameIn(f, Gone', Served', Closed', Asked')
          BY Zenon, <1>3, <4>1 DEF FrameIn
        <4> HIDE DEF f
        <4>3. Stack(<<f>>, Gone', Served', Closed', Asked', Unasked', hlist')
          BY ZenonT(30), <1>3, <4>2, StackSmall
        <4> QED BY Zenon, <3>2, <4>3 DEF FramesOK
      <3> QED BY Zenon, <2>1, <3>1, <3>2
    <2> QED BY Zenon, <1>2, <2>5, <2>6 DEF Links
  <1> QED BY Zenon, <1>7, <1>8

\* The backing store finishes a command.
LEMMA LinksIoComplete ==
    ASSUME TypeOK, TypeOK', Links, NEW c \in Cmds, IoComplete(c)
    PROVE  Links'
  <1>1. /\ UNCHANGED <<alive, itn, processed, mreq, hlist, queue, tx>>
        /\ UNCHANGED <<tmState, tmItn, busy, conn, refcount, nexus>>
        /\ calls = <<>> /\ calls' = <<IoDoneFrame(c)>> /\ c \in io /\ io' = io \ {c}
    BY Zenon DEF IoComplete, cmdVars, tm, connVars, Idle
  <1>2. CommandsOK'
    BY Zenon, <1>1 DEF Links, CommandsOK
  <1>3. TmOK'
    <2>1. \A m : Waiters(m)' = Waiters(m)
      BY Zenon, <1>1 DEF Waiters
    <2> QED BY Zenon, <1>1, <2>1 DEF Links, TmOK, TmNotEarly
  <1> DEFINE f == IoDoneFrame(c)
  <1>4. f \in Frames /\ f.fn = "target_cmd_io_done" /\ f.cmd = c
    BY Zenon, FrameTypes DEF IoDoneFrame, Frame
  <1>5. c \in Served'
    BY Zenon, <1>1 DEF Links, CommandsOK, Served
  <1>6. FrameIn(f, Gone', Served', Closed', Asked')
    BY Zenon, <1>4, <1>5 DEF FrameIn
  <1>7. calls' = <<f>>
    BY Zenon, <1>1
  <1> HIDE DEF f
  <1>8. RefOK'
    <2>1. \A j \in Nexuses : Closing(calls', j) <=> Closing(calls, j)
      BY Zenon, <1>1, <1>4, <1>7, ClosingSmall
    <2> QED BY Zenon, <1>1, <2>1, SameRef DEF Links
  <1>9. FramesOK'
    <2>1. Stack(<<f>>, Gone', Served', Closed', Asked', Unasked', hlist')
      BY ZenonT(30), <1>4, <1>6, StackSmall
    <2> QED BY Zenon, <1>7, <2>1 DEF FramesOK
  <1> QED BY Zenon, <1>2, <1>3, <1>8, <1>9 DEF Links

\* A command arrives.
LEMMA LinksPerform ==
    ASSUME Counting, TypeOK, TypeOK', Links, NEW c \in Cmds, NEW i \in Nexuses, NEW a \in Attrs,
           target_cmd_perform(c, i, a)
    PROVE  Links'
  <1> DEFINE f == IoDoneFrame(c)
  <1>1. /\ c \notin alive /\ conn[i] = "full" /\ calls = <<>>
        /\ alive' = alive \cup {c} /\ itn' = [itn EXCEPT ![c] = i] /\ hlist' = hlist \cup {c}
        /\ refcount' = [refcount EXCEPT ![i] = refcount[i] + 1]
        /\ UNCHANGED <<mreq, tx, tmState, tmItn, busy, conn, nexus>>
    BY Zenon DEF target_cmd_perform, tm, Idle
  <1>2. \/ /\ processed' = processed \cup {c} /\ queue' = queue
           /\ \/ io' = io \cup {c} /\ calls' = <<>>
              \/ io' = io /\ calls' = <<f>> \o <<>>
        \/ UNCHANGED <<processed, io, calls>> /\ queue' = Append(queue, c)
    BY Zenon DEF target_cmd_perform, Perform
  <1>3. f \in Frames /\ f.fn = "target_cmd_io_done" /\ f.cmd = c /\ <<>> \in Seq(Frames)
    BY SMTT(30), FrameTypes DEF IoDoneFrame, Frame
  <1>4. c \notin hlist /\ c \notin processed /\ c \notin io /\ c \notin tx /\ mreq[c] = None
    BY Zenon, <1>1 DEF Links, CommandsOK
  <1>5. itn'[c] = i /\ i # None /\ \A d \in Cmds : d # c => itn'[d] = itn[d]
    BY SMTT(30), <1>1, NoneAssumption DEF TypeOK
  <1>6. CommandsOK'
    <2>1. \A k \in 1..Len(queue) : queue[k] # c
      BY ZenonT(30), <1>1 DEF Links, CommandsOK
    <2>2. \A d \in Cmds : d \in alive' <=> itn'[d] # None
      BY Zenon, <1>1, <1>5 DEF Links, CommandsOK
    <2>3. /\ hlist' \subseteq alive' /\ processed' \subseteq alive' /\ io' \subseteq processed'
          /\ tx' \subseteq alive' /\ tx' \cap hlist' \subseteq processed' \ io'
          /\ \A d \in Cmds : mreq'[d] # None => d \in processed'
      BY Zenon, <1>1, <1>2, <1>4 DEF Links, CommandsOK
    <2>4. /\ \A k \in 1..Len(queue') : queue'[k] \in alive' /\ queue'[k] \notin processed'
          /\ \A k, l \in 1..Len(queue') : queue'[k] = queue'[l] => k = l
      <3>1. CASE processed' = processed \cup {c} /\ queue' = queue
        BY Zenon, <1>1, <2>1, <3>1 DEF Links, CommandsOK
      <3>2. CASE UNCHANGED processed /\ queue' = Append(queue, c)
        <4>1. /\ Len(queue') = Len(queue) + 1 /\ Len(queue) \in Nat
              /\ queue'[Len(queue) + 1] = c
              /\ \A k \in 1..Len(queue) : queue'[k] = queue[k]
          BY <3>2 DEF TypeOK
        <4>2. \A k \in 1..Len(queue') : k \in 1..Len(queue) \/ k = Len(queue) + 1
          BY SMTT(30), <4>1
        <4>3. \A k \in 1..Len(queue') : queue'[k] \in alive' /\ queue'[k] \notin processed'
          BY SMTT(30), <1>1, <1>4, <3>2, <4>1, <4>2 DEF Links, CommandsOK
        <4>4. \A k, l \in 1..Len(queue') : queue'[k] = queue'[l] => k = l
          BY ZenonT(30), <2>1, <4>1, <4>2 DEF Links, CommandsOK
        <4> QED BY Zenon, <4>3, <4>4
      <3> QED BY Zenon, <1>2, <3>1, <3>2
    <2> QED BY Zenon, <2>2, <2>3, <2>4 DEF CommandsOK
  <1>7. TmOK'
    <2>1. \A m \in Mreqs : Waiters(m)' = Waiters(m)
      BY Zenon, <1>1, <1>4, NoneAssumption DEF Waiters
    <2>2. TmNotEarly'
      BY Zenon, <1>1, <1>4 DEF Links, TmOK, TmNotEarly
    <2> QED BY Zenon, <1>1, <2>1, <2>2 DEF Links, TmOK
  <1>8. calls' = <<>> \/ calls' = <<f>> \o <<>>
    BY Zenon, <1>1, <1>2
  <1>9. RefOK'
    <2>1. \A j \in Nexuses : TmsOf(j)' = TmsOf(j)
      BY ZenonT(30), <1>1 DEF TmsOf
    <2>2. c \notin CmdsOf(i) /\ CmdsOf(i)' = CmdsOf(i) \cup {c}
      BY <1>1, <1>5 DEF CmdsOf, TypeOK
    <2>3. \A j \in Nexuses : j # i => CmdsOf(j)' = CmdsOf(j)
      BY <1>1, <1>5 DEF CmdsOf, TypeOK
    <2>4. Cardinality(CmdsOf(i) \cup {c}) = Cardinality(CmdsOf(i)) + 1
      BY ZenonT(30), <2>2, RefsFinite, CountAdd
    <2>5. ASSUME NEW j \in Nexuses
          PROVE  Cardinality(CmdsOf(j)') + Cardinality(TmsOf(j)')
                   = Cardinality(CmdsOf(j)) + Cardinality(TmsOf(j)) + (IF j = i THEN 1 ELSE 0)
      <3>1. Cardinality(CmdsOf(j)) \in Nat /\ Cardinality(TmsOf(j)) \in Nat
        BY Zenon, RefsFinite
      <3>2. CASE j = i
        <4>1. Cardinality(CmdsOf(j)') = Cardinality(CmdsOf(j)) + 1
          BY ZenonT(30), <2>2, <2>4, <3>2
        <4>2. Cardinality(TmsOf(j)') = Cardinality(TmsOf(j))
          BY Zenon, <2>1
        <4> QED BY <3>1, <3>2, <4>1, <4>2
      <3>3. CASE j # i
        BY <2>1, <2>3, <3>1, <3>3
      <3> QED BY Zenon, <3>2, <3>3
    <2>6. \A j \in Nexuses : Closing(calls', j) <=> Closing(calls, j)
      <3> HIDE DEF f
      <3>1. \A j \in Nexuses : ~Closing(<<f>> \o <<>>, j)
        BY Zenon, <1>3, ClosingPush, ClosingSmall
      <3> QED BY <1>1, <1>8, <3>1, ClosingSmall
    <2> QED BY ZenonT(30), <1>1, <2>5, <2>6, GetRef DEF Links
  <1>10. FramesOK'
    <2>1. CASE calls' = <<>>
      BY ZenonT(30), <2>1, StackSmall DEF FramesOK
    <2>2. CASE processed' = processed \cup {c} /\ io' = io /\ calls' = <<f>> \o <<>>
      <3>1. c \in Served'
        BY ZenonT(30), <1>1, <1>4, <2>2 DEF Served
      <3>2. FrameIn(f, Gone', Served', Closed', Asked')
        BY ZenonT(30), <1>3, <3>1 DEF FrameIn
      <3>3. PICK s \in Seq(Frames) : s = <<>>
        BY ZenonT(30), <1>3
      <3>4. Stack(s, Gone', Served', Closed', Asked', Unasked', hlist')
        BY ZenonT(30), <3>3, StackSmall
      <3>5. \A k \in 1..Len(s) : FALSE
        BY SMTT(30), <3>3
      <3> HIDE DEF f
      <3>6. Stack(<<f>> \o s, Gone', Served', Closed', Asked', Unasked', hlist')
        BY ZenonT(30), <1>3, <3>2, <3>4, <3>5, StackPush
      <3> QED BY ZenonT(30), <2>2, <3>3, <3>6 DEF FramesOK
    <2> QED BY ZenonT(30), <1>1, <1>2, <2>1, <2>2
  <1> QED BY Zenon, <1>6, <1>7, <1>9, <1>10 DEF Links

\* A task management request arrives.
LEMMA LinksMgmt ==
    ASSUME Counting, TypeOK, TypeOK', Links, NEW i \in Nexuses, NEW m \in Mreqs, NEW fn, NEW tag,
           target_mgmt_request(i, m, fn, tag)
    PROVE  Links'
  <1>1. PICK todo \in SUBSET Cmds : todo = Selected(i, fn, tag)
    BY ZenonT(30) DEF Selected, TypeOK
  <1> DEFINE f == AbortFrame(m, todo)
  <1>2. /\ calls = <<>> /\ conn[i] = "full" /\ tmState[m] = "free" /\ calls' = <<f>>
        /\ tmState' = [tmState EXCEPT ![m] = "busy"] /\ tmItn' = [tmItn EXCEPT ![m] = i]
        /\ refcount' = [refcount EXCEPT ![i] = refcount[i] + 1]
        /\ UNCHANGED <<alive, itn, processed, mreq, hlist, queue, io, tx, busy, conn, nexus>>
    BY Zenon, <1>1 DEF target_mgmt_request, cmdVars, listVars, Idle
  <1>3. f \in Frames /\ f.fn = "abort_task_set" /\ f.mreq = m
    BY Zenon, FrameTypes DEF AbortFrame, Frame
  <1>4. tmItn[m] = None /\ i # None
    BY ZenonT(30), <1>2, NoneAssumption DEF Links, TmOK
  <1>5. CommandsOK'
    BY ZenonT(30), <1>2 DEF Links, CommandsOK
  <1>6. /\ tmState'[m] = "busy" /\ tmItn'[m] = i
        /\ \A n \in Mreqs : n # m => tmState'[n] = tmState[n] /\ tmItn'[n] = tmItn[n]
    BY <1>2 DEF TypeOK
  <1>7. TmOK'
    <2>1. \A n : Waiters(n)' = Waiters(n)
      BY Zenon, <1>2 DEF Waiters
    <2>2. TmNotEarly'
      <3> SUFFICES ASSUME NEW c \in hlist, mreq[c] # None PROVE tmState'[mreq[c]] = "busy"
        BY ZenonT(30), <1>2 DEF TmNotEarly
      <3>1. mreq[c] \in Mreqs /\ tmState[mreq[c]] = "busy"
        BY DEF Links, TmOK, TmNotEarly, TypeOK
      <3> QED BY ZenonT(30), <1>6, <3>1
    <2>3. \A n \in Mreqs : tmState'[n] = "free" <=> tmItn'[n] = None
      BY ZenonT(30), <1>4, <1>6 DEF Links, TmOK
    <2>4. \A n \in Mreqs : Cardinality(Waiters(n)') <= busy'[n]
      BY ZenonT(30), <1>2, <2>1 DEF Links, TmOK
    <2> QED BY ZenonT(30), <2>2, <2>3, <2>4 DEF TmOK
  <1> HIDE DEF f
  <1>8. RefOK'
    <2>1. \A j \in Nexuses : CmdsOf(j)' = CmdsOf(j)
      BY ZenonT(30), <1>2 DEF CmdsOf
    <2>2. m \notin TmsOf(i) /\ TmsOf(i)' = TmsOf(i) \cup {m}
      BY ZenonT(30), <1>4, <1>6 DEF TmsOf
    <2>3. \A j \in Nexuses : j # i => TmsOf(j)' = TmsOf(j)
      BY ZenonT(30), <1>4, <1>6, NoneAssumption DEF TmsOf
    <2>4. Cardinality(TmsOf(i) \cup {m}) = Cardinality(TmsOf(i)) + 1
      BY ZenonT(30), <2>2, RefsFinite, CountAdd
    <2>5. ASSUME NEW j \in Nexuses
          PROVE  Cardinality(CmdsOf(j)') + Cardinality(TmsOf(j)')
                   = Cardinality(CmdsOf(j)) + Cardinality(TmsOf(j)) + (IF j = i THEN 1 ELSE 0)
      <3>1. Cardinality(CmdsOf(j)) \in Nat /\ Cardinality(TmsOf(j)) \in Nat
        BY Zenon, RefsFinite
      <3>2. Cardinality(CmdsOf(j)') = Cardinality(CmdsOf(j))
        BY Zenon, <2>1
      <3>3. CASE j = i
        <4>1. Cardinality(TmsOf(j)') = Cardinality(TmsOf(j)) + 1
          BY Zenon, <2>2, <2>4, <3>3
        <4> QED BY <3>1, <3>2, <3>3, <4>1
      <3>4. CASE j # i
        BY <2>3, <3>1, <3>2, <3>4
      <3> QED BY ZenonT(30), <3>3, <3>4
    <2>6. \A j \in Nexuses : Closing(calls', j) <=> Closing(calls, j)
      BY ZenonT(30), <1>2, <1>3, ClosingSmall
    <2> QED BY ZenonT(30), <1>2, <2>5, <2>6, GetRef DEF Links
  <1>9. FramesOK'
    <2>1. m \in Asked'
      BY Zenon, <1>6 DEF Asked
    <2>2. FrameIn(f, Gone', Served', Closed', Asked')
      BY ZenonT(30), <1>3, <2>1 DEF FrameIn
    <2>3. Stack(<<f>>, Gone', Served', Closed', Asked', Unasked', hlist')
      BY ZenonT(30), <1>3, <2>2, StackSmall
    <2> QED BY Zenon, <1>2, <2>3 DEF FramesOK
  <1> QED BY ZenonT(30), <1>5, <1>7, <1>8, <1>9 DEF Links

\* abort_task_set is called by the event loop, for a request that is not answered.
LEMMA AbortTop ==
    ASSUME TypeOK, Links, Top("abort_task_set")
    PROVE  \E s \in Seq(Frames), m \in Mreqs, todo \in SUBSET Cmds :
              /\ s = Tail(calls) /\ m = Head(calls).mreq /\ todo = Head(calls).todo
              /\ tmState[m] = "busy" /\ tmItn[m] # None
              /\ \A k \in 1..Len(s) : FALSE
              /\ \A j \in Nexuses : Closing(s, j) <=> Closing(calls, j)
  <1>1. /\ calls \in Seq(Frames) /\ calls # <<>> /\ Head(calls).fn = "abort_task_set"
        /\ Stack(calls, Gone, Served, Closed, Asked, Unasked, hlist)
    BY ZenonT(30) DEF Top, TypeOK, Links, FramesOK
  <1>2. /\ FrameIn(Head(calls), Gone, Served, Closed, Asked) /\ Head(calls) \in Frames
        /\ Tail(calls) \in Seq(Frames)
        /\ \A k \in 1..Len(Tail(calls)) : ~Last(Head(calls))
    BY Zenon, <1>1, StackPop
  <1>3. Last(Head(calls)) /\ Head(calls).mreq \in Asked
    BY ZenonT(30), <1>1, <1>2 DEF Last, FrameIn
  <1>4. \A k \in 1..Len(Tail(calls)) : FALSE
    BY Zenon, <1>2, <1>3
  <1>5. /\ Head(calls).mreq \in Mreqs /\ Head(calls).todo \in SUBSET Cmds
    BY Zenon, <1>1, <1>2, FrameFields
  <1>6. tmState[Head(calls).mreq] = "busy" /\ tmItn[Head(calls).mreq] # None
    BY Zenon, <1>3, <1>5 DEF Asked, Links, TmOK
  <1>7. \A j \in Nexuses : Closing(Tail(calls), j) <=> Closing(calls, j)
    BY Zenon, <1>1, ClosingPop
  <1> QED BY ZenonT(30), <1>2, <1>4, <1>5, <1>6, <1>7

\* The stack of abort_task_set alone, and its return.
LEMMA AbortStack ==
    ASSUME NEW s \in Seq(Frames), \A k \in 1..Len(s) : FALSE,
           NEW G, NEW D, NEW L, NEW W, NEW U, NEW H
    PROVE  /\ Stack(s, G, D, L, W, U, H)
           /\ \A m \in Mreqs, todo \in SUBSET Cmds :
                 /\ AbortFrame(m, todo) \in Frames
                 /\ <<AbortFrame(m, todo)>> \o s \in Seq(Frames)
                 /\ m \in W => Stack(<<AbortFrame(m, todo)>> \o s, G, D, L, W, U, H)
                 /\ \A j : Closing(<<AbortFrame(m, todo)>> \o s, j) <=> Closing(s, j)
  <1>1. Stack(s, G, D, L, W, U, H)
    BY Zenon DEF Stack
  <1>2. ASSUME NEW m \in Mreqs, NEW todo \in SUBSET Cmds
        PROVE  /\ AbortFrame(m, todo) \in Frames
               /\ <<AbortFrame(m, todo)>> \o s \in Seq(Frames)
               /\ m \in W => Stack(<<AbortFrame(m, todo)>> \o s, G, D, L, W, U, H)
               /\ \A j : Closing(<<AbortFrame(m, todo)>> \o s, j) <=> Closing(s, j)
    <2> DEFINE f == AbortFrame(m, todo)
    <2>1. f \in Frames /\ f.fn = "abort_task_set" /\ f.mreq = m
      BY Zenon, FrameTypes DEF AbortFrame, Frame
    <2>2. m \in W => FrameIn(f, G, D, L, W)
      BY Zenon, <2>1 DEF FrameIn
    <2> HIDE DEF f
    <2>3. m \in W => Stack(<<f>> \o s, G, D, L, W, U, H)
      BY ZenonT(30), <1>1, <2>1, <2>2, StackPush
    <2>4. \A j : Closing(<<f>> \o s, j) <=> Closing(s, j)
      BY Zenon, <2>1, ClosingPush
    <2>5. <<f>> \o s \in Seq(Frames)
      BY Zenon, <2>1, PushProps
    <2> QED BY ZenonT(30), <2>1, <2>3, <2>4, <2>5 DEF f
  <1> QED BY Zenon, <1>1, <1>2

\* abort_cmd on a command that was started.
LEMMA LinksAbortProcessed ==
    ASSUME Counting, TypeOK, TypeOK', Links, AbortProcessed
    PROVE  Links'
  <1>1. PICK s \in Seq(Frames), m \in Mreqs, todo \in SUBSET Cmds :
           /\ s = Tail(calls) /\ m = Head(calls).mreq /\ todo = Head(calls).todo
           /\ tmState[m] = "busy" /\ tmItn[m] # None
           /\ \A k \in 1..Len(s) : FALSE
           /\ \A j \in Nexuses : Closing(s, j) <=> Closing(calls, j)
    <2>1. Top("abort_task_set")
      BY ZenonT(30) DEF AbortProcessed
    <2> QED BY ZenonT(30), <2>1, AbortTop
  <1>2. PICK c \in todo \cap hlist \cap processed :
           /\ mreq' = [mreq EXCEPT ![c] = m] /\ busy' = [busy EXCEPT ![m] = busy[m] + 1]
           /\ calls' = <<AbortFrame(m, todo \ {c})>> \o s
    BY ZenonT(30), <1>1 DEF AbortProcessed
  <1>3. /\ UNCHANGED <<alive, itn, processed, hlist, queue, io, tx>>
        /\ UNCHANGED <<tmState, tmItn, conn, refcount, nexus>>
    BY ZenonT(30) DEF AbortProcessed, listVars, connVars
  <1>4. /\ c \in Cmds /\ mreq'[c] = m /\ \A d \in Cmds : d # c => mreq'[d] = mreq[d]
        /\ busy[m] \in Int /\ busy'[m] = busy[m] + 1
        /\ \A n \in Mreqs : n # m => busy'[n] = busy[n]
        /\ hlist \subseteq Cmds /\ m # None
    BY <1>2, NoneAssumption DEF TypeOK
  <1>5. CommandsOK'
    BY ZenonT(30), <1>2, <1>3, <1>4 DEF Links, CommandsOK
  <1>6. TmOK'
    <2>1. TmNotEarly'
      BY <1>1, <1>3, <1>4 DEF Links, TmOK, TmNotEarly
    <2>2. ASSUME NEW n \in Mreqs PROVE Cardinality(Waiters(n)') <= busy'[n]
      <3>1. /\ Cardinality(Waiters(n)) <= busy[n] /\ Cardinality(Waiters(n)) \in Nat
            /\ IsFiniteSet(Waiters(n))
        BY ZenonT(30), WaitersFinite DEF Links, TmOK
      <3>2. CASE n = m
        <4>1. Waiters(n)' = Waiters(n) \cup {c}
          BY ZenonT(30), <1>2, <1>3, <1>4, <3>2 DEF Waiters
        <4>2. Cardinality(Waiters(n) \cup {c}) <= Cardinality(Waiters(n)) + 1
              /\ Cardinality(Waiters(n) \cup {c}) \in Nat
          <5>1. Cardinality(Waiters(n) \cup {c})
                   = IF c \in Waiters(n) THEN Cardinality(Waiters(n)) ELSE Cardinality(Waiters(n)) + 1
            BY ZenonT(30), <3>1, CountAdd
          <5> QED BY <3>1, <5>1
        <4> QED BY <1>4, <3>1, <3>2, <4>1, <4>2
      <3>3. CASE n # m
        <4>1. Waiters(n)' \subseteq Waiters(n)
          BY ZenonT(30), <1>3, <1>4, <3>3 DEF Waiters
        <4>2. /\ Cardinality(Waiters(n)') <= Cardinality(Waiters(n))
              /\ Cardinality(Waiters(n)') \in Nat
          BY ZenonT(30), <4>1, WaitersFewer
        <4>3. busy'[n] = busy[n] /\ busy[n] \in Int
          BY ZenonT(30), <1>4, <3>3 DEF TypeOK
        <4> QED BY <3>1, <4>2, <4>3
      <3> QED BY Zenon, <3>2, <3>3
    <2>3. \A n \in Mreqs : tmState'[n] = "free" <=> tmItn'[n] = None
      BY ZenonT(30), <1>3 DEF Links, TmOK
    <2> QED BY ZenonT(30), <2>1, <2>2, <2>3 DEF TmOK
  <1>7. PICK t \in SUBSET Cmds : t = todo \ {c}
    BY ZenonT(30)
  <1>8. calls' = <<AbortFrame(m, t)>> \o s
    BY ZenonT(30), <1>2, <1>7
  <1>9. RefOK'
    <2>1. \A j \in Nexuses : Closing(<<AbortFrame(m, t)>> \o s, j) <=> Closing(s, j)
      BY ZenonT(30), <1>1, AbortStack
    <2>2. \A j \in Nexuses : Closing(calls', j) <=> Closing(calls, j)
      BY ZenonT(30), <1>1, <1>8, <2>1
    <2> QED BY ZenonT(30), <1>3, <2>2, SameRef DEF Links
  <1>10. FramesOK'
    <2>1. m \in Asked'
      BY ZenonT(30), <1>1, <1>3 DEF Asked
    <2>2. Stack(<<AbortFrame(m, t)>> \o s, Gone', Served', Closed', Asked', Unasked', hlist')
      BY ZenonT(30), <1>1, <2>1, AbortStack
    <2> QED BY Zenon, <1>8, <2>2 DEF FramesOK
  <1> QED BY ZenonT(30), <1>5, <1>6, <1>9, <1>10 DEF Links

\* abort_cmd on a command that waits in the queue.
LEMMA LinksAbortQueued ==
    ASSUME TypeOK, TypeOK', Links, AbortQueued
    PROVE  Links'
  <1>1. PICK s \in Seq(Frames), m \in Mreqs, todo \in SUBSET Cmds :
           /\ s = Tail(calls) /\ m = Head(calls).mreq /\ todo = Head(calls).todo
           /\ tmState[m] = "busy" /\ tmItn[m] # None
           /\ \A k \in 1..Len(s) : FALSE
           /\ \A j \in Nexuses : Closing(s, j) <=> Closing(calls, j)
    <2>1. Top("abort_task_set")
      BY Zenon DEF AbortQueued
    <2> QED BY Zenon, <2>1, AbortTop
  <1>2. PICK c \in (todo \cap hlist) \ processed :
           cmd_done(c, <<IoDoneFrame(c)>> \o (<<AbortFrame(m, todo \ {c})>> \o s))
    BY ZenonT(30), <1>1 DEF AbortQueued
  <1>3. PICK t \in SUBSET Cmds : t = todo \ {c}
    BY ZenonT(30)
  <1> DEFINE s1 == <<AbortFrame(m, t)>> \o s
             s2 == <<IoDoneFrame(c)>> \o s1
             post == PostFrame(First(queue))
  <1>4. hlist' = hlist \ {c} /\ calls' = <<post>> \o s2
    BY Zenon, <1>2, <1>3 DEF cmd_done
  <1>5. UNCHANGED <<alive, itn, processed, mreq, queue, io, tx, tmState, tmItn, busy, conn,
                    refcount, nexus>>
    BY ZenonT(30) DEF AbortQueued, tm, connVars
  <1>6. /\ c \in Cmds /\ c \in alive /\ mreq[c] = None
        /\ post \in Frames /\ post.fn = "post_cmd_done"
        /\ IoDoneFrame(c) \in Frames /\ IoDoneFrame(c).fn = "target_cmd_io_done"
        /\ IoDoneFrame(c).cmd = c /\ AbortFrame(m, t) \in Frames
        /\ AbortFrame(m, t).fn = "abort_task_set"
    <2>1. c \in Cmds /\ First(queue) \in Cmds \cup {None}
      BY ZenonT(30), <1>2, FirstType DEF TypeOK
    <2>2. c \in alive /\ mreq[c] = None
      BY Zenon, <1>2, <2>1 DEF Links, CommandsOK
    <2> QED BY ZenonT(30), <2>1, <2>2, FrameTypes DEF PostFrame, IoDoneFrame, AbortFrame, Frame
  <1>7. CommandsOK'
    BY ZenonT(30), <1>4, <1>5 DEF Links, CommandsOK
  <1>8. TmOK'
    <2>1. \A n \in Mreqs : Waiters(n)' = Waiters(n)
      BY ZenonT(30), <1>4, <1>5, <1>6, NoneAssumption DEF Waiters
    <2>2. TmNotEarly'
      BY Zenon, <1>4, <1>5 DEF Links, TmOK, TmNotEarly
    <2> QED BY ZenonT(30), <1>5, <2>1, <2>2 DEF Links, TmOK
  <1>9. /\ s1 \in Seq(Frames) /\ \A j \in Nexuses : Closing(s1, j) <=> Closing(calls, j)
        /\ Stack(s1, Gone', Served', Closed', Asked', Unasked', hlist')
    <2>1. m \in Asked'
      BY ZenonT(30), <1>1, <1>5 DEF Asked
    <2> QED BY ZenonT(30), <1>1, <2>1, AbortStack
  <1>10. \A k \in 1..Len(s1) : s1[k].fn = "abort_task_set"
    <2>1. /\ Len(s1) = Len(s) + 1 /\ s1[1] = AbortFrame(m, t) /\ Len(s) \in Nat
      BY <1>6, PushProps
    <2>2. Len(s) = 0
      <3>1. 1 \notin 1..Len(s) /\ Len(s) \in Nat
        BY Zenon, <1>1, <2>1
      <3> QED BY <3>1
    <2> HIDE DEF s1
    <2> QED BY <1>6, <2>1, <2>2
  <1> HIDE DEF s1
  <1>11. /\ s2 \in Seq(Frames) /\ \A j \in Nexuses : Closing(s2, j) <=> Closing(calls, j)
         /\ Stack(s2, Gone', Served', Closed', Asked', Unasked', hlist')
    <2> DEFINE f == IoDoneFrame(c)
    <2>1. c \in Served' /\ c \in Unasked'
      BY ZenonT(30), <1>4, <1>5, <1>6 DEF Served, Unasked
    <2>2. FrameIn(f, Gone', Served', Closed', Asked')
      BY ZenonT(30), <1>6, <2>1 DEF FrameIn
    <2>3. \A k \in 1..Len(s1) : Apart(f, s1[k], Unasked', hlist') /\ ~Last(f)
      BY ZenonT(30), <1>6, <1>10, <2>1 DEF Apart, Last
    <2>4. f \in Frames /\ f.fn # "conn_close"
      BY ZenonT(30), <1>6
    <2> HIDE DEF f
    <2>5. /\ Stack(<<f>> \o s1, Gone', Served', Closed', Asked', Unasked', hlist')
          /\ <<f>> \o s1 \in Seq(Frames)
      BY ZenonT(30), <1>9, <2>2, <2>3, <2>4, StackPush
    <2>6. \A j \in Nexuses : Closing(<<f>> \o s1, j) <=> Closing(s1, j)
      BY ZenonT(30), <1>9, <2>4, ClosingPush
    <2> QED BY Zenon, <1>9, <2>5, <2>6 DEF f
  <1>12. ~Last(post) /\ FrameIn(post, Gone', Served', Closed', Asked')
         /\ \A k \in 1..Len(s2) : Apart(post, s2[k], Unasked', hlist')
    BY ZenonT(30), <1>6 DEF Last, FrameIn, Apart
  <1> HIDE DEF s2, post
  <1>13. FramesOK'
    <2>1. Stack(<<post>> \o s2, Gone', Served', Closed', Asked', Unasked', hlist')
      BY ZenonT(30), <1>6, <1>11, <1>12, StackPush
    <2> QED BY Zenon, <1>4, <2>1 DEF FramesOK
  <1>14. RefOK'
    <2>1. \A j \in Nexuses : Closing(<<post>> \o s2, j) <=> Closing(s2, j)
      BY ZenonT(30), <1>6, <1>11, ClosingPush
    <2>2. \A j \in Nexuses : Closing(calls', j) <=> Closing(calls, j)
      BY ZenonT(30), <1>4, <1>11, <2>1
    <2> QED BY ZenonT(30), <1>5, <2>2, SameRef DEF Links
  <1> QED BY ZenonT(30), <1>7, <1>8, <1>13, <1>14 DEF Links

\* A command left the list under the walk of abort_task_set.
LEMMA LinksAbortStale ==
    ASSUME TypeOK, TypeOK', Links, AbortStale
    PROVE  Links'
  <1>1. PICK s \in Seq(Frames), m \in Mreqs, todo \in SUBSET Cmds :
           /\ s = Tail(calls) /\ m = Head(calls).mreq /\ todo = Head(calls).todo
           /\ tmState[m] = "busy" /\ tmItn[m] # None
           /\ \A k \in 1..Len(s) : FALSE
           /\ \A j \in Nexuses : Closing(s, j) <=> Closing(calls, j)
    <2>1. Top("abort_task_set")
      BY Zenon DEF AbortStale
    <2> QED BY Zenon, <2>1, AbortTop
  <1>2. CASE Crash
    BY Zenon, <1>2, LinksCrash
  <1>3. CASE \E c \in todo \ hlist :
                /\ calls' = <<AbortFrame(m, todo \ {c})>> \o s
                /\ UNCHANGED <<cmdVars, listVars, qVars, tm, connVars, daemon>>
    <2>1. PICK t \in SUBSET Cmds : calls' = <<AbortFrame(m, t)>> \o s
      BY Zenon, <1>3
    <2>2. m \in Asked
      BY Zenon, <1>1 DEF Asked
    <2>3. /\ Stack(<<AbortFrame(m, t)>> \o s, Gone, Served, Closed, Asked, Unasked, hlist)
          /\ \A j \in Nexuses : Closing(<<AbortFrame(m, t)>> \o s, j) <=> Closing(s, j)
      BY ZenonT(30), <1>1, <2>2, AbortStack
    <2>4. /\ Stack(calls', Gone, Served, Closed, Asked, Unasked, hlist)
          /\ \A j \in Nexuses : Closing(calls', j) <=> Closing(calls, j)
      BY ZenonT(30), <1>1, <2>1, <2>3
    <2> QED BY ZenonT(30), <1>3, <2>4, LinksSame DEF cmdVars, listVars, tm, connVars
  <1> QED BY ZenonT(30), <1>1, <1>2, <1>3 DEF AbortStale

\* target_mgmt_request answers unless commands are waited for.
LEMMA LinksAbortReturn ==
    ASSUME Counting, TypeOK, TypeOK', Links, AbortReturn
    PROVE  Links'
  <1>1. PICK s \in Seq(Frames), m \in Mreqs, todo \in SUBSET Cmds :
           /\ s = Tail(calls) /\ m = Head(calls).mreq /\ todo = Head(calls).todo
           /\ tmState[m] = "busy" /\ tmItn[m] # None
           /\ \A k \in 1..Len(s) : FALSE
           /\ \A j \in Nexuses : Closing(s, j) <=> Closing(calls, j)
    <2>1. Top("abort_task_set")
      BY ZenonT(30) DEF AbortReturn
    <2> QED BY Zenon, <2>1, AbortTop
  <1>2. /\ calls' = s /\ UNCHANGED <<alive, itn, processed, mreq, hlist, queue, io, tx>>
        /\ busy[m] = 0 => mgmt_end_notify(m, result[m])
        /\ busy[m] # 0 => UNCHANGED <<tmState, tmItn, busy, conn, refcount, nexus>>
    BY ZenonT(30), <1>1 DEF AbortReturn, Return, cmdVars, listVars, tm, connVars
  <1>3. \A j \in Nexuses : Closing(calls', j) <=> Closing(calls, j)
    BY ZenonT(30), <1>1, <1>2
  <1>4. FramesOK'
    <2>1. Stack(s, Gone', Served', Closed', Asked', Unasked', hlist')
      BY ZenonT(30), <1>1, AbortStack
    <2> QED BY ZenonT(30), <1>2, <2>1 DEF FramesOK
  <1>5. CASE busy[m] # 0
    <2>1. CommandsOK' /\ TmOK'
      BY ZenonT(30), <1>2, <1>5, SameTasks DEF Links
    <2>2. RefOK'
      BY ZenonT(30), <1>2, <1>3, <1>5, SameRef DEF Links
    <2> QED BY ZenonT(30), <1>4, <2>1, <2>2 DEF Links
  <1>6. CASE busy[m] = 0
    <2>1. PICK r : mgmt_end_notify(m, r)
      BY Zenon, <1>2, <1>6
    <2>2. CommandsOK'
      BY ZenonT(30), <1>2 DEF Links, CommandsOK
    <2>3. RefOK'
      <3>1. hlist \subseteq alive /\ RefOK
        BY ZenonT(30) DEF Links, CommandsOK
      <3> QED BY ZenonT(30), <1>1, <1>2, <1>3, <2>1, <3>1, NotifyRef
    <2>4. /\ tmState'[m] \in {"tx", "free"} /\ busy'[m] = 0
          /\ tmState'[m] = "free" <=> tmItn'[m] = None
          /\ \A n \in Mreqs : n # m => /\ tmState'[n] = tmState[n]
                                       /\ tmItn'[n] = tmItn[n] /\ busy'[n] = busy[n]
      BY ZenonT(30), <1>1, <2>1, NotifyTm
    <2>5. \A n : Waiters(n)' = Waiters(n)
      BY ZenonT(30), <1>2 DEF Waiters
    <2>6. Waiters(m) = {} /\ Cardinality(Waiters(m)) = 0
      <3>1. /\ Cardinality(Waiters(m)) <= busy[m] /\ Cardinality(Waiters(m)) \in Nat
            /\ IsFiniteSet(Waiters(m))
        BY Zenon, WaitersFinite DEF Links, TmOK
      <3>2. Cardinality(Waiters(m)) = 0
        BY SMTT(30), <1>6, <3>1
      <3> QED BY Zenon, <3>1, <3>2, CountEmpty
    <2>7. TmNotEarly'
      <3> SUFFICES ASSUME NEW c \in hlist, mreq[c] # None PROVE tmState'[mreq[c]] = "busy"
        BY ZenonT(30), <1>2 DEF TmNotEarly
      <3>1. mreq[c] \in Mreqs /\ tmState[mreq[c]] = "busy"
        BY DEF Links, TmOK, TmNotEarly, TypeOK
      <3>2. mreq[c] # m
        BY Zenon, <2>6 DEF Waiters
      <3> QED BY Zenon, <2>4, <3>1, <3>2
    <2>8. \A n \in Mreqs : tmState'[n] = "free" <=> tmItn'[n] = None
      BY ZenonT(30), <2>4 DEF Links, TmOK
    <2>9. \A n \in Mreqs : Cardinality(Waiters(n)') <= busy'[n]
      <3>1. \A n \in Mreqs : n # m => Cardinality(Waiters(n)') <= busy'[n]
        BY Zenon, <2>4, <2>5 DEF Links, TmOK
      <3>2. Cardinality(Waiters(m)') = 0 /\ busy'[m] = 0
        BY Zenon, <2>4, <2>5, <2>6
      <3> QED BY <3>1, <3>2
    <2>10. TmOK'
      BY Zenon, <2>7, <2>8, <2>9 DEF TmOK
    <2> QED BY ZenonT(30), <1>4, <2>2, <2>3, <2>10 DEF Links
  <1> QED BY ZenonT(30), <1>5, <1>6

-----------------------------------------------------------------------------
(* The theorem.                                                            *)

\* Nothing is allocated at the start.
LEMMA LinksInit ==
    ASSUME Counting, Init
    PROVE  Links
  <1>1. CommandsOK
    BY DEF Init, CommandsOK
  <1>2. \A i \in Nexuses : /\ CmdsOf(i) = {} /\ TmsOf(i) = {} /\ InitRef(i) = 0
                           /\ refcount[i] = 0 /\ conn[i] = "none" /\ i \notin nexus
    <2>1. \A i \in Nexuses : CmdsOf(i) = {} /\ TmsOf(i) = {}
      BY Zenon, NoneAssumption DEF Init, CmdsOf, TmsOf
    <2>2. \A i \in Nexuses : conn[i] = "none" /\ refcount[i] = 0 /\ i \notin nexus
      BY Zenon DEF Init
    <2>3. \A i \in Nexuses : ~Closing(calls, i)
      BY Zenon, ClosingSmall DEF Init
    <2> QED BY Zenon, <2>1, <2>2, <2>3 DEF InitRef, Open
  <1>3. Cardinality({}) = 0
    BY Zenon, CountEmpty
  <1>4. RefOK
    BY <1>2, <1>3 DEF RefOK
  <1>5. \A m \in Mreqs : Cardinality(Waiters(m)) = 0
    <2>1. \A m \in Mreqs : Waiters(m) = {}
      BY Zenon DEF Init, Waiters
    <2> QED BY Zenon, <1>3, <2>1
  <1>6. TmOK
    BY <1>5 DEF Init, TmOK, TmNotEarly
  <1>7. FramesOK
    BY Zenon, StackSmall DEF Init, FramesOK
  <1> QED BY Zenon, <1>1, <1>4, <1>6, <1>7 DEF Links

\* Every step keeps the invariant.
LEMMA LinksStep ==
    ASSUME Counting, TypeOK, TypeOK', Links, [Next]_vars
    PROVE  Links'
  <1>1. CASE Environment
    <2>1. ASSUME NEW i \in Nexuses, SessionCreate(i) \/ ForceClose(i) \/ ConnClose(i)
          PROVE  Links'
      BY Zenon, <2>1, LinksConn
    <2>2. ASSUME NEW c \in Cmds, NEW i \in Nexuses, NEW a \in Attrs, target_cmd_perform(c, i, a)
          PROVE  Links'
      BY Zenon, <2>2, LinksPerform
    <2>3. ASSUME NEW i \in Nexuses, NEW m \in Mreqs, NEW f \in Functions, NEW tag \in Cmds,
                 target_mgmt_request(i, m, f, tag)
          PROVE  Links'
      BY Zenon, <2>3, LinksMgmt
    <2> QED BY Zenon, <1>1, <2>1, <2>2, <2>3 DEF Environment, Arrive
  <1>2. CASE Handler
    <2>1. CASE PostCmdDoneReturn \/ PostCmdDoneStale
      <3>1. calls # <<>> /\ Head(calls).fn # "conn_close"
        BY Zenon, <2>1 DEF PostCmdDoneReturn, PostCmdDoneStale, Top
      <3>2. CASE Crash
        BY Zenon, <3>2, LinksCrash
      <3>3. CASE Return /\ UNCHANGED <<cmdVars, listVars, tm, connVars>>
        BY Zenon, <3>1, <3>3, LinksReturn
      <3> QED BY Zenon, <2>1, <3>2, <3>3 DEF PostCmdDoneReturn, PostCmdDoneStale
    <2> QED BY ZenonT(30), <1>2, <2>1, LinksIoDone, LinksFreeTask, LinksConnCloseStep, LinksPostPerform,
               LinksAbortProcessed, LinksAbortQueued, LinksAbortStale, LinksAbortReturn
            DEF Handler
  <1>3. CASE Completion
    <2>1. ASSUME NEW c \in Cmds, IoComplete(c) PROVE Links'
      BY Zenon, <2>1, LinksIoComplete
    <2>2. ASSUME NEW c \in Cmds, CmdTxDone(c) PROVE Links'
      BY Zenon, <2>2, LinksCmdTxDone
    <2>3. ASSUME NEW m \in Mreqs, TmTxDone(m) PROVE Links'
      BY Zenon, <2>3, LinksFreeTm DEF TmTxDone
    <2> QED BY Zenon, <1>3, <2>1, <2>2, <2>3 DEF Completion
  <1>4. CASE UNCHANGED vars
    <2>1. /\ UNCHANGED <<alive, itn, processed, mreq, hlist, queue, io, tx>>
          /\ UNCHANGED <<tmState, tmItn, busy, conn, refcount, nexus>> /\ UNCHANGED calls
      BY Zenon, <1>4 DEF vars, cmdVars, listVars, tm, connVars
    <2> QED BY Zenon, <2>1, LinksSame DEF Links, FramesOK
  <1> QED BY Zenon, <1>1, <1>2, <1>3, <1>4 DEF Next

\* The invariant says that nothing dangles.
LEMMA LinksDangle ==
    ASSUME Counting, TypeOK, Links
    PROVE  NothingDangles
  <1>1. RefcountExact
    <2> SUFFICES ASSUME NEW i \in Nexuses
                 PROVE  refcount[i] = Cardinality({c \in alive : itn[c] = i})
                           + Cardinality({m \in Mreqs : tmItn[m] = i})
                           + Cardinality({x \in {i} :
                                 \/ conn[i] \in {"full", "close"}
                                 \/ \E k \in DOMAIN calls :
                                       calls[k].fn = "conn_close" /\ calls[k].itn = i})
      BY Zenon DEF RefcountExact
    <2> DEFINE held == {x \in {i} : \/ conn[i] \in {"full", "close"}
                                    \/ \E k \in DOMAIN calls :
                                          calls[k].fn = "conn_close" /\ calls[k].itn = i}
    <2>1. DOMAIN calls = 1..Len(calls)
      BY DEF TypeOK
    <2>2. Open(i) <=> \/ conn[i] \in {"full", "close"}
                      \/ \E k \in DOMAIN calls : calls[k].fn = "conn_close" /\ calls[k].itn = i
      BY Zenon, <2>1 DEF Open, Closing
    <2>3. (Open(i) => held = {i}) /\ (~Open(i) => held = {})
      BY Zenon, <2>2
    <2> HIDE DEF held
    <2>4. Cardinality(held) = InitRef(i)
      BY Zenon, <2>3, CountEmpty, CountOne DEF InitRef
    <2>5. refcount[i] = Cardinality(CmdsOf(i)) + Cardinality(TmsOf(i)) + Cardinality(held)
      BY Zenon, <2>4 DEF Links, RefOK
    <2> QED BY Zenon, <2>5 DEF CmdsOf, TmsOf, held
  <1>2. NexusLivesWithConn
    <2>1. ASSUME NEW c \in hlist PROVE itn[c] \in nexus
      <3>1. c \in Cmds /\ c \in alive
        BY ZenonT(30) DEF TypeOK, Links, CommandsOK
      <3>2. PICK i \in Nexuses : i = itn[c]
        BY <3>1 DEF TypeOK, Links, CommandsOK
      <3>3. c \in CmdsOf(i)
        BY Zenon, <3>1, <3>2 DEF CmdsOf
      <3>4. Cardinality(CmdsOf(i)) # 0
        BY Zenon, <3>3, RefsFinite, CountEmpty
      <3>5. /\ Cardinality(CmdsOf(i)) \in Nat /\ Cardinality(TmsOf(i)) \in Nat
            /\ InitRef(i) \in {0, 1}
        BY Zenon, RefsFinite DEF InitRef
      <3>6. refcount[i] # 0
        <4>1. refcount[i] = Cardinality(CmdsOf(i)) + Cardinality(TmsOf(i)) + InitRef(i)
          BY Zenon DEF Links, RefOK
        <4> QED BY <3>4, <3>5, <4>1
      <3> QED BY Zenon, <3>2, <3>6 DEF Links, RefOK
    <2> QED BY Zenon, <2>1 DEF NexusLivesWithConn, Links, RefOK
  <1> QED BY Zenon, <1>1, <1>2 DEF NothingDangles, Links, TmOK

-----------------------------------------------------------------------------
(* The invariant of the task set.                                          *)

\* The head of the queue may not start.
Settled == queue # <<>> => ~cmd_enabled(attr[Head(queue)])

\* A walk of the queue stands at its head, or will when the completion on top
\* of it returns.
WalkAtHead ==
    /\ calls # <<>>
    /\ \/ calls[1].fn = "post_cmd_done" /\ calls[1].cmd = First(queue)
       \/ /\ calls[1].fn = "target_cmd_io_done"
          /\ Len(calls) > 1
          /\ calls[2].fn = "post_cmd_done" /\ calls[2].cmd = First(queue)

\* Where a command can be: queued and not started; started and with the backing
\* store, waiting for transmission or being completed; done and being freed.
ListsOK ==
    /\ hlist \subseteq alive
    /\ processed \subseteq alive
    /\ io \cap tx = {}
    /\ io \cup tx \subseteq Started

QueueOK ==
    /\ \A k \in 1..Len(queue) : queue[k] \in hlist /\ queue[k] \notin processed
    /\ \A k, l \in 1..Len(queue) : queue[k] = queue[l] => k = l

\* Frames of s: a task being freed has left its nexus, and no command is being
\* completed by them.
Callers(s) ==
    \A k \in 1..Len(s) : /\ s[k].fn # "target_cmd_io_done"
                         /\ s[k].fn = "iscsi_free_task" => s[k].cmd \notin hlist

\* Only the top frame can be completing a command, which is on no other list.
StackOK ==
    \A k \in 1..Len(calls) :
        /\ calls[k].fn = "iscsi_free_task" => calls[k].cmd \notin hlist
        /\ calls[k].fn = "target_cmd_io_done" =>
              k = 1 /\ calls[k].cmd \in Started \ (io \cup tx)

Places == ListsOK /\ QueueOK /\ StackOK

Accounts ==
    /\ active = Cardinality(Started)
    /\ blocked => \E c \in Started : attr[c] \in {"ORDERED", "HEAD"}
    /\ Settled \/ WalkAtHead

IInv == TypeOK /\ (aborted = {} => Places /\ Accounts)

-----------------------------------------------------------------------------
(* What a crash takes.                                                     *)

\* No frame of the function is on the stack.
Absent(s, fn) == \A k \in 1..Len(s) : s[k].fn # fn

\* The stack holds one walk of the queue at most, which stands at q.
WalksAt(s, q) ==
    \A k \in 1..Len(s) : s[k].fn = "post_cmd_done" =>
        s[k].cmd = q /\ \A l \in 1..Len(s) : s[l].fn = "post_cmd_done" => l = k

\* abort_task_set is on top, and its commands are all in H.
AbortFirst(s, H) ==
    \A k \in 1..Len(s) : s[k].fn = "abort_task_set" => k = 1 /\ s[k].todo \subseteq H

\* The same frames with one more.
LEMMA CausePush ==
    ASSUME NEW s \in Seq(Frames), NEW f \in Frames, NEW fn, NEW q, NEW H
    PROVE  /\ f.fn # fn /\ Absent(s, fn) => Absent(<<f>> \o s, fn)
           /\ f.fn # "post_cmd_done" /\ WalksAt(s, q) => WalksAt(<<f>> \o s, q)
           /\ f.fn = "post_cmd_done" /\ f.cmd = q /\ Absent(s, "post_cmd_done")
                 => WalksAt(<<f>> \o s, q)
           /\ f.fn = "abort_task_set" /\ f.todo \subseteq H /\ Absent(s, "abort_task_set")
                 => AbortFirst(<<f>> \o s, H)
  <1> DEFINE t == <<f>> \o s
  <1>1. /\ Len(t) = Len(s) + 1 /\ t[1] = f /\ Len(s) \in Nat
        /\ \A k \in 2..Len(s) + 1 : t[k] = s[k - 1]
    BY PushProps
  <1> HIDE DEF t
  <1>2. \A k \in 1..Len(t) : k = 1 \/ (k - 1 \in 1..Len(s) /\ t[k] = s[k - 1])
    BY <1>1
  <1>3. f.fn # fn /\ Absent(s, fn) => Absent(t, fn)
    BY Zenon, <1>1, <1>2 DEF Absent
  <1>4. ASSUME f.fn # "post_cmd_done", WalksAt(s, q) PROVE WalksAt(t, q)
    <2> SUFFICES ASSUME NEW k \in 1..Len(t), t[k].fn = "post_cmd_done"
                 PROVE  /\ t[k].cmd = q
                        /\ \A l \in 1..Len(t) : t[l].fn = "post_cmd_done" => l = k
      BY Zenon DEF WalksAt
    <2>1. k - 1 \in 1..Len(s) /\ t[k] = s[k - 1]
      BY Zenon, <1>1, <1>2, <1>4
    <2>2. ASSUME NEW l \in 1..Len(t), t[l].fn = "post_cmd_done" PROVE l = k
      <3>1. l - 1 \in 1..Len(s) /\ t[l] = s[l - 1]
        BY Zenon, <1>1, <1>2, <1>4, <2>2
      <3>2. l - 1 = k - 1
        BY Zenon, <1>4, <2>1, <2>2, <3>1 DEF WalksAt
      <3> QED BY <3>2
    <2> QED BY Zenon, <1>4, <2>1, <2>2 DEF WalksAt
  <1>5. f.fn = "post_cmd_done" /\ f.cmd = q /\ Absent(s, "post_cmd_done") => WalksAt(t, q)
    BY ZenonT(30), <1>1, <1>2 DEF WalksAt, Absent
  <1>6. f.fn = "abort_task_set" /\ f.todo \subseteq H /\ Absent(s, "abort_task_set")
           => AbortFirst(t, H)
    BY Zenon, <1>1, <1>2 DEF AbortFirst, Absent
  <1> QED BY Zenon, <1>3, <1>4, <1>5, <1>6 DEF t

\* The same frames with one less.
LEMMA CausePop ==
    ASSUME NEW s \in Seq(Frames), s # <<>>, NEW fn, NEW q, NEW H
    PROVE  /\ Absent(s, fn) => Absent(Tail(s), fn)
           /\ WalksAt(s, q) => WalksAt(Tail(s), q)
           /\ WalksAt(s, q) /\ Head(s).fn = "post_cmd_done"
                 => Head(s).cmd = q /\ Absent(Tail(s), "post_cmd_done")
           /\ AbortFirst(s, H) => /\ Absent(Tail(s), "abort_task_set")
                                  /\ Head(s).fn = "abort_task_set" => Head(s).todo \subseteq H
                                  /\ Head(s).fn # "abort_task_set" => Absent(s, "abort_task_set")
  <1> DEFINE t == Tail(s)
  <1>1. /\ Len(t) = Len(s) - 1 /\ Head(s) = s[1] /\ Len(s) \in Nat \ {0}
        /\ \A k \in 1..Len(t) : t[k] = s[k + 1]
    BY Zenon, TailProps
  <1> HIDE DEF t
  <1>2. \A k \in 1..Len(t) : k + 1 \in 1..Len(s) /\ k + 1 # 1 /\ t[k] = s[k + 1]
    BY <1>1
  <1>3. 1 \in 1..Len(s)
    BY SMTT(30), <1>1
  <1>4. Absent(s, fn) => Absent(t, fn)
    BY Zenon, <1>2 DEF Absent
  <1>5. ASSUME WalksAt(s, q) PROVE WalksAt(t, q)
    <2> SUFFICES ASSUME NEW k \in 1..Len(t), t[k].fn = "post_cmd_done"
                 PROVE  /\ t[k].cmd = q
                        /\ \A l \in 1..Len(t) : t[l].fn = "post_cmd_done" => l = k
      BY Zenon DEF WalksAt
    <2>1. ASSUME NEW l \in 1..Len(t), t[l].fn = "post_cmd_done" PROVE l = k
      <3>1. l + 1 = k + 1
        BY Zenon, <1>2, <1>5, <2>1 DEF WalksAt
      <3> QED BY <3>1
    <2> QED BY ZenonT(30), <1>2, <1>5, <2>1 DEF WalksAt
  <1>6. ASSUME WalksAt(s, q), s[1].fn = "post_cmd_done"
        PROVE  s[1].cmd = q /\ Absent(t, "post_cmd_done")
    BY Zenon, <1>2, <1>3, <1>6 DEF WalksAt, Absent
  <1>7. ASSUME AbortFirst(s, H)
        PROVE  /\ Absent(t, "abort_task_set")
               /\ s[1].fn = "abort_task_set" => s[1].todo \subseteq H
               /\ s[1].fn # "abort_task_set" => Absent(s, "abort_task_set")
    BY Zenon, <1>2, <1>3, <1>7 DEF AbortFirst, Absent
  <1> QED BY ZenonT(30), <1>1, <1>4, <1>5, <1>6, <1>7 DEF t

\* No frame at all.
LEMMA CauseEmpty ==
    ASSUME NEW fn
    PROVE  Absent(<<>>, fn)
  BY DEF Absent

\* A stack without such frames.
LEMMA CauseAbsent ==
    ASSUME NEW s, NEW q, NEW H
    PROVE  /\ Absent(s, "post_cmd_done") => WalksAt(s, q)
           /\ Absent(s, "abort_task_set") => AbortFirst(s, H)
  BY Zenon DEF Absent, WalksAt, AbortFirst

AllFull == \A i \in Nexuses : conn[i] = "full"

\* Without an aborted command abort_task_set calls nothing, and its commands
\* stay in their lists; with every connection open there is one walk of the
\* queue at most, and it stands at the head.
Cause ==
    /\ aborted = {} => AbortFirst(calls, hlist)
    /\ aborted = {} /\ AllFull => WalksAt(calls, First(queue))
    /\ CrashHasCause

\* A step of a handler or an event that does not crash.
LEMMA CauseStep ==
    ASSUME daemon' = "up",
           aborted' = {} => AbortFirst(calls', hlist'),
           aborted' = {} /\ AllFull' => WalksAt(calls', First(queue)')
    PROVE  Cause'
  BY Zenon DEF Cause, CrashHasCause

\* A crash that has a cause.
LEMMA CauseCrash ==
    ASSUME Cause, Crash, aborted # {} \/ ~AllFull
    PROVE  Cause'
  <1>1. UNCHANGED <<aborted, calls, hlist, queue, conn>>
    BY Zenon DEF Crash, cmdVars, listVars, connVars
  <1>2. First(queue)' = First(queue) /\ (AllFull' <=> AllFull)
    BY Zenon, <1>1 DEF First, AllFull
  <1>3. CrashHasCause'
    BY Zenon, <1>1 DEF CrashHasCause, AllFull
  <1> QED BY Zenon, <1>1, <1>2, <1>3 DEF Cause

\* A connection is opened by session_create only.
LEMMA FullKept ==
    ASSUME TypeOK, NEW i \in Nexuses, conn_put(i)
    PROVE  /\ AllFull' => AllFull
           /\ \A j \in Nexuses : conn[j] # "full" => conn'[j] # "full"
  <1>1. \A j \in Nexuses : conn[j] # "full" => conn'[j] # "full"
    BY ZenonT(30) DEF conn_put, TypeOK
  <1> QED BY Zenon, <1>1 DEF AllFull

\* The same for an answer to a request and for the end of a command.
LEMMA FullKeptDone ==
    ASSUME TypeOK, Links, NEW c \in hlist, NEW rest, target_cmd_done(c, rest)
    PROVE  /\ AllFull' => AllFull
           /\ \A j \in Nexuses : conn[j] # "full" => conn'[j] # "full"
  <1>1. CASE UNCHANGED conn
    BY Zenon, <1>1 DEF AllFull
  <1>2. ASSUME NEW m \in Mreqs, tmItn[m] \in Nexuses, FreeTm(m)
        PROVE  /\ AllFull' => AllFull
               /\ \A j \in Nexuses : conn[j] # "full" => conn'[j] # "full"
    BY Zenon, <1>2, FullKept DEF FreeTm
  <1>3. ASSUME mreq[c] # None PROVE mreq[c] \in Mreqs /\ tmItn[mreq[c]] \in Nexuses
    <2>1. mreq[c] \in Mreqs /\ tmState[mreq[c]] = "busy"
      BY <1>3 DEF TypeOK, Links, TmOK, TmNotEarly
    <2> QED BY SMTT(30), <2>1 DEF TypeOK, Links, TmOK
  <1> QED BY Zenon, <1>1, <1>2, <1>3 DEF target_cmd_done, mgmt_end_notify, connVars

\* One frame.
LEMMA CauseOne ==
    ASSUME NEW f \in Frames, NEW q, NEW H
    PROVE  /\ f.fn # "post_cmd_done" => WalksAt(<<f>>, q)
           /\ f.fn # "abort_task_set" \/ f.todo \subseteq H => AbortFirst(<<f>>, H)
  <1>1. \A k \in 1..Len(<<f>>) : k = 1 /\ <<f>>[k] = f
    OBVIOUS
  <1> QED BY Zenon, <1>1 DEF WalksAt, AbortFirst

\* The events.
LEMMA CauseEvent ==
    ASSUME TypeOK, TypeOK', calls = <<>>, daemon' = "up",
           \/ \E i \in Nexuses : SessionCreate(i) \/ ForceClose(i) \/ ConnClose(i)
           \/ \E c \in Cmds, i \in Nexuses, a \in Attrs : target_cmd_perform(c, i, a)
           \/ \E i \in Nexuses, m \in Mreqs, f \in Functions, tag \in Cmds :
                 target_mgmt_request(i, m, f, tag)
           \/ \E c \in Cmds : IoComplete(c)
           \/ \E m \in Mreqs : TmTxDone(m)
    PROVE  Cause'
  <1>1. ASSUME calls' = <<>> PROVE Cause'
    BY ZenonT(30), <1>1, CauseEmpty, CauseAbsent, CauseStep
  <1>2. ASSUME NEW f \in Frames, calls' = <<f>>, f.fn # "post_cmd_done",
               f.fn # "abort_task_set" \/ f.todo \subseteq hlist'
        PROVE  Cause'
    <2>1. WalksAt(<<f>>, First(queue)') /\ AbortFirst(<<f>>, hlist')
      BY Zenon, <1>2, CauseOne
    <2> QED BY Zenon, <1>2, <2>1, CauseStep
  <1>3. ASSUME NEW c \in Cmds, calls' = <<IoDoneFrame(c)>> PROVE Cause'
    <2>1. IoDoneFrame(c) \in Frames /\ IoDoneFrame(c).fn = "target_cmd_io_done"
      BY Zenon, FrameTypes DEF IoDoneFrame, Frame
    <2> QED BY Zenon, <1>2, <1>3, <2>1
  <1>4. ASSUME NEW i \in Nexuses, SessionCreate(i) \/ ForceClose(i) \/ ConnClose(i)
        PROVE  Cause'
    <2> DEFINE f == Frame("conn_close", None, None, i, {})
    <2>1. f \in Frames /\ f.fn = "conn_close"
      BY Zenon, NoneAssumption DEF Frame, Frames, FrameNames
    <2>2. calls' = <<>> \/ calls' = <<f>>
      BY Zenon, <1>4 DEF SessionCreate, ForceClose, ConnClose
    <2> HIDE DEF f
    <2> QED BY ZenonT(30), <1>1, <1>2, <2>1, <2>2
  <1>5. ASSUME NEW c \in Cmds, NEW i \in Nexuses, NEW a \in Attrs, target_cmd_perform(c, i, a)
        PROVE  Cause'
    <2>1. <<IoDoneFrame(c)>> \o <<>> = <<IoDoneFrame(c)>>
      BY SMTT(30)
    <2>2. calls' = <<>> \/ calls' = <<IoDoneFrame(c)>>
      BY Zenon, <1>5, <2>1 DEF target_cmd_perform, Perform
    <2> QED BY Zenon, <1>1, <1>3, <2>2
  <1>6. ASSUME NEW i \in Nexuses, NEW m \in Mreqs, NEW fn, NEW tag,
               target_mgmt_request(i, m, fn, tag)
        PROVE  Cause'
    <2>1. PICK todo \in SUBSET Cmds : todo = Selected(i, fn, tag) /\ todo \subseteq hlist
      <3>1. Selected(i, fn, tag) \subseteq hlist
        BY Zenon DEF Selected
      <3>2. hlist \subseteq Cmds
        BY Zenon DEF TypeOK
      <3> QED BY Zenon, <3>1, <3>2
    <2> DEFINE f == AbortFrame(m, todo)
    <2>2. f \in Frames /\ f.fn = "abort_task_set" /\ f.todo = todo
      BY Zenon, FrameTypes DEF AbortFrame, Frame
    <2>3. calls' = <<f>> /\ hlist' = hlist
      BY Zenon, <1>6, <2>1 DEF target_mgmt_request, listVars
    <2> HIDE DEF f
    <2> QED BY ZenonT(30), <1>2, <2>1, <2>2, <2>3
  <1>7. ASSUME NEW c \in Cmds, IoComplete(c) PROVE Cause'
    BY Zenon, <1>3, <1>7 DEF IoComplete
  <1>8. ASSUME NEW m \in Mreqs, TmTxDone(m) PROVE Cause'
    BY Zenon, <1>1, <1>8 DEF TmTxDone
  <1> QED BY ZenonT(30), <1>4, <1>5, <1>6, <1>7, <1>8

\* The end of a command, called with no abort_task_set below, while a connection
\* is not open or no other walk is under way.
LEMMA CauseDone ==
    ASSUME TypeOK, Links, daemon' = "up", NEW c \in hlist, NEW s \in Seq(Frames),
           iscsi_free_cmd_task(c, s), UNCHANGED queue,
           aborted' = {} => Absent(s, "abort_task_set"),
           ~AllFull \/ Absent(s, "post_cmd_done")
    PROVE  Cause'
  <1> DEFINE t == <<FreeFrame(c)>> \o s
             post == PostFrame(First(queue))
  <1>1. /\ post \in Frames /\ post.fn = "post_cmd_done" /\ post.cmd = First(queue)
        /\ FreeFrame(c) \in Frames /\ FreeFrame(c).fn = "iscsi_free_task"
    <2>1. c \in Cmds /\ First(queue) \in Cmds \cup {None}
      BY ZenonT(30), FirstType DEF TypeOK
    <2> QED BY ZenonT(30), <2>1, FrameTypes DEF PostFrame, FreeFrame, Frame
  <1>2. calls' = <<post>> \o t
    BY Zenon DEF iscsi_free_cmd_task, target_cmd_done, cmd_done
  <1>3. AllFull' => AllFull
    BY Zenon, FullKeptDone DEF iscsi_free_cmd_task
  <1>4. First(queue)' = First(queue)
    BY Zenon DEF First
  <1>5. t \in Seq(Frames)
    BY Zenon, <1>1, PushProps
  <1>6. /\ aborted' = {} => Absent(t, "abort_task_set")
        /\ AllFull => Absent(t, "post_cmd_done")
    BY ZenonT(30), <1>1, CausePush
  <1> HIDE DEF t, post
  <1>7. aborted' = {} => AbortFirst(calls', hlist')
    <2>1. aborted' = {} => Absent(<<post>> \o t, "abort_task_set")
      BY ZenonT(30), <1>1, <1>5, <1>6, CausePush
    <2> QED BY <1>2, <2>1, CauseAbsent, Zenon
  <1>8. AllFull => WalksAt(calls', First(queue))
    BY ZenonT(30), <1>1, <1>2, <1>5, <1>6, CausePush
  <1> QED BY ZenonT(30), <1>3, <1>4, <1>7, <1>8, CauseStep

\* A return to the caller.
LEMMA CauseReturn ==
    ASSUME TypeOK, Cause, daemon' = "up", calls # <<>>, calls' = Tail(calls),
           UNCHANGED <<aborted, queue>>, AllFull' => AllFull
    PROVE  Cause'
  <1>1. calls \in Seq(Frames)
    BY Zenon DEF TypeOK
  <1>2. First(queue)' = First(queue)
    BY Zenon DEF First
  <1>3. aborted = {} => AbortFirst(calls', hlist')
    <2>1. aborted = {} => Absent(Tail(calls), "abort_task_set")
      BY Zenon, <1>1, CausePop DEF Cause
    <2> QED BY Zenon, <2>1, CauseAbsent
  <1>4. aborted = {} /\ AllFull => WalksAt(calls', First(queue))
    BY Zenon, <1>1, CausePop DEF Cause
  <1> QED BY ZenonT(30), <1>2, <1>3, <1>4, CauseStep

\* post_cmd_done starts the head of the queue and moves on.
LEMMA CausePerform ==
    ASSUME TypeOK, Cause, PostCmdDonePerform
    PROVE  Cause'
  <1>1. PICK s \in Seq(Frames), c \in Cmds, q \in Cmds \cup {None} :
           /\ s = Tail(calls) /\ c = Head(calls).cmd /\ q = First(queue')
           /\ \/ calls' = <<PostFrame(q)>> \o s
              \/ calls' = <<IoDoneFrame(c)>> \o (<<PostFrame(q)>> \o s)
    <2>1. /\ calls # <<>> /\ calls \in Seq(Frames) /\ queue \in Seq(Cmds)
          /\ Head(calls).cmd # None /\ queue' = Tail(queue)
      BY ZenonT(30) DEF PostCmdDonePerform, Top, TypeOK
    <2>2. Tail(calls) \in Seq(Frames) /\ Head(calls).cmd \in Cmds
      BY ZenonT(30), <2>1, TailProps, FrameFields
    <2>3. queue # <<>>
      BY Zenon, <2>1 DEF PostCmdDonePerform, First
    <2>4. Second(queue) \in Cmds \cup {None} /\ Second(queue) = First(queue')
      BY ZenonT(30), <2>1, <2>3, FirstType DEF Second
    <2> QED BY ZenonT(30), <2>2, <2>4 DEF PostCmdDonePerform, Perform
  <1>2. /\ calls # <<>> /\ calls \in Seq(Frames) /\ Head(calls).fn = "post_cmd_done"
        /\ UNCHANGED <<aborted, hlist, conn, daemon>> /\ daemon = "up"
    BY ZenonT(30) DEF PostCmdDonePerform, Top, TypeOK, connVars
  <1> DEFINE t == <<PostFrame(q)>> \o s
  <1>3. /\ PostFrame(q) \in Frames /\ PostFrame(q).fn = "post_cmd_done" /\ PostFrame(q).cmd = q
        /\ IoDoneFrame(c) \in Frames /\ IoDoneFrame(c).fn = "target_cmd_io_done"
    BY Zenon, FrameTypes DEF PostFrame, IoDoneFrame, Frame
  <1>4. First(queue)' = q /\ (AllFull' <=> AllFull)
    BY Zenon, <1>1, <1>2 DEF First, AllFull
  <1>5. t \in Seq(Frames)
    BY Zenon, <1>3, PushProps
  <1>6. aborted = {} => Absent(s, "abort_task_set")
    BY ZenonT(30), <1>1, <1>2, CausePop DEF Cause
  <1>7. aborted = {} => Absent(t, "abort_task_set")
    BY Zenon, <1>3, <1>6, CausePush
  <1>8. aborted = {} /\ AllFull => WalksAt(t, q)
    <2>1. aborted = {} /\ AllFull => Absent(s, "post_cmd_done")
      BY Zenon, <1>1, <1>2, CausePop DEF Cause
    <2> QED BY Zenon, <1>3, <2>1, CausePush
  <1> HIDE DEF t
  <1>9. /\ aborted = {} => Absent(<<IoDoneFrame(c)>> \o t, "abort_task_set")
        /\ aborted = {} /\ AllFull => WalksAt(<<IoDoneFrame(c)>> \o t, q)
    BY ZenonT(30), <1>3, <1>5, <1>7, <1>8, CausePush
  <1>10. calls' = t \/ calls' = <<IoDoneFrame(c)>> \o t
    BY Zenon, <1>1 DEF t
  <1>11. aborted = {} => AbortFirst(calls', hlist')
    BY <1>7, <1>9, <1>10, CauseAbsent, Zenon
  <1>12. aborted = {} /\ AllFull => WalksAt(calls', q)
    BY <1>8, <1>9, <1>10, Zenon
  <1> QED BY ZenonT(30), <1>2, <1>4, <1>11, <1>12, CauseStep

\* One turn of abort_task_set that completes nothing.
LEMMA CauseAbort ==
    ASSUME TypeOK, Links, Cause, Top("abort_task_set"), daemon' = "up",
           UNCHANGED <<aborted, hlist, queue, conn>>,
           NEW c, calls' = <<AbortFrame(Head(calls).mreq, Head(calls).todo \ {c})>> \o Tail(calls)
    PROVE  Cause'
  <1>1. PICK s \in Seq(Frames), m \in Mreqs, todo \in SUBSET Cmds :
           /\ s = Tail(calls) /\ m = Head(calls).mreq /\ todo = Head(calls).todo
           /\ \A k \in 1..Len(s) : FALSE
    BY Zenon, AbortTop
  <1>2. PICK t \in SUBSET Cmds : t = todo \ {c}
    BY ZenonT(30)
  <1> DEFINE f == AbortFrame(m, t)
  <1>3. calls' = <<f>> \o s
    BY Zenon, <1>1, <1>2
  <1>4. f \in Frames /\ f.fn = "abort_task_set" /\ f.todo = t
    BY Zenon, FrameTypes DEF AbortFrame, Frame
  <1>5. Absent(s, "abort_task_set") /\ Absent(s, "post_cmd_done")
    BY Zenon, <1>1 DEF Absent
  <1>6. aborted = {} => f.todo \subseteq hlist'
    <2>1. calls # <<>> /\ calls \in Seq(Frames) /\ Head(calls).fn = "abort_task_set"
      BY Zenon DEF Top, TypeOK
    <2>2. aborted = {} => Head(calls).todo \subseteq hlist
      BY ZenonT(30), <2>1, CausePop DEF Cause
    <2>3. f.todo \subseteq Head(calls).todo
      BY <1>1, <1>2, <1>4, Zenon
    <2> QED BY ZenonT(30), <2>2, <2>3
  <1> HIDE DEF f
  <1>7. aborted = {} => AbortFirst(calls', hlist')
    <2>1. ASSUME aborted = {} PROVE AbortFirst(<<f>> \o s, hlist')
      <3>1. f.todo \subseteq hlist'
        BY Zenon, <1>6, <2>1
      <3> QED BY ZenonT(30), <1>4, <1>5, <3>1, CausePush
    <2> QED BY <1>3, <2>1, Zenon
  <1>8. WalksAt(calls', First(queue)')
    <2>1. WalksAt(s, First(queue)')
      BY Zenon, <1>5, CauseAbsent
    <2>2. WalksAt(<<f>> \o s, First(queue)')
      BY ZenonT(30), <1>4, <2>1, CausePush
    <2> QED BY <1>3, <2>2, Zenon
  <1> QED BY Zenon, <1>7, <1>8, CauseStep

\* A return that changes no list.
LEMMA CauseLeave ==
    ASSUME TypeOK, Cause, daemon' = "up", calls # <<>>, Return,
           UNCHANGED <<aborted, queue, conn>>
    PROVE  Cause'
  <1>1. AllFull' => AllFull
    BY Zenon DEF AllFull
  <1> QED BY Zenon, <1>1, CauseReturn DEF Return

\* What Cause says of the top frame.
LEMMA CauseTop ==
    ASSUME TypeOK, Cause, NEW fn, Top(fn)
    PROVE  /\ calls # <<>> /\ calls \in Seq(Frames) /\ daemon = "up" /\ Head(calls).fn = fn
           /\ Tail(calls) \in Seq(Frames) /\ Head(calls) \in Frames /\ Head(calls) = calls[1]
           /\ 1 \in 1..Len(calls)
           /\ aborted = {} => Absent(Tail(calls), "abort_task_set")
           /\ aborted = {} /\ fn # "abort_task_set" => Absent(calls, "abort_task_set")
           /\ aborted = {} /\ fn = "abort_task_set" => Head(calls).todo \subseteq hlist
           /\ aborted = {} /\ AllFull /\ fn = "post_cmd_done" => Head(calls).cmd = First(queue)
  <1>1. calls # <<>> /\ calls \in Seq(Frames) /\ daemon = "up" /\ Head(calls).fn = fn
    BY ZenonT(30) DEF Top, TypeOK
  <1>2. /\ Tail(calls) \in Seq(Frames) /\ Head(calls) \in Frames /\ Head(calls) = calls[1]
        /\ 1 \in 1..Len(calls)
    BY SMTT(30), <1>1, TailProps
  <1>3. aborted = {} => /\ Absent(Tail(calls), "abort_task_set")
                        /\ fn # "abort_task_set" => Absent(calls, "abort_task_set")
                        /\ fn = "abort_task_set" => Head(calls).todo \subseteq hlist
    BY Zenon, <1>1, CausePop DEF Cause
  <1>4. aborted = {} /\ AllFull /\ fn = "post_cmd_done" => Head(calls).cmd = First(queue)
    BY Zenon, <1>1, CausePop DEF Cause
  <1> QED BY ZenonT(30), <1>1, <1>2, <1>3, <1>4

\* target_cmd_io_done.
LEMMA CauseIoDone ==
    ASSUME IInv, TypeOK, Links, Cause, target_cmd_io_done
    PROVE  Cause'
  <1>1. /\ calls # <<>> /\ daemon = "up" /\ Head(calls) = calls[1] /\ 1 \in 1..Len(calls)
        /\ Tail(calls) \in Seq(Frames) /\ Head(calls) \in Frames
        /\ Head(calls).fn = "target_cmd_io_done"
        /\ aborted = {} => Absent(Tail(calls), "abort_task_set")
    BY Zenon, CauseTop DEF target_cmd_io_done
  <1>2. PICK c \in Cmds : c = Head(calls).cmd
    BY ZenonT(30), <1>1, FrameFields
  <1>3. PICK s \in Seq(Frames) : s = Tail(calls)
    BY <1>1, Zenon
  <1>4. CASE Return /\ UNCHANGED <<cmdVars, queue, connVars, daemon>>
    BY ZenonT(30), <1>1, <1>4, CauseLeave DEF cmdVars, connVars
  <1>5. CASE /\ conn[itn[c]] # "full" /\ c \in hlist /\ iscsi_free_cmd_task(c, s)
             /\ UNCHANGED <<cmdVars, queue>>
    <2>1. itn[c] \in Nexuses
      BY <1>5 DEF Links, CommandsOK, TypeOK
    <2>2. ~AllFull
      BY ZenonT(30), <1>5, <2>1 DEF AllFull
    <2>3. UNCHANGED aborted /\ daemon' = "up" /\ UNCHANGED queue
      BY Zenon, <1>1, <1>5 DEF cmdVars, iscsi_free_cmd_task, target_cmd_done, cmd_done
    <2>4. aborted' = {} => Absent(s, "abort_task_set")
      BY ZenonT(30), <1>1, <1>3, <2>3
    <2> QED BY ZenonT(30), <1>5, <2>2, <2>3, <2>4, CauseDone
  <1>6. CASE conn[itn[c]] # "full" /\ Crash
    <2>1. ASSUME aborted = {} PROVE ~AllFull
      <3>1. c \in Started
        BY ZenonT(30), <1>1, <1>2, <2>1 DEF IInv, Places, StackOK
      <3>2. itn[c] \in Nexuses
        BY <3>1 DEF Started, Links, CommandsOK, TypeOK
      <3> QED BY ZenonT(30), <1>6, <3>2 DEF AllFull
    <2> QED BY ZenonT(30), <1>6, <2>1, CauseCrash
  <1> QED BY Zenon, <1>2, <1>3, <1>4, <1>5, <1>6 DEF target_cmd_io_done

\* iscsi_free_task.
LEMMA CauseFreeTask ==
    ASSUME TypeOK, Links, Cause, iscsi_free_task
    PROVE  Cause'
  <1>1. /\ calls # <<>> /\ calls \in Seq(Frames) /\ daemon = "up" /\ Head(calls) \in Frames
        /\ Head(calls).fn = "iscsi_free_task"
    BY Zenon, CauseTop DEF iscsi_free_task
  <1>2. PICK c \in Cmds : c = Head(calls).cmd
    BY Zenon, <1>1, FrameFields
  <1>3. c \in processed
    <2>1. FrameIn(Head(calls), Gone, Served, Closed, Asked)
      BY ZenonT(30), <1>1, StackPop DEF Links, FramesOK
    <2> QED BY Zenon, <1>1, <1>2, <2>1 DEF FrameIn, Gone
  <1>4. PICK i \in Nexuses : i = itn[c]
    BY SMTT(30), <1>3 DEF Links, CommandsOK, TypeOK
  <1>5. /\ conn_put(i) /\ calls' = Tail(calls) /\ UNCHANGED <<aborted, queue>>
        /\ daemon' = "up"
    BY Zenon, <1>1, <1>2, <1>4 DEF iscsi_free_task, Return, listVars
  <1>6. AllFull' => AllFull
    BY Zenon, <1>5, FullKept
  <1> QED BY Zenon, <1>1, <1>5, <1>6, CauseReturn

\* One step of conn_close.
LEMMA CauseCloseStep ==
    ASSUME IInv, TypeOK, Links, Cause, ConnCloseStep
    PROVE  Cause'
  <1>1. /\ calls # <<>> /\ calls \in Seq(Frames) /\ daemon = "up" /\ Head(calls) \in Frames
        /\ Head(calls).fn = "conn_close"
        /\ aborted = {} => Absent(calls, "abort_task_set")
    BY SMTT(30), CauseTop DEF ConnCloseStep
  <1>2. PICK i \in Nexuses : i = Head(calls).itn /\ conn[i] = "closed"
    <2>1. FrameIn(Head(calls), Gone, Served, Closed, Asked)
      BY ZenonT(30), <1>1, StackPop DEF Links, FramesOK
    <2> QED BY Zenon, <1>1, <2>1 DEF FrameIn, Closed
  <1>3. ~AllFull
    BY Zenon, <1>2 DEF AllFull
  <1>4. PICK s \in Seq(Frames) : s = calls
    BY ZenonT(30), <1>1
  <1>5. ASSUME NEW c \in tx, c \in hlist, iscsi_free_cmd_task(c, s), UNCHANGED <<cmdVars, queue>>
        PROVE  Cause'
    <2>1. UNCHANGED aborted /\ daemon' = "up" /\ UNCHANGED queue
      BY ZenonT(30), <1>1, <1>5 DEF cmdVars, iscsi_free_cmd_task, target_cmd_done, cmd_done
    <2>2. aborted' = {} => Absent(s, "abort_task_set")
      BY ZenonT(30), <1>1, <1>4, <2>1
    <2> QED BY ZenonT(30), <1>3, <1>5, <2>1, <2>2, CauseDone
  <1>6. ASSUME NEW c \in tx, c \notin hlist, Crash PROVE Cause'
    BY ZenonT(30), <1>3, <1>6, CauseCrash
  <1>7. ASSUME NEW m \in Mreqs, tmItn[m] = i, FreeTm(m),
               UNCHANGED <<cmdVars, listVars, qVars, calls, daemon>>
        PROVE  Cause'
    <2>1. conn_put(i)
      BY Zenon, <1>7 DEF FreeTm
    <2>2. ~AllFull'
      BY ZenonT(30), <1>3, <2>1, FullKept
    <2>3. aborted' = {} => AbortFirst(calls', hlist')
      BY ZenonT(30), <1>1, <1>7, CauseAbsent DEF cmdVars
    <2> QED BY ZenonT(30), <1>1, <1>7, <2>2, <2>3, CauseStep
  <1>8. CASE conn_put(i) /\ Return /\ UNCHANGED <<cmdVars, listVars, qVars, tm, daemon>>
    <2>1. AllFull' => AllFull
      BY ZenonT(30), <1>8, FullKept
    <2>2. calls' = Tail(calls) /\ UNCHANGED <<aborted, queue>> /\ daemon' = "up"
      BY Zenon, <1>1, <1>8 DEF Return, cmdVars, listVars
    <2> QED BY ZenonT(30), <1>1, <2>1, <2>2, CauseReturn
  <1> QED BY ZenonT(30), <1>2, <1>4, <1>5, <1>6, <1>7, <1>8 DEF ConnCloseStep

\* post_cmd_done meets a stale entry, or its caller has freed it.
LEMMA CauseStale ==
    ASSUME Counting, IInv, TypeOK, Links, Cause, PostCmdDoneStale
    PROVE  Cause'
  <1>1. PICK c : c = Head(calls).cmd /\ c # None
    BY Zenon DEF PostCmdDoneStale
  <1>2. /\ calls # <<>> /\ daemon = "up"
        /\ aborted = {} /\ AllFull => c = First(queue)
    BY Zenon, <1>1, CauseTop DEF PostCmdDoneStale
  <1>3. CASE (c # First(queue) \/ itn[c] \notin nexus) /\ Crash
    <2>1. ASSUME aborted = {}, AllFull PROVE FALSE
      <3>1. c = First(queue) /\ itn[c] \notin nexus
        BY ZenonT(30), <1>2, <1>3, <2>1
      <3>2. queue \in Seq(Cmds) /\ queue # <<>> /\ c = Head(queue)
        BY ZenonT(30), <1>1, <3>1 DEF First, TypeOK
      <3>3. c = queue[1] /\ 1 \in 1..Len(queue)
        BY SMTT(30), <3>2, TailProps
      <3>4. c \in hlist
        BY Zenon, <2>1, <3>3 DEF IInv, Places, QueueOK
      <3>5. itn[c] \in nexus
        BY Zenon, <3>4, LinksDangle DEF NothingDangles, NexusLivesWithConn
      <3> QED BY ZenonT(30), <3>1, <3>5
    <2> QED BY ZenonT(30), <1>3, <2>1, CauseCrash
  <1>4. CASE Return /\ UNCHANGED <<cmdVars, listVars, qVars, tm, connVars, daemon>>
    BY Zenon, <1>2, <1>4, CauseLeave DEF cmdVars, listVars, connVars
  <1> QED BY Zenon, <1>1, <1>3, <1>4 DEF PostCmdDoneStale

\* The turns of abort_task_set.
LEMMA CauseAborts ==
    ASSUME TypeOK, Links, Cause, AbortProcessed \/ AbortQueued \/ AbortStale
    PROVE  Cause'
  <1>1. /\ Top("abort_task_set") /\ daemon = "up"
        /\ aborted = {} => Head(calls).todo \subseteq hlist
    <2>1. Top("abort_task_set")
      BY ZenonT(30) DEF AbortProcessed, AbortQueued, AbortStale
    <2> QED BY Zenon, <2>1, CauseTop
  <1>2. ASSUME NEW c, UNCHANGED <<aborted, hlist, queue, conn, daemon>>,
               calls' = <<AbortFrame(Head(calls).mreq, Head(calls).todo \ {c})>> \o Tail(calls)
        PROVE  Cause'
    BY <1>1, <1>2, CauseAbort, Zenon
  <1>3. CASE AbortProcessed
    BY ZenonT(30), <1>2, <1>3 DEF AbortProcessed, listVars, connVars
  <1>4. CASE AbortQueued
    <2>1. aborted' # {} /\ daemon' = "up"
      BY ZenonT(30), <1>1, <1>4 DEF AbortQueued, cmd_done
    <2> QED BY Zenon, <2>1, CauseStep
  <1>5. ASSUME NEW c \in Head(calls).todo \ hlist, Crash PROVE Cause'
    <2>1. aborted # {}
      BY Zenon, <1>1, <1>5
    <2> QED BY Zenon, <1>5, <2>1, CauseCrash
  <1>6. CASE AbortStale
    BY ZenonT(30), <1>2, <1>5, <1>6 DEF AbortStale, cmdVars, listVars, connVars
  <1> QED BY Zenon, <1>3, <1>4, <1>6

\* The end of target_mgmt_request.
LEMMA CauseAbortReturn ==
    ASSUME TypeOK, Links, Cause, AbortReturn
    PROVE  Cause'
  <1>1. PICK m \in Mreqs : m = Head(calls).mreq /\ tmItn[m] # None
    BY ZenonT(30), AbortTop DEF AbortReturn
  <1>2. PICK i \in Nexuses : i = tmItn[m]
    BY ZenonT(30), <1>1 DEF TypeOK
  <1>3. /\ calls # <<>> /\ calls' = Tail(calls) /\ UNCHANGED <<aborted, queue>>
        /\ daemon' = "up"
    BY Zenon DEF AbortReturn, Return, Top, cmdVars, listVars
  <1>4. conn_put(i) \/ UNCHANGED conn
    BY Zenon, <1>1, <1>2 DEF AbortReturn, mgmt_end_notify, FreeTm, connVars
  <1>5. AllFull' => AllFull
    BY Zenon, <1>4, FullKept DEF AllFull
  <1> QED BY Zenon, <1>3, <1>5, CauseReturn

\* The handlers.
LEMMA CauseHandler ==
    ASSUME Counting, IInv, TypeOK, Links, Cause, Handler
    PROVE  Cause'
  <1>1. CASE PostCmdDoneReturn
    BY Zenon, <1>1, CauseLeave DEF PostCmdDoneReturn, Top, cmdVars, listVars, connVars
  <1> QED BY ZenonT(30), <1>1, CauseIoDone, CauseFreeTask, CauseCloseStep, CausePerform, CauseStale,
             CauseAborts, CauseAbortReturn DEF Handler

\* The response to a command has been sent.
LEMMA CauseTxDone ==
    ASSUME IInv, TypeOK, Links, Cause, NEW c \in Cmds, CmdTxDone(c)
    PROVE  Cause'
  <1>1. CASE c \in hlist /\ iscsi_free_cmd_task(c, <<>>) /\ UNCHANGED <<cmdVars, queue, io>>
    <2>1. PICK s \in Seq(Frames) : s = <<>>
      <3>1. <<>> \in Seq(Frames)
        BY SMTT(30)
      <3> QED BY <3>1, Zenon
    <2>2. iscsi_free_cmd_task(c, s) /\ Absent(s, "abort_task_set") /\ Absent(s, "post_cmd_done")
      BY ZenonT(30), <1>1, <2>1, CauseEmpty
    <2>3. daemon' = "up" /\ UNCHANGED queue
      BY Zenon, <1>1 DEF CmdTxDone, Idle, iscsi_free_cmd_task, target_cmd_done, cmd_done
    <2> QED BY ZenonT(30), <1>1, <2>2, <2>3, CauseDone
  <1>2. CASE c \notin hlist /\ c \in tx /\ Crash
    <2>1. aborted # {}
      BY Zenon, <1>2 DEF IInv, Places, ListsOK, Started
    <2> QED BY ZenonT(30), <1>2, <2>1, CauseCrash
  <1> QED BY Zenon, <1>1, <1>2 DEF CmdTxDone

\* Every step.
LEMMA CauseNext ==
    ASSUME Counting, IInv, IInv', Links, Cause, [Next]_vars
    PROVE  Cause'
  <1>1. TypeOK /\ TypeOK'
    BY Zenon DEF IInv
  <1>2. CASE Handler
    BY Zenon, <1>1, <1>2, CauseHandler
  <1>3. ASSUME NEW c \in Cmds, CmdTxDone(c) PROVE Cause'
    BY Zenon, <1>1, <1>3, CauseTxDone
  <1>4. CASE \/ \E i \in Nexuses : SessionCreate(i) \/ ForceClose(i) \/ ConnClose(i)
             \/ \E c \in Cmds, i \in Nexuses, a \in Attrs : target_cmd_perform(c, i, a)
             \/ \E i \in Nexuses, m \in Mreqs, f \in Functions, tag \in Cmds :
                   target_mgmt_request(i, m, f, tag)
             \/ \E c \in Cmds : IoComplete(c)
             \/ \E m \in Mreqs : TmTxDone(m)
    <2>1. calls = <<>> /\ daemon' = "up"
      BY ZenonT(30), <1>4 DEF SessionCreate, ForceClose, ConnClose, target_cmd_perform,
                  target_mgmt_request, IoComplete, TmTxDone, Idle
    <2> QED BY ZenonT(30), <1>1, <1>4, <2>1, CauseEvent
  <1>5. CASE UNCHANGED vars
    <2>1. UNCHANGED <<aborted, calls, hlist, queue, conn, daemon>>
      BY Zenon, <1>5 DEF vars, cmdVars, listVars, connVars
    <2>2. First(queue)' = First(queue) /\ (AllFull' <=> AllFull)
      BY Zenon, <2>1 DEF First, AllFull
    <2>3. CrashHasCause'
      BY Zenon, <2>1 DEF Cause, CrashHasCause
    <2> QED BY Zenon, <2>1, <2>2, <2>3 DEF Cause
  <1> QED BY ZenonT(30), <1>2, <1>3, <1>4, <1>5 DEF Next, Environment, Arrive, Completion
=============================================================================
