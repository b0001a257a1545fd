--------------------------- MODULE CmdQueueLinks ----------------------------
(***************************************************************************)
(* The references between the tasks, connections, nexuses and requests of  *)
(* CmdQueue: the invariant of the call stack and of the reference counts,  *)
(* and that starting, completing and freeing a command keep it.            *)
(***************************************************************************)
EXTENDS CmdQueue, TLAPS

-----------------------------------------------------------------------------
\* Putting an element in front of a sequence: the call of a function.
LEMMA PushProps ==
    ASSUME NEW S, NEW f \in S, NEW s \in Seq(S)
    PROVE  /\ <<f>> \o s \in Seq(S)
           /\ <<f>> \o s # <<>>
           /\ Len(<<f>> \o s) = Len(s) + 1
           /\ (<<f>> \o s)[1] = f
           /\ \A k \in 1..Len(s) : (<<f>> \o s)[k + 1] = s[k]
           /\ \A k \in 2..Len(s) + 1 : (<<f>> \o s)[k] = s[k - 1]
  OBVIOUS

\* Removing the first element: the return of a function.
LEMMA TailProps ==
    ASSUME NEW S, NEW s \in Seq(S), s # <<>>
    PROVE  /\ Head(s) \in S
           /\ Head(s) = s[1]
           /\ Tail(s) \in Seq(S)
           /\ Len(Tail(s)) = Len(s) - 1
           /\ Len(s) \in Nat \ {0}
           /\ \A k \in 1..Len(Tail(s)) : Tail(s)[k] = s[k + 1]
  OBVIOUS

\* The frames the actions push are frames.
LEMMA FrameTypes ==
    /\ \A c \in Cmds \cup {None} : PostFrame(c) \in Frames
    /\ \A c \in Cmds : FreeFrame(c) \in Frames /\ IoDoneFrame(c) \in Frames
    /\ \A m \in Mreqs, todo \in SUBSET Cmds : AbortFrame(m, todo) \in Frames
  BY Zenon, NoneAssumption
  DEF PostFrame, FreeFrame, IoDoneFrame, AbortFrame, Frame, Frames, FrameNames

\* What a frame holds: by name, the pointer the function works on is not NULL.
LEMMA FrameFields ==
    ASSUME NEW f \in Frames
    PROVE  /\ f.cmd \in Cmds \cup {None}
           /\ f.todo \in SUBSET Cmds
           /\ f.fn \in {"iscsi_free_task", "target_cmd_io_done"} => f.cmd \in Cmds
           /\ f.fn = "abort_task_set" => f.mreq \in Mreqs
  BY Zenon DEF Frames

\* The first and second command of the queue, or None.
LEMMA FirstType ==
    ASSUME NEW s \in Seq(Cmds)
    PROVE  First(s) \in Cmds \cup {None} /\ (s # <<>> => Second(s) \in Cmds \cup {None})
  BY Zenon, TailProps DEF First, Second

-----------------------------------------------------------------------------
\* What the proofs use of Cardinality.  The lemmas that count assume it;
\* CmdQueueProofs derives it from FiniteSetTheorems (CountingHolds).
Counting ==
    /\ IsFiniteSet({}) /\ Cardinality({}) = 0
    /\ \A x : IsFiniteSet({x}) /\ Cardinality({x}) = 1
    /\ \A S : IsFiniteSet(S) =>
          /\ Cardinality(S) \in Nat
          /\ Cardinality(S) = 0 <=> S = {}
          /\ \A T \in SUBSET S : IsFiniteSet(T) /\ Cardinality(T) <= Cardinality(S)
          /\ \A x : /\ IsFiniteSet(S \cup {x})
                    /\ IsFiniteSet(S \ {x})
                    /\ x \notin S => Cardinality(S \cup {x}) = Cardinality(S) + 1
                    /\ x \in S => Cardinality(S \ {x}) = Cardinality(S) - 1

\* The empty set has no elements, and only the empty set.
LEMMA CountEmpty ==
    ASSUME Counting
    PROVE  /\ IsFiniteSet({}) /\ Cardinality({}) = 0
           /\ \A S : IsFiniteSet(S) => (Cardinality(S) = 0 <=> S = {})
  BY Zenon DEF Counting

\* A singleton has one.
LEMMA CountOne ==
    ASSUME Counting, NEW x
    PROVE  IsFiniteSet({x}) /\ Cardinality({x}) = 1
  BY Zenon DEF Counting

\* A finite set has a natural number of elements.
LEMMA CountType ==
    ASSUME Counting, NEW S, IsFiniteSet(S)
    PROVE  Cardinality(S) \in Nat
  BY Zenon DEF Counting

\* A subset has no more.
LEMMA CountSubset ==
    ASSUME Counting, NEW S, IsFiniteSet(S), NEW T \in SUBSET S
    PROVE  IsFiniteSet(T) /\ Cardinality(T) <= Cardinality(S)
  BY Zenon DEF Counting

\* A new element counts.
LEMMA CountAdd ==
    ASSUME Counting, NEW S, IsFiniteSet(S), NEW x, x \notin S
    PROVE  IsFiniteSet(S \cup {x}) /\ Cardinality(S \cup {x}) = Cardinality(S) + 1
  BY Zenon DEF Counting

\* So does one that goes.
LEMMA CountRemove ==
    ASSUME Counting, NEW S, IsFiniteSet(S), NEW x \in S
    PROVE  IsFiniteSet(S \ {x}) /\ Cardinality(S \ {x}) = Cardinality(S) - 1
  BY Zenon DEF Counting

-----------------------------------------------------------------------------
(* The call stack.                                                         *)

\* A frame of a stack where iscsi_free_task works on commands of G,
\* target_cmd_io_done on commands of D, conn_close on nexuses of L and
\* abort_task_set for requests of W.
FrameIn(f, G, D, L, W) ==
    /\ f.fn = "iscsi_free_task" => f.cmd \in G
    /\ f.fn = "target_cmd_io_done" => f.cmd \in D
    /\ f.fn = "conn_close" => f.itn \in L
    /\ f.fn = "abort_task_set" => f.mreq \in W

\* What a frame f above a frame g does not share with it: a command that is
\* freed is in no other frame, one of H is completed once, and one that is
\* completed inside abort_task_set is in U.
Apart(f, g, U, H) ==
    /\ f.fn = "iscsi_free_task" /\ g.fn \in {"iscsi_free_task", "target_cmd_io_done"}
          => f.cmd # g.cmd
    /\ f.fn = "target_cmd_io_done" /\ g.fn = "iscsi_free_task" => f.cmd # g.cmd
    /\ f.fn = "target_cmd_io_done" /\ g.fn = "target_cmd_io_done" /\ f.cmd \in H
          => f.cmd # g.cmd
    /\ f.fn = "target_cmd_io_done" /\ g.fn = "abort_task_set" => f.cmd \in U

\* The event loop calls conn_close and abort_task_set; no other frame is below.
Last(f) == f.fn \in {"conn_close", "abort_task_set"}

Stack(s, G, D, L, W, U, H) ==
    /\ \A k \in 1..Len(s) : FrameIn(s[k], G, D, L, W)
    /\ \A j, k \in 1..Len(s) : j < k => Apart(s[j], s[k], U, H) /\ ~Last(s[j])

\* What each frame of a stack and each command of its io_done frames keep.
FramesIn(s, G, D, L, W) == \A k \in 1..Len(s) : FrameIn(s[k], G, D, L, W)

StillUnasked(s, U, U1) ==
    \A k \in 1..Len(s) : s[k].fn = "target_cmd_io_done" /\ s[k].cmd \in U => s[k].cmd \in U1

\* A stack stays one when its commands stay in the sets.
LEMMA StackKept ==
    ASSUME NEW s \in Seq(Frames),
           NEW G, NEW D, NEW L, NEW W, NEW U, NEW H,
           NEW G1, NEW D1, NEW L1, NEW W1, NEW U1, NEW H1,
           Stack(s, G, D, L, W, U, H),
           FramesIn(s, G1, D1, L1, W1), StillUnasked(s, U, U1), H1 \subseteq H
    PROVE  Stack(s, G1, D1, L1, W1, U1, H1)
  <1> SUFFICES ASSUME NEW j \in 1..Len(s), NEW k \in 1..Len(s), j < k
               PROVE  Apart(s[j], s[k], U1, H1) /\ ~Last(s[j])
    BY Zenon DEF Stack, FramesIn
  <1>1. Apart(s[j], s[k], U, H) /\ ~Last(s[j])
    BY Zenon DEF Stack
  <1> QED BY Zenon, <1>1 DEF Apart, StillUnasked

\* A call.
LEMMA StackPush ==
    ASSUME NEW s \in Seq(Frames), NEW f \in Frames,
           NEW G, NEW D, NEW L, NEW W, NEW U, NEW H,
           Stack(s, G, D, L, W, U, H), FrameIn(f, G, D, L, W),
           \A k \in 1..Len(s) : Apart(f, s[k], U, H) /\ ~Last(f)
    PROVE  Stack(<<f>> \o s, G, D, L, W, U, H) /\ <<f>> \o s \in Seq(Frames)
  <1> DEFINE t == <<f>> \o s
  <1>1. /\ t \in Seq(Frames) /\ Len(t) = Len(s) + 1 /\ t[1] = f /\ Len(s) \in Nat
        /\ \A k \in 2..Len(s) + 1 : t[k] = s[k - 1]
    BY PushProps
  <1> HIDE DEF t
  <1>2. ASSUME NEW k \in 1..Len(t) PROVE FrameIn(t[k], G, D, L, W)
    <2>1. CASE k = 1
      BY Zenon, <1>1, <2>1
    <2>2. CASE k # 1
      <3>1. k - 1 \in 1..Len(s) /\ t[k] = s[k - 1]
        BY <1>1, <2>2
      <3> QED BY Zenon, <3>1 DEF Stack
    <2> QED BY Zenon, <2>1, <2>2
  <1>3. ASSUME NEW j \in 1..Len(t), NEW k \in 1..Len(t), j < k
        PROVE  Apart(t[j], t[k], U, H) /\ ~Last(t[j])
    <2>1. k - 1 \in 1..Len(s) /\ t[k] = s[k - 1]
      BY <1>1, <1>3
    <2>2. CASE j = 1
      BY Zenon, <1>1, <2>1, <2>2
    <2>3. CASE j # 1
      <3>1. j - 1 \in 1..Len(s) /\ t[j] = s[j - 1] /\ j - 1 < k - 1
        BY SMTT(30), <1>1, <1>3, <2>3
      <3> QED BY Zenon, <2>1, <3>1 DEF Stack
    <2> QED BY Zenon, <2>2, <2>3
  <1>4. Stack(t, G, D, L, W, U, H)
    BY Zenon, <1>2, <1>3 DEF Stack
  <1> QED BY Zenon, <1>1, <1>4 DEF t

\* A return.
LEMMA StackPop ==
    ASSUME NEW s \in Seq(Frames), s # <<>>,
           NEW G, NEW D, NEW L, NEW W, NEW U, NEW H,
           Stack(s, G, D, L, W, U, H)
    PROVE  /\ Stack(Tail(s), G, D, L, W, U, H) /\ Tail(s) \in Seq(Frames)
           /\ FrameIn(Head(s), G, D, L, W) /\ Head(s) \in Frames
           /\ \A k \in 1..Len(Tail(s)) : Apart(Head(s), Tail(s)[k], U, H) /\ ~Last(Head(s))
           /\ Last(Head(s)) => Tail(s) = <<>>
  <1> DEFINE t == Tail(s)
  <1>1. /\ t \in Seq(Frames) /\ Len(t) = Len(s) - 1 /\ Head(s) = s[1] /\ Head(s) \in Frames
        /\ Len(s) \in Nat \ {0}
        /\ \A k \in 1..Len(t) : t[k] = s[k + 1]
    BY Zenon, TailProps
  <1>2. t = <<>> \/ 1 \in 1..Len(t)
    BY <1>1
  <1> HIDE DEF t
  <1>3. \A k \in 1..Len(t) : k + 1 \in 1..Len(s) /\ 1 < k + 1 /\ 1 \in 1..Len(s)
    BY <1>1
  <1>4. FrameIn(Head(s), G, D, L, W)
    <2>1. 1 \in 1..Len(s)
      BY SMTT(30), <1>1
    <2> QED BY Zenon, <1>1, <2>1 DEF Stack
  <1>5. \A k \in 1..Len(t) : FrameIn(t[k], G, D, L, W)
    BY Zenon, <1>1, <1>3 DEF Stack
  <1>6. \A k \in 1..Len(t) : Apart(Head(s), t[k], U, H) /\ ~Last(Head(s))
    BY Zenon, <1>1, <1>3 DEF Stack
  <1>7. ASSUME NEW j \in 1..Len(t), NEW k \in 1..Len(t), j < k
        PROVE  Apart(t[j], t[k], U, H) /\ ~Last(t[j])
    <2>1. j + 1 < k + 1 /\ t[j] = s[j + 1] /\ t[k] = s[k + 1]
      BY <1>1, <1>7
    <2> QED BY Zenon, <1>3, <2>1 DEF Stack
  <1>8. Stack(t, G, D, L, W, U, H)
    BY Zenon, <1>5, <1>7 DEF Stack
  <1>9. Last(Head(s)) => t = <<>>
    BY Zenon, <1>2, <1>6
  <1> QED BY Zenon, <1>1, <1>4, <1>6, <1>8, <1>9 DEF t

\* No frame is a stack, and any one frame.
LEMMA StackSmall ==
    ASSUME NEW G, NEW D, NEW L, NEW W, NEW U, NEW H
    PROVE  /\ Stack(<<>>, G, D, L, W, U, H)
           /\ \A f \in Frames : FrameIn(f, G, D, L, W) => Stack(<<f>>, G, D, L, W, U, H)
  <1>1. Stack(<<>>, G, D, L, W, U, H)
    BY DEF Stack
  <1>2. ASSUME NEW f \in Frames, FrameIn(f, G, D, L, W)
        PROVE  Stack(<<f>>, G, D, L, W, U, H)
    <2>1. \A k \in 1..Len(<<f>>) : k = 1 /\ <<f>>[k] = f
      OBVIOUS
    <2>2. \A j, k \in 1..Len(<<f>>) : ~(j < k)
      BY SMTT(30), <2>1
    <2> QED BY Zenon, <1>2, <2>1, <2>2 DEF Stack
  <1> QED BY Zenon, <1>1, <1>2

\* conn_close(i) is under way.
Closing(s, i) == \E k \in 1..Len(s) : s[k].fn = "conn_close" /\ s[k].itn = i

\* Calls and returns of conn_close.
LEMMA ClosingPush ==
    ASSUME NEW s \in Seq(Frames), NEW f \in Frames, NEW i
    PROVE  Closing(<<f>> \o s, i) <=> Closing(s, i) \/ (f.fn = "conn_close" /\ f.itn = i)
  <1> DEFINE t == <<f>> \o s
  <1>1. /\ Len(t) = Len(s) + 1 /\ t[1] = f /\ Len(s) \in Nat
        /\ \A k \in 2..Len(s) + 1 : t[k] = s[k - 1]
        /\ \A k \in 1..Len(s) : t[k + 1] = s[k]
    BY SMTT(30), PushProps
  <1> HIDE DEF t
  <1>2. \A k \in 1..Len(s) : k + 1 \in 1..Len(t)
    BY SMTT(30), <1>1
  <1>3. 1 \in 1..Len(t)
    BY <1>1
  <1>4. \A k \in 1..Len(t) : k = 1 \/ (k - 1 \in 1..Len(s) /\ t[k] = s[k - 1])
    BY SMTT(30), <1>1
  <1>5. Closing(t, i) <=> Closing(s, i) \/ (f.fn = "conn_close" /\ f.itn = i)
    BY <1>1, <1>2, <1>3, <1>4 DEF Closing
  <1> QED BY Zenon, <1>5 DEF t

\* The same for a return.
LEMMA ClosingPop ==
    ASSUME NEW s \in Seq(Frames), s # <<>>, NEW i
    PROVE  Closing(s, i)
              <=> Closing(Tail(s), i) \/ (Head(s).fn = "conn_close" /\ Head(s).itn = i)
  <1> DEFINE t == Tail(s)
  <1>1. /\ Len(t) = Len(s) - 1 /\ Head(s) = s[1] /\ Len(s) \in Nat \ {0}
        /\ \A k \in 1..Len(t) : t[k] = s[k + 1]
    BY Zenon, TailProps
  <1> HIDE DEF t
  <1>2. \A k \in 1..Len(t) : k + 1 \in 1..Len(s)
    BY <1>1
  <1>3. 1 \in 1..Len(s)
    BY <1>1
  <1>4. \A k \in 1..Len(s) : k = 1 \/ (k - 1 \in 1..Len(t) /\ s[k] = t[k - 1])
    <2> SUFFICES ASSUME NEW k \in 1..Len(s), k # 1
                 PROVE  k - 1 \in 1..Len(t) /\ s[k] = t[k - 1]
      BY Zenon
    <2>1. k - 1 \in 1..Len(t) /\ (k - 1) + 1 = k
      BY <1>1
    <2> QED BY Zenon, <1>1, <2>1
  <1>5. Closing(s, i) <=> Closing(t, i) \/ (s[1].fn = "conn_close" /\ s[1].itn = i)
    BY <1>1, <1>2, <1>3, <1>4 DEF Closing
  <1> QED BY Zenon, <1>1, <1>5 DEF t

-----------------------------------------------------------------------------
(* The references on a connection.                                         *)

CmdsOf(i) == {c \in alive : itn[c] = i}

TmsOf(i) == {m \in Mreqs : tmItn[m] = i}

\* The connection has the reference it was created with.
Open(i) == conn[i] \in {"full", "close"} \/ Closing(calls, i)

InitRef(i) == IF Open(i) THEN 1 ELSE 0

\* RefcountExact, and the connection and its nexus go with the last reference.
RefOK ==
    \A i \in Nexuses :
        /\ refcount[i] = Cardinality(CmdsOf(i)) + Cardinality(TmsOf(i)) + InitRef(i)
        /\ refcount[i] = 0 <=> conn[i] = "none"
        /\ i \in nexus <=> conn[i] # "none"

\* The references are finitely many.
LEMMA RefsFinite ==
    ASSUME Counting, TypeOK, NEW i
    PROVE  /\ IsFiniteSet(CmdsOf(i)) /\ Cardinality(CmdsOf(i)) \in Nat
           /\ IsFiniteSet(TmsOf(i)) /\ Cardinality(TmsOf(i)) \in Nat
  <1>1. CmdsOf(i) \in SUBSET Cmds /\ TmsOf(i) \in SUBSET Mreqs
    BY Zenon DEF CmdsOf, TmsOf, TypeOK
  <1> QED BY ZenonT(30), <1>1, CmdsFinite, MreqsFinite, CountSubset, CountType

\* The same in the next state.
LEMMA RefsFiniteNext ==
    ASSUME Counting, TypeOK', NEW i
    PROVE  /\ IsFiniteSet(CmdsOf(i)') /\ Cardinality(CmdsOf(i)') \in Nat
           /\ IsFiniteSet(TmsOf(i)') /\ Cardinality(TmsOf(i)') \in Nat
  <1>1. CmdsOf(i)' \in SUBSET Cmds /\ TmsOf(i)' \in SUBSET Mreqs
    BY Zenon DEF CmdsOf, TmsOf, TypeOK
  <1> QED BY ZenonT(30), <1>1, CmdsFinite, MreqsFinite, CountSubset, CountType

\* conn_put of a task that goes: a connection is released with its last task,
\* after conn_close, and not before.
LEMMA PutRef ==
    ASSUME Counting, TypeOK, TypeOK', RefOK, NEW i \in Nexuses, conn_put(i),
           \A j \in Nexuses :
              Cardinality(CmdsOf(j)') + Cardinality(TmsOf(j)')
                 = Cardinality(CmdsOf(j)) + Cardinality(TmsOf(j)) - (IF j = i THEN 1 ELSE 0),
           \A c \in hlist : itn[c] = i => c \in CmdsOf(i)',
           \A j \in Nexuses : Closing(calls', j) <=> Closing(calls, j)
    PROVE  /\ RefOK'
           /\ \A j \in Nexuses : Closing(calls, j) => conn'[j] = conn[j]
  <1>1. /\ refcount' = [refcount EXCEPT ![i] = refcount[i] - 1]
        /\ refcount[i] = 1 => /\ conn' = [conn EXCEPT ![i] = "none"]
                              /\ nexus' = IF \E c \in hlist : itn[c] = i
                                          THEN nexus ELSE nexus \ {i}
        /\ refcount[i] # 1 => UNCHANGED <<conn, nexus>>
    BY Zenon DEF conn_put
  <1>2. refcount \in [Nexuses -> Int] /\ conn \in [Nexuses -> {"none", "full", "close", "closed"}]
    BY Zenon DEF TypeOK
  <1>3. ASSUME NEW j \in Nexuses, j # i
        PROVE  /\ refcount'[j] = Cardinality(CmdsOf(j)') + Cardinality(TmsOf(j)') + InitRef(j)'
               /\ refcount'[j] = 0 <=> conn'[j] = "none"
               /\ j \in nexus' <=> conn'[j] # "none"
               /\ conn'[j] = conn[j]
    <2>1. /\ refcount'[j] = refcount[j] /\ conn'[j] = conn[j]
          /\ j \in nexus' <=> j \in nexus
      BY Zenon, <1>1, <1>2, <1>3
    <2>2. InitRef(j)' = InitRef(j) /\ InitRef(j) \in Int
      BY SMTT(30), <2>1 DEF InitRef, Open
    <2>3. Cardinality(CmdsOf(j)') + Cardinality(TmsOf(j)')
             = Cardinality(CmdsOf(j)) + Cardinality(TmsOf(j)) - 0
      BY Zenon, <1>3
    <2>4. /\ Cardinality(CmdsOf(j)) \in Nat /\ Cardinality(TmsOf(j)) \in Nat
          /\ Cardinality(CmdsOf(j)') \in Nat /\ Cardinality(TmsOf(j)') \in Nat
      BY Zenon, RefsFinite, RefsFiniteNext
    <2>5. refcount[j] = Cardinality(CmdsOf(j)) + Cardinality(TmsOf(j)) + InitRef(j)
      BY Zenon DEF RefOK
    <2>6. refcount'[j] = Cardinality(CmdsOf(j)') + Cardinality(TmsOf(j)') + InitRef(j)'
      BY <2>1, <2>2, <2>3, <2>4, <2>5
    <2> QED BY ZenonT(30), <2>1, <2>6 DEF RefOK
  <1>4. /\ Cardinality(CmdsOf(i)) \in Nat /\ Cardinality(TmsOf(i)) \in Nat
        /\ Cardinality(CmdsOf(i)') \in Nat /\ Cardinality(TmsOf(i)') \in Nat
        /\ InitRef(i) \in {0, 1} /\ InitRef(i)' \in {0, 1}
    BY Zenon, RefsFinite, RefsFiniteNext DEF InitRef
  <1>5. Cardinality(CmdsOf(i)') + Cardinality(TmsOf(i)')
           = Cardinality(CmdsOf(i)) + Cardinality(TmsOf(i)) - 1
    BY Zenon
  <1>6. /\ refcount[i] = Cardinality(CmdsOf(i)) + Cardinality(TmsOf(i)) + InitRef(i)
        /\ refcount[i] = 0 <=> conn[i] = "none"
        /\ i \in nexus <=> conn[i] # "none"
    BY Zenon DEF RefOK
  <1>7. refcount'[i] = refcount[i] - 1 /\ refcount[i] \in Int
    BY Zenon, <1>1, <1>2
  <1>8. refcount'[i] = Cardinality(CmdsOf(i)') + Cardinality(TmsOf(i)') + InitRef(i)
    BY <1>4, <1>5, <1>6, <1>7
  <1>9. CASE refcount[i] = 1
    <2>1. /\ Cardinality(CmdsOf(i)') = 0 /\ InitRef(i) = 0
      BY <1>4, <1>7, <1>8, <1>9
    <2>2. CmdsOf(i)' = {}
      BY Zenon, <2>1, RefsFiniteNext, CountEmpty
    <2>3. ~\E c \in hlist : itn[c] = i
      BY Zenon, <2>2
    <2>4. conn'[i] = "none" /\ i \notin nexus'
      BY Zenon, <1>1, <1>2, <1>9, <2>3
    <2>5. ~Open(i)
      BY <2>1 DEF InitRef
    <2>6. InitRef(i)' = 0 /\ ~Closing(calls, i)
      BY Zenon, <2>4, <2>5 DEF InitRef, Open
    <2>7. refcount'[i] = 0
      BY <1>7, <1>9
    <2>8. refcount'[i] = Cardinality(CmdsOf(i)') + Cardinality(TmsOf(i)') + InitRef(i)'
      BY Zenon, <1>8, <2>1, <2>6
    <2> QED BY Zenon, <1>3, <2>4, <2>6, <2>7, <2>8 DEF RefOK
  <1>10. CASE refcount[i] # 1
    <2>1. UNCHANGED <<conn, nexus>>
      BY Zenon, <1>1, <1>10
    <2>2. InitRef(i)' = InitRef(i)
      BY Zenon, <2>1 DEF InitRef, Open
    <2>3. refcount[i] # 0 /\ refcount'[i] # 0
      BY <1>4, <1>5, <1>6, <1>7, <1>10
    <2> QED BY ZenonT(30), <1>3, <1>6, <1>8, <2>1, <2>2, <2>3 DEF RefOK
  <1> QED BY Zenon, <1>9, <1>10

\* The last conn_put of conn_close.
LEMMA PutClosed ==
    ASSUME Counting, TypeOK, TypeOK', RefOK, NEW i \in Nexuses, conn_put(i),
           UNCHANGED <<alive, itn, tmItn, hlist>>, hlist \subseteq alive,
           conn[i] = "closed", Closing(calls, i), calls' = <<>>,
           \A j \in Nexuses : j # i => ~Closing(calls, j)
    PROVE  RefOK'
  <1>1. /\ refcount' = [refcount EXCEPT ![i] = refcount[i] - 1]
        /\ refcount[i] = 1 => /\ conn' = [conn EXCEPT ![i] = "none"]
                              /\ nexus' = IF \E c \in hlist : itn[c] = i
                                          THEN nexus ELSE nexus \ {i}
        /\ refcount[i] # 1 => UNCHANGED <<conn, nexus>>
    BY Zenon DEF conn_put
  <1>2. refcount \in [Nexuses -> Int] /\ conn \in [Nexuses -> {"none", "full", "close", "closed"}]
    BY Zenon DEF TypeOK
  <1>3. \A j \in Nexuses : /\ CmdsOf(j)' = CmdsOf(j) /\ TmsOf(j)' = TmsOf(j)
                           /\ ~Closing(calls', j)
    BY DEF CmdsOf, TmsOf, Closing
  <1>4. ASSUME NEW j \in Nexuses, j # i
        PROVE  /\ refcount'[j] = Cardinality(CmdsOf(j)') + Cardinality(TmsOf(j)') + InitRef(j)'
               /\ refcount'[j] = 0 <=> conn'[j] = "none"
               /\ j \in nexus' <=> conn'[j] # "none"
    <2>1. /\ refcount'[j] = refcount[j] /\ conn'[j] = conn[j]
          /\ j \in nexus' <=> j \in nexus
      BY Zenon, <1>1, <1>2, <1>4
    <2>2. InitRef(j)' = InitRef(j)
      BY Zenon, <1>3, <1>4, <2>1 DEF InitRef, Open
    <2> QED BY Zenon, <1>3, <2>1, <2>2 DEF RefOK
  <1>5. Cardinality(CmdsOf(i)) \in Nat /\ Cardinality(TmsOf(i)) \in Nat
    BY Zenon, RefsFinite
  <1>6. InitRef(i) = 1
    BY Zenon DEF InitRef, Open
  <1>7. /\ refcount[i] = Cardinality(CmdsOf(i)) + Cardinality(TmsOf(i)) + 1
        /\ i \in nexus
    BY Zenon, <1>6 DEF RefOK
  <1>8. refcount'[i] = Cardinality(CmdsOf(i)) + Cardinality(TmsOf(i))
    BY <1>1, <1>2, <1>5, <1>7
  <1>9. CASE refcount[i] = 1
    <2>1. Cardinality(CmdsOf(i)) = 0
      BY <1>5, <1>7, <1>9
    <2>2. CmdsOf(i) = {}
      BY Zenon, <2>1, RefsFinite, CountEmpty
    <2>3. ~\E c \in hlist : itn[c] = i
      BY Zenon, <2>2 DEF CmdsOf
    <2>4. conn'[i] = "none" /\ i \notin nexus'
      BY Zenon, <1>1, <1>2, <1>9, <2>3
    <2>5. InitRef(i)' = 0
      BY Zenon, <1>3, <2>4 DEF InitRef, Open
    <2>6. refcount'[i] = 0
      BY <1>1, <1>2, <1>9
    <2>7. refcount'[i] = Cardinality(CmdsOf(i)') + Cardinality(TmsOf(i)') + InitRef(i)'
      BY <1>3, <1>5, <1>8, <2>5
    <2> QED BY Zenon, <1>4, <2>4, <2>6, <2>7 DEF RefOK
  <1>10. CASE refcount[i] # 1
    <2>1. UNCHANGED <<conn, nexus>> /\ conn'[i] = "closed"
      BY Zenon, <1>1, <1>10
    <2>2. InitRef(i)' = 0
      BY Zenon, <1>3, <2>1 DEF InitRef, Open
    <2>3. refcount'[i] # 0
      BY <1>5, <1>7, <1>8, <1>10
    <2>4. refcount'[i] = Cardinality(CmdsOf(i)') + Cardinality(TmsOf(i)') + InitRef(i)'
      BY <1>3, <1>5, <1>8, <2>2
    <2> QED BY Zenon, <1>4, <1>7, <2>1, <2>3, <2>4 DEF RefOK
  <1> QED BY Zenon, <1>9, <1>10

\* conn_get: a task more.
LEMMA GetRef ==
    ASSUME Counting, TypeOK, TypeOK', RefOK, NEW i \in Nexuses, conn[i] = "full",
           refcount' = [refcount EXCEPT ![i] = refcount[i] + 1], UNCHANGED <<conn, nexus>>,
           \A j \in Nexuses :
              Cardinality(CmdsOf(j)') + Cardinality(TmsOf(j)')
                 = Cardinality(CmdsOf(j)) + Cardinality(TmsOf(j)) + (IF j = i THEN 1 ELSE 0),
           \A j \in Nexuses : Closing(calls', j) <=> Closing(calls, j)
    PROVE  RefOK'
  <1> SUFFICES ASSUME NEW j \in Nexuses
               PROVE  /\ refcount'[j] = Cardinality(CmdsOf(j)') + Cardinality(TmsOf(j)')
                                           + InitRef(j)'
                      /\ refcount'[j] = 0 <=> conn'[j] = "none"
                      /\ j \in nexus' <=> conn'[j] # "none"
    BY Zenon DEF RefOK
  <1>1. InitRef(j)' = InitRef(j) /\ InitRef(j) \in {0, 1}
    BY Zenon DEF InitRef, Open
  <1>2. /\ Cardinality(CmdsOf(j)) \in Nat /\ Cardinality(TmsOf(j)) \in Nat
        /\ Cardinality(CmdsOf(j)') \in Nat /\ Cardinality(TmsOf(j)') \in Nat
    BY Zenon, RefsFinite, RefsFiniteNext
  <1>3. /\ refcount[j] = Cardinality(CmdsOf(j)) + Cardinality(TmsOf(j)) + InitRef(j)
        /\ refcount[j] = 0 <=> conn[j] = "none"
        /\ j \in nexus <=> conn[j] # "none"
    BY Zenon DEF RefOK
  <1>4. refcount'[j] = refcount[j] + (IF j = i THEN 1 ELSE 0)
    <2>1. refcount[j] \in Int /\ refcount[i] \in Int
      BY Zenon DEF TypeOK
    <2> QED BY <2>1 DEF TypeOK
  <1>5. refcount'[j] = Cardinality(CmdsOf(j)') + Cardinality(TmsOf(j)') + InitRef(j)'
    <2>1. CASE j = i
      BY <1>1, <1>2, <1>3, <1>4, <2>1
    <2>2. CASE j # i
      BY <1>1, <1>2, <1>3, <1>4, <2>2
    <2> QED BY Zenon, <2>1, <2>2
  <1>6. refcount'[j] = 0 <=> conn'[j] = "none"
    BY <1>1, <1>2, <1>3, <1>4
  <1> QED BY ZenonT(30), <1>3, <1>5, <1>6

\* No reference comes or goes.
LEMMA SameRef ==
    ASSUME RefOK, UNCHANGED <<alive, itn, tmItn, refcount, conn, nexus>>,
           \A j \in Nexuses : Closing(calls', j) <=> Closing(calls, j)
    PROVE  RefOK'
  <1> SUFFICES ASSUME NEW j \in Nexuses
               PROVE  /\ refcount'[j] = Cardinality(CmdsOf(j)') + Cardinality(TmsOf(j)')
                                           + InitRef(j)'
                      /\ refcount'[j] = 0 <=> conn'[j] = "none"
                      /\ j \in nexus' <=> conn'[j] # "none"
    BY Zenon DEF RefOK
  <1>1. InitRef(j)' = InitRef(j)
    BY Zenon DEF InitRef, Open
  <1>2. CmdsOf(j)' = CmdsOf(j) /\ TmsOf(j)' = TmsOf(j)
    BY Zenon DEF CmdsOf, TmsOf
  <1> QED BY Zenon, <1>1, <1>2 DEF RefOK

-----------------------------------------------------------------------------
(* The inductive invariant.                                                *)

\* A command in the queue has not been started, one with the backing store has,
\* and one that is not done is on one list only.  A queued command that was
\* aborted is done and still on lists; it is never freed.
CommandsOK ==
    /\ hlist \subseteq alive /\ processed \subseteq alive
    /\ \A c \in Cmds : c \in alive <=> itn[c] # None
    /\ \A c \in Cmds : mreq[c] # None => c \in processed
    /\ io \subseteq processed /\ tx \subseteq alive
    /\ tx \cap hlist \subseteq processed \ io
    /\ \A k \in 1..Len(queue) : queue[k] \in alive /\ queue[k] \notin processed
    /\ \A k, l \in 1..Len(queue) : queue[k] = queue[l] => k = l

\* The commands that a request waits for.
Waiters(m) == {c \in hlist : mreq[c] = m}

\* A request is busy while commands carry it, and counts at least those.  It
\* counts more when a later request has taken over a command.
TmOK ==
    /\ \A m \in Mreqs : tmState[m] = "free" <=> tmItn[m] = None
    /\ TmNotEarly
    /\ \A m \in Mreqs : Cardinality(Waiters(m)) <= busy[m]

\* The commands that iscsi_free_task may free and target_cmd_io_done may
\* complete, the closed connections, the requests that are not answered and
\* the commands that no request waits for.
Gone == processed \ (hlist \cup io \cup tx)

Served == (alive \ hlist) \cup (processed \ (io \cup tx))

Closed == {i \in Nexuses : conn[i] = "closed"}

Asked == {m \in Mreqs : tmState[m] = "busy"}

Unasked == {c \in Cmds : c \in hlist => mreq[c] = None}

FramesOK == Stack(calls, Gone, Served, Closed, Asked, Unasked, hlist)

Links == CommandsOK /\ TmOK /\ RefOK /\ FramesOK

-----------------------------------------------------------------------------
(* Task management requests.                                               *)

\* The commands that a request waits for are finitely many.
LEMMA WaitersFinite ==
    ASSUME Counting, TypeOK, NEW m
    PROVE  IsFiniteSet(Waiters(m)) /\ Cardinality(Waiters(m)) \in Nat
  <1>1. Waiters(m) \in SUBSET Cmds
    BY ZenonT(30) DEF Waiters, TypeOK
  <1> QED BY ZenonT(30), <1>1, CmdsFinite, CountSubset, CountType

\* When fewer commands carry a request it still counts enough.
LEMMA WaitersFewer ==
    ASSUME Counting, TypeOK, NEW m, Waiters(m)' \subseteq Waiters(m)
    PROVE  Cardinality(Waiters(m)') <= Cardinality(Waiters(m)) /\ Cardinality(Waiters(m)') \in Nat
  <1>1. IsFiniteSet(Waiters(m))
    BY Zenon, WaitersFinite
  <1> QED BY ZenonT(30), <1>1, CountSubset, CountType

\* iscsi_free_task of a request drops one reference.
LEMMA FreeTmRef ==
    ASSUME Counting, TypeOK, TypeOK', RefOK, hlist \subseteq alive, NEW m \in Mreqs, tmItn[m] # None,
           FreeTm(m), UNCHANGED <<alive, itn>>,
           \A j \in Nexuses : Closing(calls', j) <=> Closing(calls, j)
    PROVE  /\ RefOK'
           /\ \A j \in Nexuses : Closing(calls, j) => conn'[j] = conn[j]
  <1>1. PICK i \in Nexuses : i = tmItn[m]
    BY DEF TypeOK
  <1>2. conn_put(i) /\ tmItn' = [tmItn EXCEPT ![m] = None]
    BY Zenon, <1>1 DEF FreeTm
  <1>3. i # None
    BY Zenon, NoneAssumption
  <1>4. \A j \in Nexuses : CmdsOf(j)' = CmdsOf(j)
    BY Zenon DEF CmdsOf
  <1>5. m \in TmsOf(i) /\ TmsOf(i)' = TmsOf(i) \ {m}
    BY <1>1, <1>2, <1>3 DEF TmsOf, TypeOK
  <1>6. \A j \in Nexuses : j # i => TmsOf(j)' = TmsOf(j)
    BY <1>1, <1>2, NoneAssumption DEF TmsOf, TypeOK
  <1>7. Cardinality(TmsOf(i)') = Cardinality(TmsOf(i)) - 1
    BY Zenon, <1>5, RefsFinite, CountRemove
  <1>8. ASSUME NEW j \in Nexuses
        PROVE  Cardinality(CmdsOf(j)') + Cardinality(TmsOf(j)')
                 = Cardinality(CmdsOf(j)) + Cardinality(TmsOf(j)) - (IF j = i THEN 1 ELSE 0)
    <2>1. Cardinality(CmdsOf(j)) \in Nat /\ Cardinality(TmsOf(j)) \in Nat
      BY ZenonT(30), RefsFinite
    <2>2. CASE j = i
      BY ZenonT(30), <1>4, <1>7, <2>1, <2>2
    <2>3. CASE j # i
      BY <1>4, <1>6, <2>1, <2>3
    <2> QED BY ZenonT(30), <2>2, <2>3
  <1>9. \A c \in hlist : itn[c] = i => c \in CmdsOf(i)'
    BY ZenonT(30), <1>4 DEF CmdsOf
  <1> QED BY ZenonT(30), <1>2, <1>8, <1>9, PutRef

\* mgmt_end_notify answers the request or frees it.
LEMMA NotifyRef ==
    ASSUME Counting, TypeOK, TypeOK', RefOK, hlist \subseteq alive, NEW m \in Mreqs, tmItn[m] # None,
           NEW r, mgmt_end_notify(m, r), UNCHANGED <<alive, itn>>,
           \A j \in Nexuses : Closing(calls', j) <=> Closing(calls, j)
    PROVE  /\ RefOK'
           /\ \A j \in Nexuses : Closing(calls, j) => conn'[j] = conn[j]
  <1>1. CASE FreeTm(m)
    BY ZenonT(30), <1>1, FreeTmRef
  <1>2. CASE UNCHANGED <<tmItn, refcount, conn, nexus>>
    BY ZenonT(30), <1>2, SameRef
  <1> QED BY ZenonT(30), <1>1, <1>2 DEF mgmt_end_notify, connVars

\* What it does to the requests.
LEMMA NotifyTm ==
    ASSUME TypeOK, NEW m \in Mreqs, tmItn[m] # None, NEW r, mgmt_end_notify(m, r)
    PROVE  /\ tmState'[m] \in {"tx", "free"} /\ busy'[m] = 0
           /\ tmState'[m] = "free" <=> tmItn'[m] = None
           /\ \A n \in Mreqs : n # m => /\ tmState'[n] = tmState[n]
                                        /\ tmItn'[n] = tmItn[n] /\ busy'[n] = busy[n]
  <1>1. CASE FreeTm(m)
    BY <1>1 DEF FreeTm, TypeOK
  <1>2. CASE /\ tmState' = [tmState EXCEPT ![m] = "tx"] /\ busy' = [busy EXCEPT ![m] = 0]
             /\ UNCHANGED tmItn
    BY ZenonT(30), <1>2 DEF TypeOK
  <1> QED BY ZenonT(30), <1>1, <1>2 DEF mgmt_end_notify

\* target_cmd_done: the request is answered with the last command it waits for.
LEMMA CmdDoneTm ==
    ASSUME Counting, TypeOK, TypeOK', CommandsOK, TmOK, RefOK,
           NEW c \in hlist, NEW rest, target_cmd_done(c, rest), UNCHANGED cmdVars,
           \A j \in Nexuses : Closing(calls', j) <=> Closing(calls, j)
    PROVE  /\ TmOK' /\ RefOK'
           /\ \A j \in Nexuses : Closing(calls, j) => conn'[j] = conn[j]
           /\ mreq[c] = None => UNCHANGED tmState
  <1> DEFINE m == mreq[c]
  <1>1. /\ c \in Cmds /\ hlist' = hlist \ {c}
        /\ UNCHANGED <<alive, itn, mreq>> /\ hlist \subseteq alive
    BY ZenonT(30) DEF target_cmd_done, cmd_done, cmdVars, TypeOK, CommandsOK
  <1>2. m = None \/ m \in Mreqs
    BY <1>1 DEF TypeOK
  <1>3. \A n \in Mreqs : n # m => Waiters(n)' = Waiters(n)
    BY Zenon, <1>1 DEF Waiters
  <1>4. CASE m = None
    <2>1. UNCHANGED <<tmState, tmItn, busy, refcount, conn, nexus>>
      BY ZenonT(30), <1>4 DEF target_cmd_done, tm, connVars
    <2>2. RefOK'
      BY ZenonT(30), <1>1, <2>1, SameRef
    <2>3. \A n \in Mreqs : Waiters(n)' = Waiters(n)
      BY ZenonT(30), <1>3, <1>4, NoneAssumption
    <2>4. TmNotEarly'
      BY ZenonT(30), <1>1, <2>1 DEF TmOK, TmNotEarly
    <2>5. TmOK'
      BY ZenonT(30), <2>1, <2>3, <2>4 DEF TmOK
    <2> QED BY Zenon, <2>1, <2>2, <2>5
  <1>5. CASE m # None /\ busy[m] = 1
    <2>1. PICK n \in Mreqs : n = m
      BY ZenonT(30), <1>2, <1>5
    <2>2. PICK r : mgmt_end_notify(n, r)
      BY ZenonT(30), <1>5, <2>1 DEF target_cmd_done
    <2>3. tmState[n] = "busy" /\ tmItn[n] # None
      BY ZenonT(30), <1>5, <2>1 DEF TmOK, TmNotEarly
    <2>4. RefOK' /\ \A j \in Nexuses : Closing(calls, j) => conn'[j] = conn[j]
      BY ZenonT(30), <1>1, <2>2, <2>3, NotifyRef
    <2>5. /\ tmState'[n] \in {"tx", "free"} /\ busy'[n] = 0
          /\ tmState'[n] = "free" <=> tmItn'[n] = None
          /\ \A o \in Mreqs : o # n => /\ tmState'[o] = tmState[o]
                                       /\ tmItn'[o] = tmItn[o] /\ busy'[o] = busy[o]
      BY ZenonT(30), <2>2, <2>3, NotifyTm
    <2>6. Waiters(n)' = {}
      <3>1. c \in Waiters(n) /\ Waiters(n)' = Waiters(n) \ {c}
        BY ZenonT(30), <1>1, <2>1 DEF Waiters
      <3>2. IsFiniteSet(Waiters(n)) /\ Cardinality(Waiters(n)) \in Nat
        BY ZenonT(30), WaitersFinite
      <3>3. IsFiniteSet(Waiters(n) \ {c})
            /\ Cardinality(Waiters(n) \ {c}) = Cardinality(Waiters(n)) - 1
        BY ZenonT(30), <3>1, <3>2, CountRemove
      <3>4. Cardinality(Waiters(n) \ {c}) \in Nat
        BY ZenonT(30), <3>3, CountType
      <3>5. Cardinality(Waiters(n)) <= 1
        BY ZenonT(30), <1>5, <2>1 DEF TmOK
      <3>6. Cardinality(Waiters(n) \ {c}) = 0
        BY <3>2, <3>3, <3>4, <3>5
      <3> QED BY ZenonT(30), <3>1, <3>3, <3>6, CountEmpty
    <2>7. TmNotEarly'
      <3> SUFFICES ASSUME NEW d \in hlist', mreq'[d] # None PROVE tmState'[mreq'[d]] = "busy"
        BY Zenon DEF TmNotEarly
      <3>1. d \in hlist /\ d \in Cmds /\ mreq'[d] = mreq[d] /\ mreq[d] \in Mreqs
        BY <1>1 DEF TypeOK
      <3>2. mreq[d] # n
        BY Zenon, <2>6, <3>1 DEF Waiters
      <3> QED BY <2>5, <3>1, <3>2 DEF TmOK, TmNotEarly
    <2>8. \A o \in Mreqs : Cardinality(Waiters(o)') <= busy'[o]
      <3>1. Cardinality(Waiters(n)') = 0
        BY ZenonT(30), <2>6, CountEmpty
      <3>2. \A o \in Mreqs : o # n => Cardinality(Waiters(o)') <= busy'[o]
        BY ZenonT(30), <1>3, <2>1, <2>5 DEF TmOK
      <3> QED BY <2>5, <3>1, <3>2
    <2>9. TmOK'
      BY ZenonT(30), <2>5, <2>7, <2>8 DEF TmOK
    <2> QED BY ZenonT(30), <1>5, <2>4, <2>9
  <1>6. CASE m # None /\ busy[m] # 1
    <2>1. PICK n \in Mreqs : n = m
      BY Zenon, <1>2, <1>6
    <2>2. /\ busy' = [busy EXCEPT ![n] = busy[n] - 1]
          /\ UNCHANGED <<tmState, tmItn, refcount, conn, nexus>>
      BY Zenon, <1>6, <2>1 DEF target_cmd_done, connVars
    <2>3. RefOK'
      BY Zenon, <1>1, <2>2, SameRef
    <2>4. TmNotEarly'
      BY Zenon, <1>1, <2>2 DEF TmOK, TmNotEarly
    <2>5. Cardinality(Waiters(n)') <= busy'[n]
      <3>1. c \in Waiters(n) /\ Waiters(n)' = Waiters(n) \ {c}
        BY Zenon, <1>1, <2>1 DEF Waiters
      <3>2. Cardinality(Waiters(n) \ {c}) = Cardinality(Waiters(n)) - 1
        BY ZenonT(30), <3>1, WaitersFinite, CountRemove
      <3>3. Cardinality(Waiters(n)) <= busy[n] /\ busy'[n] = busy[n] - 1 /\ busy[n] \in Int
        BY <2>2 DEF TmOK, TypeOK
      <3>4. Cardinality(Waiters(n)) \in Nat
        BY Zenon, WaitersFinite
      <3> QED BY <3>1, <3>2, <3>3, <3>4
    <2>6. \A o \in Mreqs : o # n => busy'[o] = busy[o] /\ Waiters(o)' = Waiters(o)
      BY <1>3, <2>1, <2>2 DEF TypeOK
    <2>7. \A o \in Mreqs : Cardinality(Waiters(o)') <= busy'[o]
      BY Zenon, <2>5, <2>6 DEF TmOK
    <2>8. TmOK'
      BY ZenonT(30), <2>2, <2>4, <2>7 DEF TmOK
    <2> QED BY ZenonT(30), <1>6, <2>2, <2>3, <2>8
  <1> QED BY ZenonT(30), <1>4, <1>5, <1>6

-----------------------------------------------------------------------------
(* One lemma per action.                                                   *)

\* A step that changes only the stack.
LEMMA LinksSame ==
    ASSUME Links,
           UNCHANGED <<alive, itn, processed, mreq, hlist, queue, io, tx>>,
           UNCHANGED <<tmState, tmItn, busy, conn, refcount, nexus>>,
           Stack(calls', Gone, Served, Closed, Asked, Unasked, hlist),
           \A j \in Nexuses : Closing(calls', j) <=> Closing(calls, j)
    PROVE  Links'
  <1>1. CommandsOK'
    BY ZenonT(30) DEF Links, CommandsOK
  <1>2. TmOK'
    <2>1. \A m : Waiters(m)' = Waiters(m)
      BY Zenon DEF Waiters
    <2> QED BY Zenon, <2>1 DEF Links, TmOK, TmNotEarly
  <1>3. RefOK'
    BY Zenon, SameRef DEF Links
  <1>4. /\ Gone' = Gone /\ Served' = Served /\ Closed' = Closed /\ Asked' = Asked
        /\ Unasked' = Unasked
    BY Zenon DEF Gone, Served, Closed, Asked, Unasked
  <1> QED BY ZenonT(30), <1>1, <1>2, <1>3, <1>4 DEF Links, FramesOK

\* A return that changes nothing else.
LEMMA LinksReturn ==
    ASSUME TypeOK, Links, calls # <<>>, Head(calls).fn # "conn_close", Return,
           UNCHANGED <<cmdVars, listVars, tm, connVars>>
    PROVE  Links'
  <1>1. calls \in Seq(Frames) /\ calls' = Tail(calls)
    BY Zenon DEF TypeOK, Return
  <1>2. Stack(calls', Gone, Served, Closed, Asked, Unasked, hlist)
    BY Zenon, <1>1, StackPop DEF Links, FramesOK
  <1>3. \A j \in Nexuses : Closing(calls', j) <=> Closing(calls, j)
    BY Zenon, <1>1, ClosingPop
  <1> QED BY ZenonT(30), <1>2, <1>3, LinksSame DEF cmdVars, listVars, tm, connVars

\* A crash.
LEMMA LinksCrash ==
    ASSUME TypeOK, Links, Crash
    PROVE  Links'
  <1>1. UNCHANGED <<cmdVars, listVars, tm, connVars, calls>>
    BY Zenon DEF Crash
  <1> QED BY Zenon, <1>1, LinksSame DEF Links, FramesOK, cmdVars, listVars, tm, connVars

\* iscsi_free_cmd_task of a started command, called from the frames of s.
LEMMA LinksFreeCmdTask ==
    ASSUME Counting, TypeOK, TypeOK', Links, NEW s \in Seq(Frames),
           NEW c \in hlist, c \in processed, c \notin io, tx' = tx \ {c},
           iscsi_free_cmd_task(c, s), UNCHANGED <<cmdVars, queue, io>>,
           Stack(s, Gone, Served, Closed, Asked, Unasked, hlist),
           \A k \in 1..Len(s) : /\ s[k].fn = "target_cmd_io_done" => s[k].cmd # c
                                /\ s[k].fn = "abort_task_set" => mreq[c] = None,
           \A j \in Nexuses : Closing(s, j) <=> Closing(calls, j)
    PROVE  Links'
  <1> DEFINE post == PostFrame(First(queue))
             t == <<FreeFrame(c)>> \o s
  <1>1. /\ c \in Cmds /\ FreeFrame(c) \in Frames /\ post \in Frames
    BY ZenonT(30), FrameTypes, FirstType DEF TypeOK
  <1>2. /\ FreeFrame(c).fn = "iscsi_free_task" /\ FreeFrame(c).cmd = c
        /\ post.fn = "post_cmd_done"
    BY Zenon DEF FreeFrame, PostFrame, Frame
  <1>3. /\ target_cmd_done(c, t) /\ hlist' = hlist \ {c} /\ calls' = <<post>> \o t
        /\ UNCHANGED <<alive, itn, processed, mreq>>
    BY Zenon DEF iscsi_free_cmd_task, target_cmd_done, cmd_done, cmdVars
  <1>4. t \in Seq(Frames)
    BY Zenon, <1>1, PushProps
  <1>5. \A j \in Nexuses : Closing(calls', j) <=> Closing(calls, j)
    <2> SUFFICES ASSUME NEW j \in Nexuses PROVE Closing(calls', j) <=> Closing(calls, j)
      BY Zenon
    <2>1. Closing(t, j) <=> Closing(s, j)
      BY Zenon, <1>1, <1>2, ClosingPush
    <2> HIDE DEF t, post
    <2>2. Closing(<<post>> \o t, j) <=> Closing(t, j)
      BY Zenon, <1>1, <1>2, <1>4, ClosingPush
    <2> QED BY Zenon, <1>3, <2>1, <2>2
  <1>6. /\ TmOK' /\ RefOK'
        /\ \A j \in Nexuses : Closing(calls, j) => conn'[j] = conn[j]
        /\ mreq[c] = None => UNCHANGED tmState
    <2> HIDE DEF t
    <2> QED BY Zenon, <1>3, <1>5, CmdDoneTm DEF Links
  <1>7. CommandsOK'
    BY Zenon, <1>3 DEF Links, CommandsOK
  <1>8. FramesOK'
    <2>1. /\ Gone \subseteq Gone' /\ c \in Gone' /\ Served \subseteq Served'
          /\ Unasked \subseteq Unasked'
      BY Zenon, <1>3 DEF Gone, Served, Unasked, Links, CommandsOK
    <2>2. ASSUME NEW k \in 1..Len(s)
          PROVE  FrameIn(s[k], Gone', Served', Closed', Asked')
      <3>1. FrameIn(s[k], Gone, Served, Closed, Asked) /\ s[k] \in Frames
        BY DEF Stack
      <3>2. s[k].fn = "conn_close" => s[k].itn \in Closed'
        <4> SUFFICES ASSUME s[k].fn = "conn_close" PROVE s[k].itn \in Closed'
          BY Zenon
        <4>1. s[k].itn \in Closed /\ Closing(s, s[k].itn)
          BY Zenon, <3>1 DEF FrameIn, Closing
        <4> QED BY Zenon, <1>6, <4>1 DEF Closed
      <3>3. s[k].fn = "abort_task_set" => s[k].mreq \in Asked'
        BY Zenon, <1>6, <3>1 DEF FrameIn, Asked
      <3> QED BY Zenon, <2>1, <3>1, <3>2, <3>3 DEF FrameIn
    <2>3. Stack(s, Gone', Served', Closed', Asked', Unasked', hlist')
      <3>1. hlist' \subseteq hlist
        BY Zenon, <1>3
      <3>2. StillUnasked(s, Unasked, Unasked')
        BY Zenon, <2>1 DEF StillUnasked
      <3>3. FramesIn(s, Gone', Served', Closed', Asked')
        BY Zenon, <2>2 DEF FramesIn
      <3> HIDE DEF Gone, Served, Closed, Asked, Unasked, t, post
      <3> QED BY Zenon, <3>1, <3>2, <3>3, StackKept
    <2>4. \A k \in 1..Len(s) : Apart(FreeFrame(c), s[k], Unasked', hlist') /\ ~Last(FreeFrame(c))
      <3>1. \A k \in 1..Len(s) : s[k].fn = "iscsi_free_task" => s[k].cmd # c
        BY Zenon DEF Stack, FrameIn, Gone
      <3> QED BY Zenon, <1>2, <3>1 DEF Apart, Last
    <2>5. FrameIn(FreeFrame(c), Gone', Served', Closed', Asked')
      BY Zenon, <1>2, <2>1 DEF FrameIn
    <2>6. Stack(t, Gone', Served', Closed', Asked', Unasked', hlist')
      BY Zenon, <1>1, <2>3, <2>4, <2>5, StackPush
    <2>7. /\ FrameIn(post, Gone', Served', Closed', Asked')
          /\ \A k \in 1..Len(t) : Apart(post, t[k], Unasked', hlist') /\ ~Last(post)
      BY Zenon, <1>2 DEF FrameIn, Apart, Last
    <2> HIDE DEF t, post
    <2>8. Stack(<<post>> \o t, Gone', Served', Closed', Asked', Unasked', hlist')
      BY Zenon, <1>1, <1>4, <2>6, <2>7, StackPush
    <2> QED BY Zenon, <1>3, <2>8 DEF FramesOK
  <1> QED BY ZenonT(30), <1>6, <1>7, <1>8 DEF Links

\* A completion: the response is queued, or the task is freed.
LEMMA LinksIoDone ==
    ASSUME Counting, TypeOK, TypeOK', Links, target_cmd_io_done
    PROVE  Links'
  <1>1. PICK s \in Seq(Frames), c \in Cmds :
           /\ s = Tail(calls) /\ c = Head(calls).cmd /\ Head(calls).fn = "target_cmd_io_done"
           /\ calls # <<>>
    <2>1. calls # <<>> /\ Head(calls).fn = "target_cmd_io_done" /\ calls \in Seq(Frames)
      BY Zenon DEF target_cmd_io_done, Top, TypeOK
    <2>2. Head(calls) \in Frames /\ Tail(calls) \in Seq(Frames)
      BY Zenon, <2>1, TailProps
    <2>3. Head(calls).cmd \in Cmds
      BY Zenon, <2>1, <2>2, FrameFields
    <2> QED BY Zenon, <2>1, <2>2, <2>3
  <1>2. /\ Stack(s, Gone, Served, Closed, Asked, Unasked, hlist)
        /\ FrameIn(Head(calls), Gone, Served, Closed, Asked)
        /\ \A k \in 1..Len(s) : Apart(Head(calls), s[k], Unasked, hlist)
    BY ZenonT(30), <1>1, StackPop DEF Links, FramesOK, TypeOK
  <1>3. \A j \in Nexuses : Closing(s, j) <=> Closing(calls, j)
    BY ZenonT(30), <1>1, ClosingPop DEF TypeOK
  <1>4. c \in Served
    BY Zenon, <1>1, <1>2 DEF FrameIn
  <1>5. CASE /\ tx' = tx \cup {c} /\ Return
             /\ UNCHANGED <<cmdVars, hlist, queue, io, tm, connVars>>
    <2>1. /\ UNCHANGED <<alive, itn, processed, mreq>>
          /\ UNCHANGED <<tmState, tmItn, busy, conn, refcount, nexus>> /\ calls' = s
      BY Zenon, <1>1, <1>5 DEF cmdVars, tm, connVars, Return
    <2>2. CommandsOK'
      BY Zenon, <1>4, <1>5, <2>1 DEF Links, CommandsOK, Served
    <2>3. TmOK'
      <3>1. \A m : Waiters(m)' = Waiters(m)
        BY Zenon, <1>5, <2>1 DEF Waiters
      <3> QED BY Zenon, <1>5, <2>1, <3>1 DEF Links, TmOK, TmNotEarly
    <2>4. RefOK'
      BY Zenon, <1>3, <2>1, SameRef DEF Links
    <2>5. /\ Closed' = Closed /\ Asked' = Asked /\ Unasked' = Unasked /\ hlist' = hlist
          /\ Gone' = Gone \ {c} /\ Served \ {c} \subseteq Served'
          /\ c \notin hlist => c \in Served'
      <3>1. Closed' = Closed /\ Asked' = Asked /\ Unasked' = Unasked
        BY Zenon, <1>5, <2>1 DEF Closed, Asked, Unasked
      <3>2. Gone' = Gone \ {c}
        BY Zenon, <1>5, <2>1 DEF Gone
      <3>3. Served \ {c} \subseteq Served' /\ (c \notin hlist => c \in Served')
        <4>1. \A d : d \in Served' <=> (d \in alive /\ d \notin hlist)
                                         \/ (d \in processed /\ d \notin io /\ d \notin tx /\ d # c)
          BY Zenon, <1>5, <2>1 DEF Served
        <4>2. \A d : d \in Served <=> (d \in alive /\ d \notin hlist)
                                         \/ (d \in processed /\ d \notin io /\ d \notin tx)
          BY Zenon DEF Served
        <4>3. processed \subseteq alive
          BY Zenon DEF Links, CommandsOK
        <4> QED BY Zenon, <1>4, <4>1, <4>2, <4>3
      <3> QED BY Zenon, <1>5, <3>1, <3>2, <3>3
    <2>6. \A k \in 1..Len(s) : FrameIn(s[k], Gone', Served', Closed', Asked')
      <3> SUFFICES ASSUME NEW k \in 1..Len(s)
                   PROVE  FrameIn(s[k], Gone', Served', Closed', Asked')
        BY Zenon
      <3>1. FrameIn(s[k], Gone, Served, Closed, Asked) /\ Apart(Head(calls), s[k], Unasked, hlist)
        BY Zenon, <1>2 DEF Stack
      <3> QED BY Zenon, <1>1, <2>5, <3>1 DEF FrameIn, Apart
    <2>7. Stack(s, Gone', Served', Closed', Asked', Unasked', hlist')
      <3>1. FramesIn(s, Gone', Served', Closed', Asked')
        BY Zenon, <2>6 DEF FramesIn
      <3>2. StillUnasked(s, Unasked, Unasked')
        BY Zenon, <2>5 DEF StillUnasked
      <3>3. hlist' \subseteq hlist
        BY Zenon, <2>5
      <3> QED BY Zenon, <1>2, <3>1, <3>2, <3>3, StackKept
    <2> QED BY Zenon, <2>1, <2>2, <2>3, <2>4, <2>7 DEF Links, FramesOK
  <1>6. CASE /\ c \in hlist /\ iscsi_free_cmd_task(c, Tail(calls))
             /\ UNCHANGED <<cmdVars, queue, io, tx>>
    <2>1. c \in processed /\ c \notin io /\ tx' = tx \ {c}
      BY Zenon, <1>4, <1>6 DEF Served
    <2>2. \A k \in 1..Len(s) : /\ s[k].fn = "target_cmd_io_done" => s[k].cmd # c
                               /\ s[k].fn = "abort_task_set" => mreq[c] = None
      BY Zenon, <1>1, <1>2, <1>6 DEF Apart, Unasked
    <2>3. iscsi_free_cmd_task(c, s)
      BY Zenon, <1>1, <1>6
    <2> QED BY ZenonT(30), <1>2, <1>3, <1>6, <2>1, <2>2, <2>3, LinksFreeCmdTask
  <1>7. CASE Crash
    BY Zenon, <1>7, LinksCrash
  <1> QED BY Zenon, <1>1, <1>5, <1>6, <1>7 DEF target_cmd_io_done

\* A response that was sent.
LEMMA LinksCmdTxDone ==
    ASSUME Counting, TypeOK, TypeOK', Links, NEW c \in Cmds, CmdTxDone(c)
    PROVE  Links'
  <1>1. CASE Crash
    BY Zenon, <1>1, LinksCrash
  <1>2. CASE /\ c \in tx /\ c \in hlist /\ tx' = tx \ {c} /\ calls = <<>>
             /\ iscsi_free_cmd_task(c, <<>>) /\ UNCHANGED <<cmdVars, queue, io>>
    <2>1. c \in processed /\ c \notin io
      BY Zenon, <1>2 DEF Links, CommandsOK
    <2>2. /\ <<>> \in Seq(Frames) /\ Stack(<<>>, Gone, Served, Closed, Asked, Unasked, hlist)
          /\ \A k \in 1..Len(<<>>) : /\ <<>>[k].fn = "target_cmd_io_done" => <<>>[k].cmd # c
                                     /\ <<>>[k].fn = "abort_task_set" => mreq[c] = None
          /\ \A j \in Nexuses : Closing(<<>>, j) <=> Closing(calls, j)
      BY <1>2, StackSmall
    <2> QED BY Zenon, <1>2, <2>1, <2>2, LinksFreeCmdTask
  <1> QED BY Zenon, <1>1, <1>2 DEF CmdTxDone, Idle

\* A task management response that was sent, or dropped by conn_close: its task
\* goes, and no command carries the request.
LEMMA LinksFreeTm ==
    ASSUME Counting, TypeOK, TypeOK', Links, NEW m \in Mreqs, tmState[m] = "tx", FreeTm(m),
           UNCHANGED <<cmdVars, listVars, calls>>
    PROVE  Links'
  <1>1. /\ UNCHANGED <<alive, itn, processed, mreq, hlist, queue, io, tx, calls>>
        /\ tmState' = [tmState EXCEPT ![m] = "free"] /\ tmItn' = [tmItn EXCEPT ![m] = None]
        /\ busy' = [busy EXCEPT ![m] = 0]
    BY Zenon DEF FreeTm, cmdVars, listVars
  <1>2. tmItn[m] # None
    BY Zenon DEF Links, TmOK
  <1>3. RefOK' /\ \A j \in Nexuses : Closing(calls, j) => conn'[j] = conn[j]
    BY Zenon, <1>1, <1>2, FreeTmRef DEF Links, CommandsOK
  <1>4. CommandsOK'
    BY Zenon, <1>1 DEF Links, CommandsOK
  <1>5. \A n \in Mreqs : n # m => /\ tmState'[n] = tmState[n] /\ tmItn'[n] = tmItn[n]
                                  /\ busy'[n] = busy[n]
    BY <1>1 DEF TypeOK
  <1>6. tmState'[m] = "free" /\ tmItn'[m] = None /\ busy'[m] = 0
    BY <1>1 DEF TypeOK
  <1>7. Waiters(m) = {} /\ \A n : Waiters(n)' = Waiters(n)
    <2>1. \A c \in hlist : mreq[c] # m
      BY ZenonT(30), NoneAssumption DEF Links, TmOK, TmNotEarly
    <2> QED BY Zenon, <1>1, <2>1 DEF Waiters
  <1>8. TmOK'
    <2>1. TmNotEarly'
      <3> SUFFICES ASSUME NEW d \in hlist', mreq'[d] # None PROVE tmState'[mreq'[d]] = "busy"
        BY Zenon DEF TmNotEarly
      <3>1. d \in hlist /\ mreq'[d] = mreq[d] /\ mreq[d] \in Mreqs
        BY <1>1 DEF TypeOK
      <3>2. mreq[d] # m
        BY Zenon, <1>7, <3>1 DEF Waiters
      <3> QED BY <1>5, <3>1, <3>2 DEF Links, TmOK, TmNotEarly
    <2>2. Cardinality(Waiters(m)') <= busy'[m]
      <3>1. Cardinality(Waiters(m)') = 0
        BY Zenon, <1>7, CountEmpty
      <3> QED BY <1>6, <3>1
    <2>3. \A n \in Mreqs : Cardinality(Waiters(n)') <= busy'[n]
      BY Zenon, <1>5, <1>7, <2>2 DEF Links, TmOK
    <2> QED BY Zenon, <1>5, <1>6, <2>1, <2>3 DEF Links, TmOK
  <1>9. FramesOK'
    <2>1. PICK s \in Seq(Frames) : s = calls
      BY Zenon DEF TypeOK
    <2>2. /\ Gone' = Gone /\ Served' = Served /\ Unasked' = Unasked /\ hlist' = hlist
          /\ Asked' = Asked
      BY Zenon, <1>1, <1>5, <1>6 DEF Gone, Served, Unasked, Asked
    <2>3. ASSUME NEW k \in 1..Len(s) PROVE FrameIn(s[k], Gone', Served', Closed', Asked')
      <3>1. FrameIn(s[k], Gone, Served, Closed, Asked)
        BY Zenon, <2>1 DEF Links, FramesOK, Stack
      <3>2. s[k].fn = "conn_close" => s[k].itn \in Closed'
        <4> SUFFICES ASSUME s[k].fn = "conn_close" PROVE s[k].itn \in Closed'
          BY Zenon
        <4>1. s[k].itn \in Closed /\ Closing(s, s[k].itn)
          BY Zenon, <3>1 DEF FrameIn, Closing
        <4> QED BY Zenon, <1>3, <2>1, <4>1 DEF Closed
      <3> QED BY Zenon, <2>2, <3>1, <3>2 DEF FrameIn
    <2>4. Stack(s, Gone', Served', Closed', Asked', Unasked', hlist')
      <3>1. Stack(s, Gone, Served, Closed, Asked, Unasked, hlist)
        BY Zenon, <2>1 DEF Links, FramesOK
      <3>2. FramesIn(s, Gone', Served', Closed', Asked')
        BY Zenon, <2>3 DEF FramesIn
      <3>3. StillUnasked(s, Unasked, Unasked') /\ hlist' \subseteq hlist
        BY Zenon, <2>2 DEF StillUnasked
      <3> QED BY Zenon, <3>1, <3>2, <3>3, StackKept
    <2> QED BY ZenonT(30), <1>1, <2>1, <2>4 DEF FramesOK
  <1> QED BY Zenon, <1>3, <1>4, <1>8, <1>9 DEF Links

\* One step of conn_close.
LEMMA LinksConnCloseStep ==
    ASSUME Counting, TypeOK, TypeOK', Links, ConnCloseStep
    PROVE  Links'
  <1>1. PICK i \in Nexuses : /\ i = Head(calls).itn /\ Head(calls).fn = "conn_close"
                             /\ calls # <<>> /\ Head(calls) = calls[1]
    BY TailProps DEF ConnCloseStep, Top, TypeOK, Frames
  <1>2. /\ Stack(calls, Gone, Served, Closed, Asked, Unasked, hlist)
        /\ i \in Closed /\ calls \in Seq(Frames)
    BY Zenon, <1>1, StackPop DEF Links, FramesOK, TypeOK, FrameIn, Last
  <1>3. 1 \in 1..Len(calls) /\ \A k \in 1..Len(calls) : k = 1 /\ calls[k].fn = "conn_close"
    <2>1. Len(calls) = 1
      <3>1. calls \in Seq(Frames) /\ calls # <<>>
        BY Zenon, <1>1, <1>2
      <3>2. Len(Tail(calls)) = Len(calls) - 1 /\ Len(calls) \in Nat
        BY Zenon, <3>1, TailProps
      <3>3. Last(Head(calls))
        BY Zenon, <1>1 DEF Last
      <3>4. \A k \in 1..Len(Tail(calls)) : ~Last(Head(calls))
        BY Zenon, <3>1, StackPop DEF Links, FramesOK
      <3>5. 1 \notin 1..Len(Tail(calls))
        BY Zenon, <3>3, <3>4
      <3> HIDE DEF Last
      <3> QED BY <3>1, <3>2, <3>5, TailProps
    <2> QED BY <1>1, <2>1
  <1>4. ASSUME NEW c \in tx, c \in hlist, tx' = tx \ {c}, iscsi_free_cmd_task(c, calls),
               UNCHANGED <<cmdVars, queue, io>>
        PROVE  Links'
    <2>1. PICK s \in Seq(Frames) : s = calls
      BY Zenon, <1>2
    <2>2. c \in processed /\ c \notin io
      BY Zenon, <1>4 DEF Links, CommandsOK
    <2>3. \A k \in 1..Len(s) : s[k].fn = "conn_close"
      BY Zenon, <1>3, <2>1
    <2>4. /\ Stack(s, Gone, Served, Closed, Asked, Unasked, hlist)
          /\ \A j \in Nexuses : Closing(s, j) <=> Closing(calls, j)
          /\ iscsi_free_cmd_task(c, s)
      BY Zenon, <1>2, <1>4, <2>1
    <2> QED BY ZenonT(30), <1>4, <2>2, <2>3, <2>4, LinksFreeCmdTask
  <1>5. ASSUME NEW m \in Mreqs, tmState[m] = "tx", FreeTm(m),
               UNCHANGED <<cmdVars, listVars, calls>>
        PROVE  Links'
    BY Zenon, <1>5, LinksFreeTm
  <1>6. CASE conn_put(i) /\ Return /\ UNCHANGED <<cmdVars, listVars, tm>>
    <2>0. Tail(calls) = <<>>
      BY ZenonT(30), <1>1, <1>2, StackPop DEF Last
    <2>1. /\ UNCHANGED <<alive, itn, processed, mreq, hlist, queue, io, tx>>
          /\ UNCHANGED <<tmState, tmItn, busy>> /\ calls' = <<>>
      BY ZenonT(30), <2>0, <1>6 DEF cmdVars, listVars, tm, Return
    <2>2. CommandsOK'
      BY Zenon, <2>1 DEF Links, CommandsOK
    <2>3. TmOK'
      <3>1. \A m : Waiters(m)' = Waiters(m)
        BY Zenon, <2>1 DEF Waiters
      <3> QED BY Zenon, <2>1, <3>1 DEF Links, TmOK, TmNotEarly
    <2>4. RefOK'
      <3>1. Closing(calls, i) /\ \A j \in Nexuses : j # i => ~Closing(calls, j)
        BY Zenon, <1>1, <1>3 DEF Closing
      <3>2. conn[i] = "closed" /\ hlist \subseteq alive
        BY Zenon, <1>2 DEF Closed, Links, CommandsOK
      <3> QED BY ZenonT(30), <1>6, <2>1, <3>1, <3>2, PutClosed DEF Links
    <2>5. FramesOK'
      BY Zenon, <2>1, StackSmall DEF FramesOK
    <2> QED BY ZenonT(30), <2>2, <2>3, <2>4, <2>5 DEF Links
  <1>7. CASE Crash
    BY Zenon, <1>7, LinksCrash
  <1> QED BY ZenonT(30), <1>1, <1>4, <1>5, <1>6, <1>7 DEF ConnCloseStep

\* iscsi_free_task: the last frame that works on the command.
LEMMA LinksFreeTask ==
    ASSUME Counting, TypeOK, TypeOK', Links, iscsi_free_task
    PROVE  Links'
  <1>1. PICK s \in Seq(Frames), c \in Cmds :
           /\ s = Tail(calls) /\ c = Head(calls).cmd /\ Head(calls).fn = "iscsi_free_task"
           /\ calls # <<>>
    <2>1. calls # <<>> /\ Head(calls).fn = "iscsi_free_task" /\ calls \in Seq(Frames)
      BY Zenon DEF iscsi_free_task, Top, TypeOK
    <2>2. Head(calls) \in Frames /\ Tail(calls) \in Seq(Frames)
      BY Zenon, <2>1, TailProps
    <2>3. Head(calls).cmd \in Cmds
      BY ZenonT(30), <2>1, <2>2, FrameFields
    <2> QED BY ZenonT(30), <2>1, <2>2, <2>3
  <1>2. /\ Stack(s, Gone, Served, Closed, Asked, Unasked, hlist)
        /\ FrameIn(Head(calls), Gone, Served, Closed, Asked)
        /\ \A k \in 1..Len(s) : Apart(Head(calls), s[k], Unasked, hlist)
    BY ZenonT(30), <1>1, StackPop DEF Links, FramesOK, TypeOK
  <1>3. \A j \in Nexuses : Closing(s, j) <=> Closing(calls, j)
    BY ZenonT(30), <1>1, ClosingPop DEF TypeOK
  <1>4. c \in processed /\ c \in alive /\ c \notin hlist /\ c \notin io /\ c \notin tx
    BY Zenon, <1>1, <1>2 DEF FrameIn, Gone, Links, CommandsOK
  <1>5. /\ alive' = alive \ {c} /\ processed' = processed \ {c}
        /\ itn' = [itn EXCEPT ![c] = None] /\ mreq' = [mreq EXCEPT ![c] = None]
        /\ conn_put(itn[c]) /\ calls' = s
        /\ UNCHANGED <<hlist, queue, io, tx, tmState, tmItn, busy>>
    BY Zenon, <1>1 DEF iscsi_free_task, Return, listVars, tm
  <1>6. /\ itn'[c] = None /\ mreq'[c] = None
        /\ \A d \in Cmds : d # c => itn'[d] = itn[d] /\ mreq'[d] = mreq[d]
    BY <1>5 DEF TypeOK
  <1>7. PICK i \in Nexuses : i = itn[c]
    BY <1>4 DEF Links, CommandsOK, TypeOK
  <1>8. hlist \subseteq Cmds /\ alive \subseteq Cmds /\ i # None
    BY NoneAssumption DEF TypeOK
  <1>9. RefOK' /\ \A j \in Nexuses : Closing(calls, j) => conn'[j] = conn[j]
    <2>1. conn_put(i)
      BY ZenonT(30), <1>5, <1>7
    <2>2. \A j \in Nexuses : TmsOf(j)' = TmsOf(j)
      BY Zenon, <1>5 DEF TmsOf
    <2>3. c \in CmdsOf(i) /\ CmdsOf(i)' = CmdsOf(i) \ {c}
      BY ZenonT(30), <1>4, <1>5, <1>6, <1>7, <1>8 DEF CmdsOf
    <2>4. \A j \in Nexuses : j # i => CmdsOf(j)' = CmdsOf(j)
      BY Zenon, <1>5, <1>6, <1>7, <1>8 DEF CmdsOf
    <2>5. Cardinality(CmdsOf(i)') = Cardinality(CmdsOf(i)) - 1
      BY Zenon, <2>3, RefsFinite, CountRemove
    <2>6. ASSUME NEW j \in Nexuses
          PROVE  Cardinality(CmdsOf(j)') + Cardinality(TmsOf(j)')
                   = Cardinality(CmdsOf(j)) + Cardinality(TmsOf(j)) - (IF j = i THEN 1 ELSE 0)
      <3>1. Cardinality(CmdsOf(j)) \in Nat /\ Cardinality(TmsOf(j)) \in Nat
        BY Zenon, RefsFinite
      <3>2. CASE j = i
        BY <2>2, <2>5, <3>1, <3>2
      <3>3. CASE j # i
        BY <2>2, <2>4, <3>1, <3>3
      <3> QED BY Zenon, <3>2, <3>3
    <2>7. \A d \in hlist : itn[d] = i => d \in CmdsOf(i)'
      <3>1. \A d \in hlist : d # c /\ d \in alive
        BY Zenon, <1>4 DEF Links, CommandsOK
      <3> QED BY Zenon, <2>3, <3>1 DEF CmdsOf
    <2>8. \A j \in Nexuses : Closing(calls', j) <=> Closing(calls, j)
      BY Zenon, <1>3, <1>5
    <2> QED BY Zenon, <2>1, <2>6, <2>7, <2>8, PutRef DEF Links
  <1>10. CommandsOK'
    <2>1. \A k \in 1..Len(queue) : queue[k] # c
      BY Zenon, <1>4 DEF Links, CommandsOK
    <2>2. \A d \in Cmds : d \in alive' <=> itn'[d] # None
      BY Zenon, <1>5, <1>6 DEF Links, CommandsOK
    <2>3. \A d \in Cmds : mreq'[d] # None => d \in processed'
      BY Zenon, <1>5, <1>6 DEF Links, CommandsOK
    <2>4. /\ hlist' \subseteq alive' /\ processed' \subseteq alive' /\ io' \subseteq processed'
          /\ tx' \subseteq alive' /\ tx' \cap hlist' \subseteq processed' \ io'
      BY Zenon, <1>4, <1>5 DEF Links, CommandsOK
    <2>5. \A k \in 1..Len(queue') : queue'[k] \in alive' /\ queue'[k] \notin processed'
      BY Zenon, <1>5, <2>1 DEF Links, CommandsOK
    <2>6. \A k, l \in 1..Len(queue') : queue'[k] = queue'[l] => k = l
      BY Zenon, <1>5 DEF Links, CommandsOK
    <2> QED BY ZenonT(30), <2>2, <2>3, <2>4, <2>5, <2>6 DEF CommandsOK
  <1>11. \A d \in hlist : mreq'[d] = mreq[d]
    BY Zenon, <1>4, <1>6, <1>8
  <1>12. TmOK'
    <2>1. \A m : Waiters(m)' = Waiters(m)
      BY Zenon, <1>5, <1>11 DEF Waiters
    <2>2. TmNotEarly'
      BY ZenonT(30), <1>5, <1>11 DEF Links, TmOK, TmNotEarly
    <2> QED BY Zenon, <1>5, <2>1, <2>2 DEF Links, TmOK
  <1>13. FramesOK'
    <2>1. /\ Gone' = Gone \ {c} /\ Asked' = Asked /\ hlist' = hlist
          /\ Unasked \subseteq Unasked'
      BY Zenon, <1>5, <1>6 DEF Gone, Asked, Unasked
    <2>2. Served \ {c} \subseteq Served'
      BY Zenon, <1>5 DEF Served
    <2>3. ASSUME NEW k \in 1..Len(s) PROVE FrameIn(s[k], Gone', Served', Closed', Asked')
      <3>1. FrameIn(s[k], Gone, Served, Closed, Asked) /\ Apart(Head(calls), s[k], Unasked, hlist)
        BY Zenon, <1>2 DEF Stack
      <3>2. s[k].fn = "conn_close" => s[k].itn \in Closed'
        <4> SUFFICES ASSUME s[k].fn = "conn_close" PROVE s[k].itn \in Closed'
          BY Zenon
        <4>1. s[k].itn \in Closed /\ Closing(s, s[k].itn)
          BY Zenon, <3>1 DEF FrameIn, Closing
        <4> QED BY Zenon, <1>3, <1>9, <4>1 DEF Closed
      <3>3. s[k].fn \in {"iscsi_free_task", "target_cmd_io_done"} => s[k].cmd # c
        BY Zenon, <1>1, <3>1 DEF Apart
      <3> QED BY ZenonT(30), <2>1, <2>2, <3>1, <3>2, <3>3 DEF FrameIn
    <2>4. Stack(s, Gone', Served', Closed', Asked', Unasked', hlist')
      <3>1. StillUnasked(s, Unasked, Unasked')
        BY Zenon, <2>1 DEF StillUnasked
      <3>2. FramesIn(s, Gone', Served', Closed', Asked')
        BY Zenon, <2>3 DEF FramesIn
      <3>3. hlist' \subseteq hlist
        BY Zenon, <2>1
      <3> QED BY Zenon, <1>2, <3>1, <3>2, <3>3, StackKept
    <2> QED BY Zenon, <1>5, <2>4 DEF FramesOK
  <1> QED BY ZenonT(30), <1>9, <1>10, <1>12, <1>13 DEF Links

\* post_cmd_done starts the head of the queue.
LEMMA LinksPostPerform ==
    ASSUME TypeOK, TypeOK', Links, PostCmdDonePerform
    PROVE  Links'
  <1>1. PICK s \in Seq(Frames), c \in Cmds, q \in Cmds \cup {None} :
           /\ s = Tail(calls) /\ c = Head(calls).cmd /\ q = Second(queue)
           /\ calls # <<>> /\ queue # <<>> /\ c = queue[1] /\ queue' = Tail(queue)
           /\ Head(calls).fn = "post_cmd_done"
    <2>1. /\ calls # <<>> /\ calls \in Seq(Frames) /\ Head(calls).fn = "post_cmd_done"
          /\ queue \in Seq(Cmds) /\ Head(calls).cmd # None /\ Head(calls).cmd = First(queue)
          /\ queue' = Tail(queue)
      BY Zenon DEF PostCmdDonePerform, Top, TypeOK
    <2>2. Tail(calls) \in Seq(Frames)
      BY Zenon, <2>1, TailProps
    <2>3. queue # <<>> /\ Head(calls).cmd = queue[1] /\ queue[1] \in Cmds
      BY ZenonT(30), <2>1, TailProps DEF First
    <2>4. Second(queue) \in Cmds \cup {None}
      BY Zenon, <2>1, <2>3, FirstType
    <2> QED BY ZenonT(30), <2>1, <2>2, <2>3, <2>4
  <1> DEFINE post == PostFrame(q)
             rest == <<post>> \o s
  <1>2. /\ processed' = processed \cup {c}
        /\ \/ io' = io \cup {c} /\ calls' = rest
           \/ io' = io /\ calls' = <<IoDoneFrame(c)>> \o rest
        /\ UNCHANGED <<alive, itn, mreq, hlist, tx, tmState, tmItn, busy, conn, refcount, nexus>>
    BY Zenon, <1>1 DEF PostCmdDonePerform, Perform, tm, connVars
  <1>3. /\ post \in Frames /\ post.fn = "post_cmd_done" /\ IoDoneFrame(c) \in Frames
        /\ IoDoneFrame(c).fn = "target_cmd_io_done" /\ IoDoneFrame(c).cmd = c
    BY Zenon, FrameTypes DEF PostFrame, IoDoneFrame, Frame
  <1>4. 1 \in 1..Len(queue) /\ c \in alive /\ c \notin processed
    <2>1. 1 \in 1..Len(queue)
      BY <1>1, TailProps DEF TypeOK
    <2> QED BY ZenonT(30), <1>1, <2>1 DEF Links, CommandsOK
  <1>5. c \notin io /\ (c \in hlist => c \notin tx) /\ mreq[c] = None
    BY Zenon, <1>4 DEF Links, CommandsOK
  <1>6. CommandsOK'
    <2>1. /\ Len(queue') = Len(queue) - 1 /\ Len(queue) \in Nat
          /\ \A k \in 1..Len(queue') : queue'[k] = queue[k + 1]
      BY <1>1, TailProps DEF TypeOK
    <2>2. \A k \in 1..Len(queue') : k + 1 \in 1..Len(queue) /\ k + 1 # 1
      BY <2>1
    <2>3. \A k \in 1..Len(queue') : queue'[k] \in alive' /\ queue'[k] \notin processed'
      <3> SUFFICES ASSUME NEW k \in 1..Len(queue')
                   PROVE  queue'[k] \in alive' /\ queue'[k] \notin processed'
        BY Zenon
      <3>1. queue'[k] = queue[k + 1] /\ k + 1 \in 1..Len(queue) /\ k + 1 # 1
        BY Zenon, <2>1, <2>2
      <3>2. queue[k + 1] \in alive /\ queue[k + 1] \notin processed /\ queue[k + 1] # queue[1]
        BY Zenon, <1>4, <3>1 DEF Links, CommandsOK
      <3> QED BY Zenon, <1>1, <1>2, <3>1, <3>2
    <2>4. \A k, l \in 1..Len(queue') : queue'[k] = queue'[l] => k = l
      <3> SUFFICES ASSUME NEW k \in 1..Len(queue'), NEW l \in 1..Len(queue'),
                          queue'[k] = queue'[l]
                   PROVE  k = l
        BY Zenon
      <3>1. queue[k + 1] = queue[l + 1] /\ k + 1 \in 1..Len(queue) /\ l + 1 \in 1..Len(queue)
        BY Zenon, <2>1, <2>2
      <3>2. k + 1 = l + 1
        BY Zenon, <3>1 DEF Links, CommandsOK
      <3> QED BY <3>2
    <2>5. /\ hlist' \subseteq alive' /\ processed' \subseteq alive' /\ io' \subseteq processed'
          /\ tx' \subseteq alive' /\ tx' \cap hlist' \subseteq processed' \ io'
      BY ZenonT(30), <1>2, <1>4, <1>5 DEF Links, CommandsOK
    <2>6. /\ \A d \in Cmds : d \in alive' <=> itn'[d] # None
          /\ \A d \in Cmds : mreq'[d] # None => d \in processed'
      BY Zenon, <1>2 DEF Links, CommandsOK
    <2> QED BY ZenonT(30), <2>3, <2>4, <2>5, <2>6 DEF CommandsOK
  <1>7. TmOK'
    <2>1. \A m : Waiters(m)' = Waiters(m)
      BY Zenon, <1>2 DEF Waiters
    <2> QED BY Zenon, <1>2, <2>1 DEF Links, TmOK, TmNotEarly
  <1>8. rest \in Seq(Frames)
    BY Zenon, <1>3, PushProps
  <1>9. RefOK'
    <2>1. ASSUME NEW j \in Nexuses PROVE Closing(calls', j) <=> Closing(calls, j)
      <3>1. Closing(s, j) <=> Closing(calls, j)
        BY ZenonT(30), <1>1, ClosingPop DEF TypeOK
      <3>2. Closing(rest, j) <=> Closing(s, j)
        BY Zenon, <1>3, ClosingPush
      <3> HIDE DEF rest
      <3>3. Closing(<<IoDoneFrame(c)>> \o rest, j) <=> Closing(rest, j)
        BY Zenon, <1>3, <1>8, ClosingPush
      <3> QED BY ZenonT(30), <1>2, <3>1, <3>2, <3>3
    <2> QED BY Zenon, <1>2, <2>1, SameRef DEF Links
  <1>10. FramesOK'
    <2>1. Stack(s, Gone, Served, Closed, Asked, Unasked, hlist)
      BY ZenonT(30), <1>1, StackPop DEF Links, FramesOK, TypeOK
    <2>2. /\ Closed' = Closed /\ Asked' = Asked /\ Unasked' = Unasked /\ hlist' = hlist
      BY Zenon, <1>2 DEF Closed, Asked, Unasked
    <2>3. Gone \subseteq Gone' /\ Served \subseteq Served'
      BY Zenon, <1>2, <1>4 DEF Gone, Served
    <2>4. Stack(s, Gone', Served', Closed', Asked', Unasked', hlist')
      <3> HIDE DEF post, rest
      <3>1. FramesIn(s, Gone', Served', Closed', Asked')
        BY Zenon, <2>1, <2>2, <2>3 DEF Stack, FrameIn, FramesIn
      <3>2. StillUnasked(s, Unasked, Unasked')
        BY Zenon, <2>2 DEF StillUnasked
      <3>3. hlist' \subseteq hlist
        BY Zenon, <2>2
      <3> QED BY Zenon, <2>1, <3>1, <3>2, <3>3, StackKept
    <2>5. Stack(rest, Gone', Served', Closed', Asked', Unasked', hlist')
      <3>1. /\ FrameIn(post, Gone', Served', Closed', Asked')
            /\ \A k \in 1..Len(s) : Apart(post, s[k], Unasked', hlist') /\ ~Last(post)
        BY Zenon, <1>3 DEF FrameIn, Apart, Last
      <3> HIDE DEF post
      <3> QED BY Zenon, <1>3, <2>4, <3>1, StackPush
    <2>6. CASE calls' = rest
      BY Zenon, <2>5, <2>6 DEF FramesOK
    <2>7. CASE io' = io /\ calls' = <<IoDoneFrame(c)>> \o rest
      <3>1. c \in Served' /\ c \in Unasked'
        BY ZenonT(30), <1>2, <1>4, <1>5, <2>7 DEF Served, Unasked
      <3>2. ASSUME NEW k \in 1..Len(rest)
            PROVE  Apart(IoDoneFrame(c), rest[k], Unasked', hlist') /\ ~Last(IoDoneFrame(c))
        <4>1. CASE rest[k].fn = "post_cmd_done"
          BY Zenon, <1>3, <4>1 DEF Apart, Last
        <4>2. CASE rest[k].fn # "post_cmd_done"
          <5>1. k - 1 \in 1..Len(s) /\ rest[k] = s[k - 1]
            <6>1. /\ Len(rest) = Len(s) + 1 /\ rest[1] = post /\ Len(s) \in Nat
                  /\ \A l \in 2..Len(s) + 1 : rest[l] = s[l - 1]
              BY <1>3, PushProps
            <6> HIDE DEF rest, post
            <6> QED BY <1>3, <4>2, <6>1
          <5>2. FrameIn(s[k - 1], Gone, Served, Closed, Asked)
            BY Zenon, <2>1, <5>1 DEF Stack
          <5>3. /\ rest[k].fn = "iscsi_free_task" => rest[k].cmd # c
                /\ rest[k].fn = "target_cmd_io_done" /\ c \in hlist => rest[k].cmd # c
            BY Zenon, <1>4, <5>1, <5>2 DEF FrameIn, Gone, Served
          <5> QED BY Zenon, <1>3, <2>2, <3>1, <5>3 DEF Apart, Last
        <4> QED BY Zenon, <4>1, <4>2
      <3>3. FrameIn(IoDoneFrame(c), Gone', Served', Closed', Asked')
        BY Zenon, <1>3, <3>1 DEF FrameIn
      <3> HIDE DEF rest
      <3>4. Stack(<<IoDoneFrame(c)>> \o rest, Gone', Served', Closed', Asked', Unasked', hlist')
        BY ZenonT(30), <1>3, <1>8, <2>5, <3>2, <3>3, StackPush
      <3> QED BY Zenon, <2>7, <3>4 DEF FramesOK
    <2> QED BY ZenonT(30), <1>2, <2>6, <2>7
  <1> QED BY Zenon, <1>6, <1>7, <1>9, <1>10 DEF Links
=============================================================================
