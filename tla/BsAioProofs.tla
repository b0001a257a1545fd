---------------------------- MODULE BsAioProofs -----------------------------
(***************************************************************************)
(* The AIO backing store is right (AioExact), for every number of commands *)
(* and logical units and every queue depth: the inductive invariant; that  *)
(* bs_aio_submit_dev_batch keeps the lists and the counters, whatever      *)
(* io_submit answers; the steps, and the theorem.                          *)
(***************************************************************************)
EXTENDS BsAio, SequenceTheorems, FiniteSetTheorems, TLAPS

-----------------------------------------------------------------------------
(* The inductive invariant.                                                *)

\* A wait list holds the waiting commands of its LU in the order they came.
WaitExact ==
    \A l \in Lus :
        /\ \A k \in 1..Len(wait_list[l]) :
              cmd[wait_list[l][k]] = "waiting" /\ dev[wait_list[l][k]] = l
        /\ \A j, k \in 1..Len(wait_list[l]) : j < k => wait_list[l][j] < wait_list[l][k]
        /\ \A c \in In(l, {"waiting"}) : \E k \in 1..Len(wait_list[l]) : wait_list[l][k] = c

\* Commands come in the order of their numbers.
Numbered ==
    /\ \A c \in Cmds : cmd[c] = "new" <=> dev[c] = None
    /\ \A c, d \in Cmds : c < d /\ cmd[c] = "new" => cmd[d] = "new"

\* What is said of the lists.
ListsOK == WaitExact /\ DevListExact /\ InOrder /\ Numbered

\* bs_aio_get_completions runs for one LU, and never inside a batch.
ControlOK ==
    /\ loop = "idle" <=> reap = None
    /\ batch => loop = "idle"

\* An LU with waiting commands and none pending has been excused, or its
\* commands are still to be submitted: by the walk over the devices, at the end
\* of bs_aio_get_completions, or by the last command of the batch.
Covered ==
    \A l \in Idlers : l \in excused \/ l \in walk \/ l = reap \/ batch

IInv ==
    /\ TypeOK /\ ListsOK /\ CountsExact /\ EventsCounted /\ ExitClean
    /\ ControlOK /\ Covered

-----------------------------------------------------------------------------
(* Facts about sequences and sets.                                         *)

\* The first r elements of a list without duplicates are r elements.
LEMMA FirstCard ==
    ASSUME NEW T, NEW s \in Seq(T), NEW r \in 0..Len(s), NEW F,
           \A j, k \in 1..Len(s) : s[j] = s[k] => j = k,
           \A k \in 1..r : s[k] \in F,
           \A x \in F : \E k \in 1..r : s[k] = x
    PROVE  IsFiniteSet(F) /\ Cardinality(F) = r
  <1> DEFINE f == [k \in 1..r |-> s[k]]
  <1>1. r \in Nat /\ 1..r \subseteq 1..Len(s)
    BY LenProperties
  <1>2. f \in [1..r -> F] /\ \A k \in 1..r : f[k] = s[k]
    BY Zenon
  <1>3. \A a, b \in 1..r : f[a] = f[b] => a = b
    BY Zenon, <1>1, <1>2
  <1>4. f \in Bijection(1..r, F)
    <2>1. IsInjective(f)
      BY Zenon, <1>2, <1>3 DEF IsInjective
    <2>2. \A t \in F : \E k \in 1..r : f[k] = t
      BY Zenon, <1>2
    <2> QED BY Zenon, <1>2, <2>1, <2>2 DEF Bijection, Injection, Surjection
  <1>5. ExistsBijection(1..r, F)
    BY Zenon, <1>4 DEF ExistsBijection
  <1> QED BY Zenon, <1>1, <1>5, FS_NatBijection, FS_CountingElements

\* What is left of a list after its first b elements.
LEMMA RestProps ==
    ASSUME NEW T, NEW s \in Seq(T), NEW b \in 0..Len(s)
    PROVE  LET t == SubSeq(s, b + 1, Len(s))
           IN /\ t \in Seq(T)
              /\ Len(t) = Len(s) - b
              /\ t = <<>> <=> Len(s) = b
              /\ \A k \in 1..Len(t) : t[k] = s[k + b] /\ k + b \in 1..Len(s)
  <1> DEFINE t == SubSeq(s, b + 1, Len(s))
  <1>1. Len(s) \in Nat /\ b \in Nat /\ b <= Len(s)
    BY LenProperties
  <1>2. \A i \in (b + 1)..Len(s) : s[i] \in T
    <2>1. \A i \in (b + 1)..Len(s) : i \in 1..Len(s)
      BY <1>1
    <2> QED BY Zenon, <2>1, ElementOfSeq
  <1>3. /\ t \in Seq(T)
        /\ Len(t) = IF b + 1 <= Len(s) THEN Len(s) - (b + 1) + 1 ELSE 0
        /\ \A i \in 1..(Len(s) - (b + 1) + 1) : t[i] = s[(b + 1) + i - 1]
    BY <1>1, <1>2, SubSeqProperties
  <1> HIDE DEF t
  <1>4. Len(t) = Len(s) - b
    BY <1>1, <1>3
  <1>5. ASSUME NEW k \in 1..Len(t) PROVE t[k] = s[k + b] /\ k + b \in 1..Len(s)
    <2>1. k \in 1..(Len(s) - (b + 1) + 1) /\ (b + 1) + k - 1 = k + b
      BY <1>1, <1>4
    <2> QED BY <1>1, <1>3, <1>4, <2>1
  <1>6. t = <<>> <=> Len(s) = b
    <2>1. t = <<>> <=> Len(t) = 0
      BY Zenon, <1>3, EmptySeq
    <2> QED BY <1>1, <1>4, <2>1
  <1> QED BY Zenon, <1>3, <1>4, <1>5, <1>6 DEF t

\* The commands of an LU are finitely many.
LEMMA InFinite ==
    ASSUME NEW l, NEW S
    PROVE  IsFiniteSet(In(l, S)) /\ Cardinality(In(l, S)) \in Nat
  <1>1. IsFiniteSet(Cmds)
    BY FS_Interval, StoreConstants DEF Cmds
  <1>2. In(l, S) \in SUBSET Cmds
    BY Zenon DEF In
  <1>3. IsFiniteSet(In(l, S))
    BY Zenon, <1>1, <1>2, FS_Subset
  <1> QED BY Zenon, <1>3, FS_CardinalityType

-----------------------------------------------------------------------------
(* A batch.                                                                *)

\* bs_aio_submit_dev_batch takes the first b commands off the wait list: the
\* kernel has them, or all of them failed.
Takes(l, r, b) ==
    /\ b \in 0..Len(wait_list[l])
    /\ wait_list' = [wait_list EXCEPT ![l] = SubSeq(wait_list[l], b + 1, Len(wait_list[l]))]
    /\ nwaiting' = [nwaiting EXCEPT ![l] = nwaiting[l] - b]
    /\ dev_list' = IF nwaiting[l] = b THEN dev_list \ {l} ELSE dev_list
    /\ cmd' \in [Cmds -> States]
    /\ \A c \in Cmds \ taken(l, b) : cmd'[c] = cmd[c]
    /\ \/ /\ r = -1 /\ npending' = npending
          /\ \A c \in taken(l, b) : cmd'[c] \in {"failed", "lost"}
       \/ /\ r = b /\ npending' = [npending EXCEPT ![l] = npending[l] + b]
          /\ npending[l] + b <= IoDepth
          /\ \A c \in taken(l, b) : cmd'[c] = "kernel"

\* Every answer of io_submit does.
LEMMA BatchTakes ==
    ASSUME TypeOK, CountsExact, NEW l \in Lus, NEW r \in Int,
           bs_aio_submit_dev_batch(l, r)
    PROVE  \E b \in Nat : Takes(l, r, b)
  <1> DEFINE n == nsubmit(l)
  <1>1. /\ nwaiting[l] = Len(wait_list[l]) /\ wait_list[l] \in Seq(Cmds)
        /\ Len(wait_list[l]) \in Nat
        /\ npending[l] <= IoDepth /\ npending[l] \in Int /\ IoDepth \in Nat
    BY Zenon, StoreConstants, LenProperties DEF TypeOK, CountsExact
  <1>2. n \in 0..Len(wait_list[l]) /\ npending[l] + n <= IoDepth
    BY <1>1 DEF nsubmit
  <1>3. \A b \in 0..Len(wait_list[l]) : taken(l, b) \subseteq Cmds
    <2>1. \A b \in 0..Len(wait_list[l]) : \A k \in 1..b : k \in 1..Len(wait_list[l])
      BY <1>1
    <2> QED BY Zenon, <1>1, <2>1, ElementOfSeq DEF taken
  <1>4. r \in -1..n
    BY Zenon DEF bs_aio_submit_dev_batch, io_submit
  <1>5. CASE r = -1
    <2>1. refused(l, n)
      BY Zenon, <1>5 DEF bs_aio_submit_dev_batch
    <2>2. cmd' \in [Cmds -> States]
      BY Zenon, <2>1 DEF refused, TypeOK, States
    <2>3. /\ \A c \in Cmds \ taken(l, n) : cmd'[c] = cmd[c]
          /\ \A c \in taken(l, n) : cmd'[c] \in {"failed", "lost"}
      BY Zenon, <1>2, <1>3, <2>1 DEF refused
    <2>4. /\ wait_list' = [wait_list EXCEPT ![l] = SubSeq(wait_list[l], n + 1, Len(wait_list[l]))]
          /\ nwaiting' = [nwaiting EXCEPT ![l] = nwaiting[l] - n]
          /\ dev_list' = IF nwaiting[l] = n THEN dev_list \ {l} ELSE dev_list
          /\ npending' = npending
      BY Zenon, <2>1 DEF refused
    <2> HIDE DEF n
    <2>5. Takes(l, r, n) /\ n \in Nat
      BY <1>1, <1>2, <1>5, <2>2, <2>3, <2>4 DEF Takes
    <2> QED BY Zenon, <2>5
  <1>6. CASE r # -1
    <2>1. accepted(l, n, r)
      BY Zenon, <1>6 DEF bs_aio_submit_dev_batch
    <2>2. r \in 0..Len(wait_list[l]) /\ npending[l] + r <= IoDepth /\ r \in Nat
      BY <1>1, <1>2, <1>4, <1>6
    <2>3. cmd' \in [Cmds -> States]
      BY Zenon, <2>1 DEF accepted, TypeOK, States
    <2>4. /\ \A c \in Cmds \ taken(l, r) : cmd'[c] = cmd[c]
          /\ \A c \in taken(l, r) : cmd'[c] = "kernel"
      BY Zenon, <1>3, <2>1, <2>2 DEF accepted
    <2>5. /\ wait_list' = [wait_list EXCEPT ![l] = SubSeq(wait_list[l], r + 1, Len(wait_list[l]))]
          /\ nwaiting' = [nwaiting EXCEPT ![l] = nwaiting[l] - r]
          /\ dev_list' = IF nwaiting[l] = r THEN dev_list \ {l} ELSE dev_list
          /\ npending' = [npending EXCEPT ![l] = npending[l] + r]
      BY Zenon, <2>1 DEF accepted
    <2>6. Takes(l, r, r)
      BY Zenon, <2>2, <2>3, <2>4, <2>5 DEF Takes
    <2> QED BY Zenon, <2>2, <2>6
  <1> QED BY Zenon, <1>5, <1>6

\* The commands taken were waiting and are no longer; the others stay as they
\* were.
LEMMA TakenWere ==
    ASSUME TypeOK, WaitExact, NEW l \in Lus, NEW r \in Int, NEW b \in Nat, Takes(l, r, b)
    PROVE  /\ \A c \in taken(l, b) : /\ c \in Cmds /\ cmd[c] = "waiting" /\ dev[c] = l
                                     /\ cmd'[c] \in {"kernel", "failed", "lost"}
           /\ \A c \in Cmds : cmd'[c] = cmd[c] \/ c \in taken(l, b)
           /\ IsFiniteSet(taken(l, b)) /\ Cardinality(taken(l, b)) = b
           /\ wait_list[l] \in Seq(Cmds) /\ Len(wait_list[l]) \in Nat
           /\ \A k \in 1..Len(wait_list[l]) : wait_list[l][k] \in Cmds
           /\ \A k \in 1..b : k \in 1..Len(wait_list[l])
  <1>1. /\ wait_list[l] \in Seq(Cmds) /\ Len(wait_list[l]) \in Nat
        /\ b \in 0..Len(wait_list[l])
        /\ \A k \in 1..Len(wait_list[l]) : wait_list[l][k] \in Cmds
    BY Zenon, LenProperties, ElementOfSeq DEF TypeOK, Takes
  <1>2. \A k \in 1..b : k \in 1..Len(wait_list[l])
    BY <1>1
  <1>3. \A c \in taken(l, b) : c \in Cmds /\ cmd[c] = "waiting" /\ dev[c] = l
    <2> SUFFICES ASSUME NEW c \in taken(l, b)
                 PROVE  c \in Cmds /\ cmd[c] = "waiting" /\ dev[c] = l
      BY Zenon
    <2>1. PICK k \in 1..b : c = wait_list[l][k]
      BY Zenon DEF taken
    <2> QED BY ZenonT(30), <1>1, <1>2, <2>1 DEF WaitExact
  <1>4. \A c \in taken(l, b) : cmd'[c] \in {"kernel", "failed", "lost"}
    BY Zenon DEF Takes
  <1>5. \A c \in Cmds : cmd'[c] = cmd[c] \/ c \in taken(l, b)
    BY Zenon DEF Takes
  <1>6. \A j, k \in 1..Len(wait_list[l]) : wait_list[l][j] = wait_list[l][k] => j = k
    <2> SUFFICES ASSUME NEW j \in 1..Len(wait_list[l]), NEW k \in 1..Len(wait_list[l]),
                        wait_list[l][j] = wait_list[l][k], j # k
                 PROVE  FALSE
      BY Zenon
    <2>1. wait_list[l][j] < wait_list[l][k] \/ wait_list[l][k] < wait_list[l][j]
      BY <1>1 DEF WaitExact
    <2>2. wait_list[l][j] \in Int
      BY <1>1, StoreConstants DEF Cmds
    <2> QED BY <2>1, <2>2
  <1>7. IsFiniteSet(taken(l, b)) /\ Cardinality(taken(l, b)) = b
    <2>1. /\ \A k \in 1..b : wait_list[l][k] \in taken(l, b)
          /\ \A c \in taken(l, b) : \E k \in 1..b : wait_list[l][k] = c
      BY Zenon DEF taken
    <2> QED BY ZenonT(30), <1>1, <1>6, <2>1, FirstCard
  <1> QED BY ZenonT(30), <1>1, <1>2, <1>3, <1>4, <1>5, <1>7

\* What a batch leaves on the wait list is the rest of it, in order.
LEMMA BatchLists ==
    ASSUME TypeOK, ListsOK, CountsExact, NEW l \in Lus, NEW r \in Int, NEW b \in Nat,
           Takes(l, r, b), dev' = dev
    PROVE  ListsOK'
  <1> DEFINE s == wait_list[l]
             t == SubSeq(s, b + 1, Len(s))
  <1>1. /\ \A c \in taken(l, b) : /\ c \in Cmds /\ cmd[c] = "waiting" /\ dev[c] = l
                                  /\ cmd'[c] \in {"kernel", "failed", "lost"}
        /\ \A c \in Cmds : cmd'[c] = cmd[c] \/ c \in taken(l, b)
        /\ s \in Seq(Cmds) /\ Len(s) \in Nat
        /\ \A k \in 1..Len(s) : s[k] \in Cmds
        /\ \A k \in 1..b : k \in 1..Len(s)
    BY Zenon, TakenWere DEF ListsOK
  <1>2. b \in 0..Len(s) /\ wait_list' = [wait_list EXCEPT ![l] = t]
    BY Zenon DEF Takes
  <1>3. /\ Len(t) = Len(s) - b /\ (t = <<>> <=> Len(s) = b)
        /\ \A k \in 1..Len(t) : t[k] = s[k + b] /\ k + b \in 1..Len(s)
    BY ZenonT(30), <1>1, <1>2, RestProps
  <1>4. /\ wait_list'[l] = t
        /\ \A m \in Lus : m # l => wait_list'[m] = wait_list[m]
    BY Zenon, <1>2 DEF TypeOK
  <1>5. /\ \A k \in 1..Len(s) : cmd[s[k]] = "waiting" /\ dev[s[k]] = l
        /\ \A j, k \in 1..Len(s) : j < k => s[j] < s[k]
        /\ \A c \in In(l, {"waiting"}) : \E k \in 1..Len(s) : s[k] = c
    BY Zenon DEF ListsOK, WaitExact
  <1>6. \A c \in taken(l, b) : \E k \in 1..b : c = s[k]
    BY Zenon DEF taken
  <1>7. \A k \in 1..b : s[k] \in taken(l, b)
    BY Zenon DEF taken
  <1>8. \A c \in Cmds : c \in Int
    BY StoreConstants DEF Cmds
  <1> HIDE DEF s, t
  <1>9. \A k \in 1..Len(t) : t[k] \in Cmds /\ t[k] \notin taken(l, b)
    <2> SUFFICES ASSUME NEW k \in 1..Len(t) PROVE t[k] \in Cmds /\ t[k] \notin taken(l, b)
      BY Zenon
    <2>1. t[k] = s[k + b] /\ k + b \in 1..Len(s)
      BY Zenon, <1>3
    <2>2. ASSUME NEW j \in 1..b PROVE s[j] # s[k + b]
      <3>1. j < k + b /\ j \in 1..Len(s)
        BY <1>1
      <3>2. s[j] < s[k + b] /\ s[j] \in Int
        BY Zenon, <1>1, <1>5, <1>8, <2>1, <3>1
      <3> QED BY <3>2
    <2> QED BY Zenon, <1>1, <1>6, <2>1, <2>2
  <1>10. WaitExact'
    <2>1. ASSUME NEW k \in 1..Len(t) PROVE cmd'[t[k]] = "waiting" /\ dev'[t[k]] = l
      <3>1. t[k] = s[k + b] /\ k + b \in 1..Len(s)
        BY Zenon, <1>3
      <3> QED BY <1>1, <1>5, <1>9, <3>1
    <2>2. ASSUME NEW j \in 1..Len(t), NEW k \in 1..Len(t), j < k PROVE t[j] < t[k]
      <3>1. j + b < k + b
        BY <2>2
      <3> QED BY ZenonT(30), <1>3, <1>5, <3>1
    <2>3. ASSUME NEW c \in In(l, {"waiting"})' PROVE \E k \in 1..Len(t) : t[k] = c
      <3>1. c \in Cmds /\ dev[c] = l /\ cmd'[c] = "waiting"
        BY Zenon, <2>3 DEF In
      <3>2. c \notin taken(l, b) /\ cmd[c] = "waiting"
        BY Zenon, <1>1, <3>1
      <3>3. PICK k \in 1..Len(s) : s[k] = c
        BY Zenon, <1>5, <3>1, <3>2 DEF In
      <3>4. k \notin 1..b
        BY Zenon, <1>7, <3>2, <3>3
      <3>5. k - b \in 1..Len(t) /\ (k - b) + b = k
        BY <1>1, <1>3, <3>4
      <3> QED BY ZenonT(30), <1>3, <3>3, <3>5
    <2>4. ASSUME NEW m \in Lus, m # l
          PROVE  /\ \A k \in 1..Len(wait_list'[m]) :
                       cmd'[wait_list'[m][k]] = "waiting" /\ dev'[wait_list'[m][k]] = m
                 /\ \A j, k \in 1..Len(wait_list'[m]) :
                       j < k => wait_list'[m][j] < wait_list'[m][k]
                 /\ \A c \in In(m, {"waiting"})' :
                       \E k \in 1..Len(wait_list'[m]) : wait_list'[m][k] = c
      <3>1. /\ wait_list'[m] = wait_list[m]
            /\ \A k \in 1..Len(wait_list[m]) : wait_list[m][k] \in Cmds
        BY Zenon, <1>4, <2>4, ElementOfSeq DEF TypeOK
      <3>2. /\ \A k \in 1..Len(wait_list[m]) :
                  cmd[wait_list[m][k]] = "waiting" /\ dev[wait_list[m][k]] = m
            /\ \A j, k \in 1..Len(wait_list[m]) : j < k => wait_list[m][j] < wait_list[m][k]
            /\ \A c \in In(m, {"waiting"}) : \E k \in 1..Len(wait_list[m]) : wait_list[m][k] = c
        BY Zenon DEF ListsOK, WaitExact
      <3>3. \A c \in In(m, {"waiting"})' : c \in In(m, {"waiting"})
        BY Zenon, <1>1, <2>4 DEF In
      <3>4. \A k \in 1..Len(wait_list[m]) :
               cmd'[wait_list[m][k]] = "waiting" /\ dev'[wait_list[m][k]] = m
        BY <1>1, <2>4, <3>1, <3>2
      <3> QED BY Zenon, <3>1, <3>2, <3>3, <3>4
    <2>5. /\ \A k \in 1..Len(wait_list'[l]) :
                cmd'[wait_list'[l][k]] = "waiting" /\ dev'[wait_list'[l][k]] = l
          /\ \A j, k \in 1..Len(wait_list'[l]) :
                j < k => wait_list'[l][j] < wait_list'[l][k]
          /\ \A c \in In(l, {"waiting"})' :
                \E k \in 1..Len(wait_list'[l]) : wait_list'[l][k] = c
      BY Zenon, <1>4, <2>1, <2>2, <2>3
    <2> QED BY Zenon, <2>4, <2>5 DEF WaitExact
  <1>11. DevListExact'
    <2>1. nwaiting[l] = Len(s)
      BY Zenon DEF CountsExact, s
    <2>2. dev_list' = IF Len(s) = b THEN dev_list \ {l} ELSE dev_list
      BY Zenon, <2>1 DEF Takes
    <2>3. l \in dev_list <=> s # <<>>
      BY Zenon DEF ListsOK, DevListExact, s
    <2>4. Len(s) # b => s # <<>>
      BY <1>1, <1>2, EmptySeq
    <2>5. l \in dev_list' <=> t # <<>>
      BY Zenon, <1>3, <2>2, <2>3, <2>4
    <2>6. \A m \in Lus : m # l => (m \in dev_list' <=> wait_list'[m] # <<>>)
      BY Zenon, <1>4, <2>2 DEF ListsOK, DevListExact
    <2>7. dev_list' \subseteq Lus
      BY Zenon, <2>2 DEF TypeOK
    <2>8. \A m \in Lus : m \in dev_list' <=> wait_list'[m] # <<>>
      BY Zenon, <1>4, <2>5, <2>6
    <2> QED BY Zenon, <2>7, <2>8 DEF DevListExact
  <1>12. InOrder'
    <2> SUFFICES ASSUME NEW c \in Cmds, NEW d \in Cmds, c < d, dev[c] = dev[d],
                        cmd'[d] \in {"kernel", "event", "reaped", "done", "failed", "lost"},
                        cmd'[c] = "waiting"
                 PROVE  FALSE
      BY Zenon DEF InOrder
    <2>1. cmd[c] = "waiting" /\ c \notin taken(l, b)
      BY Zenon, <1>1
    <2>2. CASE d \notin taken(l, b)
      BY Zenon, <1>1, <2>1, <2>2 DEF ListsOK, InOrder
    <2>3. CASE d \in taken(l, b)
      <3>1. PICK j \in 1..b : d = s[j]
        BY Zenon, <1>6, <2>3
      <3>2. c \in In(l, {"waiting"})
        BY Zenon, <1>1, <2>1, <2>3 DEF In
      <3>3. PICK k \in 1..Len(s) : s[k] = c
        BY Zenon, <1>5, <3>2
      <3>4. k \notin 1..b
        BY Zenon, <1>7, <2>1, <3>3
      <3>5. j < k /\ j \in 1..Len(s)
        BY <1>1, <3>4
      <3>6. d < c
        BY Zenon, <1>5, <3>1, <3>3, <3>5
      <3>7. c \in Int /\ d \in Int
        BY Zenon, <1>8
      <3> QED BY <3>6, <3>7
    <2> QED BY Zenon, <2>2, <2>3
  <1>13. Numbered'
    <2>1. \A c \in Cmds : cmd'[c] = "new" <=> cmd[c] = "new"
      BY Zenon, <1>1
    <2> QED BY Zenon, <2>1 DEF ListsOK, Numbered
  <1> QED BY Zenon, <1>10, <1>11, <1>12, <1>13 DEF ListsOK

\* The counters follow, and the kernel has no more than it was set up for.
LEMMA BatchCounts ==
    ASSUME TypeOK, ListsOK, CountsExact, NEW l \in Lus, NEW r \in Int, NEW b \in Nat,
           Takes(l, r, b), dev' = dev
    PROVE  CountsExact' /\ \A m : In(m, {"event"})' = In(m, {"event"})
  <1> DEFINE s == wait_list[l]
             t == SubSeq(s, b + 1, Len(s))
             K(m) == In(m, {"kernel", "event"})
  <1>1. /\ \A c \in taken(l, b) : /\ c \in Cmds /\ cmd[c] = "waiting" /\ dev[c] = l
                                  /\ cmd'[c] \in {"kernel", "failed", "lost"}
        /\ \A c \in Cmds : cmd'[c] = cmd[c] \/ c \in taken(l, b)
        /\ s \in Seq(Cmds) /\ Len(s) \in Nat
        /\ IsFiniteSet(taken(l, b)) /\ Cardinality(taken(l, b)) = b
    BY TakenWere DEF ListsOK
  <1>2. b \in 0..Len(s) /\ wait_list' = [wait_list EXCEPT ![l] = t]
        /\ nwaiting' = [nwaiting EXCEPT ![l] = nwaiting[l] - b]
    BY Zenon DEF Takes
  <1>3. Len(t) = Len(s) - b
    BY ZenonT(30), <1>1, <1>2, RestProps
  <1>4. \A m \in Lus : nwaiting'[m] = Len(wait_list'[m])
    BY Zenon, <1>2, <1>3 DEF TypeOK, CountsExact
  <1>5. \A m : In(m, {"event"})' = In(m, {"event"})
    <2> SUFFICES ASSUME NEW m PROVE In(m, {"event"})' = In(m, {"event"})
      BY Zenon
    <2>1. \A c \in Cmds : cmd'[c] = "event" <=> cmd[c] = "event"
      BY Zenon, <1>1
    <2> QED BY Zenon, <2>1 DEF In
  <1>6. \A m \in Lus : m # l => K(m)' = K(m)
    BY Zenon, <1>1 DEF In
  <1>7. CASE r = -1 /\ npending' = npending /\ \A c \in taken(l, b) : cmd'[c] \in {"failed", "lost"}
    <2>1. K(l)' = K(l)
      BY Zenon, <1>1, <1>7 DEF In
    <2>2. \A m \in Lus : K(m)' = K(m)
      BY Zenon, <1>6, <2>1
    <2> QED BY ZenonT(30), <1>4, <1>5, <1>7, <2>2 DEF CountsExact
  <1>8. CASE /\ r = b /\ npending' = [npending EXCEPT ![l] = npending[l] + b]
             /\ npending[l] + b <= IoDepth
             /\ \A c \in taken(l, b) : cmd'[c] = "kernel"
    <2>1. K(l)' = K(l) \cup taken(l, b) /\ K(l) \cap taken(l, b) = {}
      BY Zenon, <1>1, <1>8 DEF In
    <2>2. IsFiniteSet(K(l)) /\ Cardinality(K(l)) \in Nat
      BY Zenon, InFinite
    <2>3. Cardinality(K(l)') = Cardinality(K(l)) + b
      <3>1. Cardinality(K(l) \cup taken(l, b)) =
               Cardinality(K(l)) + Cardinality(taken(l, b)) - Cardinality(K(l) \cap taken(l, b))
        BY Zenon, <1>1, <2>2, FS_Union
      <3>2. Cardinality(K(l) \cap taken(l, b)) = 0
        BY Zenon, <2>1, FS_EmptySet
      <3>3. Cardinality(K(l) \cup taken(l, b)) = Cardinality(K(l)) + b
        BY <1>1, <2>2, <3>1, <3>2
      <3> QED BY Zenon, <2>1, <3>3
    <2>4. npending[l] = Cardinality(K(l))
      BY Zenon DEF CountsExact
    <2> HIDE DEF K
    <2>5. npending'[l] = Cardinality(K(l)') /\ npending'[l] <= IoDepth
      BY Zenon, <1>8, <2>3, <2>4 DEF TypeOK
    <2>6. ASSUME NEW m \in Lus, m # l
          PROVE  npending'[m] = Cardinality(K(m)') /\ npending'[m] <= IoDepth
      BY Zenon, <1>6, <1>8, <2>6 DEF TypeOK, CountsExact, K
    <2> QED BY Zenon, <1>4, <1>5, <2>5, <2>6 DEF CountsExact, K
  <1> QED BY Zenon, <1>7, <1>8 DEF Takes

-----------------------------------------------------------------------------
(* What a step leaves as it was.                                           *)

\* The states of a command that is past the wait list.
Past == {"kernel", "event", "reaped", "done", "failed", "lost"}

\* A step that touches neither the lists nor who waits keeps what is said of
\* the lists.
LEMMA ListsFrame ==
    ASSUME TypeOK, ListsOK, UNCHANGED <<dev, wait_list, dev_list>>,
           \A c \in Cmds : /\ cmd'[c] = "waiting" <=> cmd[c] = "waiting"
                           /\ cmd'[c] = "new" <=> cmd[c] = "new"
                           /\ cmd'[c] \in Past => cmd[c] \in Past
    PROVE  ListsOK'
  <1>1. WaitExact'
    <2>1. \A l \in Lus : \A k \in 1..Len(wait_list[l]) : wait_list[l][k] \in Cmds
      BY Zenon, ElementOfSeq DEF TypeOK
    <2>2. \A l \in Lus : In(l, {"waiting"})' = In(l, {"waiting"})
      BY Zenon DEF In
    <2> QED BY <2>1, <2>2 DEF ListsOK, WaitExact
  <1>2. DevListExact'
    BY Zenon DEF ListsOK, DevListExact
  <1>3. InOrder'
    BY Zenon DEF ListsOK, InOrder, Past
  <1>4. Numbered'
    BY Zenon DEF ListsOK, Numbered
  <1> QED BY Zenon, <1>1, <1>2, <1>3, <1>4 DEF ListsOK

\* A step that changes neither the commands nor the store's own data.
LEMMA DataFrame ==
    ASSUME TypeOK, ListsOK, CountsExact,
           UNCHANGED <<cmd, dev, wait_list, nwaiting, npending, dev_list>>
    PROVE  /\ ListsOK' /\ CountsExact' /\ Idlers' = Idlers
           /\ \A l : In(l, {"event"})' = In(l, {"event"})
  <1>1. \A l, S : In(l, S)' = In(l, S)
    BY Zenon DEF In
  <1>2. ListsOK'
    BY Zenon, ListsFrame
  <1>3. CountsExact' /\ Idlers' = Idlers
    BY Zenon, <1>1 DEF CountsExact, Idlers
  <1> QED BY Zenon, <1>1, <1>2, <1>3

\* Nothing is on its way for an LU without commands in the kernel.
LEMMA NothingOnTheWay ==
    ASSUME TypeOK, CountsExact, EventsCounted, NEW l \in Lus, npending[l] = 0
    PROVE  evt_fd[l] = 0 /\ unsignalled[l] = 0 /\ missed[l] = 0
  <1>1. /\ IsFiniteSet(In(l, {"kernel", "event"}))
        /\ In(l, {"event"}) \in SUBSET In(l, {"kernel", "event"})
        /\ Cardinality(In(l, {"event"})) \in Nat
    BY ZenonT(30), InFinite DEF In
  <1>2. Cardinality(In(l, {"event"})) <= Cardinality(In(l, {"kernel", "event"}))
    BY Zenon, <1>1, FS_Subset
  <1>3. Cardinality(In(l, {"kernel", "event"})) = 0
    BY Zenon DEF CountsExact
  <1>4. Cardinality(In(l, {"event"})) = 0
    BY <1>1, <1>2, <1>3
  <1>5. \/ evt_fd[l] + unsignalled[l] + missed[l] + ncomplete = 0
        \/ evt_fd[l] + unsignalled[l] + missed[l] + 0 = 0
    BY Zenon, <1>4 DEF EventsCounted
  <1>6. evt_fd[l] \in Nat /\ unsignalled[l] \in Nat /\ missed[l] \in Nat /\ ncomplete \in Nat
    BY Zenon DEF TypeOK
  <1>7. \A i, j, k, n \in Nat : i + j + k + n = 0 => i = 0 /\ j = 0 /\ k = 0
    OBVIOUS
  <1> QED BY <1>5, <1>6, <1>7, SMT

-----------------------------------------------------------------------------
(* One lemma for each action.                                              *)

\* A store that is opened starts with what a closed one has left.
LEMMA OpenStep ==
    ASSUME IInv, NEW l \in Lus, bs_aio_open(l)
    PROVE  IInv'
  <1> USE DEF IInv
  <1>1. l \notin open /\ npending[l] = 0 /\ l \notin dev_list
    BY Zenon DEF bs_aio_open, ExitClean
  <1>2. wait_list[l] = <<>> /\ nwaiting[l] = 0
    BY Zenon, <1>1 DEF ListsOK, DevListExact, CountsExact
  <1>3. evt_fd[l] = 0 /\ unsignalled[l] = 0 /\ missed[l] = 0
    BY Zenon, <1>1, NothingOnTheWay
  <1>4. UNCHANGED <<wait_list, nwaiting, npending, evt_fd, unsignalled, missed>>
    BY Zenon, <1>1, <1>2, <1>3 DEF bs_aio_open, TypeOK
  <1>5. /\ UNCHANGED <<cmd, dev, dev_list, batch, walk, submitter, reap, loop, ncomplete>>
        /\ open' = open \cup {l} /\ excused' = excused \cap Idlers'
    BY Zenon DEF bs_aio_open, cmdVars, ctlVars, reapVars, Excuse
  <1>6. ListsOK' /\ CountsExact' /\ Idlers' = Idlers /\ \A m : In(m, {"event"})' = In(m, {"event"})
    BY Zenon, <1>4, <1>5, DataFrame
  <1>7. TypeOK'
    BY Zenon, <1>4, <1>5 DEF TypeOK
  <1>8. EventsCounted'
    BY Zenon, <1>4, <1>5, <1>6 DEF EventsCounted
  <1>9. ExitClean'
    BY Zenon, <1>4, <1>5 DEF ExitClean
  <1>10. ControlOK' /\ Covered'
    BY Zenon, <1>5, <1>6 DEF ControlOK, Covered
  <1> QED BY Zenon, <1>6, <1>7, <1>8, <1>9, <1>10

\* A store that is closed has nothing in the kernel and nothing on its list.
LEMMA ExitStep ==
    ASSUME IInv, NEW l \in Lus, bs_aio_exit(l)
    PROVE  IInv'
  <1> USE DEF IInv
  <1>1. /\ UNCHANGED <<cmd, dev, wait_list, nwaiting, npending, dev_list>>
        /\ UNCHANGED <<evt_fd, unsignalled, missed, batch, walk, submitter, reap, loop,
                       ncomplete, excused>>
        /\ open' = open \ {l} /\ loop = "idle"
    BY Zenon DEF bs_aio_exit, cmdVars, infoVars, fdVars, ctlVars, reapVars, Idle
  <1>2. ListsOK' /\ CountsExact' /\ Idlers' = Idlers /\ \A m : In(m, {"event"})' = In(m, {"event"})
    BY Zenon, <1>1, DataFrame
  <1>3. npending[l] = 0
    <2>1. In(l, {"kernel", "event"}) = {}
      BY Zenon DEF bs_aio_exit, In
    <2> QED BY Zenon, <2>1, FS_EmptySet DEF CountsExact
  <1>4. l \notin dev_list
    <2>1. In(l, {"waiting"}) = {}
      BY Zenon DEF bs_aio_exit, In
    <2>2. ASSUME wait_list[l] # <<>> PROVE FALSE
      <3>1. 1 \in 1..Len(wait_list[l]) /\ wait_list[l][1] \in Cmds
        BY <2>2, EmptySeq, LenProperties, ElementOfSeq DEF TypeOK
      <3>2. wait_list[l][1] \in In(l, {"waiting"})
        BY <3>1 DEF ListsOK, WaitExact, In
      <3> QED BY Zenon, <2>1, <3>2
    <2> QED BY Zenon, <2>2 DEF ListsOK, DevListExact
  <1>5. evt_fd[l] = 0
    BY Zenon, <1>3, NothingOnTheWay
  <1>6. reap # l
    BY ZenonT(30), <1>1, StoreConstants DEF ControlOK
  <1>7. ExitClean'
    BY ZenonT(30), <1>1, <1>3, <1>4, <1>5, <1>6 DEF ExitClean
  <1>8. TypeOK'
    BY ZenonT(30), <1>1 DEF TypeOK
  <1>9. EventsCounted'
    BY Zenon, <1>1, <1>2 DEF EventsCounted
  <1>10. ControlOK' /\ Covered'
    BY Zenon, <1>1, <1>2 DEF ControlOK, Covered
  <1> QED BY Zenon, <1>2, <1>7, <1>8, <1>9, <1>10

\* A command joins the end of its LU's wait list.
LEMMA SubmitStep ==
    ASSUME IInv, NEW l \in Lus, NEW c \in Cmds, NEW last \in BOOLEAN,
           bs_aio_cmd_submit(l, c, last)
    PROVE  IInv'
  <1> USE DEF IInv
  <1> DEFINE s == wait_list[l]
  <1>1. /\ cmd[c] = "new" /\ (\A d \in Cmds : d < c => cmd[d] # "new")
        /\ walk = {} /\ l \in open /\ (loop = "idle" \/ (loop = "post" /\ l = reap))
        /\ cmd' = [cmd EXCEPT ![c] = "waiting"] /\ dev' = [dev EXCEPT ![c] = l]
        /\ wait_list' = [wait_list EXCEPT ![l] = Append(s, c)]
        /\ nwaiting' = [nwaiting EXCEPT ![l] = nwaiting[l] + 1]
        /\ dev_list' = dev_list \cup {l}
        /\ walk' = IF last THEN dev_list'
                   ELSE IF nwaiting[l] + 1 = IoDepth - npending[l] THEN {l} ELSE {}
        /\ submitter' = IF walk' = {} THEN None ELSE c
        /\ batch' = (loop = "idle" /\ ~last)
        /\ UNCHANGED <<npending, evt_fd, unsignalled, open, reap, loop, ncomplete, missed>>
        /\ excused' = (excused \cup {}) \cap Idlers'
    BY Zenon DEF bs_aio_cmd_submit, MayCome, IsNext, fdVars, reapVars, Excuse
  <1>2. /\ cmd'[c] = "waiting" /\ dev'[c] = l
        /\ \A d \in Cmds : d # c => cmd'[d] = cmd[d] /\ dev'[d] = dev[d]
        /\ wait_list'[l] = Append(s, c) /\ nwaiting'[l] = nwaiting[l] + 1
        /\ \A m \in Lus : m # l => wait_list'[m] = wait_list[m] /\ nwaiting'[m] = nwaiting[m]
    BY Zenon, <1>1 DEF TypeOK
  <1>3. /\ s \in Seq(Cmds) /\ Len(s) \in Nat /\ Append(s, c) \in Seq(Cmds)
        /\ Len(Append(s, c)) = Len(s) + 1 /\ Append(s, c)[Len(s) + 1] = c
        /\ \A k \in 1..Len(s) : Append(s, c)[k] = s[k] /\ s[k] \in Cmds
    BY AppendProperties, LenProperties, ElementOfSeq DEF TypeOK
  <1>4. /\ \A k \in 1..Len(s) : cmd[s[k]] = "waiting" /\ dev[s[k]] = l /\ s[k] # c
        /\ \A j, k \in 1..Len(s) : j < k => s[j] < s[k]
        /\ \A d \in In(l, {"waiting"}) : \E k \in 1..Len(s) : s[k] = d
    BY <1>1 DEF ListsOK, WaitExact
  <1>5. \A d \in Cmds : d \in Int
    BY StoreConstants DEF Cmds
  <1>6. l # None
    BY Zenon, StoreConstants
  <1>7. dev[c] = None
    BY Zenon, <1>1 DEF ListsOK, Numbered
  <1>8. \A k \in 1..Len(s) : s[k] < c
    <2> SUFFICES ASSUME NEW k \in 1..Len(s) PROVE s[k] < c
      BY Zenon
    <2>1. s[k] \in Cmds /\ cmd[s[k]] # "new" /\ s[k] # c
      BY Zenon, <1>3, <1>4
    <2>2. ~(c < s[k])
      BY Zenon, <1>1, <2>1 DEF ListsOK, Numbered
    <2> QED BY SMTT(30), <1>5, <2>1, <2>2
  <1> HIDE DEF s
  <1>9. \A k \in 1..(Len(s) + 1) : k \in 1..Len(s) \/ k = Len(s) + 1
    BY SMTT(30), <1>3
  <1>10. WaitExact'
    <2>1. \A k \in 1..(Len(s) + 1) :
             cmd'[Append(s, c)[k]] = "waiting" /\ dev'[Append(s, c)[k]] = l
      BY <1>2, <1>3, <1>4, <1>9
    <2>2. ASSUME NEW j \in 1..(Len(s) + 1), NEW k \in 1..(Len(s) + 1), j < k
          PROVE  Append(s, c)[j] < Append(s, c)[k]
      <3>1. j \in 1..Len(s)
        BY <1>3, <2>2
      <3> QED BY <1>3, <1>4, <1>8, <1>9, <2>2, <3>1
    <2>3. ASSUME NEW d \in In(l, {"waiting"})'
          PROVE  \E k \in 1..(Len(s) + 1) : Append(s, c)[k] = d
      <3>1. CASE d = c
        BY <1>3, <3>1
      <3>2. CASE d # c
        <4>1. d \in In(l, {"waiting"})
          BY ZenonT(30), <1>2, <2>3, <3>2 DEF In
        <4>2. PICK k \in 1..Len(s) : s[k] = d
          BY ZenonT(30), <1>4, <4>1
        <4>3. k \in 1..(Len(s) + 1)
          BY SMTT(30), <1>3
        <4> QED BY ZenonT(30), <1>3, <4>2, <4>3
      <3> QED BY ZenonT(30), <3>1, <3>2
    <2>4. ASSUME NEW m \in Lus, m # l
          PROVE  /\ \A k \in 1..Len(wait_list'[m]) :
                       cmd'[wait_list'[m][k]] = "waiting" /\ dev'[wait_list'[m][k]] = m
                 /\ \A j, k \in 1..Len(wait_list'[m]) :
                       j < k => wait_list'[m][j] < wait_list'[m][k]
                 /\ \A d \in In(m, {"waiting"})' :
                       \E k \in 1..Len(wait_list'[m]) : wait_list'[m][k] = d
      <3>1. /\ wait_list'[m] = wait_list[m]
            /\ \A k \in 1..Len(wait_list[m]) : wait_list[m][k] \in Cmds
        BY Zenon, <1>2, <2>4, ElementOfSeq DEF TypeOK
      <3>2. /\ \A k \in 1..Len(wait_list[m]) :
                  cmd[wait_list[m][k]] = "waiting" /\ dev[wait_list[m][k]] = m
            /\ \A j, k \in 1..Len(wait_list[m]) : j < k => wait_list[m][j] < wait_list[m][k]
            /\ \A d \in In(m, {"waiting"}) : \E k \in 1..Len(wait_list[m]) : wait_list[m][k] = d
        BY Zenon DEF ListsOK, WaitExact
      <3>3. \A d \in In(m, {"waiting"})' : d \in In(m, {"waiting"})
        BY Zenon, <1>2, <2>4 DEF In
      <3>4. \A k \in 1..Len(wait_list[m]) :
               cmd'[wait_list[m][k]] = "waiting" /\ dev'[wait_list[m][k]] = m
        BY SMTT(30), <1>1, <1>2, <3>1, <3>2
      <3> QED BY ZenonT(30), <3>1, <3>2, <3>3, <3>4
    <2>5. /\ \A k \in 1..Len(wait_list'[l]) :
                cmd'[wait_list'[l][k]] = "waiting" /\ dev'[wait_list'[l][k]] = l
          /\ \A j, k \in 1..Len(wait_list'[l]) :
                j < k => wait_list'[l][j] < wait_list'[l][k]
          /\ \A d \in In(l, {"waiting"})' :
                \E k \in 1..Len(wait_list'[l]) : wait_list'[l][k] = d
      BY <1>2, <1>3, <2>1, <2>2, <2>3
    <2> QED BY Zenon, <2>4, <2>5 DEF WaitExact
  <1>11. DevListExact'
    <2>1. wait_list'[l] # <<>>
      BY SMTT(30), <1>2, <1>3, EmptySeq
    <2>2. \A m \in Lus : m \in dev_list' <=> wait_list'[m] # <<>>
      BY Zenon, <1>1, <1>2, <2>1 DEF ListsOK, DevListExact
    <2>3. dev_list' \subseteq Lus
      BY Zenon, <1>1 DEF TypeOK
    <2> QED BY Zenon, <2>2, <2>3 DEF DevListExact
  <1>12. InOrder'
    <2>1. \A d \in Cmds : c < d => cmd'[d] = "new"
      <3>1. \A d \in Cmds : c < d => d # c
        BY <1>5
      <3> QED BY ZenonT(30), <1>1, <1>2, <3>1 DEF ListsOK, Numbered
    <2> QED BY ZenonT(30), <1>2, <2>1 DEF ListsOK, InOrder
  <1>13. Numbered'
    BY <1>1, <1>2, <1>6 DEF ListsOK, Numbered
  <1>14. \A m \in Lus : /\ In(m, {"kernel", "event"})' = In(m, {"kernel", "event"})
                        /\ In(m, {"event"})' = In(m, {"event"})
    <2>1. ASSUME NEW m \in Lus, NEW S \in SUBSET {"kernel", "event"} PROVE In(m, S)' = In(m, S)
      <3>1. \A d \in Cmds : (dev'[d] = m /\ cmd'[d] \in S) <=> (dev[d] = m /\ cmd[d] \in S)
        BY Zenon, <1>1, <1>2
      <3> QED BY Zenon, <3>1 DEF In
    <2> QED BY Zenon, <2>1
  <1>15. CountsExact'
    <2>1. \A m \in Lus : nwaiting'[m] = Len(wait_list'[m])
      BY ZenonT(30), <1>2, <1>3 DEF CountsExact, s
    <2> QED BY Zenon, <1>1, <1>14, <2>1 DEF CountsExact
  <1>16. EventsCounted'
    BY Zenon, <1>1, <1>14 DEF EventsCounted
  <1>17. ExitClean'
    BY Zenon, <1>1 DEF ExitClean
  <1>18. TypeOK'
    <2>1. batch' \in BOOLEAN
      BY <1>1, Zenon
    <2>2. cmd' \in [Cmds -> States] /\ dev' \in [Cmds -> Lus \cup {None}]
      BY Zenon, <1>1 DEF TypeOK, States
    <2>3. wait_list' \in [Lus -> Seq(Cmds)] /\ nwaiting' \in [Lus -> Int]
      BY SMTT(30), <1>1, <1>3 DEF TypeOK
    <2>4. walk' \subseteq Lus /\ dev_list' \subseteq Lus
      BY Zenon, <1>1 DEF TypeOK
    <2>5. submitter' \in Cmds \cup {None} /\ excused' \subseteq Lus
      BY Zenon, <1>1 DEF Idlers
    <2> QED BY ZenonT(30), <1>1, <2>1, <2>2, <2>3, <2>4, <2>5 DEF TypeOK
  <1>19. ControlOK'
    BY ZenonT(30), <1>1 DEF ControlOK
  <1>20. Covered'
    <2> SUFFICES ASSUME NEW m \in Idlers' PROVE (m \in excused \/ m \in walk \/ m = reap \/ batch)'
      BY Zenon DEF Covered
    <2>1. m \in Lus /\ nwaiting'[m] > 0 /\ npending[m] = 0
      BY Zenon, <1>1 DEF Idlers
    <2>2. CASE last
      <3>1. wait_list'[m] # <<>>
        BY <1>15, <2>1, EmptySeq DEF CountsExact
      <3>2. m \in walk'
        BY Zenon, <1>1, <1>11, <2>1, <2>2, <3>1 DEF DevListExact
      <3> QED BY Zenon, <3>2
    <2>3. CASE ~last /\ loop = "idle"
      BY ZenonT(30), <1>1, <2>3
    <2>4. CASE ~last /\ loop # "idle" /\ m = l
      BY Zenon, <1>1, <2>4
    <2>5. CASE ~last /\ loop # "idle" /\ m # l
      <3>1. m \in Idlers
        BY Zenon, <1>2, <2>1, <2>5 DEF Idlers
      <3> QED BY Zenon, <1>1, <2>5, <3>1 DEF Covered, ControlOK
    <2> QED BY Zenon, <2>2, <2>3, <2>4, <2>5
  <1> QED BY ZenonT(30), <1>10, <1>11, <1>12, <1>13, <1>15, <1>16, <1>17, <1>18, <1>19, <1>20 DEF ListsOK

\* A command that is answered at once joins no list; when it was to end a batch,
\* the LUs whose commands it leaves behind are excused.
LEMMA SkipStep ==
    ASSUME IInv, NEW l \in Lus, NEW c \in Cmds, NEW last \in BOOLEAN, SkipOther(l, c, last)
    PROVE  IInv'
  <1> USE DEF IInv
  <1>1. /\ cmd[c] = "new" /\ (\A d \in Cmds : d < c => cmd[d] # "new")
        /\ walk = {} /\ l \in open /\ (loop = "idle" \/ (loop = "post" /\ l = reap))
        /\ cmd' = [cmd EXCEPT ![c] = "skipped"] /\ dev' = [dev EXCEPT ![c] = l]
        /\ batch' = (loop = "idle" /\ ~last)
        /\ UNCHANGED <<wait_list, nwaiting, npending, dev_list, evt_fd, unsignalled, open,
                       walk, submitter, reap, loop, ncomplete, missed>>
        /\ excused' = (excused \cup (IF batch /\ last THEN Lus ELSE {})) \cap Idlers'
    BY Zenon DEF SkipOther, MayCome, IsNext, infoVars, fdVars, reapVars, Excuse
  <1>2. /\ cmd'[c] = "skipped" /\ dev'[c] = l /\ dev[c] = None /\ l # None
        /\ \A d \in Cmds : d # c => cmd'[d] = cmd[d] /\ dev'[d] = dev[d]
    BY Zenon, <1>1, StoreConstants DEF TypeOK, ListsOK, Numbered
  <1>3. \A m \in Lus : /\ In(m, {"kernel", "event"})' = In(m, {"kernel", "event"})
                       /\ In(m, {"event"})' = In(m, {"event"})
                       /\ In(m, {"waiting"})' = In(m, {"waiting"})
    <2>1. ASSUME NEW m \in Lus, NEW S \in SUBSET {"kernel", "event", "waiting"}
          PROVE  In(m, S)' = In(m, S)
      <3>1. \A d \in Cmds : (dev'[d] = m /\ cmd'[d] \in S) <=> (dev[d] = m /\ cmd[d] \in S)
        BY Zenon, <1>1, <1>2
      <3> QED BY Zenon, <3>1 DEF In
    <2> QED BY Zenon, <2>1
  <1>4. WaitExact'
    <2>1. \A m \in Lus : \A k \in 1..Len(wait_list[m]) :
             wait_list[m][k] \in Cmds /\ cmd[wait_list[m][k]] = "waiting"
      BY ZenonT(30), ElementOfSeq DEF TypeOK, ListsOK, WaitExact
    <2>2. \A m \in Lus : \A k \in 1..Len(wait_list[m]) : wait_list[m][k] # c
      BY ZenonT(30), <1>1, <2>1
    <2> QED BY <1>1, <1>2, <1>3, <2>1, <2>2 DEF ListsOK, WaitExact
  <1>5. DevListExact'
    BY Zenon, <1>1 DEF ListsOK, DevListExact
  <1>6. InOrder'
    <2>1. \A d \in Cmds : c < d => cmd'[d] = "new"
      <3>1. \A d \in Cmds : c < d => d # c
        BY SMTT(30), StoreConstants DEF Cmds
      <3> QED BY Zenon, <1>1, <1>2, <3>1 DEF ListsOK, Numbered
    <2> QED BY Zenon, <1>2, <2>1 DEF ListsOK, InOrder
  <1>7. Numbered'
    BY <1>1, <1>2 DEF ListsOK, Numbered
  <1>8. CountsExact' /\ EventsCounted'
    BY ZenonT(30), <1>1, <1>3 DEF CountsExact, EventsCounted
  <1>9. ExitClean' /\ ControlOK'
    BY ZenonT(30), <1>1 DEF ExitClean, ControlOK
  <1>10. TypeOK'
    <2>1. batch' \in BOOLEAN
      BY <1>1, Zenon
    <2>2. cmd' \in [Cmds -> States] /\ dev' \in [Cmds -> Lus \cup {None}]
      BY Zenon, <1>1 DEF TypeOK, States
    <2>3. excused' \subseteq Lus
      BY ZenonT(30), <1>1 DEF Idlers
    <2> QED BY ZenonT(30), <1>1, <2>1, <2>2, <2>3 DEF TypeOK
  <1>11. Covered'
    <2>1. Idlers' = Idlers
      BY Zenon, <1>1 DEF Idlers
    <2> SUFFICES ASSUME NEW m \in Idlers PROVE (m \in excused \/ m \in walk \/ m = reap \/ batch)'
      BY Zenon, <2>1 DEF Covered
    <2>2. m \in excused \/ m = reap \/ batch
      BY Zenon, <1>1 DEF Covered
    <2>3. m \in Lus
      BY Zenon DEF Idlers
    <2>4. batch => loop = "idle"
      BY Zenon DEF ControlOK
    <2> QED BY ZenonT(30), <1>1, <2>1, <2>2, <2>3, <2>4
  <1> QED BY ZenonT(30), <1>4, <1>5, <1>6, <1>7, <1>8, <1>9, <1>10, <1>11 DEF ListsOK

\* A batch ends without its last command.
LEMMA CutStep ==
    ASSUME IInv, BatchCut
    PROVE  IInv'
  <1> USE DEF IInv
  <1>1. /\ batch' = FALSE
        /\ UNCHANGED <<cmd, dev, wait_list, nwaiting, npending, dev_list>>
        /\ UNCHANGED <<evt_fd, unsignalled, open, walk, submitter, reap, loop, ncomplete, missed>>
        /\ excused' = (excused \cup Lus) \cap Idlers'
    BY Zenon DEF BatchCut, cmdVars, infoVars, fdVars, reapVars, Excuse
  <1>2. ListsOK' /\ CountsExact' /\ Idlers' = Idlers /\ \A m : In(m, {"event"})' = In(m, {"event"})
    BY Zenon, <1>1, DataFrame
  <1>3. EventsCounted' /\ ExitClean' /\ ControlOK'
    BY ZenonT(30), <1>1, <1>2 DEF EventsCounted, ExitClean, ControlOK
  <1>4. Covered'
    <2>1. Idlers \subseteq Lus
      BY Zenon DEF Idlers
    <2> QED BY Zenon, <1>1, <1>2, <2>1 DEF Covered
  <1>5. TypeOK'
    <2>1. batch' \in BOOLEAN
      BY ZenonT(30), <1>1
    <2>2. excused' \subseteq Lus
      BY Zenon, <1>1 DEF Idlers
    <2> QED BY Zenon, <1>1, <2>1, <2>2 DEF TypeOK
  <1> QED BY Zenon, <1>2, <1>3, <1>4, <1>5

\* The types, and what a closed store has, after a batch of l.
LEMMA BatchRest ==
    ASSUME IInv, NEW l \in Lus, NEW r \in Int, NEW b \in Nat, Takes(l, r, b),
           UNCHANGED <<dev, open, evt_fd>>, \A m \in Lus : reap' = m => reap = m
    PROVE  /\ cmd' \in [Cmds -> States] /\ wait_list' \in [Lus -> Seq(Cmds)]
           /\ nwaiting' \in [Lus -> Int] /\ npending' \in [Lus -> Int]
           /\ dev_list' \subseteq Lus
           /\ ExitClean'
           /\ \A m \in Lus : m # l => (m \in Idlers' <=> m \in Idlers)
           /\ r > 0 => l \notin Idlers'
           /\ nwaiting'[l] = 0 => l \notin Idlers'
  <1> USE DEF IInv
  <1>1. /\ b \in 0..Len(wait_list[l]) /\ wait_list[l] \in Seq(Cmds)
        /\ wait_list' = [wait_list EXCEPT ![l] = SubSeq(wait_list[l], b + 1, Len(wait_list[l]))]
        /\ nwaiting' = [nwaiting EXCEPT ![l] = nwaiting[l] - b]
        /\ dev_list' = IF nwaiting[l] = b THEN dev_list \ {l} ELSE dev_list
        /\ \/ r = -1 /\ npending' = npending
           \/ r = b /\ npending' = [npending EXCEPT ![l] = npending[l] + b]
    BY Zenon DEF Takes, TypeOK
  <1>2. SubSeq(wait_list[l], b + 1, Len(wait_list[l])) \in Seq(Cmds)
    BY ZenonT(30), <1>1, RestProps
  <1>3. /\ npending \in [Lus -> Int] /\ nwaiting \in [Lus -> Int]
        /\ wait_list \in [Lus -> Seq(Cmds)]
    BY ZenonT(30) DEF TypeOK
  <1>4. npending' \in [Lus -> Int] /\ nwaiting' \in [Lus -> Int]
    BY SMTT(30), <1>1, <1>3
  <1>5. wait_list' \in [Lus -> Seq(Cmds)]
    BY Zenon, <1>1, <1>2, <1>3
  <1>6. cmd' \in [Cmds -> States] /\ dev_list' \subseteq Lus
    BY Zenon, <1>1 DEF Takes, TypeOK
  <1>7. \A m \in Lus : m # l => nwaiting'[m] = nwaiting[m] /\ npending'[m] = npending[m]
    BY Zenon, <1>1, <1>3
  <1>8. \A m \in Lus : m # l => (m \in Idlers' <=> m \in Idlers)
    BY Zenon, <1>7 DEF Idlers
  <1>9. r > 0 => npending'[l] > 0
    <2>1. npending[l] \in Nat
      BY Zenon, InFinite DEF CountsExact
    <2> QED BY SMTT(30), <1>1, <1>3, <2>1
  <1>10. (r > 0 \/ nwaiting'[l] = 0) => l \notin Idlers'
    BY SMTT(30), <1>4, <1>9 DEF Idlers
  <1>11. ExitClean'
    <2> SUFFICES ASSUME NEW m \in Lus \ open
                 PROVE  npending'[m] = 0 /\ m \notin dev_list' /\ evt_fd'[m] = 0 /\ reap' # m
      BY Zenon DEF ExitClean
    <2>1. npending[m] = 0 /\ m \notin dev_list /\ evt_fd[m] = 0 /\ reap # m
      BY Zenon DEF ExitClean
    <2>2. wait_list[m] = <<>>
      BY Zenon, <2>1 DEF ListsOK, DevListExact
    <2>3. m = l => b = 0
      BY SMTT(30), <1>1, <2>2, EmptySeq
    <2>4. npending'[m] = 0
      BY SMTT(30), <1>1, <1>3, <2>1, <2>3
    <2> QED BY Zenon, <1>1, <2>1, <2>4
  <1> QED BY Zenon, <1>4, <1>5, <1>6, <1>8, <1>10, <1>11

\* One device of a submission: what the kernel does not take goes back, and an
\* LU that is left with nothing pending is excused.
LEMMA SubmitNextStep ==
    ASSUME IInv, NEW l \in Lus, SubmitNext(l)
    PROVE  IInv'
  <1> USE DEF IInv
  <1>1. PICK r \in io_submit(IoDepth) :
           /\ bs_aio_submit_dev_batch(l, r)
           /\ walk' = IF r = -1 THEN {} ELSE walk \ {l}
           /\ Excuse(IF r = -1 THEN walk ELSE IF r = 0 THEN {l} ELSE {})
    BY Zenon DEF SubmitNext
  <1>2. r \in Int /\ (r = -1 \/ r = 0 \/ r > 0)
    BY SMTT(30), StoreConstants DEF io_submit
  <1>3. PICK b \in Nat : Takes(l, r, b)
    BY Zenon, <1>1, <1>2, BatchTakes
  <1>4. /\ UNCHANGED <<dev, evt_fd, unsignalled, open, batch, reap, loop, ncomplete, missed>>
        /\ submitter' = IF walk' = {} THEN None ELSE submitter
        /\ excused' = (excused \cup (IF r = -1 THEN walk ELSE IF r = 0 THEN {l} ELSE {}))
                         \cap Idlers'
    BY Zenon, <1>1 DEF SubmitNext, fdVars, reapVars, Excuse
  <1>5. ListsOK'
    BY ZenonT(30), <1>2, <1>3, <1>4, BatchLists
  <1>6. CountsExact' /\ \A m : In(m, {"event"})' = In(m, {"event"})
    BY ZenonT(30), <1>2, <1>3, <1>4, BatchCounts
  <1>7. /\ cmd' \in [Cmds -> States] /\ wait_list' \in [Lus -> Seq(Cmds)]
        /\ nwaiting' \in [Lus -> Int] /\ npending' \in [Lus -> Int]
        /\ dev_list' \subseteq Lus
        /\ ExitClean'
        /\ \A m \in Lus : m # l => (m \in Idlers' <=> m \in Idlers)
        /\ r > 0 => l \notin Idlers'
    BY Zenon, <1>2, <1>3, <1>4, BatchRest
  <1>8. EventsCounted' /\ ControlOK'
    BY ZenonT(30), <1>4, <1>6 DEF EventsCounted, ControlOK
  <1>9. Covered'
    <2> SUFFICES ASSUME NEW m \in Idlers' PROVE (m \in excused \/ m \in walk \/ m = reap \/ batch)'
      BY Zenon DEF Covered
    <2>1. m \in Lus
      BY Zenon DEF Idlers
    <2>2. CASE m = l
      <3>1. r = -1 \/ r = 0
        BY Zenon, <1>2, <1>7, <2>2
      <3>2. l \in walk
        BY Zenon DEF SubmitNext
      <3> QED BY Zenon, <1>4, <2>2, <3>1, <3>2
    <2>3. CASE m # l
      <3>1. m \in excused \/ m \in walk \/ m = reap \/ batch
        BY Zenon, <1>7, <2>1, <2>3 DEF Covered
      <3> QED BY Zenon, <1>1, <1>4, <2>3, <3>1
    <2> QED BY Zenon, <2>2, <2>3
  <1>10. TypeOK'
    <2>1. walk' \subseteq Lus /\ excused' \subseteq Lus
      BY ZenonT(30), <1>1, <1>4 DEF TypeOK, Idlers
    <2>2. submitter' \in Cmds \cup {None}
      BY Zenon, <1>4 DEF TypeOK
    <2> QED BY ZenonT(30), <1>4, <1>7, <2>1, <2>2 DEF TypeOK
  <1> QED BY ZenonT(30), <1>5, <1>6, <1>7, <1>8, <1>9, <1>10

\* The end of bs_aio_get_completions.
LEMMA EndStep ==
    ASSUME IInv, GetCompletionsEnd
    PROVE  IInv'
  <1> USE DEF IInv
  <1>1. /\ loop # "idle" /\ ncomplete = 0 /\ reap' = None /\ loop' = "idle"
        /\ UNCHANGED <<dev, ncomplete, evt_fd, unsignalled, open, batch, walk, submitter, missed>>
    BY Zenon DEF GetCompletionsEnd, Fetching, fdVars, ctlVars
  <1>2. reap \in Lus /\ ~batch
    BY Zenon, <1>1 DEF ControlOK, TypeOK
  <1>3. \A m \in Lus : reap' # m
    BY Zenon, <1>1, StoreConstants
  <1>4. EventsCounted' <=> \A m \in Lus : Cardinality(In(m, {"event"})') =
                              evt_fd[m] + unsignalled[m] + missed[m] + 0
    BY Zenon, <1>1, <1>3 DEF EventsCounted
  <1>5. \A m \in Lus : Cardinality(In(m, {"event"})) = evt_fd[m] + unsignalled[m] + missed[m] + 0
    BY Zenon, <1>1 DEF EventsCounted
  <1>6. ControlOK'
    BY Zenon, <1>1, <1>2 DEF ControlOK
  <1>7. CASE /\ nwaiting[reap] = 0 /\ UNCHANGED <<cmd, infoVars>> /\ Excuse({})
    <2>1. UNCHANGED <<cmd, dev, wait_list, nwaiting, npending, dev_list>>
      BY Zenon, <1>1, <1>7 DEF infoVars
    <2>2. ListsOK' /\ CountsExact' /\ Idlers' = Idlers /\ \A m : In(m, {"event"})' = In(m, {"event"})
      BY Zenon, <2>1, DataFrame
    <2>3. EventsCounted'
      BY Zenon, <1>4, <1>5, <2>2
    <2>4. ExitClean'
      BY Zenon, <1>1, <1>3, <2>1 DEF ExitClean
    <2>5. reap \notin Idlers
      BY <1>7 DEF Idlers
    <2>6. Covered'
      BY Zenon, <1>1, <1>2, <1>7, <2>2, <2>5 DEF Covered, Excuse
    <2>7. excused' \subseteq Lus
      BY Zenon, <1>7 DEF Excuse, Idlers
    <2>8. TypeOK'
      BY Zenon, <1>1, <2>1, <2>7 DEF TypeOK
    <2> QED BY Zenon, <1>6, <2>2, <2>3, <2>4, <2>6, <2>8
  <1>8. ASSUME NEW r \in io_submit(IoDepth), bs_aio_submit_dev_batch(reap, r),
               Excuse(IF r < 1 THEN {reap} ELSE {})
        PROVE  IInv'
    <2>1. r \in Int /\ (r < 1 \/ r > 0)
      BY StoreConstants DEF io_submit
    <2>2. PICK b \in Nat : Takes(reap, r, b)
      BY Zenon, <1>2, <1>8, <2>1, BatchTakes
    <2>3. ListsOK'
      BY Zenon, <1>1, <1>2, <2>1, <2>2, BatchLists
    <2>4. CountsExact' /\ \A m : In(m, {"event"})' = In(m, {"event"})
      BY Zenon, <1>1, <1>2, <2>1, <2>2, BatchCounts
    <2>5. /\ cmd' \in [Cmds -> States] /\ wait_list' \in [Lus -> Seq(Cmds)]
          /\ nwaiting' \in [Lus -> Int] /\ npending' \in [Lus -> Int]
          /\ dev_list' \subseteq Lus
          /\ ExitClean'
          /\ \A m \in Lus : m # reap => (m \in Idlers' <=> m \in Idlers)
          /\ r > 0 => reap \notin Idlers'
      BY Zenon, <1>1, <1>2, <1>3, <2>1, <2>2, BatchRest
    <2>6. EventsCounted'
      BY Zenon, <1>4, <1>5, <2>4
    <2>7. Covered'
      <3> SUFFICES ASSUME NEW m \in Idlers' PROVE m \in excused' \/ m \in walk'
        BY Zenon DEF Covered
      <3>1. m \in Lus
        BY Zenon DEF Idlers
      <3>2. CASE m = reap
        <4>1. r < 1
          BY Zenon, <2>1, <2>5, <3>2
        <4> QED BY Zenon, <1>8, <3>2, <4>1 DEF Excuse
      <3>3. CASE m # reap
        <4>1. m \in excused \/ m \in walk
          BY Zenon, <1>2, <2>5, <3>1, <3>3 DEF Covered
        <4> QED BY Zenon, <1>1, <1>8, <4>1 DEF Excuse
      <3> QED BY Zenon, <3>2, <3>3
    <2>8. excused' \subseteq Lus
      BY Zenon, <1>8 DEF Excuse, Idlers
    <2>9. TypeOK'
      BY ZenonT(30), <1>1, <2>5, <2>8 DEF TypeOK
    <2> QED BY ZenonT(30), <1>6, <2>3, <2>4, <2>5, <2>6, <2>7, <2>9
  <1> QED BY Zenon, <1>7, <1>8 DEF GetCompletionsEnd

-----------------------------------------------------------------------------
(* The kernel and the completions.                                         *)

\* The kernel finishes a command: its event is in the ring, and to be signalled.
LEMMA IoDoneStep ==
    ASSUME IInv, NEW c \in Cmds, IoDone(c)
    PROVE  IInv'
  <1> USE DEF IInv
  <1>0. PICK l \in Lus : l = dev[c]
    <2>1. cmd[c] = "kernel"
      BY Zenon DEF IoDone
    <2>2. dev[c] # None
      BY Zenon, <2>1 DEF ListsOK, Numbered
    <2> QED BY Zenon, <2>2 DEF TypeOK
  <1>1. /\ cmd[c] = "kernel" /\ cmd' = [cmd EXCEPT ![c] = "event"]
        /\ unsignalled' = [unsignalled EXCEPT ![l] = unsignalled[l] + 1]
        /\ UNCHANGED <<dev, wait_list, nwaiting, npending, dev_list, evt_fd, open, batch, walk,
                       submitter, reap, loop, ncomplete, excused, missed>>
    BY ZenonT(30), <1>0 DEF IoDone, infoVars, ctlVars, reapVars
  <1>2. cmd'[c] = "event" /\ \A d \in Cmds : d # c => cmd'[d] = cmd[d]
    BY Zenon, <1>1 DEF TypeOK
  <1>4. ListsOK'
    BY Zenon, <1>1, <1>2, ListsFrame DEF Past
  <1>5. \A m \in Lus : In(m, {"kernel", "event"})' = In(m, {"kernel", "event"})
    <2>1. \A d \in Cmds : cmd'[d] \in {"kernel", "event"} <=> cmd[d] \in {"kernel", "event"}
      BY Zenon, <1>1, <1>2
    <2> QED BY ZenonT(30), <1>1, <2>1 DEF In
  <1>6. CountsExact'
    BY Zenon, <1>1, <1>5 DEF CountsExact
  <1>7. In(l, {"event"})' = In(l, {"event"}) \cup {c} /\ c \notin In(l, {"event"})
    BY Zenon, <1>0, <1>1, <1>2 DEF In
  <1>8. \A m \in Lus : m # l => In(m, {"event"})' = In(m, {"event"})
    BY Zenon, <1>0, <1>1, <1>2 DEF In
  <1>9. Cardinality(In(l, {"event"})') = Cardinality(In(l, {"event"})) + 1
    <2>1. IsFiniteSet(In(l, {"event"}))
      BY Zenon, InFinite
    <2> QED BY Zenon, <1>7, <2>1, FS_AddElement
  <1>10. EventsCounted'
    <2> SUFFICES ASSUME NEW m \in Lus
                 PROVE  Cardinality(In(m, {"event"})') =
                           evt_fd[m] + unsignalled'[m] + missed[m]
                              + (IF reap = m THEN ncomplete ELSE 0)
      BY Zenon, <1>1 DEF EventsCounted
    <2>1. Cardinality(In(m, {"event"})) = evt_fd[m] + unsignalled[m] + missed[m]
                                             + (IF reap = m THEN ncomplete ELSE 0)
      BY Zenon DEF EventsCounted
    <2>2. /\ evt_fd[m] \in Nat /\ unsignalled[m] \in Nat /\ missed[m] \in Nat
          /\ ncomplete \in Nat
      BY Zenon DEF TypeOK
    <2>3. CASE m = l
      <3>1. unsignalled'[m] = unsignalled[m] + 1
        BY Zenon, <1>1, <2>3 DEF TypeOK
      <3> QED BY <1>9, <2>1, <2>2, <2>3, <3>1
    <2>4. CASE m # l
      <3>1. unsignalled'[m] = unsignalled[m]
        BY Zenon, <1>1, <2>4 DEF TypeOK
      <3> QED BY ZenonT(30), <1>8, <2>1, <2>4, <3>1
    <2> QED BY Zenon, <2>3, <2>4
  <1>11. ExitClean' /\ ControlOK'
    BY ZenonT(30), <1>1 DEF ExitClean, ControlOK
  <1>12. Covered'
    BY Zenon, <1>1 DEF Covered, Idlers
  <1>13. TypeOK'
    <2>1. cmd' \in [Cmds -> States] /\ unsignalled' \in [Lus -> Nat]
      BY <1>1 DEF TypeOK, States
    <2> QED BY ZenonT(30), <1>1, <2>1 DEF TypeOK
  <1> QED BY Zenon, <1>4, <1>6, <1>10, <1>11, <1>12, <1>13

\* The kernel raises the eventfd of an open store.
LEMMA SignalStep ==
    ASSUME IInv, NEW l \in Lus, eventfd_signal(l)
    PROVE  IInv'
  <1> USE DEF IInv
  <1>1. /\ unsignalled[l] > 0
        /\ unsignalled' = [unsignalled EXCEPT ![l] = unsignalled[l] - 1]
        /\ evt_fd' = [evt_fd EXCEPT ![l] = evt_fd[l] + 1]
        /\ UNCHANGED <<cmd, dev, wait_list, nwaiting, npending, dev_list>>
        /\ UNCHANGED <<open, batch, walk, submitter, reap, loop, ncomplete, excused, missed>>
    BY Zenon DEF eventfd_signal, cmdVars, infoVars, ctlVars, reapVars
  <1>2. ListsOK' /\ CountsExact' /\ Idlers' = Idlers /\ \A m : In(m, {"event"})' = In(m, {"event"})
    BY Zenon, <1>1, DataFrame
  <1>3. /\ evt_fd \in [Lus -> Nat] /\ unsignalled \in [Lus -> Nat] /\ missed \in [Lus -> Nat]
        /\ ncomplete \in Nat
    BY Zenon DEF TypeOK
  <1>4. \A m \in Lus : evt_fd'[m] + unsignalled'[m] = evt_fd[m] + unsignalled[m]
    BY <1>1, <1>3
  <1>5. evt_fd' \in [Lus -> Nat] /\ unsignalled' \in [Lus -> Nat]
    BY SMTT(30), <1>1, <1>3
  <1>6. EventsCounted'
    <2> SUFFICES ASSUME NEW m \in Lus
                 PROVE  Cardinality(In(m, {"event"})') =
                           evt_fd'[m] + unsignalled'[m] + missed[m]
                              + (IF reap = m THEN ncomplete ELSE 0)
      BY Zenon, <1>1 DEF EventsCounted
    <2> QED BY Zenon, <1>2, <1>4 DEF EventsCounted
  <1>7. l \in open
    <2>1. npending[l] # 0
      BY <1>1, NothingOnTheWay
    <2> QED BY Zenon, <2>1 DEF ExitClean
  <1>8. ExitClean'
    BY Zenon, <1>1, <1>3, <1>7 DEF ExitClean
  <1>9. ControlOK' /\ Covered'
    BY Zenon, <1>1, <1>2 DEF ControlOK, Covered
  <1>10. TypeOK'
    BY Zenon, <1>1, <1>5 DEF TypeOK
  <1> QED BY Zenon, <1>2, <1>6, <1>8, <1>9, <1>10

\* The event loop reads the counter and clears it.
LEMMA GetCompletionsStep ==
    ASSUME IInv, NEW l \in Lus, bs_aio_get_completions(l)
    PROVE  IInv'
  <1> USE DEF IInv
  <1>1. /\ l \in open /\ loop = "idle" /\ ~batch
        /\ reap' = l /\ loop' = "getevents" /\ ncomplete' = evt_fd[l]
        /\ evt_fd' = [evt_fd EXCEPT ![l] = 0]
        /\ UNCHANGED <<cmd, dev, wait_list, nwaiting, npending, dev_list>>
        /\ UNCHANGED <<unsignalled, open, batch, walk, submitter, excused, missed>>
    BY Zenon DEF bs_aio_get_completions, Idle, cmdVars, infoVars, ctlVars
  <1>2. ListsOK' /\ CountsExact' /\ Idlers' = Idlers /\ \A m : In(m, {"event"})' = In(m, {"event"})
    BY Zenon, <1>1, DataFrame
  <1>3. /\ evt_fd \in [Lus -> Nat] /\ unsignalled \in [Lus -> Nat] /\ missed \in [Lus -> Nat]
    BY Zenon DEF TypeOK
  <1>4. \A m \in Lus : reap # m
    BY Zenon, <1>1, StoreConstants DEF ControlOK
  <1>5. EventsCounted'
    <2> SUFFICES ASSUME NEW m \in Lus
                 PROVE  Cardinality(In(m, {"event"})') =
                           evt_fd'[m] + unsignalled[m] + missed[m]
                              + (IF reap' = m THEN ncomplete' ELSE 0)
      BY Zenon, <1>1 DEF EventsCounted
    <2>1. Cardinality(In(m, {"event"})) = evt_fd[m] + unsignalled[m] + missed[m] + 0
      BY Zenon, <1>4 DEF EventsCounted
    <2>2. CASE m = l
      <3>1. evt_fd'[m] = 0 /\ reap' = m /\ ncomplete' = evt_fd[m]
        BY Zenon, <1>1, <1>3, <2>2
      <3> QED BY <1>2, <1>3, <2>1, <3>1
    <2>3. CASE m # l
      <3>1. evt_fd'[m] = evt_fd[m] /\ reap' # m
        BY Zenon, <1>1, <1>3, <2>3
      <3> QED BY Zenon, <1>2, <1>3, <2>1, <3>1
    <2> QED BY Zenon, <2>2, <2>3
  <1>6. ExitClean'
    BY Zenon, <1>1, <1>3 DEF ExitClean
  <1>7. ControlOK'
    BY Zenon, <1>1, StoreConstants DEF ControlOK
  <1>8. Covered'
    <2> SUFFICES ASSUME NEW m \in Idlers PROVE m \in excused' \/ m \in walk'
      BY Zenon, <1>2 DEF Covered
    <2>1. m \in Lus
      BY Zenon DEF Idlers
    <2> QED BY Zenon, <1>1, <1>4, <2>1 DEF Covered
  <1>9. TypeOK'
    <2>1. evt_fd' \in [Lus -> Nat] /\ ncomplete' \in Nat
      BY Zenon, <1>1, <1>3
    <2> QED BY ZenonT(30), <1>1, <2>1 DEF TypeOK
  <1> QED BY Zenon, <1>2, <1>5, <1>6, <1>7, <1>8, <1>9

\* io_getevents takes events off the ring that the counter has announced.
LEMMA GetEventsStep ==
    ASSUME IInv, io_getevents
    PROVE  IInv'
  <1> USE DEF IInv
  <1>1. /\ loop \in {"getevents", "post"} /\ loop' = "complete"
        /\ UNCHANGED <<dev, wait_list, nwaiting, dev_list, evt_fd, unsignalled, open, batch,
                       walk, submitter, reap, missed>>
        /\ excused' = (excused \cup {}) \cap Idlers'
    BY Zenon DEF io_getevents, Fetching, fdVars, ctlVars, Excuse
  <1>2. PICK l \in Lus : l = reap /\ ~batch
    BY Zenon, <1>1 DEF ControlOK, TypeOK
  <1>3. PICK S \in SUBSET In(l, {"event"}) :
           /\ Cardinality(S) \in 1..ncomplete
           /\ cmd' = [c \in Cmds |-> IF c \in S THEN "reaped" ELSE cmd[c]]
           /\ npending' = [npending EXCEPT ![l] = npending[l] - Cardinality(S)]
           /\ ncomplete' = ncomplete - Cardinality(S)
    BY ZenonT(30), <1>2 DEF io_getevents
  <1>4. /\ \A c \in S : c \in Cmds /\ dev[c] = l /\ cmd[c] = "event" /\ cmd'[c] = "reaped"
        /\ \A c \in Cmds : c \notin S => cmd'[c] = cmd[c]
    BY Zenon, <1>3 DEF In
  <1>5. ListsOK'
    <2>1. \A c \in Cmds : /\ cmd'[c] = "waiting" <=> cmd[c] = "waiting"
                          /\ cmd'[c] = "new" <=> cmd[c] = "new"
                          /\ cmd'[c] \in Past => cmd[c] \in Past
      BY Zenon, <1>4 DEF Past
    <2> QED BY Zenon, <1>1, <2>1, ListsFrame
  <1>6. \A m \in Lus : m # l => /\ In(m, {"kernel", "event"})' = In(m, {"kernel", "event"})
                                   /\ In(m, {"event"})' = In(m, {"event"})
    BY Zenon, <1>1, <1>4 DEF In
  <1>7. /\ In(l, {"kernel", "event"})' = In(l, {"kernel", "event"}) \ S
        /\ In(l, {"event"})' = In(l, {"event"}) \ S
    BY Zenon, <1>1, <1>4 DEF In
  <1>8. /\ In(l, {"kernel", "event"}) \cap S = S /\ In(l, {"event"}) \cap S = S
    BY Zenon, <1>4 DEF In
  <1>9. /\ Cardinality(In(l, {"kernel", "event"})') =
              Cardinality(In(l, {"kernel", "event"})) - Cardinality(S)
        /\ Cardinality(In(l, {"event"})') = Cardinality(In(l, {"event"})) - Cardinality(S)
    <2>1. IsFiniteSet(In(l, {"kernel", "event"})) /\ IsFiniteSet(In(l, {"event"}))
      BY Zenon, InFinite
    <2>2. /\ Cardinality(In(l, {"kernel", "event"}) \ S) =
                Cardinality(In(l, {"kernel", "event"}))
                   - Cardinality(In(l, {"kernel", "event"}) \cap S)
          /\ Cardinality(In(l, {"event"}) \ S) =
                Cardinality(In(l, {"event"})) - Cardinality(In(l, {"event"}) \cap S)
      BY ZenonT(30), <2>1, FS_Difference
    <2> QED BY Zenon, <1>7, <1>8, <2>2
  <1>10. Cardinality(S) \in Nat /\ ncomplete \in Nat /\ ncomplete' \in Nat
    BY <1>3 DEF TypeOK
  <1>11. npending \in [Lus -> Int]
    BY Zenon DEF TypeOK
  <1>12. CountsExact'
    <2>1. \A m \in Lus : nwaiting'[m] = Len(wait_list'[m])
      BY Zenon, <1>1 DEF CountsExact
    <2>2. ASSUME NEW m \in Lus
          PROVE  /\ npending'[m] = Cardinality(In(m, {"kernel", "event"})')
                 /\ npending'[m] <= IoDepth
      <3>1. npending[m] = Cardinality(In(m, {"kernel", "event"})) /\ npending[m] <= IoDepth
        BY Zenon DEF CountsExact
      <3>2. CASE m = l
        <4>1. npending'[m] = npending[m] - Cardinality(S)
          BY Zenon, <1>3, <1>11, <3>2
        <4>2. npending[m] \in Int /\ IoDepth \in Int
          BY SMTT(30), <1>11, StoreConstants
        <4>3. npending'[m] <= IoDepth
          BY SMTT(30), <1>10, <3>1, <4>1, <4>2
        <4>4. npending'[m] = Cardinality(In(m, {"kernel", "event"})')
          BY Zenon, <1>9, <3>1, <3>2, <4>1
        <4> QED BY Zenon, <4>3, <4>4
      <3>3. CASE m # l
        BY Zenon, <1>3, <1>6, <1>11, <3>1, <3>3
      <3> QED BY Zenon, <3>2, <3>3
    <2> QED BY ZenonT(30), <2>1, <2>2 DEF CountsExact
  <1>13. EventsCounted'
    <2> SUFFICES ASSUME NEW m \in Lus
                 PROVE  Cardinality(In(m, {"event"})') =
                           evt_fd[m] + unsignalled[m] + missed[m]
                              + (IF reap = m THEN ncomplete' ELSE 0)
      BY Zenon, <1>1 DEF EventsCounted
    <2>1. Cardinality(In(m, {"event"})) = evt_fd[m] + unsignalled[m] + missed[m]
                                             + (IF reap = m THEN ncomplete ELSE 0)
      BY Zenon DEF EventsCounted
    <2>2. evt_fd[m] \in Nat /\ unsignalled[m] \in Nat /\ missed[m] \in Nat
      BY Zenon DEF TypeOK
    <2>3. CASE m = l
      <3>1. /\ Cardinality(In(m, {"event"})) =
                  evt_fd[m] + unsignalled[m] + missed[m] + ncomplete
            /\ Cardinality(In(m, {"event"})') = Cardinality(In(m, {"event"})) - Cardinality(S)
        BY ZenonT(30), <1>2, <1>9, <2>1, <2>3
      <3> QED BY <1>2, <1>3, <1>10, <2>2, <2>3, <3>1
    <2>4. CASE m # l
      BY Zenon, <1>2, <1>6, <2>1, <2>4
    <2> QED BY ZenonT(30), <2>3, <2>4
  <1>14. ExitClean'
    <2>1. l \in open
      BY Zenon, <1>2 DEF ExitClean
    <2>2. \A m \in Lus \ open : npending'[m] = npending[m]
      BY Zenon, <1>3, <1>11, <2>1
    <2> QED BY Zenon, <1>1, <2>2 DEF ExitClean
  <1>15. ControlOK'
    BY Zenon, <1>1, <1>2 DEF ControlOK
  <1>16. Covered'
    <2> SUFFICES ASSUME NEW m \in Idlers' PROVE (m \in excused \/ m \in walk \/ m = reap \/ batch)'
      BY Zenon DEF Covered
    <2>1. CASE m # l
      <3>1. m \in Idlers
        BY Zenon, <1>1, <1>3, <1>11, <2>1 DEF Idlers
      <3> QED BY Zenon, <1>1, <1>2, <2>1, <3>1 DEF Covered
    <2> QED BY Zenon, <1>1, <1>2, <2>1
  <1>17. TypeOK'
    <2>1. cmd' \in [Cmds -> States]
      BY Zenon, <1>3 DEF TypeOK, States
    <2>2. npending' \in [Lus -> Int]
      <3>1. npending[l] - Cardinality(S) \in Int
        BY SMTT(30), <1>10, <1>11
      <3> QED BY Zenon, <1>3, <1>11, <3>1
    <2>3. excused' \subseteq Lus
      BY Zenon, <1>1 DEF Idlers
    <2> QED BY ZenonT(30), <1>1, <1>10, <2>1, <2>2, <2>3 DEF TypeOK
  <1> QED BY ZenonT(30), <1>5, <1>12, <1>13, <1>14, <1>15, <1>16, <1>17

\* io_getevents fails: the events that were announced stay in the ring.
LEMMA GetEventsFailsStep ==
    ASSUME IInv, GetEventsFails
    PROVE  IInv'
  <1> USE DEF IInv
  <1>1. /\ loop \in {"getevents", "post"} /\ reap' = None /\ loop' = "idle" /\ ncomplete' = 0
        /\ missed' = [missed EXCEPT ![reap] = missed[reap] + ncomplete]
        /\ UNCHANGED <<cmd, dev, wait_list, nwaiting, npending, dev_list>>
        /\ UNCHANGED <<evt_fd, unsignalled, open, batch, walk, submitter>>
        /\ excused' = (excused \cup {reap}) \cap Idlers'
    BY Zenon DEF GetEventsFails, Fetching, cmdVars, infoVars, fdVars, ctlVars, Excuse
  <1>2. reap \in Lus /\ ~batch
    BY Zenon, <1>1 DEF ControlOK, TypeOK
  <1>3. ListsOK' /\ CountsExact' /\ Idlers' = Idlers /\ \A m : In(m, {"event"})' = In(m, {"event"})
    BY Zenon, <1>1, DataFrame
  <1>4. \A m \in Lus : reap' # m
    BY Zenon, <1>1, StoreConstants
  <1>5. missed \in [Lus -> Nat] /\ ncomplete \in Nat
    BY Zenon DEF TypeOK
  <1>6. EventsCounted'
    <2> SUFFICES ASSUME NEW m \in Lus
                 PROVE  Cardinality(In(m, {"event"})') =
                           evt_fd[m] + unsignalled[m] + missed'[m] + 0
      BY Zenon, <1>1, <1>4 DEF EventsCounted
    <2>1. Cardinality(In(m, {"event"})) = evt_fd[m] + unsignalled[m] + missed[m]
                                             + (IF reap = m THEN ncomplete ELSE 0)
      BY Zenon DEF EventsCounted
    <2>2. evt_fd[m] \in Nat /\ unsignalled[m] \in Nat /\ missed[m] \in Nat
      BY Zenon DEF TypeOK
    <2>3. missed'[m] = missed[m] + (IF reap = m THEN ncomplete ELSE 0)
      BY SMTT(30), <1>1, <1>5, <2>2
    <2> QED BY <1>3, <1>5, <2>1, <2>2, <2>3
  <1>7. ExitClean'
    BY Zenon, <1>1, <1>4 DEF ExitClean
  <1>8. ControlOK'
    BY Zenon, <1>1, <1>2 DEF ControlOK
  <1>9. Covered'
    BY Zenon, <1>1, <1>2, <1>3 DEF Covered
  <1>10. TypeOK'
    <2>1. missed' \in [Lus -> Nat] /\ ncomplete' \in Nat
      BY SMTT(30), <1>1, <1>2, <1>5
    <2>2. excused' \subseteq Lus
      BY Zenon, <1>1 DEF Idlers
    <2> QED BY Zenon, <1>1, <2>1, <2>2 DEF TypeOK
  <1> QED BY Zenon, <1>3, <1>6, <1>7, <1>8, <1>9, <1>10

\* A fetched command is completed.
LEMMA CompleteStep ==
    ASSUME IInv, NEW c \in Cmds, bs_aio_complete_one(c)
    PROVE  IInv'
  <1> USE DEF IInv
  <1>1. /\ loop \in {"complete", "post"} /\ loop' = "post"
        /\ cmd[c] = "reaped" /\ cmd' = [cmd EXCEPT ![c] = "done"]
        /\ UNCHANGED <<dev, wait_list, nwaiting, npending, dev_list, evt_fd, unsignalled, open,
                       batch, walk, submitter, reap, ncomplete, excused, missed>>
    BY Zenon DEF bs_aio_complete_one, infoVars, fdVars, ctlVars
  <1>2. cmd'[c] = "done" /\ \A d \in Cmds : d # c => cmd'[d] = cmd[d]
    BY Zenon, <1>1 DEF TypeOK
  <1>3. ListsOK'
    BY Zenon, <1>1, <1>2, ListsFrame DEF Past
  <1>4. \A m \in Lus : /\ In(m, {"kernel", "event"})' = In(m, {"kernel", "event"})
                       /\ In(m, {"event"})' = In(m, {"event"})
    BY Zenon, <1>1, <1>2 DEF In
  <1>5. CountsExact' /\ EventsCounted'
    BY ZenonT(30), <1>1, <1>4 DEF CountsExact, EventsCounted
  <1>6. ExitClean' /\ ControlOK'
    BY ZenonT(30), <1>1 DEF ExitClean, ControlOK
  <1>7. Covered'
    BY Zenon, <1>1 DEF Covered, Idlers
  <1>8. TypeOK'
    <2>1. cmd' \in [Cmds -> States]
      BY Zenon, <1>1 DEF TypeOK, States
    <2> QED BY ZenonT(30), <1>1, <2>1 DEF TypeOK
  <1> QED BY Zenon, <1>3, <1>5, <1>6, <1>7, <1>8

-----------------------------------------------------------------------------
\* The invariant holds from bs_aio_init on.
LEMMA InitOK == Init => IInv
  <1> SUFFICES ASSUME Init PROVE IInv
    BY Zenon
  <1>1. \A l \in Lus : wait_list[l] = <<>> /\ Len(wait_list[l]) = 0
    BY Zenon DEF Init
  <1>2. \A l \in Lus : /\ In(l, {"kernel", "event"}) = {} /\ In(l, {"event"}) = {}
                       /\ In(l, {"waiting"}) = {}
    BY Zenon DEF Init, In
  <1>3. TypeOK
    <2>1. wait_list \in [Lus -> Seq(Cmds)]
      BY Zenon, EmptySeq DEF Init
    <2>2. cmd \in [Cmds -> States]
      BY Zenon DEF Init, States
    <2>3. batch \in BOOLEAN
      BY ZenonT(10) DEF Init
    <2>4. /\ dev \in [Cmds -> Lus \cup {None}]
          /\ nwaiting \in [Lus -> Int] /\ npending \in [Lus -> Int]
          /\ evt_fd \in [Lus -> Nat] /\ unsignalled \in [Lus -> Nat]
          /\ missed \in [Lus -> Nat]
      BY SMTT(30) DEF Init
    <2>5. /\ dev_list \subseteq Lus /\ open \subseteq Lus /\ walk \subseteq Lus
          /\ submitter \in Cmds \cup {None} /\ reap \in Lus \cup {None}
          /\ loop \in {"idle", "getevents", "complete", "post"} /\ ncomplete \in Nat
          /\ excused \subseteq Lus
      BY Zenon DEF Init
    <2> QED BY Zenon, <2>1, <2>2, <2>3, <2>4, <2>5 DEF TypeOK
  <1>4. ListsOK
    BY <1>1, <1>2 DEF Init, ListsOK, WaitExact, DevListExact, InOrder, Numbered
  <1>5. Cardinality({}) = 0
    BY Zenon, FS_EmptySet
  <1>6. CountsExact
    <2>1. \A l \in Lus : nwaiting[l] = 0 /\ npending[l] = 0
      BY Zenon DEF Init
    <2>2. 0 <= IoDepth
      BY StoreConstants
    <2> QED BY ZenonT(30), <1>1, <1>2, <1>5, <2>1, <2>2 DEF CountsExact
  <1>7. EventsCounted
    <2>1. \A l \in Lus : evt_fd[l] = 0 /\ unsignalled[l] = 0 /\ missed[l] = 0
      BY Zenon DEF Init
    <2>2. \A l \in Lus : (IF reap = l THEN ncomplete ELSE 0) = 0
      BY Zenon DEF Init
    <2>3. 0 = 0 + 0 + 0 + 0
      BY SMTT(30)
    <2> QED BY Zenon, <1>2, <1>5, <2>1, <2>2, <2>3 DEF EventsCounted
  <1>8. ExitClean
    BY Zenon, StoreConstants DEF Init, ExitClean
  <1>9. ControlOK /\ Covered
    BY SMTT(30) DEF Init, ControlOK, Covered, Idlers
  <1> QED BY ZenonT(30), <1>3, <1>4, <1>6, <1>7, <1>8, <1>9 DEF IInv

\* A step that changes nothing.
LEMMA StutterOK == IInv /\ UNCHANGED vars => IInv'
  <1> SUFFICES ASSUME IInv, UNCHANGED vars PROVE IInv'
    BY Zenon
  <1> USE DEF IInv
  <1>1. /\ UNCHANGED <<cmd, dev, wait_list, nwaiting, npending, dev_list>>
        /\ UNCHANGED <<evt_fd, unsignalled, open, batch, walk, submitter, reap, loop,
                       ncomplete, excused, missed>>
    BY Zenon DEF vars, cmdVars, infoVars, fdVars, ctlVars, reapVars
  <1>2. ListsOK' /\ CountsExact' /\ Idlers' = Idlers /\ \A m : In(m, {"event"})' = In(m, {"event"})
    BY Zenon, <1>1, DataFrame
  <1>3. TypeOK'
    BY Zenon, <1>1 DEF TypeOK
  <1>4. EventsCounted' /\ ExitClean' /\ ControlOK' /\ Covered'
    BY ZenonT(30), <1>1, <1>2 DEF EventsCounted, ExitClean, ControlOK, Covered
  <1> QED BY Zenon, <1>2, <1>3, <1>4

\* Whatever io_submit and io_getevents return: the wait lists, nwaiting,
\* npending and bs_aio_dev_list agree, the kernel never has more than iodepth
\* commands, commands go to it in order, every event is counted, so that
\* io_getevents does not block, a closed store has nothing in the kernel, and
\* between events commands wait only while a completion is to come or a call
\* has failed.
THEOREM AioCorrect == Spec => []AioExact
  <1>1. IInv /\ [Next]_vars => IInv'
    <2> SUFFICES ASSUME IInv, [Next]_vars PROVE IInv'
      BY Zenon
    <2>1. CASE \E l \in Lus : bs_aio_open(l) \/ bs_aio_exit(l) \/ bs_aio_get_completions(l)
      BY Zenon, <2>1, OpenStep, ExitStep, GetCompletionsStep
    <2>2. CASE \E l \in Lus, c \in Cmds, last \in BOOLEAN :
                  bs_aio_cmd_submit(l, c, last) \/ SkipOther(l, c, last)
      BY Zenon, <2>2, SubmitStep, SkipStep
    <2>3. CASE BatchCut
      BY Zenon, <2>3, CutStep
    <2>4. CASE Handler
      BY Zenon, <2>4, SubmitNextStep, GetEventsStep, GetEventsFailsStep, EndStep, CompleteStep
         DEF Handler
    <2>5. CASE \E c \in Cmds : IoDone(c)
      BY Zenon, <2>5, IoDoneStep
    <2>6. CASE \E l \in Lus : eventfd_signal(l)
      BY Zenon, <2>6, SignalStep
    <2> QED BY Zenon, <2>1, <2>2, <2>3, <2>4, <2>5, <2>6, StutterOK DEF Next
  <1>2. IInv => AioExact
    <2> SUFFICES ASSUME IInv PROVE AioExact
      BY Zenon
    <2>1. NoStranded
      <3> SUFFICES ASSUME Idle, NEW l \in Idlers PROVE l \in excused
        BY Zenon DEF NoStranded
      <3>1. l \in Lus /\ reap = None
        BY Zenon DEF Idle, Idlers, IInv, ControlOK
      <3> QED BY Zenon, <3>1, StoreConstants DEF Idle, IInv, Covered
    <2> QED BY Zenon, <2>1 DEF IInv, ListsOK, AioExact
  <1> QED BY <1>1, <1>2, InitOK, PTL DEF Spec
=============================================================================
