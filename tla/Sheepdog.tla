------------------------------ MODULE Sheepdog ------------------------------
(***************************************************************************)
(* The sheepdog backing store (usr/bs_sheepdog.c): worker threads that     *)
(* share one cached inode of a virtual disk (VDI) and read and write the   *)
(* disk's data objects in a cluster.                                       *)
(*                                                                         *)
(* A disk is an array of objects; data_vdi_id[idx] in the inode names the  *)
(* VDI whose object holds the data of index idx (0: never written).  An    *)
(* object of another VDI belongs to a snapshot: the first write creates an *)
(* own object, copied from the old one, and records it in the inode, in    *)
(* memory and then in the cluster.  An object here has two halves, a disk  *)
(* address is a number of halves and a half holds the number of a write.   *)
(*                                                                         *)
(* The cluster is external, modelled from what the code expects of it: it  *)
(* executes one request at a time; a write to a VDI that became a snapshot *)
(* is READONLY (1); once another client changed the inode every request is *)
(* refused with INODE_INVALIDATED (2) until the whole inode is read.       *)
(***************************************************************************)
EXTENDS Integers, Sequences, FiniteSets, SequencesExt

CONSTANTS
    Threads,    \* worker threads of the logical unit
    Profiles,   \* the environments the model runs in, see MCSheepdog
    MaxVersion, \* bound on the number of reloads of the inode
    None

VARIABLES
    mode,       \* the environment of this behaviour
    sheep,      \* external: objects, inodes, working VDI, snapshots
    ai,         \* ai->inode and ai->inode_version
    lver,       \* the thread-local inode_version of reload_inode
    lock,       \* ai->inode_lock and ai->inode_version_mutex
    inflight,   \* ai->inflight_list_head: the threads on it
    sleeping,   \* threads in pthread_cond_wait
    th,         \* the threads
    hist,       \* what the disk must hold, and what went wrong
    left        \* what may still happen

vars == <<mode, sheep, ai, lver, lock, inflight, sleeping, th, hist, left>>

profile == Profiles[mode]

Idxs   == 0..2              \* indexes of the objects of the disk
Halves == 0..1
Addr   == 0..5
Blank  == [h \in Halves |-> 0]

Idle == [pc |-> "idle", w |-> FALSE, a |-> 0, n |-> 0, val |-> 0, idx |-> 0, rest |-> 0, buf |-> << >>,
         dirty |-> {}, wl |-> FALSE, need |-> 0, vid |-> 0, create |-> FALSE, ret |-> 0, snap |-> FALSE,
         back |-> "", spoilt |-> FALSE, oid |-> 0, old |-> 0, tab |-> << >>]

Base == 1                   \* the snapshot the disk was cloned from
Own  == 2                   \* its VDI when tgtd opens it

\* external: idx 0 lies in the parent or is the disk's own, idx 1 was never written, idx 2 is the disk's own.
Cluster(zero) ==
    [obj |-> [o \in {<<zero, 0>>, <<Own, 2>>} |-> [h \in Halves |-> 1]], inode |-> [v \in {Own} |-> (0 :> zero @@ 1 :> 0 @@ 2 :> Own)],
     cur |-> Own, ro |-> {Base}, inval |-> FALSE]

Init ==
    /\ mode \in DOMAIN Profiles
    /\ sheep = Cluster(profile.zero)
    /\ ai = [vid |-> Own, map |-> sheep.inode[Own], ver |-> 0]        \* sd_open reads the whole inode
    /\ lver = [t \in Threads |-> 0]
    /\ lock = [w |-> None, r |-> {}, v |-> None]
    /\ inflight = {} /\ sleeping = {}
    /\ th = [t \in Threads |-> Idle]
    /\ hist = [disk |-> [x \in Addr |-> IF x \in {2, 3} THEN {0} ELSE {1}], wrong |-> FALSE, late |-> FALSE, stray |-> FALSE, cut |-> FALSE]
    /\ left = profile.left

-----------------------------------------------------------------------------
(* The range of objects of a request.                                      *)

first_idx(r) == r.a \div 2
\* the index after the last object
max_idx(r)   == (r.a + r.n + 1) \div 2

Busy(t) == th[t].pc # "idle"

\* inflight_block's test, which takes max_idx for an index of the range.
Overlap(t, u) == ~(max_idx(th[t]) < first_idx(th[u]) \/ max_idx(th[u]) < first_idx(th[t]))

Set(t, r)    == th' = [th EXCEPT ![t] = r]
Goto(t, pc)  == Set(t, [th[t] EXCEPT !.pc = pc])

\* bs_sheepdog_request: a worker takes a READ or WRITE from its queue.
bs_sheepdog_request(t, w, a, n) ==
    /\ th[t].pc = "idle" /\ left.reqs > 0
    /\ Set(t, [Idle EXCEPT !.pc = "block", !.w = w, !.a = a, !.n = n, !.val = left.reqs + 1, !.idx = a \div 2, !.rest = n,
                           !.buf = [i \in 1..n |-> 0]])
    /\ left' = [left EXCEPT !.reqs = @ - 1]
    /\ UNCHANGED <<mode, sheep, ai, lver, lock, inflight, sleeping, hist>>

\* mutant: a woken thread does not look at the list again
inflight_block_once(t) ==
    /\ th[t].pc = "block"
    /\ IF th[t].oid = 0 /\ \E u \in inflight: Overlap(t, u)
       THEN sleeping' = sleeping \cup {t} /\ Set(t, [th[t] EXCEPT !.pc = "wait", !.oid = 1]) /\ UNCHANGED inflight
       ELSE inflight' = inflight \cup {t} /\ Goto(t, "check") /\ UNCHANGED sleeping
    /\ UNCHANGED <<mode, sheep, ai, lver, lock, hist, left>>

inflight_block(t) ==
    /\ th[t].pc = "block"
    /\ IF \E u \in inflight: Overlap(t, u)
       THEN sleeping' = sleeping \cup {t} /\ Goto(t, "wait") /\ UNCHANGED inflight
       ELSE inflight' = inflight \cup {t} /\ Goto(t, "check") /\ UNCHANGED sleeping
    /\ UNCHANGED <<mode, sheep, ai, lver, lock, hist, left>>

\* pthread_cond_signal: one of the waiters, and the command's answer.
WakeOne(woken) ==
    /\ sleeping' = sleeping \ woken
    /\ \/ sleeping = {} /\ woken = {}
       \/ \E u \in sleeping: woken = {u}

Cells(r) == r.a..(r.a + r.n - 1)

\* What the disk may hold once the command of r is answered: a failed write may have been done or not.
Answered(r) ==
    [hist EXCEPT !.disk  = [x \in Addr |-> IF ~r.w \/ x \notin Cells(r) THEN @[x] ELSE IF r.ret = 0 THEN {r.val} ELSE @[x] \cup {r.val}],
                 !.wrong = @ \/ (~r.w /\ r.ret = 0 /\ ~r.spoilt /\ \E x \in Cells(r): r.buf[x - r.a + 1] \notin hist.disk[x]),
                 !.cut   = @ \/ (r.ret # 0 /\ r.dirty # {})]

\* mutant: the waiters are not signalled
inflight_release_quiet(t) ==
    /\ th[t].pc = "release"
    /\ inflight' = inflight \ {t}
    /\ Set(t, Idle)
    /\ hist' = Answered(th[t])
    /\ UNCHANGED <<mode, sheep, ai, lver, lock, sleeping, left>>

inflight_release(t) ==
    /\ th[t].pc = "release"
    /\ inflight' = inflight \ {t}
    /\ \E woken \in SUBSET sleeping:
          /\ WakeOne(woken)
          /\ th' = [u \in Threads |-> IF u = t THEN Idle ELSE IF u \in woken THEN [th[u] EXCEPT !.pc = "block"] ELSE th[u]]
    /\ hist' = Answered(th[t])
    /\ UNCHANGED <<mode, sheep, ai, lver, lock, left>>

-----------------------------------------------------------------------------
(* The cluster's answers: the new cluster, the result code and the data.   *)

\* external: SD_OP_WRITE_OBJ and SD_OP_CREATE_AND_WRITE_OBJ
SheepWrite(v, idx, create, old, at, size, val) ==
    LET has  == <<IF create /\ old # 0 THEN old ELSE v, idx>> \in DOMAIN sheep.obj
        from == IF create THEN (IF old = 0 THEN Blank ELSE sheep.obj[<<old, idx>>]) ELSE sheep.obj[<<v, idx>>]
        new  == [h \in Halves |-> IF h \in at..(at + size - 1) THEN val ELSE from[h]]
    IN  IF sheep.inval THEN <<sheep, 2>>
        ELSE IF v \in sheep.ro THEN <<sheep, 1>>
        ELSE IF ~has /\ (~create \/ old # 0) THEN <<sheep, -1>>
        ELSE <<[sheep EXCEPT !.obj = (<<v, idx>> :> new) @@ @], 0>>

\* external: a part of the inode is written
SheepWriteInode(v, range, map) ==
    IF sheep.inval THEN <<sheep, 2>>
    ELSE IF v \in sheep.ro THEN <<sheep, 1>>
    ELSE <<[sheep EXCEPT !.inode[v] = [i \in Idxs |-> IF i \in range THEN map[i] ELSE @[i]]], 0>>

\* external: SD_OP_READ_OBJ of a data object
SheepRead(v, idx) == IF sheep.inval THEN 2 ELSE IF <<v, idx>> \in DOMAIN sheep.obj THEN 0 ELSE -1

-----------------------------------------------------------------------------
(* sd_io                                                                   *)

\* do_req: the lock is chosen from a look at the inode without a lock.
ChooseLock(t) ==
    /\ th[t].pc = "check"
    /\ Set(t, [th[t] EXCEPT !.pc = "lock", !.wl = \E i \in th[t].idx..(max_idx(th[t]) - 1): ai.map[i] # ai.vid])
    /\ UNCHANGED <<mode, sheep, ai, lver, lock, inflight, sleeping, hist, left>>

TakeLock(t, wl) ==
    /\ lock.w = None
    /\ wl => lock.r = {}
    /\ lock' = IF wl THEN [lock EXCEPT !.w = t] ELSE [lock EXCEPT !.r = @ \cup {t}]

Unlocked(t) == [lock EXCEPT !.w = IF @ = t THEN None ELSE @, !.r = @ \ {t}]

LockInode(t) ==
    /\ th[t].pc = "lock"
    /\ TakeLock(t, th[t].wl)
    /\ Goto(t, "io")
    /\ UNCHANGED <<mode, sheep, ai, lver, inflight, sleeping, hist, left>>

Offset(r) == IF r.idx = r.a \div 2 THEN r.a % 2 ELSE 0
Size(r)   == Min({2 - Offset(r), r.rest})

\* the label done: the next object, or the end of the loop
Piece(r) ==
    LET s == [r EXCEPT !.rest = @ - Size(r), !.idx = @ + 1]
    IN  [s EXCEPT !.pc = IF s.idx < max_idx(r) THEN "io" ELSE IF s.dirty # {} THEN "update" ELSE "unlock", !.oid = ai.vid]

Fail(r)  == [r EXCEPT !.pc = "unlock", !.ret = -1]

Faults(t, r) == left.fail > 0 /\ left' = [left EXCEPT !.fail = @ - 1] /\ Set(t, Fail(r)) /\ UNCHANGED sheep

\* The request reaches the cluster; its answer may be lost with the connection, and do_req sends it again.
Lost == left.lost > 0 /\ left' = [left EXCEPT !.lost = @ - 1]

\* hdr, made from the inode at the label retry and sent again as it is after a lost connection: the VDI of the object, whether
\* it is to be created, and the VDI whose object is there now.
hdr(r) == IF r.pc = "resend" THEN [vid |-> r.vid, create |-> r.create, old |-> r.old]
          ELSE [vid |-> ai.vid, create |-> ai.map[r.idx] # ai.vid, old |-> ai.map[r.idx]]

Sent(r, pc) == [r EXCEPT !.pc = pc, !.vid = hdr(r).vid, !.create = hdr(r).create, !.old = hdr(r).old]

\* The thread has a request to send, for the first time or again.
Sends(r) == r.pc \in {"io", "resend"}

\* The result codes of an object request: an error, or success with need_reload set.
read_write_object(r, code) == [r EXCEPT !.ret = IF code = -1 THEN -1 ELSE 0, !.need = IF code > 0 THEN code ELSE 0]

\* mutant: the new object is not filled from the old one
WriteObject_nocow(t) ==
    LET r == th[t]
        ans == SheepWrite(hdr(r).vid, r.idx, hdr(r).create, 0, Offset(r), Size(r), r.val)
    IN  /\ Sends(r) /\ r.w
        /\ sheep' = ans[1]
        /\ Set(t, read_write_object(Sent(r, "written"), ans[2]))
        /\ UNCHANGED <<mode, ai, lver, lock, inflight, sleeping, hist, left>>

\* retry: write_object, with copy on write when the object belongs to another VDI.
WriteObject(t) ==
    LET r == th[t]
        ans == SheepWrite(hdr(r).vid, r.idx, hdr(r).create, hdr(r).old, Offset(r), Size(r), r.val)
    IN  /\ Sends(r) /\ r.w
        /\ \/ /\ sheep' = ans[1]
              /\ \/ Lost /\ Set(t, Sent(r, "resend"))
                 \/ Set(t, read_write_object(Sent(r, "written"), ans[2])) /\ UNCHANGED left
           \/ Faults(t, r)
        /\ UNCHANGED <<mode, ai, lver, lock, inflight, sleeping, hist>>

Created(r) == IF r.create THEN [r EXCEPT !.dirty = @ \cup {r.idx}, !.create = FALSE] ELSE r
MapSet(r)  == IF r.create THEN [ai EXCEPT !.map[r.idx] = r.vid] ELSE ai

\* What follows write_object: reload and retry, or record the new object in the cached inode.
Written(t) ==
    LET r == th[t]
    IN  /\ r.pc = "written"
        /\ IF r.ret # 0 THEN Set(t, [r EXCEPT !.pc = "unlock"]) /\ UNCHANGED ai
           ELSE IF r.need # 0 THEN Set(t, [r EXCEPT !.pc = "reload", !.back = "io", !.snap = r.need = 1]) /\ UNCHANGED ai
           ELSE Set(t, Piece(Created(r))) /\ ai' = MapSet(r)
        /\ UNCHANGED <<mode, sheep, lver, lock, inflight, sleeping, hist, left>>

\* memset and read_object put the data of one object into the buffer at position at (in halves).
Fill(r, at, f) == [r EXCEPT !.buf = [i \in 1..r.n |-> IF i \in (at + 1)..(at + Size(r)) THEN f[Offset(r) + i - at - 1] ELSE @[i]]]

Reloading(r, snap) == [r EXCEPT !.pc = "relock", !.snap = snap]

\* An index never written: is_refresh_required, then zeroes.  They go to the start of the buffer, and a refresh reads
\* need_reload_inode, which holds what the previous object left there or nothing yet.
ReadHole(t) ==
    LET r == th[t]
    IN  /\ r.pc = "io" /\ ~r.w /\ ai.map[r.idx] = 0
        /\ IF sheep.inval
           THEN \E snap \in BOOLEAN: /\ r.idx # r.a \div 2 => ~snap
                                     /\ Set(t, Reloading(r, snap))
                                     /\ hist' = [hist EXCEPT !.stray = @ \/ snap]
           ELSE Set(t, Piece([Fill(r, 0, Blank) EXCEPT !.spoilt = r.rest # r.n])) /\ UNCHANGED hist
        /\ UNCHANGED <<mode, sheep, ai, lver, lock, inflight, sleeping, left>>

\* read_object.  When the connection is lost before the answer, the request is sent again; when it is lost after the answer's
\* header was read into hdr, do_req sends that header as the request: it names an object that does not exist.
ReadObject(t) ==
    LET r == th[t]
        v == hdr(r).old
        res == SheepRead(v, r.idx)
    IN  /\ Sends(r) /\ ~r.w /\ v # 0
        /\ \/ /\ Set(t, IF res = -1 THEN Fail(r) ELSE IF res = 2 THEN Reloading(r, FALSE)
                        ELSE Piece(Fill(r, r.n - r.rest, sheep.obj[<<v, r.idx>>])))
              /\ UNCHANGED left
           \/ Lost /\ Set(t, Sent(r, "resend"))
           \/ Lost /\ Set(t, Fail(r))
        /\ UNCHANGED <<mode, sheep, ai, lver, lock, inflight, sleeping, hist>>

\* reload_in_read_path: the read lock is given up for the write lock.
ReloadInReadPath(t) ==
    /\ \/ th[t].pc = "relock" /\ lock' = Unlocked(t) /\ Goto(t, "relocked")
       \/ th[t].pc = "relocked" /\ TakeLock(t, TRUE) /\ Set(t, [th[t] EXCEPT !.pc = "reload", !.back = "check"])
    /\ UNCHANGED <<mode, sheep, ai, lver, inflight, sleeping, hist, left>>

-----------------------------------------------------------------------------
(* reload_inode, under inode_version_mutex                                 *)

\* Back in sd_io or update_inode, which ignores a failure.  A failed reload of a write that creates still marks the index.
Return(t, r, ok) ==
    CASE r.back = "update"     -> Set(t, [r EXCEPT !.pc = "update"]) /\ UNCHANGED ai
      [] r.back = "io" /\ ok   -> Set(t, [r EXCEPT !.pc = "io"]) /\ UNCHANGED ai
      [] r.back = "io" /\ ~ok  -> Set(t, Fail(Created(r))) /\ ai' = MapSet(r)
      [] r.back = "check"      -> Set(t, IF ok THEN [r EXCEPT !.pc = "reread"] ELSE Fail(r)) /\ UNCHANGED ai

\* some other thread reloaded the inode
AlreadyReloaded(t) ==
    /\ th[t].pc = "reload" /\ lock.v = None
    /\ lver[t] # ai.ver
    /\ lver' = [lver EXCEPT ![t] = ai.ver]
    /\ Return(t, th[t], TRUE)
    /\ UNCHANGED <<mode, sheep, lock, inflight, sleeping, hist, left>>

StartReload(t) ==
    /\ th[t].pc = "reload" /\ lock.v = None
    /\ lver[t] = ai.ver /\ ai.ver < MaxVersion
    /\ lock' = [lock EXCEPT !.v = t]
    /\ Goto(t, "fetch")
    /\ UNCHANGED <<mode, sheep, ai, lver, inflight, sleeping, hist, left>>

EndReload(t) ==
    /\ lver' = [lver EXCEPT ![t] = @ + 1]
    /\ lock' = [lock EXCEPT !.v = None]

\* external: the inode of the working VDI exists
Resolved == sheep.cur \in DOMAIN sheep.inode

Reread(r) == CASE r.back = "update" -> [r EXCEPT !.pc = "update"]
               [] r.back = "io"     -> [r EXCEPT !.pc = "io"]
               [] r.back = "check"  -> [r EXCEPT !.pc = "reread"]

\* After a snapshot only the header is read, so that every object counts as one of the snapshot's.
ReloadHeader(t) ==
    /\ th[t].pc = "fetch" /\ th[t].snap /\ Resolved
    /\ ai' = [ai EXCEPT !.vid = sheep.cur, !.ver = lver[t] + 1]
    /\ EndReload(t)
    /\ Set(t, Reread(th[t]))
    /\ UNCHANGED <<mode, sheep, inflight, sleeping, hist, left>>

\* The whole inode; when it became a snapshot (snap_ctime), the one of the working VDI as well.
ReloadWhole(t) ==
    /\ th[t].pc = "fetch" /\ ~th[t].snap
    /\ sheep' = [sheep EXCEPT !.inval = FALSE]
    /\ IF ai.vid \in sheep.ro
       THEN ai' = [ai EXCEPT !.map = sheep.inode[ai.vid]] /\ Goto(t, "fetch2") /\ UNCHANGED <<lver, lock>>
       ELSE ai' = [ai EXCEPT !.map = sheep.inode[ai.vid], !.ver = lver[t] + 1] /\ EndReload(t) /\ Set(t, Reread(th[t]))
    /\ UNCHANGED <<mode, inflight, sleeping, hist, left>>

\* The answer is read into ai->inode as it arrives: the header, and then data_vdi_id.
ReloadWorking(t) ==
    /\ \/ /\ th[t].pc = "fetch2" /\ Resolved
          /\ ai' = [ai EXCEPT !.vid = sheep.cur]
          /\ Set(t, [th[t] EXCEPT !.pc = "fetch3", !.tab = sheep.inode[sheep.cur]])
          /\ UNCHANGED <<lver, lock>>
       \/ /\ th[t].pc = "fetch3"
          /\ ai' = [ai EXCEPT !.map = th[t].tab, !.ver = lver[t] + 1]
          /\ EndReload(t)
          /\ Set(t, [Reread(th[t]) EXCEPT !.tab = << >>])
    /\ UNCHANGED <<mode, sheep, inflight, sleeping, hist, left>>

ReloadFails(t) ==
    /\ th[t].pc \in {"fetch", "fetch2"} /\ left.fail > 0
    /\ left' = [left EXCEPT !.fail = @ - 1]
    /\ lock' = [lock EXCEPT !.v = None]
    /\ Return(t, th[t], FALSE)
    /\ UNCHANGED <<mode, sheep, lver, inflight, sleeping, hist>>

\* The write lock of reload_in_read_path is released, and the lock chosen again.
Unlock(t) ==
    /\ \/ th[t].pc = "reread" /\ Goto(t, "check")
       \/ th[t].pc = "unlock" /\ Goto(t, "release")
    /\ lock' = Unlocked(t)
    /\ UNCHANGED <<mode, sheep, ai, lver, inflight, sleeping, hist, left>>

\* update_inode: the range of the dirty indexes goes to the inode the VDI had when sd_io finished its objects, also after a
\* reload, which replaced the entries to write.
update_inode(t) ==
    LET r == th[t]
        ans == SheepWriteInode(r.oid, Min(r.dirty)..Max(r.dirty), ai.map)
    IN  /\ r.pc = "update"
        /\ \/ /\ sheep' = ans[1]
              /\ \/ Lost /\ ans[2] = 0 /\ UNCHANGED <<th, hist>>
                 \/ /\ IF ans[2] = 0 THEN Goto(t, "unlock") ELSE Set(t, [r EXCEPT !.pc = "reload", !.back = "update", !.snap = FALSE])
                    /\ hist' = [hist EXCEPT !.late = @ \/ ans[2] > 0]
                    /\ UNCHANGED left
           \/ Faults(t, r) /\ UNCHANGED hist
        /\ UNCHANGED <<mode, ai, lver, lock, inflight, sleeping>>

-----------------------------------------------------------------------------
(* Other clients of the cluster (external).                                *)

\* A snapshot is taken: the working VDI becomes read-only, and a moment later its child's inode exists.
Snapshot ==
    /\ \/ /\ left.snaps > 0 /\ Resolved
          /\ sheep' = [sheep EXCEPT !.ro = @ \cup {sheep.cur}, !.cur = @ + 1]
          /\ left' = [left EXCEPT !.snaps = @ - 1]
       \/ /\ ~Resolved
          /\ sheep' = [sheep EXCEPT !.inode = (sheep.cur :> sheep.inode[sheep.cur - 1]) @@ @]
          /\ UNCHANGED left
    /\ UNCHANGED <<mode, ai, lver, lock, inflight, sleeping, th, hist>>

\* After a failover another tgtd writes: it holds this one's inode invalid.
OtherWrites(x) ==
    LET idx  == x \div 2
        map  == sheep.inode[sheep.cur]
        from == IF map[idx] = 0 THEN Blank ELSE sheep.obj[<<map[idx], idx>>]
        val  == 10 + left.others
    IN  /\ left.others > 0 /\ Resolved
        /\ \A t \in Threads: ~Busy(t)
        /\ sheep' = [sheep EXCEPT !.obj = (<<sheep.cur, idx>> :> [from EXCEPT ![x % 2] = val]) @@ @,
                                  !.inode[sheep.cur][idx] = sheep.cur, !.inval = TRUE]
        /\ hist' = [hist EXCEPT !.disk[x] = {val}]
        /\ left' = [left EXCEPT !.others = @ - 1]
        /\ UNCHANGED <<mode, ai, lver, lock, inflight, sleeping, th>>

Step(t) ==
    \/ inflight_block(t) \/ inflight_release(t)
    \/ ChooseLock(t) \/ LockInode(t) \/ Unlock(t)
    \/ WriteObject(t) \/ Written(t) \/ ReadHole(t) \/ ReadObject(t) \/ ReloadInReadPath(t)
    \/ AlreadyReloaded(t) \/ StartReload(t) \/ ReloadHeader(t) \/ ReloadWhole(t) \/ ReloadWorking(t) \/ ReloadFails(t)
    \/ update_inode(t)

Next ==
    \/ \E t \in Threads: Step(t)
    \/ \E t \in DOMAIN profile.reqs: \E r \in profile.reqs[t]: bs_sheepdog_request(t, r[1], r[2], r[3])
    \/ Snapshot
    \/ \E x \in Addr: OtherWrites(x)

\* A worker is a thread of its own; the cluster answers and finishes a snapshot it began.
Fairness == (\A t \in Threads: WF_vars(Step(t))) /\ WF_vars(~Resolved /\ Snapshot)

Spec == Init /\ [][Next]_vars /\ Fairness

-----------------------------------------------------------------------------
TypeOK ==
    /\ ai.vid \in 1..4 /\ ai.map \in [Idxs -> 0..4] /\ ai.ver \in Nat
    /\ lock.r \subseteq Threads /\ lock.w \in Threads \cup {None} /\ lock.v \in Threads \cup {None}
    /\ inflight \subseteq Threads /\ sleeping \subseteq Threads
    /\ \A t \in Threads: th[t].ret \in {0, -1} /\ th[t].need \in 0..2 /\ th[t].idx \in 0..3

InIo(t) == Busy(t) /\ th[t].pc \notin {"block", "wait", "release"}
Span(r) == first_idx(r)..(max_idx(r) - 1)

\* No two threads are in sd_io for the same object: inflight_block lets a command in only when no command on the list
\* shares an object with it, also after it was woken by another command's end.
ObjectOnce == \A t, u \in Threads: t # u /\ InIo(t) /\ InIo(u) => Span(th[t]) \cap Span(th[u]) = {}

Visible(x) ==
    LET map == sheep.inode[IF Resolved THEN sheep.cur ELSE sheep.cur - 1]
        v   == map[x \div 2]
    IN  IF v = 0 THEN 0 ELSE sheep.obj[<<v, x \div 2>>][x % 2]

Untouched(x) == \A t \in Threads: Busy(t) => ~(th[t].w /\ x \in Cells(th[t]))

\* A write that was answered GOOD is reachable from the inode in the cluster, so that it survives the end of tgtd: the
\* object is created from the snapshot's, filled, and the inode updated before sd_io returns.  Left out are the two cases
\* where it is not: a reload inside update_inode (late), and a failed write that had created objects (cut).
Durable == ~hist.late /\ ~hist.cut => \A x \in Addr: Untouched(x) => Visible(x) \in hist.disk[x]

\* A read answered GOOD returned the last write of every half, after a snapshot and after another client's writes, unless it
\* ran from a written object into one never written: the zeroes of the second then overwrite the data of the first.
ReadLatest == ~hist.wrong

\* When no command is in progress and nothing tells tgtd to reload, the cached inode is the cluster's: reloads, which
\* run under the read lock of several writers, and the entries those writers make do not undo each other.
CacheAgrees ==
    (\A t \in Threads: ~Busy(t)) /\ Resolved /\ ai.vid = sheep.cur /\ ~sheep.inval /\ ~hist.late /\ ~hist.cut
        => ai.map = sheep.inode[ai.vid]

\* What was written is read, by tgtd and after it.
DataKept == Durable /\ ReadLatest

\* The threads share the inode and the objects without spoiling each other's work.
InodeShared == TypeOK /\ ObjectOnce /\ CacheAgrees

\* Every command is answered: locks are released, and the one waiter that the end of a command wakes is enough for all to
\* run, also when it is still blocked by another command and goes back to sleep (inflight_release, inflight_block).  Left out are a command whose update of the inode met a snapshot, which writes to the old inode for ever, and one
\* that took a value never assigned for the reason of a reload.
Completes == (\E t \in Threads: Busy(t)) ~> ((\A t \in Threads: ~Busy(t)) \/ hist.late \/ hist.stray)
=============================================================================
